\* Spinlocks that do not mask preemption: the lock order of object_wait on
\* a wait group against signal() on its member.
CONSTANTS
    Threads = {t1}
    Signalers = {s1}
    Bases = {b1}
    Groups = {g1}
    SignalBits = {R}
    READABLE = R
    UserData <- MCUserData
    SMP = TRUE
    ObserveReturns = FALSE
    None = None

SPECIFICATION Spec
INVARIANT NoLockCycle
