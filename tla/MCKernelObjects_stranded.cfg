\* Liveness of a wait on a wait group: members added while a thread waits.
CONSTANTS
    Threads = {t1, t2}
    Signalers = {s1}
    Bases = {b1, b2}
    Groups = {g1}
    SignalBits = {R}
    READABLE = R
    UserData <- MCUserData
    SMP = FALSE
    ObserveReturns = FALSE
    None = None

SPECIFICATION FairSpec
PROPERTY GroupWaiterWakes
