\* Safety of objects and one wait group on a uniprocessor.
CONSTANTS
    Threads = {t1, t2}
    Signalers = {s1}
    Bases = {b1, b2}
    Groups = {g1}
    SignalBits = {R}
    READABLE = R
    UserData <- MCUserData
    SMP = FALSE
    ObserveReturns = FALSE
    None = None

SPECIFICATION Spec
INVARIANT TypeOK
INVARIANT MembershipConsistent
 
INVARIANT NoLostWakeup
INVARIANT WaiterOwnership
PROPERTY WokenWaitResult
PROPERTY MemberSignalWakesGroup
