\* A wait on a wait group for a signal other than READABLE.
CONSTANTS
    Threads = {t1}
    Signalers = {s1}
    Bases = {b1}
    Groups = {g1}
    SignalBits = {R, W}
    READABLE = R
    UserData <- MCUserData
    SMP = FALSE
    ObserveReturns = FALSE
    None = None

SPECIFICATION Spec
PROPERTY GroupWaitHonoursMask
