\* KernelObjects refines WaitAbstract, liveness included, and waiters on
\* objects whose signals meet their mask return under FairSpec.
CONSTANTS
    Threads = {t1, t2}
    Signalers = {s1}
    Bases = {b1}
    Groups = {g1}
    SignalBits = {R}
    READABLE = R
    UserData <- MCUserData
    SMP = FALSE
    ObserveReturns = FALSE
    None = None

SPECIFICATION FairSpec
PROPERTY ImplementsWaitAbstract
PROPERTY BaseWaiterWakes
