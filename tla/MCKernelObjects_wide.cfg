\* Two signal bits and two wait groups: masks that differ from READABLE and
\* from each other, duplicate enrolment and removal through the wrong group.
CONSTANTS
    Threads = {t1}
    Signalers = {s1}
    Bases = {b1, b2}
    Groups = {g1, g2}
    SignalBits = {R, W}
    READABLE = R
    UserData <- MCUserData
    SMP = FALSE
    ObserveReturns = FALSE
    None = None

SPECIFICATION Spec
INVARIANT SignaledMatchesActive
INVARIANT NoLostWakeup
INVARIANT MembershipConsistent
PROPERTY WokenWaitResult
