\* The handler's error-path checks against the initiator's shutdown.
CONSTANTS
    Threads = {ini, hdl}
    Signalers = {}
    Bases = {ia, ha, ib, hb}
    Groups = {wg1, wg2}
    SignalBits = {R}
    READABLE = R
    UserData <- MCUserData
    SMP = FALSE
    ObserveReturns = TRUE
    None = None
    Initiator = ini
    Handler = hdl
    IniA = ia
    HdlA = ha
    IniB = ib
    HdlB = hb
    WG1 = wg1
    WG2 = wg2

SPECIFICATION ScenarioSpec

PROPERTY HandlerChecksRun
