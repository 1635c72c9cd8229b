\* Two writers on two CPUs, two calls of two bytes each, and the 16550's
\* one-byte holding register (FIFO disabled after reset).
CONSTANTS
    Writers = {w1, w2}
    MsgLen = 2
    Calls = 2
    HoldingRegs = 1
    SMP = TRUE
    Unit = Unit
    None = None

SPECIFICATION FairSpec
INVARIANT TypeOK
INVARIANT StoresWhole
PROPERTY AllCallsReturn
