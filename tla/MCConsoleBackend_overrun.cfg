\* The same instance: a write or a flush reports output that has not
\* reached the UART.
CONSTANTS
    Writers = {w1, w2}
    MsgLen = 2
    Calls = 2
    HoldingRegs = 1
    SMP = TRUE
    Unit = Unit
    None = None

SPECIFICATION Spec

INVARIANT ConsoleReportsDelivery
