\* Machine word narrower than the return value (32-bit targets).
CONSTANTS
    UsizeBits = 24
    RetBits = 30
    Args <- MCArgs24
    Ids <- MCIds

SPECIFICATION Spec
INVARIANT TypeOK
INVARIANT DebugAddMatchesAdder
INVARIANT DebugPutcAcceptsScalarValues
INVARIANT ReturnRoundTrip
