\* Machine word as wide as the return value (a 64-bit usize in an i64).
CONSTANTS
    UsizeBits = 8
    RetBits = 8
    Args <- MCArgs8
    Ids <- MCIds

SPECIFICATION Spec
INVARIANT ReturnRoundTrip
