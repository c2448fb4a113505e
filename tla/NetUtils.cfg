CONSTANTS
    W = 3
    MaskScale = 8
    MaxSubnets = 2
    Names = {"a", "b"}
    MaxLen = 3

SPECIFICATION UtilSpec

INVARIANT VerifyNoOverlapExact
INVARIANT SliceHelpersExact
