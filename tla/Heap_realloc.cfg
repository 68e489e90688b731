SPECIFICATION Spec
CONSTANTS
    b1 = b1
    b2 = b2
    b3 = b3
    Tags <- ThreeBlocks
    SUNIT = 3
    GRAIN = 6
    WORD = 65536
    Base = 4
    Limit = 16
    Sizes <- SmallSizes
    Resizes <- SmallSizes
    Items <- NoItems
    Foreign = 2
    Retries = FALSE
SYMMETRY BlockSymmetry
INVARIANTS
    DataIntact
CHECK_DEADLOCK FALSE
