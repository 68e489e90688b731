SPECIFICATION Spec
CONSTANTS
    b1 = b1
    b2 = b2
    b3 = b3
    Tags <- TwoBlocks
    SUNIT = 3
    GRAIN = 6
    WORD = 65536
    Base = 4
    Limit = 12
    Sizes <- SoundSizes
    Resizes <- Resizes2
    Items <- PairItem
    Foreign = 2
    Retries = FALSE
INVARIANTS
    TypeOK
    ChainLinked
    RestIntact
    RoomAsAsked
    BusyIsOwned
    SearchStartsInChain
PROPERTIES
    GivesUpOnlyWhenFull
    MallocReturns
CHECK_DEADLOCK FALSE
