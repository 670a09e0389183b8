CONSTANTS
    N = 6
    CHAIN_LENGTH = 2
    VerifyBatch = 2
    ForkDepth = 1
    KeepHeads = 1
    DropSlack = 0
    MaxNaughty = 3
    Links <- Forests
    Kinds <- AnyKind
SPECIFICATION FairSpec
INVARIANTS ThinkAssertionsHold OnlyInvalidBlamed BestPresent
INVARIANTS NoHeadOverlooked WindowVerified NaughtyNeverMined
PROPERTIES WindowKept CatchesUp
