SPECIFICATION FairSpec
CONSTANTS
    None = None
    Nodes = {1, 2, 3}
    Founders = {1, 3}
    First = 3
    Networks <- MCNetworks
    Score <- MCScore
    IdLess <- MCIdLess
    BlockTime = 1
    FinalityDepth = 1
    StorageWindow = 2
    StorageCap = 2
INVARIANTS NoEquivocation  RoundsAreUsed
PROPERTY CatchesUp
CHECK_DEADLOCK FALSE
