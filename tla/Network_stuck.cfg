SPECIFICATION FairSpec
CONSTANTS
    None = None
    Nodes = {1, 2, 3}
    Founders = {1, 3}
    First = 3
    Networks <- MCLateNews
    Score <- MCScore
    IdLess <- MCIdLess
    BlockTime = 1
    FinalityDepth = 1
    StorageWindow = 2
    StorageCap = 2
PROPERTY Converges
CHECK_DEADLOCK FALSE
