SPECIFICATION FairSpec
CONSTANTS
    a = a
    b = b
    Sources <- MCSources
    Addresses <- MCAddresses
    Keys <- MCKeys
    Remembered <- MCRemembered
    Grids <- MCGrids
    Pages <- MCPages
    Active = 2
    Reserved = 1
    Queued = 1
    Entries = 2
    MaxMoves = 4
    MaxRefreshes = 2
    None = None
INVARIANTS SlotsAccounted ClearedStaysCleared
PROPERTY ImagesSettle
CHECK_DEADLOCK FALSE
