SPECIFICATION FairSpec
CONSTANTS
    NBlocks = 2
    Versions = {v1}
    Tags = {TRUE}
    Readers = {r1}
    FarSeek = 0
    MaxWidth = 2
    GlobalSlots = 1
    MaxOther = 1
    MaxFailures = 1
    MaxRenewals = 1
    MaxGen = 1
    MaxCrashes = 0
    None = None
    Hole = Hole
    Mixed = Mixed
PROPERTIES OwnerEnds WaitingReaderAnswered
