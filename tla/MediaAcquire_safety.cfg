SPECIFICATION Spec
CONSTANTS
    NBlocks = 2
    Versions = {v1, v2}
    Tags = {TRUE, FALSE}
    Readers = {r1}
    FarSeek = 0
    MaxWidth = 2
    GlobalSlots = 2
    MaxOther = 0
    MaxFailures = 1
    MaxRenewals = 1
    MaxGen = 2
    MaxCrashes = 1
    None = None
    Hole = Hole
    Mixed = Mixed
SYMMETRY Symmetry
INVARIANTS Durability ClaimedOnce SafeReads OriginTrusted
PROPERTIES RefinesAsset OnlyCurrentPublished
