SPECIFICATION FairSpec
CONSTANTS
    MaxQueue = 1
    Batch = 1
    MaxFails = 1
    MaxHangs = 1
    None = None
INVARIANT Accounted
PROPERTY QuittingOnlyEnds
PROPERTY NobodyStranded
CHECK_DEADLOCK FALSE
