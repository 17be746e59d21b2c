SPECIFICATION FairSpec
CONSTANTS
    MaxLoads = 2
    QueueLimit = 1
    MaxFaults = 1
    MaxChanges = 2
    MaxSteps = 3
    None = None
INVARIANT TellsTruth
INVARIANT FramesQualified
PROPERTY NothingHangs
PROPERTY Redrawn
CHECK_DEADLOCK FALSE
