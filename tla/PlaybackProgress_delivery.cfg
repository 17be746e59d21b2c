SPECIFICATION FairSpec
CONSTANTS
    Sessions = {s1}
    MaxRetries = 1
    MaxFaults = 2
    MaxEpoch = 2
    MaxSeq = 2
    MayQuit = TRUE
    Completions = {TRUE, FALSE}
    None = None
INVARIANTS DeliveryAccounted FlushSaves
PROPERTIES SuppressionHolds CheckpointsInOrder ReadyIsAnswered
CHECK_DEADLOCK FALSE
