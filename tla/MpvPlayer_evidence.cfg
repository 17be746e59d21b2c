SPECIFICATION Spec
CONSTANTS
    MaxLoads = 2
    QueueLimit = 1
    MaxFaults = 1
    MaxChanges = 2
    MaxSteps = 3
    None = None
INVARIANT EvidenceFollows
CHECK_DEADLOCK FALSE
