SPECIFICATION Spec
CONSTANTS
    Sessions = {s1, s2}
    MaxRetries = 1
    MaxFaults = 1
    MaxEpoch = 2
    MaxSeq = 2
    MayQuit = FALSE
    Completions = {FALSE}
    None = None
SYMMETRY Symmetry
INVARIANT AuthorityAgrees
PROPERTIES NoStaleWriter
CHECK_DEADLOCK FALSE
