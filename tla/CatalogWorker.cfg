SPECIFICATION Spec
CONSTANTS
    Searches = 1
    Slots = 2
    FetchThreads = 2
    LocalCapacity = 2
    LocalBurst = 1
    EventsPerKind = 2
    MaxGeneration <- MCGenerations
    MaxLocal = 3
    MaxPanics = 1
INVARIANTS LocalInOrder SilentAfterEnd TurnsAreFair NothingLost
PROPERTIES ActsOnlyForWanted
CHECK_DEADLOCK FALSE
