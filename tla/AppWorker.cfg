SPECIFICATION Spec
CONSTANTS
    Providers = {"rd", "ad"}
    Capacity = 3
    Kinds = {"Load", "Local", "Save", "Cred", "Test", "Release", "Replay"}
    UserCommands = 2
    Faults = 1
INVARIANTS AnsweredOnce AccountFenced SessionsAccounted
PROPERTIES OpensOnlyOwned
CHECK_DEADLOCK FALSE
