SPECIFICATION Spec
CONSTANTS
    Providers = {"rd", "ad"}
    Capacity = 3
    Kinds = {"Load", "Local", "Save", "Cred", "Test", "Release", "Replay"}
    UserCommands = 2
    Faults = 0
PROPERTIES PlaysShownAccount
CHECK_DEADLOCK FALSE
