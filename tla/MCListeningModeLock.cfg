CONSTANTS
    Modes = {"mute", "async", "sync"}
    Locks = {"keep", "on"}
    MaxCommands = 1
    MaxChanges = 0
    MaxRestarts = 1
    MaxFaults = 0
SPECIFICATION Spec
PROPERTIES LockHolds
CHECK_DEADLOCK FALSE
