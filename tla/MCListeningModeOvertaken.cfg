CONSTANTS
    Modes = {"mute", "async", "sync"}
    Locks = {"keep", "on"}
    MaxCommands = 2
    MaxChanges = 0
    MaxRestarts = 0
    MaxFaults = 0
SPECIFICATION Spec
INVARIANTS LockCounts
CHECK_DEADLOCK FALSE
