CONSTANTS
    Modes = {"mute", "async", "sync"}
    Locks = {"keep"}
    MaxCommands = 0
    MaxChanges = 1
    MaxRestarts = 0
    MaxFaults = 1
SPECIFICATION Spec
INVARIANTS RosterRestored
CHECK_DEADLOCK FALSE
