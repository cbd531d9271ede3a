CONSTANTS
    Modes = {"mute", "async", "sync"}
    Locks = {"keep", "on"}
    MaxCommands = 2
    MaxChanges = 1
    MaxRestarts = 1
    MaxFaults = 1
SPECIFICATION Spec
INVARIANTS NewestCommandCounts RosterFollows
PROPERTIES BarredAgentStays
CHECK_DEADLOCK FALSE
