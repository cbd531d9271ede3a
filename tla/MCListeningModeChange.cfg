CONSTANTS
    Modes = {"mute", "async", "sync"}
    Locks = {"keep"}
    MaxCommands = 1
    MaxChanges = 1
    MaxRestarts = 1
    MaxFaults = 0
SPECIFICATION Spec
PROPERTIES AgentChangeStands
CHECK_DEADLOCK FALSE
