CONSTANTS
    Absent = Absent
    Sends = {s1}
    MaxEvents = 3
    MaxGenerations = 2
    MaxQueue = 1
    MaxAttempts = 2
    MaxJunk = 1
    MaxWork = 4
SPECIFICATION TimelineSpec
INVARIANT SendHasOneRow
CHECK_DEADLOCK FALSE
