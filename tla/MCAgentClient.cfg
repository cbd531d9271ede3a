SPECIFICATION FairClientSpec
CONSTANTS
    Links = {l1, l2}
    Rooms = {r1, r2}
    r1 = r1
    r2 = r2
    Saved = {l1}
    RoomOf <- OneRoom
    MaxAttempts = 2
    MaxSlots = 1
    MaxLeaves = 1
    MaxMishaps = 1
    None = None
INVARIANTS ClosedLeavesNothing ChannelNamesItsSession SlotsMatch
PROPERTIES EverythingAnswers
CHECK_DEADLOCK FALSE
