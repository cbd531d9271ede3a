SPECIFICATION Spec
CONSTANTS
  h1 = h1
  h2 = h2
  g1 = g1
  client = client
  None = None
  Hooks = {h1}
  Readers = {g1}
  HookEvents <- ToolAndNudge
  Kinds = {"ping", "event"}
  Modes = {"steer", "sync", "async", "mute"}
  FrameSize = 2
  PageLimit = 1
  PageCap = 3
  MaxInbox = 2
  MaxChanges = 1
  MaxFaults = 1
CHECK_DEADLOCK FALSE
INVARIANTS NothingPassedOver ReceiptsFollowContent
