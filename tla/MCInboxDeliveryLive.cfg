SPECIFICATION FairSpec
CONSTANTS
  h1 = h1
  h2 = h2
  g1 = g1
  client = client
  None = None
  Hooks = {h1, h2}
  Readers = {}
  HookEvents <- PromptAndNudge
  Kinds = {"ping", "agent"}
  Modes = {"sync", "async"}
  FrameSize = 1
  PageLimit = 1
  PageCap = 3
  MaxInbox = 2
  MaxChanges = 1
  MaxFaults = 0
CHECK_DEADLOCK FALSE
PROPERTY WakesAreDelivered
