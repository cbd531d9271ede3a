SPECIFICATION Spec
CONSTANTS
  h1 = h1
  h2 = h2
  g1 = g1
  client = client
  None = None
  Hooks = {h1}
  Readers = {}
  HookEvents <- PromptAndNudge
  Kinds = {"human", "agent"}
  Modes = {"sync"}
  FrameSize = 2
  PageLimit = 1
  PageCap = 3
  MaxInbox = 3
  MaxChanges = 0
  MaxFaults = 0
CHECK_DEADLOCK FALSE
PROPERTY TurnEndsDeliver
