SPECIFICATION Spec
CONSTANTS
  None = None
  Agents = {a1, a2}
  Removers = {r1, r2}
  Admits = {d1}
  MaxGen = 2
  MaxFaults = 1
SYMMETRY RunSymmetry
CHECK_DEADLOCK FALSE
INVARIANTS OldLinksStayDead AgentsLeaveWithHuman ListedSessionsEnd
