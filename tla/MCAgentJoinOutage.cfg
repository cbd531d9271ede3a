SPECIFICATION Spec
CONSTANTS
  None = None
  Confirms = {c1, c2}
  Owners = {ann, bob}
  Polls = {g1, g2}
  Readies = {r1, r2}
  Names = {n1, n2}
  MaxFaults = 2
SYMMETRY RunSymmetry
CHECK_DEADLOCK FALSE
INVARIANTS OutageIsTolerated
