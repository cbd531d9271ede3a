SPECIFICATION Spec
CONSTANTS
  p1 = p1
  p2 = p2
  p3 = p3
  k1 = k1
  k2 = k2
  o1 = o1
  o2 = o2
  lasting = lasting
  brief = brief
  None = None
  Callers = {p1, p2, p3}
  Keys = {k1, k2}
  Ops = {o1, o2}
  Contents = {lasting, brief}
  Expiring = {brief}
  Requests <- MCRequests
  MaxFaults = 1
SYMMETRY CallerSymmetry
CHECK_DEADLOCK FALSE
INVARIANTS AppliedIsLanded OneWritePerOperation DefiniteRefusalWroteNothing
PROPERTY Implements
