SPECIFICATION Spec
CONSTANTS
  a = a
  b = b
  h1 = h1
  h2 = h2
  r1 = r1
  r2 = r2
  Issuer = issuer
  None = None
  Runs = {r1, r2}
  Ops = {a, b}
  Humans = {h1, h2}
  Requests <- MCRequests
  Welcome = {h1, h2}
  Removable = {h1}
  MaxRev = 3
  MaxFaults = 1
SYMMETRY RunSymmetry
CHECK_DEADLOCK FALSE
INVARIANTS AdmissionIsJournaled DeadLinkAdmitsNobody RevokeAnswerHolds JoinedAnswerHolds
