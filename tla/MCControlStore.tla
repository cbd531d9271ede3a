--------------------------- MODULE MCControlStore ---------------------------
(* Model checking ControlStore: three overlapping invocations on two keys.   *)
EXTENDS ControlStore, TLC

CONSTANTS p1, p2, p3, k1, k2, o1, o2, lasting, brief

\* One write asked for twice, its ID reused for another key and for other bytes,
\* and a rival write; some of them expire.
MCRequests == {[key |-> k1, op |-> o1, content |-> lasting],
               [key |-> k2, op |-> o1, content |-> lasting],
               [key |-> k1, op |-> o1, content |-> brief],
               [key |-> k1, op |-> o2, content |-> brief]}

CallerSymmetry == Permutations(Callers)
=============================================================================
