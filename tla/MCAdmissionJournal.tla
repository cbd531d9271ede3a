------------------------- MODULE MCAdmissionJournal -------------------------
(* Instances of AdmissionJournal for TLC. *)
EXTENDS AdmissionJournal, TLC

CONSTANTS a, b, h1, h2, r1, r2

\* Two operations of two humans, and the second human reusing the first one's ID.
MCRequests == {[op |-> a, human |-> h1], [op |-> b, human |-> h2], [op |-> a, human |-> h2]}

RunSymmetry == Permutations(Runs)
=============================================================================
