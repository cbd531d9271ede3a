-------------------------- MODULE MCMemberRemoval ---------------------------
(* Model checking MemberRemoval with rival removals, admissions and agents.  *)
EXTENDS MemberRemoval, TLC

RunSymmetry == Permutations(Agents) \cup Permutations(Removers) \cup Permutations(Admits)
=============================================================================
