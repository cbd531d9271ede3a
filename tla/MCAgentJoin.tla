----------------------------- MODULE MCAgentJoin -----------------------------
(* Model checking AgentJoin: confirms by one human or by two, overlapping    *)
(* polls, overlapping ready reports.                                         *)
EXTENDS AgentJoin, TLC

RunSymmetry ==
    Permutations(Confirms) \cup Permutations(Owners) \cup Permutations(Names)
        \cup Permutations(Polls) \cup Permutations(Readies)
=============================================================================
