--------------------------- MODULE MCAgentClient ---------------------------
EXTENDS AgentClient

CONSTANTS r1, r2

\* every link leads to the first room; the second one only takes a slot
OneRoom == [l \in Links |-> r1]
=============================================================================
