-------------------------- MODULE MCInboxDelivery ---------------------------
(* Model checking InboxDelivery: overlapping hooks, a waiting reader and the *)
(* client on one channel.                                                    *)
EXTENDS InboxDelivery

CONSTANTS h1, h2, g1

\* A prompt, a tool call, and a Stop that only nudges.
Prompt == [steerOnly |-> FALSE, requireWake |-> FALSE, quiet |-> FALSE, shown |-> TRUE]
Tool == [steerOnly |-> TRUE, requireWake |-> TRUE, quiet |-> FALSE, shown |-> TRUE]
StopNudge == [steerOnly |-> FALSE, requireWake |-> TRUE, quiet |-> TRUE, shown |-> FALSE]

ToolAndNudge == {Tool, StopNudge}
PromptAndNudge == {Prompt, StopNudge}
=============================================================================
