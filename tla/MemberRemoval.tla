--------------------------- MODULE MemberRemoval ----------------------------
(***************************************************************************)
(* Removing one human, and that human's agents, from one channel            *)
(* (removeHuman in apps/control/src/composition/human/matrix.ts and         *)
(* invitations/removals.ts), while the human may be re-admitted through a   *)
(* link (gateway.admit in the same file), confirm joins of agents           *)
(* (agent-join/human-routes.ts) and have them invited (agent-routes.ts).    *)
(* Removal and admission exclude each other by the membership lease         *)
(* (invitations/membership-lock.ts); confirmation holds no lease and relies *)
(* on removal generations, read before and after it provisions an agent.    *)
(*                                                                         *)
(* A step is one request to the control store or to the homeserver.  An     *)
(* update loop of the control store (read, compare-and-set, five tries) is  *)
(* one step: its compare-and-set takes effect at one instant, on the value  *)
(* it read.  The renewal of the lease that precedes a request is part of    *)
(* it: a request is timed out long before the renewed five minutes are      *)
(* over.  A run fails between steps: a request that took effect and whose   *)
(* answer was lost is the step followed by the failure.                     *)
(***************************************************************************)
EXTENDS Naturals

CONSTANTS
    Agents,     \* the agents the human may bring; each has one join
    Removers,   \* runs of removeHuman
    Admits,     \* runs of gateway.admit
    MaxGen,     \* bound: how many removals are begun
    MaxFaults,  \* bound: how many requests fail, runs crash or leases are outlived
    None

ASSUME BoundsAssumption == MaxGen \in Nat /\ MaxFaults \in Nat
ASSUME NoneAssumption == None \notin Removers \cup Admits
ASSUME RunsAssumption == Removers \cap Admits = {}

VARIABLES
    human,       \* the human's membership, at the homeserver
    inRoom,      \* the human's agents that are joined or invited
    registered,  \* the agents that have an account
    removal,     \* RoomRemovals: the generation, and the human's entry
    lease,       \* who holds the membership lease
    bound,       \* RoomAgents: agents registered for this room and human
    owned,       \* agents whose owner record names the human
    token,       \* the agent's access token: live or not, and its session's generation
    rem, adm, con,  \* the runs of removeHuman, admit and confirm
    admitted,    \* history: the link the human last joined by
    faults

vars == <<human, inRoom, registered, removal, lease, bound, owned, token, rem, adm, con,
          admitted, faults>>

Gens == 0..MaxGen
NoEntry == [gen |-> 0, agents |-> {}, complete |-> TRUE]
Removed == removal.entry # NoEntry

\* An invitation link: the removal generation it was issued at, and by whom.
Links == [gen : Gens, issuer : {"creator", "member"}]
FirstLink == [gen |-> 0, issuer |-> "creator"]

IdleRemover == [pc |-> "idle", human |-> FALSE, agents |-> {}, members |-> {}, todo |-> {}, gen |-> 0]
RemoveSteps == {"idle", "roster", "bindings", "collect", "record", "ban", "recollect", "rerecord",
                "revoke"}
AdmitSteps == {"idle", "check", "unban", "join", "recheck", "undo",
               "joined", "forbidden", "unavailable"}
ConfirmSteps == {"member", "before", "bind", "provision", "after", "memberAfter", "own", "refuse",
                 "sealed", "invited", "not_member", "unavailable"}

Init ==
    /\ human \in {"join", "leave"}
    /\ inRoom = {}
    /\ registered \in SUBSET Agents   \* a returning session's agent has its account
    /\ removal = [gen |-> 0, entry |-> NoEntry]
    /\ lease = None
    /\ bound = {} /\ owned = {}
    /\ token = [a \in Agents |-> [gen |-> 0, live |-> FALSE]]
    /\ rem = [p \in Removers |-> IdleRemover]
    /\ adm = [p \in Admits |-> [pc |-> "idle", link |-> FirstLink]]
    /\ con = [a \in Agents |-> [pc |-> "member", gen |-> 0]]
    /\ admitted = FirstLink
    /\ faults = 0

-----------------------------------------------------------------------------
(* The membership lease *)

Acquire(p) == lease = None /\ lease' = p
Holds(p) == lease = p
Release(p) == lease' = IF lease = p THEN None ELSE lease
LeaseOnly == UNCHANGED <<human, inRoom, registered, removal, bound, owned, token, rem, adm, con, admitted>>

\* A run that died without releasing its lease keeps it until the five minutes are over.
Dead(p) == \/ p \in Removers /\ rem[p].pc = "idle"
           \/ p \in Admits /\ adm[p].pc \in {"joined", "forbidden", "unavailable"}

LeaseExpires ==
    /\ lease # None /\ Dead(lease)
    /\ lease' = None
    /\ LeaseOnly /\ UNCHANGED faults

Fault == faults < MaxFaults /\ faults' = faults + 1

\* A run that is slower than its lease loses it, and learns when it renews.
LeaseOutlived ==
    /\ lease # None /\ ~Dead(lease)
    /\ Fault
    /\ lease' = None
    /\ LeaseOnly

-----------------------------------------------------------------------------
(* removeHuman *)

RemoveTo(p, step) == rem' = [rem EXCEPT ![p].pc = step]
RemoveOnly == UNCHANGED <<registered, bound, owned, adm, con, admitted, faults>>

\* The creator asks, or asks again.
RemoveBegin(p) ==
    /\ rem[p].pc = "idle"
    /\ removal.gen < MaxGen \/ ~removal.entry.complete
    /\ Acquire(p)
    /\ RemoveTo(p, "roster")
    /\ RemoveOnly /\ UNCHANGED <<human, inRoom, removal, token>>

\* The answer, whatever it is: the lease is released and the creator may retry.
RemoveReturns(p) ==
    /\ rem' = [rem EXCEPT ![p] = IdleRemover]
    /\ Release(p)

\* joined_members and the removals so far: is there anything to remove?
RemoveRoster(p) ==
    /\ rem[p].pc = "roster"
    /\ IF human # "join" /\ removal.entry.complete
       THEN RemoveReturns(p)
       ELSE /\ rem' = [rem EXCEPT ![p].pc = "bindings", ![p].human = (human = "join"),
                                  ![p].members = inRoom]
            /\ UNCHANGED lease
    /\ RemoveOnly /\ UNCHANGED <<human, inRoom, removal, token>>

RemoveBindings(p) ==
    /\ rem[p].pc = "bindings"
    /\ rem' = [rem EXCEPT ![p].pc = "collect", ![p].agents = bound]
    /\ RemoveOnly /\ UNCHANGED <<human, inRoom, removal, token, lease>>

\* Mutant: only the first look at the room decides which agents leave.
RemoveCollect_Once(p) ==
    /\ rem[p].pc \in {"collect", "recollect"}
    /\ LET members == IF rem[p].pc = "collect" THEN rem[p].members \cup inRoom ELSE rem[p].members IN
       rem' = [rem EXCEPT ![p].pc = IF @ = "collect" THEN "record" ELSE "rerecord",
                          ![p].members = members,
                          ![p].agents = @ \cup (members \cap owned)]
    /\ RemoveOnly /\ UNCHANGED <<human, inRoom, removal, token, lease>>

\* collectAgents: members now or earlier, with an owner record naming the human.
RemoveCollect(p) ==
    /\ rem[p].pc \in {"collect", "recollect"}
    /\ LET members == rem[p].members \cup inRoom IN
       rem' = [rem EXCEPT ![p].pc = IF @ = "collect" THEN "record" ELSE "rerecord",
                          ![p].members = members,
                          ![p].agents = @ \cup (members \cap owned)]
    /\ RemoveOnly /\ UNCHANGED <<human, inRoom, removal, token, lease>>

\* recordRemoval: a removal under way keeps its generation, a new one takes the next.
RecordRemoval(agents) ==
    LET e == removal.entry
        gen == IF Removed /\ ~e.complete THEN e.gen ELSE removal.gen + 1
    IN removal' = [gen |-> gen, entry |-> [gen |-> gen, complete |-> FALSE,
                                           agents |-> e.agents \cup agents]]

\* The lease is gone: 503, and nothing more is done.
LeaseLost(p) ==
    /\ ~Holds(p)
    /\ RemoveReturns(p)
    /\ RemoveOnly /\ UNCHANGED <<human, inRoom, removal, token>>

RemoveRecord(p) ==
    /\ rem[p].pc = "record"
    /\ \/ LeaseLost(p)
       \/ /\ Holds(p)
          /\ IF rem[p].human THEN RecordRemoval(rem[p].agents) ELSE UNCHANGED removal
          /\ RemoveTo(p, "ban")
          /\ RemoveOnly /\ UNCHANGED <<human, inRoom, token, lease>>

\* The homeserver bans the human, if the roster had them.
RemoveBan(p) ==
    /\ rem[p].pc = "ban"
    /\ \/ rem[p].human /\ LeaseLost(p)
       \/ /\ rem[p].human => Holds(p)
          /\ human' = IF rem[p].human THEN "ban" ELSE human
          /\ RemoveTo(p, "recollect")
          /\ RemoveOnly /\ UNCHANGED <<inRoom, removal, token, lease>>

\* Once more, with the agents that were invited in between.
RemoveRerecord(p) ==
    /\ rem[p].pc = "rerecord"
    /\ \/ LeaseLost(p)
       \/ /\ Holds(p)
          /\ RecordRemoval(rem[p].agents)
          /\ rem' = [rem EXCEPT ![p].pc = "revoke", ![p].todo = removal'.entry.agents,
                                ![p].gen = removal'.entry.gen]
          /\ RemoveOnly /\ UNCHANGED <<human, inRoom, token, lease>>

(* The next agent is kicked, if it was seen in the room, and revokeAgent logs *)
(* in as the agent and logs all its sessions out.  A kick of an agent that is *)
(* gone, and a login of an account that was never registered, are refused.    *)
RemoveRevoke(p) ==
    /\ rem[p].pc = "revoke" /\ rem[p].todo # {}
    /\ \/ LeaseLost(p)
       \/ /\ Holds(p)
          /\ \E a \in rem[p].todo :
                LET seen == a \in rem[p].members IN
                \/ /\ seen => a \in inRoom
                   /\ inRoom' = inRoom \ (rem[p].members \cap {a})
                   /\ IF a \in registered
                      THEN /\ token' = [token EXCEPT ![a].live = FALSE]
                           /\ rem' = [rem EXCEPT ![p].todo = @ \ {a}]
                           /\ UNCHANGED lease
                      ELSE RemoveReturns(p) /\ UNCHANGED token
                \/ seen /\ a \notin inRoom /\ RemoveReturns(p) /\ UNCHANGED <<inRoom, token>>
          /\ RemoveOnly /\ UNCHANGED <<human, removal>>

\* Mutant: a removal is completed with agents left to revoke.
RemoveComplete_BeforeRevoking(p) ==
    /\ rem[p].pc = "revoke"
    /\ removal' = [removal EXCEPT !.entry.complete = TRUE]
    /\ RemoveReturns(p)
    /\ RemoveOnly /\ UNCHANGED <<human, inRoom, token>>

\* Announce the departure and completeRemoval, of this generation only.
RemoveComplete(p) ==
    /\ rem[p].pc = "revoke" /\ rem[p].todo = {}
    /\ \/ LeaseLost(p)
       \/ /\ Holds(p)
          /\ removal' = IF removal.entry.gen = rem[p].gen
                        THEN [removal EXCEPT !.entry.complete = TRUE] ELSE removal
          /\ RemoveReturns(p)
          /\ RemoveOnly /\ UNCHANGED <<human, inRoom, token>>

\* A request fails, or the instance dies with the lease in its hand.
RemoveFails(p) ==
    /\ rem[p].pc # "idle"
    /\ Fault
    /\ rem' = [rem EXCEPT ![p] = IdleRemover]
    /\ Release(p) \/ UNCHANGED lease
    /\ UNCHANGED <<human, inRoom, registered, removal, bound, owned, token, adm, con, admitted>>

Remove(p) ==
    \/ RemoveBegin(p) \/ RemoveRoster(p) \/ RemoveBindings(p) \/ RemoveCollect(p)
    \/ RemoveRecord(p) \/ RemoveBan(p) \/ RemoveRerecord(p) \/ RemoveRevoke(p)
    \/ RemoveComplete(p)

-----------------------------------------------------------------------------
(* gateway.admit, with a link of the channel's creator or of another member *)

AdmitTo(p, step) == adm' = [adm EXCEPT ![p].pc = step]
AdmitOnly == UNCHANGED <<inRoom, registered, removal, bound, owned, token, rem, con>>
AdmitReturns(p, answer) == AdmitTo(p, answer) /\ Release(p)

\* Mutant: any link readmits once the removal is complete.
AdmissionRemovalAllowed_AnyLink(link) == Removed => removal.entry.complete

\* admissionRemovalAllowed, for an issuer who was not removed.
AdmissionRemovalAllowed(link) ==
    Removed => /\ removal.entry.complete
               /\ link.gen >= removal.entry.gen
               /\ link.issuer = "creator"

AdmitBegin(p) ==
    /\ adm[p].pc = "idle"
    /\ Acquire(p)
    /\ \E link \in {l \in Links : l.gen <= removal.gen} :
          adm' = [adm EXCEPT ![p] = [pc |-> "check", link |-> link]]
    /\ AdmitOnly /\ UNCHANGED <<human, admitted, faults>>

\* The link may still be used, and there is someone to admit.
AdmitCheck(p) ==
    /\ adm[p].pc = "check"
    /\ \/ ~AdmissionRemovalAllowed(adm[p].link) /\ AdmitReturns(p, "forbidden")
       \/ /\ AdmissionRemovalAllowed(adm[p].link)
          /\ IF human = "join" THEN AdmitReturns(p, "joined")
             ELSE AdmitTo(p, IF Removed THEN "unban" ELSE "join") /\ UNCHANGED lease
    /\ AdmitOnly /\ UNCHANGED <<human, admitted, faults>>

\* mutate: the lease is renewed, or the admission ends `outcome_unknown`.
AdmitLeaseLost(p) == ~Holds(p) /\ AdmitReturns(p, "unavailable") /\ UNCHANGED <<human, admitted, faults>>

\* Checked again, then unbanned; for a human who is not banned the homeserver
\* may refuse, and the answer is `unavailable`.
AdmitUnban(p) ==
    /\ adm[p].pc = "unban"
    /\ \/ /\ ~AdmissionRemovalAllowed(adm[p].link)
          /\ AdmitReturns(p, "forbidden")
          /\ UNCHANGED human
       \/ AdmissionRemovalAllowed(adm[p].link) /\ AdmitLeaseLost(p)
       \/ /\ AdmissionRemovalAllowed(adm[p].link) /\ Holds(p)
          /\ \/ human' = "leave" /\ AdmitTo(p, "join") /\ UNCHANGED lease
             \/ human # "ban" /\ AdmitReturns(p, "unavailable") /\ UNCHANGED human
    /\ AdmitOnly /\ UNCHANGED <<admitted, faults>>

\* Invited by the creator, the human joins; a banned one is refused.
AdmitJoin(p) ==
    /\ adm[p].pc = "join"
    /\ \/ AdmitLeaseLost(p)
       \/ /\ Holds(p) /\ human = "ban"
          /\ AdmitReturns(p, "forbidden") /\ UNCHANGED <<human, admitted, faults>>
       \/ /\ Holds(p) /\ human # "ban"
          /\ human' = "join" /\ admitted' = adm[p].link
          /\ AdmitTo(p, "recheck") /\ UNCHANGED <<lease, faults>>
    /\ AdmitOnly

\* The removals a last time; when they cannot be read, the answer is no.
AdmitRecheck(p) ==
    /\ adm[p].pc = "recheck"
    /\ \/ /\ AdmissionRemovalAllowed(adm[p].link)
          /\ AdmitReturns(p, "joined") /\ UNCHANGED faults
       \/ /\ ~AdmissionRemovalAllowed(adm[p].link)
          /\ AdmitTo(p, "undo") /\ UNCHANGED <<lease, faults>>
       \/ Fault /\ AdmitTo(p, "undo") /\ UNCHANGED lease
    /\ AdmitOnly /\ UNCHANGED <<human, admitted>>

AdmitUndo(p) ==
    /\ adm[p].pc = "undo"
    /\ \/ AdmitLeaseLost(p)
       \/ /\ Holds(p)
          /\ human' = "ban"
          /\ AdmitReturns(p, "forbidden") /\ UNCHANGED <<admitted, faults>>
    /\ AdmitOnly

\* A request fails, or the instance dies with the lease in its hand.
AdmitFails(p) ==
    /\ adm[p].pc \in {"check", "unban", "join", "undo"}
    /\ Fault
    /\ AdmitTo(p, "unavailable")
    /\ Release(p) \/ UNCHANGED lease
    /\ AdmitOnly /\ UNCHANGED <<human, admitted>>

Admit(p) ==
    \/ AdmitBegin(p) \/ AdmitCheck(p) \/ AdmitUnban(p) \/ AdmitJoin(p) \/ AdmitRecheck(p)
    \/ AdmitUndo(p)

-----------------------------------------------------------------------------
(* confirm(), and the invitation that ready sends *)

ConfirmTo(a, step) == con' = [con EXCEPT ![a].pc = step]
ConfirmOnly == UNCHANGED <<human, removal, lease, rem, adm, admitted, faults>>

\* inspectOwnerMembership: a removal under way already makes the human absent.
IsMember == human = "join" /\ removal.entry.complete

ConfirmMember(a) ==
    /\ con[a].pc = "member"
    /\ ConfirmTo(a, IF IsMember THEN "before" ELSE "not_member")
    /\ ConfirmOnly /\ UNCHANGED <<inRoom, registered, bound, owned, token>>

\* readRoomRemovals: the generation these credentials will be issued under.
ConfirmBefore(a) ==
    /\ con[a].pc = "before"
    /\ con' = [con EXCEPT ![a] = IF removal.entry.complete THEN [pc |-> "bind", gen |-> removal.gen]
                                 ELSE [pc |-> "unavailable", gen |-> 0]]
    /\ ConfirmOnly /\ UNCHANGED <<inRoom, registered, bound, owned, token>>

\* rememberRoomAgent, before any token is minted.
ConfirmBind(a) ==
    /\ con[a].pc = "bind"
    /\ bound' = bound \cup {a}
    /\ ConfirmTo(a, "provision")
    /\ ConfirmOnly /\ UNCHANGED <<inRoom, registered, owned, token>>

\* provision: register the account, log it in, remember the session's generation.
ConfirmProvision(a) ==
    /\ con[a].pc = "provision"
    /\ registered' = registered \cup {a}
    /\ token' = [token EXCEPT ![a] = [gen |-> con[a].gen, live |-> TRUE]]
    /\ ConfirmTo(a, "after")
    /\ ConfirmOnly /\ UNCHANGED <<inRoom, bound, owned>>

\* A check after the token was minted: what cannot be read counts as a refusal.
RecheckTo(a, step) ==
    /\ \/ ConfirmTo(a, step) /\ UNCHANGED faults
       \/ Fault /\ ConfirmTo(a, "refuse")
    /\ UNCHANGED <<human, inRoom, registered, removal, lease, bound, owned, token, rem, adm, admitted>>

\* The removals again: was the human removed in between?
ConfirmAfter(a) ==
    /\ con[a].pc = "after"
    /\ RecheckTo(a, IF removal.entry.gen > con[a].gen THEN "refuse" ELSE "memberAfter")

ConfirmMemberAfter(a) ==
    /\ con[a].pc = "memberAfter"
    /\ RecheckTo(a, IF IsMember THEN "own" ELSE "refuse")

\* revokeAgentSession, then 403.
ConfirmRefuse(a) ==
    /\ con[a].pc = "refuse"
    /\ token' = [token EXCEPT ![a].live = FALSE]
    /\ ConfirmTo(a, "not_member")
    /\ ConfirmOnly /\ UNCHANGED <<inRoom, registered, bound, owned>>

\* The owner record and the join record: the agent may now fetch its credentials.
ConfirmOwn(a) ==
    /\ con[a].pc = "own"
    /\ owned' = owned \cup {a}
    /\ ConfirmTo(a, "sealed")
    /\ ConfirmOnly /\ UNCHANGED <<inRoom, registered, bound, token>>

\* ready: the agent is invited as its owner, whom the homeserver must let invite.
ReadyInvites(a) ==
    /\ con[a].pc = "sealed" /\ human = "join"
    /\ inRoom' = inRoom \cup {a}
    /\ ConfirmTo(a, "invited")
    /\ ConfirmOnly /\ UNCHANGED <<registered, bound, owned, token>>

\* The agent leaves the channel by itself.
AgentLeaves(a) ==
    /\ a \in inRoom
    /\ inRoom' = inRoom \ {a}
    /\ ConfirmOnly /\ UNCHANGED <<registered, bound, owned, token, con>>

ConfirmFails(a) ==
    /\ con[a].pc \in {"member", "before", "bind", "provision", "after", "memberAfter", "refuse", "own"}
    /\ Fault
    /\ ConfirmTo(a, "unavailable")
    /\ UNCHANGED <<human, inRoom, registered, removal, lease, bound, owned, token, rem, adm, admitted>>

Confirm(a) ==
    \/ ConfirmMember(a) \/ ConfirmBefore(a) \/ ConfirmBind(a) \/ ConfirmProvision(a)
    \/ ConfirmAfter(a) \/ ConfirmMemberAfter(a) \/ ConfirmRefuse(a) \/ ConfirmOwn(a)
    \/ ReadyInvites(a)

-----------------------------------------------------------------------------
Next ==
    \/ \E p \in Removers : Remove(p) \/ RemoveFails(p)
    \/ \E p \in Admits : Admit(p) \/ AdmitFails(p)
    \/ \E a \in Agents : Confirm(a) \/ ConfirmFails(a) \/ AgentLeaves(a)
    \/ LeaseExpires \/ LeaseOutlived

Spec == Init /\ [][Next]_vars

-----------------------------------------------------------------------------
(* Correctness *)

(* Memberships, the removal record and the runs stay well formed; removal    *)
(* generations stay within the number of removals begun, so a retry of a     *)
(* removal never takes a generation of its own.                              *)
TypeOK ==
    /\ human \in {"join", "leave", "ban"}
    /\ inRoom \subseteq Agents /\ registered \subseteq Agents
    /\ bound \subseteq Agents /\ owned \subseteq Agents
    /\ removal \in [gen : Gens, entry : [gen : Gens, agents : SUBSET Agents, complete : BOOLEAN]]
    /\ lease \in Removers \cup Admits \cup {None}
    /\ token \in [Agents -> [gen : Gens, live : BOOLEAN]]
    /\ rem \in [Removers -> [pc : RemoveSteps, human : BOOLEAN, agents : SUBSET Agents,
                             members : SUBSET Agents, todo : SUBSET Agents, gen : Gens]]
    /\ adm \in [Admits -> [pc : AdmitSteps, link : Links]]
    /\ con \in [Agents -> [pc : ConfirmSteps, gen : Gens]]
    /\ admitted \in Links /\ faults \in 0..MaxFaults

(* Old invites do not readmit a removed human: once a removal is complete,   *)
(* the human is in the channel only by a link that the creator issued after  *)
(* it, whatever admissions were under way.                                   *)
OldLinksStayDead ==
    Removed /\ removal.entry.complete /\ human = "join" =>
        admitted.gen >= removal.entry.gen /\ admitted.issuer = "creator"

(* A removed human leaves no agent behind until readmitted, although agents  *)
(* are confirmed and invited while the removal runs, and removals lose their *)
(* lease or die half way.                                                    *)
AgentsLeaveWithHuman ==
    Removed /\ removal.entry.complete /\ admitted.gen < removal.entry.gen => inRoom = {}

\* createAgentSessionStatusHandler: what an agent that holds a token is told.
ToldRemoved(a) == removal.entry.gen > token[a].gen /\ a \in removal.entry.agents

(* A completed removal leaves no session of an agent it lists: whoever the   *)
(* status handler then calls removed, and was handed credentials, has indeed *)
(* been logged out.                                                          *)
ListedSessionsEnd ==
    removal.entry.complete =>
        \A a \in Agents : con[a].pc \in {"sealed", "invited"} /\ ToldRemoved(a) => ~token[a].live
=============================================================================
