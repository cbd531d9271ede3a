----------------------------- MODULE AgentJoin ------------------------------
(***************************************************************************)
(* One agent's join request (apps/control/src/agent-join): the join record, *)
(* the humans who confirm it (human-routes.ts), the routes an agent calls   *)
(* (agent-routes.ts), the ten-minute expiry that every read enforces        *)
(* (store.ts), and the agent that polls for its credentials and reports     *)
(* ready (packages/agent/src/join.ts).                                      *)
(*                                                                         *)
(* Each handler runs in its own serverless instance.  A step is one await:  *)
(* a read of the record, a compare-and-set of it, or a call to the          *)
(* homeserver.  The record's store is CasStore with its ambiguous answers:  *)
(* a write whose outcome is unknown is in `stray` and may still land.       *)
(***************************************************************************)
EXTENDS Naturals

CONSTANTS
    Confirms,   \* runs of confirm()
    Polls,      \* runs of the poll handler, and so how often the agent asks
    Readies,    \* runs of the ready handler
    Owners,     \* the humans
    Names,      \* the names an agent may be given
    MaxFaults,  \* bound: how many store writes are answered `unknown` or `unavailable`
    None

ASSUME NoneAssumption == None \notin Owners \cup Names \cup Confirms
ASSUME MaxFaultsAssumption == MaxFaults \in Nat

VARIABLES
    rec,      \* the join record and its revision
    late,     \* the clock has passed the record's expiresAt
    stray,    \* compare-and-sets with an unknown outcome that may still land
    faults,
    conf,     \* the confirm runs: whose, where each is and its local `record`
    poll,     \* the poll runs
    ready,    \* the ready runs
    invited,  \* the agent has been invited into the room
    agent     \* the agent: where it is, its request and its credentials

vars == <<rec, late, stray, faults, conf, poll, ready, invited, agent>>

JoinStates == {"pending", "confirmed", "claimed", "ready", "expired"}
JoinRecord == [rev : Nat, state : JoinStates, owner : Owners \cup {None},
               name : Names \cup {None},       \* set with agentUserId
               creds : Confirms \cup {None}]   \* sealedCredentials: who provisioned them

ConfirmSteps == {"read", "member", "lock", "provision", "stage", "stageRead", "restage", "staged",
                 "confirm", "confirmRead"}
ConfirmAnswers == {"confirmed", "expired", "already_confirmed_by_other", "not_member",
                   "unavailable"}
PollAnswers == {"credentials", "pending", "claimed", "expired", "not_found", "unavailable"}
ReadyAnswers == {"done", "not_confirmed", "not_found", "unavailable"}
AgentSteps == {"poll", "polling", "report", "reporting", "ready", "expired", "failed"}

Fresh == [rev |-> 0, state |-> "pending", owner |-> None, name |-> None, creds |-> None]

Init ==
    /\ rec = Fresh
    /\ late = FALSE
    /\ stray = {}
    /\ faults = 0
    /\ \E by \in [Confirms -> Owners] :
          conf = [c \in Confirms |-> [by |-> by[c], pc |-> "read", tries |-> 0, record |-> Fresh]]
    /\ poll = [g \in Polls |-> [pc |-> "unsent", record |-> Fresh]]
    /\ ready = [g \in Readies |-> [pc |-> "unsent", record |-> Fresh]]
    /\ invited = FALSE
    /\ agent = [pc |-> "poll", run |-> None, creds |-> None, told |-> None]

-----------------------------------------------------------------------------
(* The record: reading it and replacing it *)

\* effectiveState
EffectiveState(r) ==
    IF r.state \in {"pending", "confirmed"} /\ late THEN "expired" ELSE r.state

\* read retires a staged pending join whose time is up before it answers.
Retires(r) == r.state = "pending" /\ r.name # None /\ EffectiveState(r) = "expired"

\* What a read returns.
Found == IF Retires(rec) THEN [rec EXCEPT !.state = "expired", !.rev = rec.rev + 1] ELSE rec

\* createJoinStore.read: it wins the compare-and-set to `expired` or looks again.
Read == rec' = Found /\ UNCHANGED <<stray, faults>>

ReadFails ==
    /\ faults < MaxFaults /\ faults' = faults + 1
    /\ \/ UNCHANGED stray
       \/ Retires(rec) /\ stray' = stray \cup {[seen |-> rec.rev, next |-> Found]}
    /\ UNCHANGED rec

(* createJoinStore.replace, by its answer: applied, conflict, or failed       *)
(* (`unknown` and `unavailable`, which the callers do not tell apart).        *)

\* Mutant: the record is overwritten whatever its revision.
ReplaceApplied_Unconditional(seen, next) ==
    rec' = [next EXCEPT !.rev = rec.rev + 1] /\ UNCHANGED <<stray, faults>>

ReplaceApplied(seen, next) ==
    /\ rec.rev = seen
    /\ rec' = [next EXCEPT !.rev = seen + 1]
    /\ UNCHANGED <<stray, faults>>

ReplaceConflict(seen) == rec.rev # seen /\ UNCHANGED <<rec, stray, faults>>

ReplaceFails(seen, next) ==
    /\ faults < MaxFaults /\ faults' = faults + 1
    /\ \/ UNCHANGED stray
       \/ stray' = stray \cup {[seen |-> seen, next |-> [next EXCEPT !.rev = seen + 1]]}
    /\ UNCHANGED rec

\* The provider commits a write nobody is waiting for any more.
StrayLands ==
    \E w \in stray :
        /\ rec' = IF rec.rev = w.seen THEN w.next ELSE rec
        /\ stray' = stray \ {w}
        /\ UNCHANGED <<late, faults, conf, poll, ready, invited, agent>>

ClockPasses ==
    /\ ~late /\ late' = TRUE
    /\ UNCHANGED <<rec, stray, faults, conf, poll, ready, invited, agent>>

-----------------------------------------------------------------------------
(* confirm() *)

\* principal.ownerId, the human who sends this confirm
OwnerOf(c) == conf[c].by

\* A run that has answered keeps nothing.
Keep(step, answers, r) == IF step \in answers THEN Fresh ELSE r

ConfirmTo(c, step, r) ==
    /\ conf' = [conf EXCEPT ![c].pc = step, ![c].record = Keep(step, ConfirmAnswers, r)]
    /\ UNCHANGED <<late, poll, ready, invited, agent>>

\* json(200, viewOf(record))
View(r) == IF EffectiveState(r) = "expired" THEN "expired" ELSE "confirmed"

Settled(r) == r.state \in {"confirmed", "claimed", "ready"}

ConfirmRead(c) ==
    /\ conf[c].pc = "read"
    /\ \/ Read /\ ConfirmTo(c, "member", Found)
       \/ ReadFails /\ ConfirmTo(c, "unavailable", conf[c].record)

(* A member may go on, or is told how the record that was read stands.  The  *)
(* homeserver may say no or nothing, and so may the repair of the session's  *)
(* standing approval when the join is already settled.                       *)
ConfirmMember(c) ==
    LET r == conf[c].record IN
    /\ conf[c].pc = "member"
    /\ \/ \E answer \in {"not_member", "unavailable"} : ConfirmTo(c, answer, r)
       \/ EffectiveState(r) = "expired" /\ ConfirmTo(c, "expired", r)
       \/ /\ EffectiveState(r) # "expired"
          /\ ConfirmTo(c, IF r.owner \notin {None, OwnerOf(c)} THEN "already_confirmed_by_other"
                          ELSE IF Settled(r) THEN "confirmed"
                          ELSE IF r.owner = None THEN "lock" ELSE "provision", r)
    /\ UNCHANGED <<rec, stray, faults>>

\* Take the join for this human; on a conflict start again, once.
ConfirmLock(c) ==
    /\ conf[c].pc = "lock"
    /\ LET mine == [conf[c].record EXCEPT !.owner = OwnerOf(c)] IN
       \/ /\ ReplaceApplied(conf[c].record.rev, mine)
          /\ ConfirmTo(c, "provision", [mine EXCEPT !.rev = conf[c].record.rev + 1])
       \/ /\ ReplaceConflict(conf[c].record.rev)
          /\ conf' = [conf EXCEPT ![c] = [by |-> OwnerOf(c), tries |-> 1, record |-> Fresh,
                       pc |-> IF conf[c].tries = 0 THEN "read" ELSE "unavailable"]]
          /\ UNCHANGED <<late, poll, ready, invited, agent>>
       \/ /\ ReplaceFails(conf[c].record.rev, mine)
          /\ ConfirmTo(c, "unavailable", conf[c].record)

(* Choose the name (the one the agent has, the staged one, or a free one),   *)
(* check removals, provision the agent's account and map it to its owner:    *)
(* other records, and the homeserver.  Any of it may fail.                   *)
ConfirmProvision(c) ==
    /\ conf[c].pc = "provision"
    /\ \/ \E n \in Names :
            ConfirmTo(c, IF EffectiveState(conf[c].record) = "expired" THEN "expired" ELSE "stage",
                      [conf[c].record EXCEPT !.name = n])
       \/ \E answer \in {"not_member", "unavailable"} : ConfirmTo(c, answer, conf[c].record)
    /\ UNCHANGED <<rec, stray, faults>>

\* Persist the cleanup pointer before making the claim permanent.
ConfirmStage(c) ==
    LET r == conf[c].record IN
    /\ conf[c].pc \in {"stage", "restage"}
    /\ \/ ReplaceApplied(r.rev, r) /\ ConfirmTo(c, "staged", [r EXCEPT !.rev = r.rev + 1])
       \/ /\ ReplaceConflict(r.rev)
          /\ ConfirmTo(c, IF conf[c].pc = "stage" THEN "stageRead" ELSE "unavailable", r)
       \/ ReplaceFails(r.rev, r) /\ ConfirmTo(c, "unavailable", r)

\* Someone else moved the record: another run of the same human's confirm, a
\* stray write, or the expiry.
ConfirmStageRead(c) ==
    /\ conf[c].pc = "stageRead"
    /\ \/ /\ Read
          /\ LET r == conf[c].record
                 step == IF Found.owner # OwnerOf(c) THEN "unavailable"
                         ELSE IF Settled(Found) \/ EffectiveState(Found) = "expired" THEN View(Found)
                         ELSE IF Found.name = r.name THEN "staged" ELSE "restage"
             IN ConfirmTo(c, step, [r EXCEPT !.rev = Found.rev])
       \/ ReadFails /\ ConfirmTo(c, "unavailable", conf[c].record)

\* The clock is looked at once more; if time is up, a read retires the record.  An
\* automatic confirm also looks whether the human's standing approval was revoked.
ConfirmStaged(c) ==
    /\ conf[c].pc = "staged"
    /\ IF EffectiveState(conf[c].record) = "expired"
       THEN (Read \/ ReadFails) /\ ConfirmTo(c, "expired", conf[c].record)
       ELSE /\ \E step \in {"confirm", "unavailable"} : ConfirmTo(c, step, conf[c].record)
            /\ UNCHANGED <<rec, stray, faults>>

\* Mutant: an unknown outcome is taken for success.
ConfirmConfirm_TrustsUnknown(c) ==
    LET r == conf[c].record
        next == [r EXCEPT !.state = "confirmed", !.creds = c]
    IN
    /\ conf[c].pc = "confirm"
    /\ \/ ReplaceApplied(r.rev, next) /\ ConfirmTo(c, View(next), next)
       \/ ReplaceConflict(r.rev) /\ ConfirmTo(c, "confirmRead", r)
       \/ ReplaceFails(r.rev, next) /\ ConfirmTo(c, View(next), r)

\* Seal the credentials into the record, then index the agent and remember the
\* approval, which may fail.
ConfirmConfirm(c) ==
    LET r == conf[c].record
        next == [r EXCEPT !.state = "confirmed", !.creds = c]
    IN
    /\ conf[c].pc = "confirm"
    /\ \/ /\ ReplaceApplied(r.rev, next)
          /\ \E answer \in {View(next), "unavailable"} : ConfirmTo(c, answer, next)
       \/ ReplaceConflict(r.rev) /\ ConfirmTo(c, "confirmRead", r)
       \/ ReplaceFails(r.rev, next) /\ ConfirmTo(c, "unavailable", r)

ConfirmConfirmRead(c) ==
    /\ conf[c].pc = "confirmRead"
    /\ \/ /\ Read
          /\ ConfirmTo(c, IF Found.owner = OwnerOf(c) /\ Settled(Found) THEN View(Found)
                          ELSE "unavailable", conf[c].record)
       \/ ReadFails /\ ConfirmTo(c, "unavailable", conf[c].record)

Confirm(c) ==
    \/ ConfirmRead(c) \/ ConfirmMember(c) \/ ConfirmLock(c) \/ ConfirmProvision(c) \/ ConfirmStage(c)
    \/ ConfirmStageRead(c) \/ ConfirmStaged(c) \/ ConfirmConfirm(c) \/ ConfirmConfirmRead(c)

-----------------------------------------------------------------------------
(* The agent's routes *)

PollTo(g, step, r) ==
    /\ poll' = [poll EXCEPT ![g].pc = step, ![g].record = Keep(step, PollAnswers \ {"credentials"}, r)]
    /\ UNCHANGED <<late, conf, ready, invited, agent>>

\* authenticate, which takes a failed read for an unknown join; then answer
\* anything but `confirmed` at once.
PollRead(g) ==
    /\ poll[g].pc = "read"
    /\ \/ /\ Read
          /\ LET s == EffectiveState(Found) IN
             PollTo(g, CASE s = "confirmed" -> "claim" [] s = "ready" -> "claimed" [] OTHER -> s, Found)
       \/ ReadFails /\ PollTo(g, "not_found", poll[g].record)

\* Mutant: the credentials are returned although the claim was not won.
PollClaim_NoCas(g) ==
    LET r == poll[g].record
        next == [r EXCEPT !.state = "claimed", !.creds = None]
    IN
    /\ poll[g].pc = "claim"
    /\ ReplaceApplied(r.rev, next) \/ ReplaceConflict(r.rev)
    /\ PollTo(g, "credentials", r)

\* Take the credentials out of the record; only then hand them over.
PollClaim(g) ==
    LET r == poll[g].record
        next == [r EXCEPT !.state = "claimed", !.creds = None]
    IN
    /\ poll[g].pc = "claim"
    /\ \/ ReplaceApplied(r.rev, next) /\ PollTo(g, "credentials", r)
       \/ ReplaceConflict(r.rev) /\ PollTo(g, "claimRead", r)
       \/ ReplaceFails(r.rev, next) /\ PollTo(g, "unavailable", r)

PollClaimRead(g) ==
    /\ poll[g].pc = "claimRead"
    /\ \/ /\ Read
          /\ PollTo(g, IF Found.state \in {"claimed", "ready"} THEN "claimed" ELSE "unavailable",
                    poll[g].record)
       \/ ReadFails /\ PollTo(g, "unavailable", poll[g].record)

Poll(g) == PollRead(g) \/ PollClaim(g) \/ PollClaimRead(g)

ReadyTo(g, step, r) ==
    /\ ready' = [ready EXCEPT ![g].pc = step, ![g].record = Keep(step, ReadyAnswers, r)]
    /\ UNCHANGED <<late, conf, poll, agent>>

ReadyRead(g) ==
    /\ ready[g].pc = "read"
    /\ UNCHANGED invited
    /\ \/ /\ Read
          /\ ReadyTo(g, CASE Found.state = "ready" -> "done" [] Found.state = "claimed" -> "invite"
                          [] OTHER -> "not_confirmed", Found)
       \/ ReadFails /\ ReadyTo(g, "not_found", ready[g].record)

\* Mutant: the record is marked ready although the invitation failed.
ReadyInvite_Unchecked(g) ==
    /\ ready[g].pc = "invite"
    /\ invited' \in {TRUE, invited}
    /\ ReadyTo(g, "mark", ready[g].record)
    /\ UNCHANGED <<rec, stray, faults>>

\* Invite before marking ready.
ReadyInvite(g) ==
    /\ ready[g].pc = "invite"
    /\ \/ invited' = TRUE /\ ReadyTo(g, "mark", ready[g].record)
       \/ invited' \in {TRUE, invited} /\ ReadyTo(g, "unavailable", ready[g].record)
    /\ UNCHANGED <<rec, stray, faults>>

ReadyMark(g) ==
    LET r == ready[g].record
        next == [r EXCEPT !.state = "ready"]
    IN
    /\ ready[g].pc = "mark"
    /\ UNCHANGED invited
    /\ \/ ReplaceApplied(r.rev, next) /\ ReadyTo(g, "done", r)
       \/ ReplaceConflict(r.rev) /\ ReadyTo(g, "markRead", r)
       \/ ReplaceFails(r.rev, next) /\ ReadyTo(g, "unavailable", r)

ReadyMarkRead(g) ==
    /\ ready[g].pc = "markRead"
    /\ UNCHANGED invited
    /\ \/ Read /\ ReadyTo(g, IF Found.state = "ready" THEN "done" ELSE "unavailable", ready[g].record)
       \/ ReadFails /\ ReadyTo(g, "unavailable", ready[g].record)

Ready(g) == ReadyRead(g) \/ ReadyInvite(g) \/ ReadyMark(g) \/ ReadyMarkRead(g)

-----------------------------------------------------------------------------
(* The agent: pollUntilDeadline, then reportReady.  A request the network    *)
(* loses may be served all the same, beside the next one.                    *)

AgentTo(step, run) ==
    /\ agent' = [agent EXCEPT !.pc = step, !.run = run]
    /\ UNCHANGED <<rec, late, stray, faults, conf, poll, ready, invited>>

SendPoll(g) ==
    /\ agent.pc = "poll" /\ poll[g].pc = "unsent"
    /\ agent' = [agent EXCEPT !.pc = "polling", !.run = g]
    /\ poll' = [poll EXCEPT ![g].pc = "read"]
    /\ UNCHANGED <<rec, late, stray, faults, conf, ready, invited>>

\* Mutant: whatever is not an answer about the join ends it.
AfterPoll_AnyFailure(answer) ==
    CASE answer = "credentials" -> "report"
      [] answer = "pending" -> "poll"
      [] OTHER -> "expired"

\* Only an answer about the join ends it; a server in trouble is asked again.
AfterPoll(answer) ==
    CASE answer = "credentials" -> "report"
      [] answer \in {"pending", "unavailable"} -> "poll"
      [] OTHER -> "expired"

PollAnswered ==
    LET run == poll[agent.run] IN
    /\ agent.pc = "polling" /\ run.pc \in PollAnswers
    /\ agent' = [pc |-> AfterPoll(run.pc), run |-> None, told |-> run.pc,
                 creds |-> IF run.pc = "credentials" THEN run.record.creds ELSE None]
    /\ UNCHANGED <<rec, late, stray, faults, conf, poll, ready, invited>>

PollLost == agent.pc = "polling" /\ AgentTo("poll", None)

\* The deadline, or the attempt is cancelled.
PollStopped == agent.pc \in {"poll", "polling"} /\ AgentTo("failed", None)

SendReady(g) ==
    /\ agent.pc = "report" /\ ready[g].pc = "unsent"
    /\ agent' = [agent EXCEPT !.pc = "reporting", !.run = g]
    /\ ready' = [ready EXCEPT ![g].pc = "read"]
    /\ UNCHANGED <<rec, late, stray, faults, conf, poll, invited>>

\* `unavailable` is asked again within the invite window; anything else ends the attempt.
AfterReady(answer) ==
    CASE answer = "done" -> {"ready"}
      [] answer = "unavailable" -> {"report", "failed"}
      [] OTHER -> {"failed"}

ReadyAnswered ==
    /\ agent.pc = "reporting" /\ ready[agent.run].pc \in ReadyAnswers
    /\ \E step \in AfterReady(ready[agent.run].pc) : AgentTo(step, None)

\* A report that the network loses ends the attempt.
ReadyLost == agent.pc = "reporting" /\ AgentTo("failed", None)

Agent ==
    \/ \E g \in Polls : SendPoll(g)
    \/ PollAnswered \/ PollLost \/ PollStopped
    \/ \E g \in Readies : SendReady(g)
    \/ ReadyAnswered \/ ReadyLost

-----------------------------------------------------------------------------
Next ==
    \/ \E c \in Confirms : Confirm(c)
    \/ \E g \in Polls : Poll(g)
    \/ \E g \in Readies : Ready(g)
    \/ StrayLands \/ ClockPasses \/ Agent

Spec == Init /\ [][Next]_vars

-----------------------------------------------------------------------------
(* Correctness *)

(* The record, the writes in flight and the handlers' copies of the record   *)
(* stay well formed, and every handler ends in one of its own answers: an    *)
(* agent is never shown the state `ready` that only humans are shown.        *)
TypeOK ==
    /\ rec \in JoinRecord
    /\ late \in BOOLEAN
    /\ stray \subseteq [seen : Nat, next : JoinRecord]
    /\ faults \in 0..MaxFaults
    /\ conf \in [Confirms -> [by : Owners, pc : ConfirmSteps \cup ConfirmAnswers, tries : {0, 1},
                            record : JoinRecord]]
    /\ poll \in [Polls -> [pc : {"unsent", "read", "claim", "claimRead"} \cup PollAnswers, record : JoinRecord]]
    /\ ready \in [Readies -> [pc : {"unsent", "read", "invite", "mark", "markRead"} \cup ReadyAnswers,
                              record : JoinRecord]]
    /\ invited \in BOOLEAN
    /\ agent \in [pc : AgentSteps, run : Polls \cup Readies \cup {None}, creds : Confirms \cup {None},
                  told : PollAnswers \cup {None}]

(* The agent's credentials leave the record once, and to the agent of the    *)
(* human the join is locked to: however polls and confirmations overlap and  *)
(* whatever answers are lost, at most one poll returns them, they were       *)
(* provisioned for the owner on record, and the record then holds none.      *)
CredentialsLeaveOnce ==
    /\ rec.creds # None => rec.state = "confirmed" /\ OwnerOf(rec.creds) = rec.owner
    /\ \A g \in Polls : poll[g].pc = "credentials" =>
          /\ rec.creds = None
          /\ poll[g].record.creds # None /\ OwnerOf(poll[g].record.creds) = rec.owner
          /\ \A h \in Polls : poll[h].pc = "credentials" => h = g

(* A human who was told the join is confirmed was told the truth, and it     *)
(* stays so.                                                                 *)
ConfirmedAnswerHolds ==
    \A c \in Confirms : conf[c].pc = "confirmed" => Settled(rec) /\ rec.owner = OwnerOf(c)

(* An agent that goes on to its session was invited into the room, the join  *)
(* is on record as ready, and the credentials it holds are those of the human *)
(* who confirmed it, although its reports were lost, refused and repeated.   *)
ReadyWasInvited ==
    /\ rec.state = "ready" => invited
    /\ agent.pc = "ready" =>
          rec.state = "ready" /\ agent.creds # None /\ OwnerOf(agent.creds) = rec.owner

(* An agent that gives up because the join is expired or claimed could not    *)
(* have got anything by asking again: trouble between it and the record does  *)
(* not end its polling.  (A read that fails is answered as an unknown join,   *)
(* and does: see OutageIsTolerated.)                                          *)
GivesUpForGood ==
    agent.pc = "expired" /\ agent.told # "not_found" =>
        EffectiveState(rec) \notin {"pending", "confirmed"}

(* What the code does not keep.  Polling "tolerates transient failures", and  *)
(* counts them as pending until the deadline (KM-142.md:130): it is not ended *)
(* by a read of the record that fails.                                        *)
OutageIsTolerated == agent.pc = "expired" => EffectiveState(rec) \notin {"pending", "confirmed"}

\* What may become of a join in each state.
Order == [pending |-> {"pending", "confirmed", "expired"}, confirmed |-> {"confirmed", "claimed"},
          claimed |-> {"claimed", "ready"}, ready |-> {"ready"}, expired |-> {"expired"}]

(* A join moves forward only, keeps its human once it has one, and never    *)
(* comes back from `expired`, although late and repeated handlers write     *)
(* whole copies of the record they read earlier.                            *)
ForwardOnly ==
    [][ /\ rec'.state \in Order[rec.state]
        /\ rec.owner # None => rec'.owner = rec.owner
        /\ rec # rec' => rec'.rev > rec.rev ]_vars
=============================================================================
