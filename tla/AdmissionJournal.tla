-------------------------- MODULE AdmissionJournal --------------------------
(***************************************************************************)
(* Admission of humans through one invitation link (apps/control/src/       *)
(* invitations: admit.ts, journal.ts, and revokeInvite of share.ts).  An     *)
(* admission first replaces the link's record, so that it is ordered         *)
(* against revocation, then opens a journal under its operation ID, then     *)
(* has the homeserver join the human, then closes the journal.  Any run may  *)
(* fail between two of these, and is retried under the same operation ID,    *)
(* perhaps while it is still running.                                        *)
(*                                                                         *)
(* A step is one await.  A call of writeAndResolve is one step, with the     *)
(* answers that ControlStore gives: the operation ID is bound to its bytes   *)
(* for ever, the write takes effect on the expected revision only, and a     *)
(* failure may leave the ID bound and the write lost or still on its way     *)
(* (`stray`).  Two reads one after the other are one step where the second   *)
(* only adds a refusal.  gateway.admit is one step here; MemberRemoval has   *)
(* its inside.                                                              *)
(***************************************************************************)
EXTENDS Naturals

CONSTANTS
    Runs,       \* runs of admitInvite
    Ops,        \* operation IDs
    Humans,     \* who asks, and on which device
    Issuer,     \* the human who issued the link
    Requests,   \* what is asked: an operation ID and a human
    Welcome,    \* the humans the link's policy allows
    Removable,  \* bound: who may be removed from the channel
    MaxRev,     \* bound: revisions of the link's record
    MaxFaults,  \* bound: how many calls fail
    None

ASSUME RequestsAssumption == Requests \subseteq [op : Ops, human : Humans]
ASSUME WelcomeAssumption == Welcome \subseteq Humans /\ Issuer \notin Humans
ASSUME RemovableAssumption == Removable \subseteq Humans \cup {Issuer}
ASSUME BoundsAssumption == MaxRev \in Nat \ {0} /\ MaxFaults \in Nat
ASSUME NoneAssumption == None \notin Ops \cup Humans

VARIABLES
    invite,    \* the InviteRecord: revision, status, last authorized operation
    expired,   \* the clock has passed the link's expiresAt
    journal,   \* the AdmissionJournalRecord of every operation ID
    ledger,    \* the operation IDs of the control store and the bytes they name
    stray,     \* writes with an unknown outcome that may still land
    removed,   \* humans removed from the channel since the link was issued
    member,    \* humans joined, at the homeserver
    run,       \* the runs of admitInvite
    revoker,   \* the run of revokeInvite
    admits,    \* history: the joins gateway.admit made
    faults

vars == <<invite, expired, journal, ledger, stray, removed, member, run, revoker, admits, faults>>

Steps == {"journal", "eligible", "authorize", "claim", "lookup", "recheck",
          "admit", "ambiguous", "note", "complete"}
\* A run that was rejected, or whose outcome is open, is idle: it may be asked again.
Answers == {"idle", "joined"}

\* A name the channel has, or the null of a failed read of it.
Titles == {"name", None}
JournalRecord == [human : Humans, rev : 1..MaxRev,
                  state : {"admitting", "outcome_unknown", "joined"}, title : Titles]
ASSUME NoRecordAssumption == None \notin JournalRecord

Idle == [pc |-> "idle", op |-> None, human |-> None, seen |-> 0, entry |-> None, title |-> None,
         alive |-> FALSE]
Run == [pc : Steps \cup Answers, op : Ops \cup {None}, human : Humans \cup {None},
        seen : 0..MaxRev,                      \* the link's revision
        entry : JournalRecord \cup {None},     \* the journal entry it goes on from
        title : Titles,                        \* the room it is about to store
        alive : BOOLEAN]                       \* history: the link was good when it began

Init ==
    /\ invite = [rev |-> 1, status |-> "active", op |-> None]
    /\ expired = FALSE
    /\ journal = [o \in Ops |-> None]
    /\ ledger = {} /\ stray = {}
    /\ removed = {} /\ member = {}
    /\ run = [r \in Runs |-> Idle]
    /\ revoker = [pc |-> "read", seen |-> 0]
    /\ admits = {}
    /\ faults = 0

-----------------------------------------------------------------------------
(* The control store: what writeAndResolve answers and does *)

Fault == faults < MaxFaults /\ faults' = faults + 1

Entry(id, bytes) == [id |-> id, bytes |-> bytes]
Mismatch(id, bytes) == \E e \in ledger : e.id = id /\ e.bytes # bytes
Retry(id) == \E e \in ledger : e.id = id

\* `same`: the record is this very write; `expected`: it is what the caller expects.
Answer(id, bytes, same, expected) ==
    IF Mismatch(id, bytes) THEN "operation_mismatch"
    ELSE IF same \/ expected THEN "applied"
    ELSE IF Retry(id) THEN "outcome_unknown" ELSE "conflict"

Bind(id, bytes) ==
    ledger' = IF Mismatch(id, bytes) THEN ledger ELSE ledger \cup {Entry(id, bytes)}

\* The call failed: before its ID was bound, before its write, or with the write on its way.
Fails(id, bytes, write) ==
    /\ Fault
    /\ ~Mismatch(id, bytes)
    /\ \/ UNCHANGED <<ledger, stray>>
       \/ Bind(id, bytes) /\ UNCHANGED stray
       \/ Bind(id, bytes) /\ stray' = stray \cup {write}

(* The link's record, by revision.  Only an authorization and the revocation *)
(* write it, so its bytes are its status and the authorized operation.       *)
InviteIs(bytes) == invite.status = bytes.status /\ invite.op = bytes.op

\* Mutant: the link's record is replaced whatever its revision is now.
InviteAnswer_Unconditional(id, seen, bytes) == Answer(id, bytes, InviteIs(bytes), TRUE)

InviteAnswer(id, seen, bytes) == Answer(id, bytes, InviteIs(bytes), invite.rev = seen)

InvitePut(bytes) == [rev |-> invite.rev + 1, status |-> bytes.status, op |-> bytes.op]
InviteWrite(id, seen, bytes) ==
    /\ Bind(id, bytes)
    /\ IF InviteAnswer(id, seen, bytes) = "applied" /\ ~InviteIs(bytes)
       THEN invite.rev < MaxRev /\ invite' = InvitePut(bytes)
       ELSE UNCHANGED invite

(* A journal only moves on, from absent to admitting to outcome_unknown to   *)
(* joined, so its state stands for its revision.                             *)
JournalState(o) == IF journal[o] = None THEN "absent" ELSE journal[o].state

\* Mutant: the journal is overwritten whatever it says by now.
JournalAnswer_Unconditional(id, o, seen, next) == Answer(id, next, FALSE, TRUE)

JournalAnswer(id, o, seen, next) == Answer(id, next, journal[o] = next, JournalState(o) = seen)
JournalWrite(id, o, seen, next) ==
    /\ Bind(id, next)
    /\ journal' = IF JournalAnswer(id, o, seen, next) = "applied"
                  THEN [journal EXCEPT ![o] = next] ELSE journal

\* The provider commits a write nobody is waiting for any more.
StrayLands ==
    \E w \in stray :
        /\ stray' = stray \ {w}
        /\ \/ /\ w.op = None
              /\ IF invite.rev = w.seen
                 THEN invite.rev < MaxRev /\ invite' = InvitePut(w.next)
                 ELSE UNCHANGED invite
              /\ UNCHANGED journal
           \/ /\ w.op # None
              /\ journal' = IF JournalState(w.op) = w.seen
                            THEN [journal EXCEPT ![w.op] = w.next] ELSE journal
              /\ UNCHANGED invite
        /\ UNCHANGED <<expired, ledger, removed, member, run, revoker, admits, faults>>

-----------------------------------------------------------------------------
(* The link: its clock, removals of its users, and who may use it *)

ClockPasses ==
    /\ ~expired /\ expired' = TRUE
    /\ UNCHANGED <<invite, journal, ledger, stray, removed, member, run, revoker, admits, faults>>

\* A human, or the issuer, is removed from the channel: the link is of an older generation.
RemoveHuman(h) ==
    /\ h \notin removed
    /\ removed' = removed \cup {h}
    /\ member' = member \ {h}
    /\ UNCHANGED <<invite, expired, journal, ledger, stray, run, revoker, admits, faults>>

\* inviteRemovalState
RemovalRevokes(h) == h \in removed \/ Issuer \in removed

\* readEligibleInvite: the link admits this human now.
Eligible(h) ==
    /\ ~expired
    /\ ~RemovalRevokes(h)
    /\ invite.status = "active"
    /\ h \in Welcome   \* policyAllows

-----------------------------------------------------------------------------
(* revokeInvite *)

RevokeId == <<"revoke", None>>
RevokeBytes == [status |-> "revoked", op |-> None]
RevokeTo(pc, seen) ==
    /\ revoker' = [pc |-> pc, seen |-> seen]
    /\ UNCHANGED <<expired, journal, removed, member, run, admits>>

\* The issuer asks, or asks again after an answer that is not ok.
RevokeRead ==
    /\ revoker.pc = "read" /\ ~expired
    /\ \/ invite.status = "revoked" /\ RevokeTo("ok", 0)
       \/ invite.status = "active" /\ RevokeTo("write", invite.rev)
    /\ UNCHANGED <<invite, ledger, stray, faults>>

\* A conflict is tried again; so is, by the issuer, whatever else is not `applied`.
RevokeWrite ==
    /\ revoker.pc = "write"
    /\ \/ /\ InviteWrite(RevokeId, revoker.seen, RevokeBytes)
          /\ RevokeTo(IF InviteAnswer(RevokeId, revoker.seen, RevokeBytes) = "applied"
                      THEN "ok" ELSE "read", 0)
          /\ UNCHANGED <<stray, faults>>
       \/ /\ Fails(RevokeId, RevokeBytes, [op |-> None, seen |-> revoker.seen, next |-> RevokeBytes])
          /\ RevokeTo("read", 0)
          /\ UNCHANGED invite

-----------------------------------------------------------------------------
(* admitInvite *)

At(r, step) == run[r].pc = step
To(r, step) == run' = [run EXCEPT ![r].pc = step]
\* joined and already_joined
Return(r) ==
    run' = [run EXCEPT ![r] = [Idle EXCEPT !.pc = "joined", !.op = run[r].op, !.human = run[r].human]]
\* rejected, unavailable and outcome_unknown leave nothing behind in the run.
End(r) == run' = [run EXCEPT ![r] = Idle]
RunOnly == UNCHANGED <<expired, removed, revoker>>
Reads == RunOnly /\ UNCHANGED <<invite, journal, ledger, stray, member, admits, faults>>
Writes == RunOnly /\ UNCHANGED <<member, admits>>

\* The request arrives, for the first time or again.
Begin(r, q) ==
    /\ run[r].pc \in Answers
    /\ run' = [run EXCEPT ![r] = [Idle EXCEPT !.pc = "journal", !.op = q.op, !.human = q.human,
                                             !.alive = Eligible(q.human)]]
    /\ Reads

\* Mutant: whoever names the operation ID resumes its journal.
SameRequest_Anyone(r, entry) == TRUE

\* sameRequest
SameRequest(r, entry) == entry.human = run[r].human

(* A new operation asks for authorization.  One that was begun before is     *)
(* refused when a removal has outdated the link, is done when it has joined, *)
(* and else resumes (resumeAdmission, which reads the removals once more)    *)
(* and reconciles first.                                                     *)
ReadJournal(r) ==
    /\ At(r, "journal")
    /\ LET entry == journal[run[r].op] IN
       \/ entry = None /\ To(r, "eligible")
       \/ /\ entry # None
          /\ ~SameRequest(r, entry) \/ RemovalRevokes(run[r].human)
          /\ End(r)
       \/ /\ entry # None /\ SameRequest(r, entry) /\ ~RemovalRevokes(run[r].human)
          /\ IF entry.state = "joined"
             THEN Return(r)
             ELSE run' = [run EXCEPT ![r].pc = "lookup", ![r].entry = entry]
    /\ Reads

\* authorizeInvite: read the link ...
CheckEligible(r) ==
    /\ At(r, "eligible")
    /\ \/ ~Eligible(run[r].human) /\ End(r)
       \/ /\ Eligible(run[r].human)
          /\ run' = [run EXCEPT ![r].pc = "authorize", ![r].seen = invite.rev]
    /\ Reads

(* ... and replace it.  A conflict is tried again from the read; by then the *)
(* operation ID is bound, so a second one is answered outcome_unknown and    *)
(* the third round of the loop is never reached.                             *)
Authorize(r) ==
    LET id == <<"authorize", run[r].op>>
        bytes == [status |-> "active", op |-> run[r].op]
        answer == InviteAnswer(id, run[r].seen, bytes) IN
    /\ At(r, "authorize")
    /\ \/ /\ InviteWrite(id, run[r].seen, bytes)
          /\ \/ /\ answer = "applied"
                /\ run' = [run EXCEPT ![r].pc = "claim", ![r].seen = invite'.rev]
             \/ answer = "conflict" /\ To(r, "eligible")
             \/ answer = "outcome_unknown" /\ End(r)
          /\ UNCHANGED <<stray, faults>>
       \/ /\ Fails(id, bytes, [op |-> None, seen |-> run[r].seen, next |-> bytes])
          /\ End(r)
          /\ UNCHANGED invite
    /\ Writes /\ UNCHANGED journal

(* journal.claim.  Whoever else claims the operation has bound its ID first, *)
(* so there is no conflict to decode: the same binding is applied, or        *)
(* unknown when the journal has moved on; another one is a mismatch.  The    *)
(* removals that resumeAdmission then reads are those gateway.admit reads.   *)
Claim(r) ==
    LET id == <<"claim", run[r].op>>
        next == [human |-> run[r].human, rev |-> run[r].seen, state |-> "admitting", title |-> None]
        answer == JournalAnswer(id, run[r].op, "absent", next) IN
    /\ At(r, "claim")
    /\ \/ /\ JournalWrite(id, run[r].op, "absent", next)
          /\ IF answer = "applied"
             THEN run' = [run EXCEPT ![r].pc = "admit", ![r].entry = next, ![r].seen = 0]
             ELSE End(r)
          /\ UNCHANGED <<stray, faults>>
       \/ /\ Fails(id, next, [op |-> run[r].op, seen |-> "absent", next |-> next])
          /\ End(r)
          /\ UNCHANGED journal
    /\ Writes /\ UNCHANGED invite

\* roomName: the channel's name, or null when it cannot be read.
Named(r, title) == run' = [run EXCEPT ![r].pc = "complete", ![r].title = title, ![r].alive = FALSE]

ToComplete(r) ==
    \/ Named(r, "name") /\ UNCHANGED faults
    \/ Named(r, None) /\ Fault

\* Mutant: the link is not looked at again.
AfterAbsent_NoRecheck == "admit"

\* Where a retry goes on when the human is not in the channel.
AfterAbsent == "recheck"

Lookup(r) ==
    /\ At(r, "lookup")
    /\ \/ run[r].human \in member /\ ToComplete(r)
       \/ run[r].human \notin member /\ To(r, AfterAbsent) /\ UNCHANGED faults
    /\ RunOnly /\ UNCHANGED <<invite, journal, ledger, stray, member, admits>>

Recheck(r) ==
    /\ At(r, "recheck")
    /\ \/ ~Eligible(run[r].human) /\ End(r)
       \/ Eligible(run[r].human) /\ To(r, "admit")
    /\ Reads

Join(r) ==
    /\ member' = member \cup {run[r].human}
    /\ admits' = IF run[r].human \in member THEN admits
                 ELSE admits \cup {[op |-> run[r].op, human |-> run[r].human, alive |-> run[r].alive]}

\* gateway.admit: it refuses, it joins, or it fails with or without having joined.
Admit(r) ==
    /\ At(r, "admit")
    /\ \/ /\ RemovalRevokes(run[r].human)
          /\ End(r)
          /\ UNCHANGED <<member, admits, faults>>
       \/ ~RemovalRevokes(run[r].human) /\ Join(r) /\ ToComplete(r)
       \/ ~RemovalRevokes(run[r].human) /\ Join(r) /\ Fault /\ To(r, "ambiguous")
       \/ Fault /\ To(r, "ambiguous") /\ UNCHANGED <<member, admits>>
    /\ RunOnly /\ UNCHANGED <<invite, journal, ledger, stray>>

\* reconcileAmbiguous: read back, and note what cannot be proved.
Reconcile(r) ==
    /\ At(r, "ambiguous")
    /\ \/ run[r].human \in member /\ ToComplete(r)
       \/ run[r].human \notin member /\ To(r, "note") /\ UNCHANGED faults
       \/ Fault /\ To(r, "note")
    /\ RunOnly /\ UNCHANGED <<invite, journal, ledger, stray, member, admits>>

\* journal.setState(outcome_unknown), whose result is not looked at.
Note(r) ==
    LET id == <<"outcome_unknown", run[r].op>>
        entry == run[r].entry
        next == [entry EXCEPT !.state = "outcome_unknown"] IN
    /\ At(r, "note")
    /\ \/ /\ entry.state = "outcome_unknown"
          /\ UNCHANGED <<journal, ledger, stray, faults>>
       \/ /\ entry.state # "outcome_unknown"
          /\ JournalWrite(id, run[r].op, entry.state, next)
          /\ UNCHANGED <<stray, faults>>
       \/ /\ entry.state # "outcome_unknown"
          /\ Fails(id, next, [op |-> run[r].op, seen |-> entry.state, next |-> next])
          /\ UNCHANGED journal
    /\ End(r)
    /\ Writes /\ UNCHANGED invite

\* complete answers `joined` for a stored journal, else unavailable or outcome_unknown.
Completes(answer) == answer = "applied"

Complete(r) ==
    LET id == <<"joined", run[r].op>>
        entry == run[r].entry
        next == [entry EXCEPT !.state = "joined", !.title = run[r].title] IN
    /\ At(r, "complete")
    /\ \/ /\ JournalWrite(id, run[r].op, entry.state, next)
          /\ IF Completes(JournalAnswer(id, run[r].op, entry.state, next))
             THEN Return(r) ELSE End(r)
          /\ UNCHANGED <<stray, faults>>
       \/ /\ Fails(id, next, [op |-> run[r].op, seen |-> entry.state, next |-> next])
          /\ End(r)
          /\ UNCHANGED journal
    /\ Writes /\ UNCHANGED invite

\* A read fails, or the instance is gone: the caller knows nothing and may retry.
RunFails(r) ==
    /\ run[r].pc \in Steps
    /\ Fault
    /\ End(r)
    /\ RunOnly /\ UNCHANGED <<invite, journal, ledger, stray, member, admits>>

Step(r) ==
    \/ ReadJournal(r) \/ CheckEligible(r) \/ Authorize(r) \/ Claim(r)
    \/ Lookup(r) \/ Recheck(r) \/ Admit(r) \/ Reconcile(r) \/ Note(r) \/ Complete(r)

Next ==
    \/ \E r \in Runs, q \in Requests : Begin(r, q)
    \/ \E r \in Runs : Step(r) \/ RunFails(r)
    \/ RevokeRead \/ RevokeWrite
    \/ StrayLands \/ ClockPasses
    \/ \E h \in Removable : RemoveHuman(h)

Spec == Init /\ [][Next]_vars

-----------------------------------------------------------------------------
(* Properties *)

\* The type of the state: a revision is never reused, and a journal has a human.
TypeOK ==
    /\ invite \in [rev : 1..MaxRev, status : {"active", "revoked"}, op : Ops \cup {None}]
    /\ expired \in BOOLEAN
    /\ journal \in [Ops -> JournalRecord \cup {None}]
    /\ removed \subseteq Removable
    /\ member \subseteq Humans
    /\ run \in [Runs -> Run]
    /\ revoker \in [pc : {"read", "write", "ok"}, seen : 0..MaxRev]
    /\ admits \subseteq [op : Ops, human : Humans, alive : BOOLEAN]
    /\ faults \in 0..MaxFaults

(* Every human who was joined is the one the journal of the operation is     *)
(* bound to, and one the link's policy allows (sameRequest, journal.claim,   *)
(* policyAllows): no race of two humans over one operation ID joins both.    *)
AdmissionIsJournaled ==
    \A a \in admits :
        /\ a.human \in Welcome
        /\ journal[a.op] # None /\ journal[a.op].human = a.human

(* A request that arrives when the link is revoked, expired or of an older   *)
(* removal generation joins nobody, even as the retry of an admission that   *)
(* was begun before (resumeAdmission).                                       *)
DeadLinkAdmitsNobody == \A a \in admits : a.alive

(* Once revokeInvite has answered ok the link is revoked and stays so: no    *)
(* authorization, concurrent or late, puts the active record back.           *)
RevokeAnswerHolds == revoker.pc = "ok" => invite.status = "revoked"

(* An answer `joined` or `already_joined` is about a closed journal of this   *)
(* human, and the human was joined (complete, admitInvite).                  *)
JoinedAnswerHolds ==
    \A r \in Runs : run[r].pc = "joined" =>
        /\ JournalState(run[r].op) = "joined" /\ journal[run[r].op].human = run[r].human
        /\ run[r].human \in member \cup removed

=============================================================================
