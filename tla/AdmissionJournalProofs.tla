----------------------- MODULE AdmissionJournalProofs -----------------------
(***************************************************************************)
(* Proofs about AdmissionJournal, for any number of runs, operation IDs,     *)
(* humans, revisions and faults.                                             *)
(*                                                                         *)
(* Three things only ever move one way, and everything else follows from     *)
(* them: the link is never active again once it is revoked, because whoever  *)
(* may still write it read an active record (`RunOK`, `WriteOK`, `RevokerOK`); *)
(* a journal keeps its human and stays joined; and who was joined is a member *)
(* until removed.                                                            *)
(***************************************************************************)
EXTENDS AdmissionJournal, TLAPS

-----------------------------------------------------------------------------
(* The inductive invariant *)

\* A human who was joined is in the channel until removed from it.
WasJoined(h) == h \in member \cup removed

\* Whoever writes the link's record on this revision read it active.
ReadActive(seen) ==
    /\ seen \in 1..MaxRev
    /\ seen <= invite.rev
    /\ seen = invite.rev => invite.status = "active"

\* The operation's journal is this human's.
Journaled(o, h) == journal[o] # None /\ journal[o].human = h

JournalOK ==
    \A o \in Ops : journal[o] # None =>
        /\ journal[o].human \in Welcome
        /\ journal[o].state = "joined" => WasJoined(journal[o].human)

BeforeAdmit == {"journal", "eligible", "authorize", "claim", "lookup", "recheck", "admit"}
AfterClaim == {"lookup", "recheck", "admit", "ambiguous", "note", "complete"}

RunOK(r) ==
    /\ run[r].pc \in Steps \cup {"joined"} => run[r].op \in Ops /\ run[r].human \in Humans
    /\ run[r].pc \in BeforeAdmit /\ Eligible(run[r].human) => run[r].alive
    /\ run[r].pc \in {"authorize", "claim", "admit"} => run[r].alive
    /\ run[r].pc \in {"authorize", "claim"} => run[r].human \in Welcome
    /\ run[r].pc = "authorize" => ReadActive(run[r].seen)
    /\ run[r].pc = "claim" => run[r].seen \in 1..MaxRev
    /\ run[r].pc \in AfterClaim =>
          /\ run[r].entry \in JournalRecord /\ run[r].entry.state # "joined"
          /\ run[r].entry.human = run[r].human
          /\ Journaled(run[r].op, run[r].human)
    /\ run[r].pc = "complete" => WasJoined(run[r].human)
    /\ run[r].pc = "joined" =>
          /\ Journaled(run[r].op, run[r].human) /\ journal[run[r].op].state = "joined"

InviteBytes == [status : {"active", "revoked"}, op : Ops \cup {None}]

\* A write that is still on its way: of the link's record, or of a journal.
WriteOK(w) ==
    \/ /\ w \in [op : {None}, seen : 1..MaxRev, next : InviteBytes]
       /\ ReadActive(w.seen)
    \/ /\ w \in [op : Ops, seen : {"absent", "admitting", "outcome_unknown"}, next : JournalRecord]
       /\ w.next.human \in Welcome
       /\ w.next.state = "joined" => WasJoined(w.next.human)
       /\ w.seen # "absent" => Journaled(w.op, w.next.human)

RevokerOK ==
    /\ revoker.pc = "write" => ReadActive(revoker.seen)
    /\ revoker.pc = "ok" => invite.status = "revoked"

Inv ==
    /\ TypeOK
    /\ JournalOK
    /\ \A r \in Runs : RunOK(r)
    /\ \A w \in stray : WriteOK(w)
    /\ RevokerOK
    /\ AdmissionIsJournaled
    /\ DeadLinkAdmitsNobody

-----------------------------------------------------------------------------
(* What every step does, and what it keeps *)

\* What only moves one way.
WorldStep ==
    /\ \/ invite' = invite
       \/ invite'.rev = invite.rev + 1 /\ invite.status = "active"
    /\ \A o \in Ops :
          \/ journal'[o] = journal[o]
          \/ journal[o] = None
          \/ /\ journal[o].state # "joined"
             /\ journal'[o] # None /\ journal'[o].human = journal[o].human
    /\ member \cup removed \subseteq member' \cup removed'
    /\ removed \subseteq removed'
    /\ expired => expired'

LEMMA WorldTypes ==
    ASSUME TypeOK
    PROVE  /\ invite.rev \in 1..MaxRev /\ invite.status \in {"active", "revoked"}
           /\ \A o \in Ops : journal[o] # None => journal[o] \in JournalRecord
           /\ expired \in BOOLEAN
           /\ MaxRev \in Nat /\ MaxFaults \in Nat
  BY BoundsAssumption DEF TypeOK

\* A link that is revoked stays revoked, so one that admits a human now did so before.
LEMMA OnceDead ==
    ASSUME TypeOK, TypeOK', WorldStep, NEW h
    PROVE  /\ invite.status = "revoked" => invite'.status = "revoked"
           /\ Eligible(h)' => Eligible(h)
  BY WorldTypes DEF WorldStep, Eligible, RemovalRevokes

LEMMA JournaledKept ==
    ASSUME TypeOK, TypeOK', WorldStep, NEW o \in Ops, NEW h, Journaled(o, h)
    PROVE  /\ Journaled(o, h)'
           /\ journal[o].state = "joined" => journal'[o].state = "joined"
  BY DEF WorldStep, Journaled

LEMMA ReadActiveKept ==
    ASSUME TypeOK, TypeOK', WorldStep, NEW seen, ReadActive(seen)
    PROVE  ReadActive(seen)'
<1>1. invite.rev \in Nat /\ invite'.rev \in Nat /\ seen \in Nat
  BY BoundsAssumption DEF TypeOK, ReadActive
<1> QED
  BY <1>1 DEF WorldStep, ReadActive

\* A run that does not move stays right.
LEMMA RunKept ==
    ASSUME TypeOK, TypeOK', WorldStep, NEW r \in Runs, RunOK(r), run'[r] = run[r]
    PROVE  RunOK(r)'
<1> DEFINE x == run[r]
<1>1. x.pc \in AfterClaim => x.op \in Ops
  BY DEF RunOK, AfterClaim, Steps
<1>2. Eligible(x.human)' => Eligible(x.human)
  BY OnceDead DEF Eligible, RemovalRevokes
<1>3. x.op \in Ops /\ Journaled(x.op, x.human) =>
        /\ Journaled(x.op, x.human)'
        /\ journal[x.op].state = "joined" => journal'[x.op].state = "joined"
  BY JournaledKept DEF Journaled
<1>4. ReadActive(x.seen) => ReadActive(x.seen)'
  BY ReadActiveKept DEF ReadActive
<1>5. WasJoined(x.human) => WasJoined(x.human)'
  BY DEF WorldStep, WasJoined
<1> QED
  BY <1>1, <1>2, <1>3, <1>4, <1>5 DEF RunOK

\* So does a write on its way.
LEMMA WriteKept ==
    ASSUME TypeOK, TypeOK', WorldStep, NEW w, WriteOK(w)
    PROVE  WriteOK(w)'
<1>1. CASE w \in [op : {None}, seen : 1..MaxRev, next : InviteBytes] /\ ReadActive(w.seen)
  <2>1. ReadActive(w.seen)'
    BY <1>1, ReadActiveKept DEF ReadActive
  <2> QED
    BY <1>1, <2>1 DEF WriteOK
<1>2. CASE /\ w \in [op : Ops, seen : {"absent", "admitting", "outcome_unknown"}, next : JournalRecord]
           /\ w.next.human \in Welcome
           /\ w.next.state = "joined" => WasJoined(w.next.human)
           /\ w.seen # "absent" => Journaled(w.op, w.next.human)
  <2>1. w.op \in Ops
    BY <1>2
  <2>2. Journaled(w.op, w.next.human) => Journaled(w.op, w.next.human)'
    BY <2>1, JournaledKept DEF Journaled
  <2>3. WasJoined(w.next.human) => WasJoined(w.next.human)'
    BY DEF WorldStep, WasJoined
  <2> QED
    BY <1>2, <2>2, <2>3 DEF WriteOK
<1> QED
  BY <1>1, <1>2 DEF WriteOK

LEMMA RevokerKept ==
    ASSUME TypeOK, TypeOK', WorldStep, RevokerOK, revoker' = revoker
    PROVE  RevokerOK'
<1>1. ReadActive(revoker.seen) => ReadActive(revoker.seen)'
  BY ReadActiveKept DEF ReadActive
<1> QED
  BY <1>1, OnceDead DEF RevokerOK

\* Nobody who was joined loses the journal that says so.
LEMMA AdmitsKept ==
    ASSUME TypeOK, TypeOK', WorldStep, AdmissionIsJournaled, DeadLinkAdmitsNobody,
           \A a \in admits' \ admits : a.alive /\ a.human \in Welcome /\ Journaled(a.op, a.human)
    PROVE  AdmissionIsJournaled' /\ DeadLinkAdmitsNobody'
<1>1. \A a \in admits' : a.alive /\ a.human \in Welcome /\ Journaled(a.op, a.human) /\ a.op \in Ops
  BY DEF AdmissionIsJournaled, DeadLinkAdmitsNobody, Journaled, TypeOK
<1>2. \A a \in admits' : Journaled(a.op, a.human)'
  BY <1>1, JournaledKept DEF Journaled
<1> QED
  BY <1>1, <1>2 DEF AdmissionIsJournaled, DeadLinkAdmitsNobody, Journaled

(* A step of one run keeps the invariant if it moves what it moves forward,   *)
(* leaves its own run right and sends no wrong write.                         *)
LEMMA RunFrame ==
    ASSUME Inv, TypeOK', WorldStep, JournalOK', NEW r \in Runs,
           \A q \in Runs \ {r} : run'[q] = run[q],
           RunOK(r)', UNCHANGED revoker,
           \A w \in stray' : WriteOK(w),
           \A a \in admits' \ admits : a.alive /\ a.human \in Welcome /\ Journaled(a.op, a.human)
    PROVE  Inv'
<1>1. TypeOK
  BY DEF Inv
<1>2. \A q \in Runs : RunOK(q)'
  BY <1>1, RunKept DEF Inv
<1>3. \A w \in stray' : WriteOK(w)'
  BY <1>1, WriteKept
<1>4. RevokerOK'
  BY <1>1, RevokerKept DEF Inv
<1>5. AdmissionIsJournaled' /\ DeadLinkAdmitsNobody'
  BY <1>1, AdmitsKept DEF Inv
<1> QED
  BY <1>2, <1>3, <1>4, <1>5 DEF Inv

\* A step that moves neither the link nor a journal.
LEMMA StillWorld ==
    ASSUME Inv, UNCHANGED <<invite, journal, expired, removed>>, member \subseteq member'
    PROVE  WorldStep /\ JournalOK'
  BY DEF Inv, WorldStep, JournalOK, WasJoined

-----------------------------------------------------------------------------
(* Where a run goes *)

\* The step moves this run to the record x.
Goes(r, x) ==
    /\ run' \in [Runs -> Run]
    /\ run'[r] = x
    /\ \A q \in Runs \ {r} : run'[q] = run[q]

\* To keeps everything but the step.
LEMMA ToGoes ==
    ASSUME TypeOK, NEW r \in Runs, NEW step \in Steps, To(r, step)
    PROVE  Goes(r, [run[r] EXCEPT !.pc = step])
  BY DEF TypeOK, To, Goes, Run

LEMMA IdleType == Idle \in Run
  BY BoundsAssumption DEF Idle, Run, Answers, Titles

\* A run that has answered.
LEMMA AnsweredType ==
    ASSUME NEW o \in Ops, NEW h \in Humans
    PROVE  LET x == [Idle EXCEPT !.pc = "joined", !.op = o, !.human = h]
           IN  x \in Run /\ x.pc = "joined" /\ x.op = o /\ x.human = h
  BY IdleType DEF Run, Answers

\* A run that has ended promises nothing.
LEMMA EndGoes ==
    ASSUME TypeOK, NEW r \in Runs, End(r)
    PROVE  Goes(r, Idle) /\ RunOK(r)'
<1>1. Goes(r, Idle)
  BY IdleType DEF TypeOK, End, Goes
<1> QED
  BY <1>1 DEF Goes, RunOK, Idle, Steps, BeforeAdmit, AfterClaim

\* A run that has answered `joined` keeps its request.
LEMMA ReturnGoes ==
    ASSUME Inv, NEW r \in Runs, run[r].pc \in Steps, Return(r)
    PROVE  /\ run' \in [Runs -> Run]
           /\ run'[r].pc = "joined" /\ run'[r].op = run[r].op /\ run'[r].human = run[r].human
           /\ \A q \in Runs \ {r} : run'[q] = run[q]
<1>1. run[r].op \in Ops /\ run[r].human \in Humans
  BY DEF Inv, RunOK
<1> DEFINE x == [Idle EXCEPT !.pc = "joined", !.op = run[r].op, !.human = run[r].human]
<1>2. x \in Run /\ x.pc = "joined" /\ x.op = run[r].op /\ x.human = run[r].human
  BY <1>1, AnsweredType
<1> QED
  BY <1>2 DEF Inv, TypeOK, Return

(* A step that only reads, and moves its own run. *)
LEMMA ReadsFrame ==
    ASSUME Inv, NEW r \in Runs, run' \in [Runs -> Run], \A q \in Runs \ {r} : run'[q] = run[q],
           RunOK(r)', RunOnly, UNCHANGED <<invite, journal, ledger, stray, member, admits>>,
           faults' \in 0..MaxFaults
    PROVE  Inv'
<1>1. UNCHANGED <<expired, removed, revoker>>
  BY DEF RunOnly
<1>2. TypeOK'
  BY <1>1 DEF Inv, TypeOK
<1>3. WorldStep /\ JournalOK'
  BY <1>1, StillWorld
<1> QED
  BY <1>1, <1>2, <1>3, RunFrame DEF Inv

LEMMA FaultType ==
    ASSUME TypeOK, Fault \/ UNCHANGED faults
    PROVE  faults' \in 0..MaxFaults
  BY BoundsAssumption DEF TypeOK, Fault

-----------------------------------------------------------------------------
(* The steps of a run that only read *)

LEMMA BeginInv ==
    ASSUME Inv, NEW r \in Runs, NEW q \in Requests, Begin(r, q)
    PROVE  Inv'
<1>1. TypeOK /\ q.op \in Ops /\ q.human \in Humans
  BY RequestsAssumption DEF Inv
<1>2. PICK alive \in BOOLEAN : alive = Eligible(q.human)
  BY DEF Eligible
<1> DEFINE x == [Idle EXCEPT !.pc = "journal", !.op = q.op, !.human = q.human, !.alive = alive]
<1>3. x \in Run /\ x.pc = "journal" /\ x.op = q.op /\ x.human = q.human /\ x.alive = alive
  BY <1>1, IdleType DEF Run, Steps
<1>4. run' = [run EXCEPT ![r] = x] /\ Reads
  BY <1>2 DEF Begin
<1> HIDE DEF x
<1>5. run' \in [Runs -> Run] /\ run'[r] = x /\ \A p \in Runs \ {r} : run'[p] = run[p]
  BY <1>1, <1>3, <1>4 DEF TypeOK
<1>6. Eligible(q.human)' = Eligible(q.human)
  BY <1>4 DEF Reads, RunOnly, Eligible, RemovalRevokes
<1>7. RunOK(r)'
  <2>1. Eligible(run[r].human)' => run'[r].alive
    BY <1>2, <1>3, <1>5, <1>6 DEF Eligible, RemovalRevokes
  <2> QED
    BY <1>1, <1>3, <1>5, <2>1 DEF RunOK, Steps, AfterClaim, BeforeAdmit
<1> QED
  BY <1>1, <1>4, <1>5, <1>7, ReadsFrame, FaultType DEF Reads

LEMMA ReadJournalInv ==
    ASSUME Inv, NEW r \in Runs, ReadJournal(r)
    PROVE  Inv'
<1>1. /\ TypeOK /\ RunOK(r) /\ run[r].pc = "journal" /\ run[r] \in Run
      /\ Reads /\ JournalOK
  BY DEF Inv, TypeOK, ReadJournal, At
<1>2. run[r].op \in Ops /\ run[r].human \in Humans
  BY <1>1 DEF RunOK, Steps
<1>3. faults' \in 0..MaxFaults /\ RunOnly /\ UNCHANGED <<invite, journal, ledger, stray, member, admits>>
  BY <1>1, FaultType DEF Reads
<1>4. \A h : Eligible(h)' = Eligible(h)
  BY <1>3 DEF RunOnly, Eligible, RemovalRevokes
<1>5. CASE To(r, "eligible")
  <2>1. Goes(r, [run[r] EXCEPT !.pc = "eligible"])
    BY <1>1, <1>5, ToGoes DEF Steps
  <2>2. run'[r].pc = "eligible" /\ run'[r].op = run[r].op /\ run'[r].human = run[r].human
        /\ run'[r].alive = run[r].alive
    BY <1>1, <2>1 DEF Goes, Run
  <2>3. Eligible(run[r].human)' => Eligible(run[r].human)
    BY <1>3, <2>2 DEF RunOnly, Eligible, RemovalRevokes
  <2>4. RunOK(r)'
    BY <1>1, <1>2, <2>2, <2>3 DEF RunOK, Steps, AfterClaim, BeforeAdmit
  <2> QED
    BY <1>3, <2>1, <2>4, ReadsFrame DEF Goes
<1>6. CASE End(r)
  BY <1>1, <1>3, <1>6, EndGoes, ReadsFrame DEF Goes
<1>7. CASE /\ journal[run[r].op] # None /\ SameRequest(r, journal[run[r].op])
           /\ journal[run[r].op].state = "joined" /\ Return(r)
  <2>1. run[r].pc \in Steps
    BY <1>1 DEF Steps
  <2>2. /\ run' \in [Runs -> Run] /\ \A q \in Runs \ {r} : run'[q] = run[q]
        /\ run'[r].pc = "joined" /\ run'[r].op = run[r].op /\ run'[r].human = run[r].human
    BY <1>7, <2>1, ReturnGoes
  <2>3. RunOK(r)'
    BY <1>2, <1>3, <1>7, <2>2 DEF RunOK, Steps, AfterClaim, BeforeAdmit, Journaled, SameRequest
  <2> QED
    BY <1>3, <2>2, <2>3, ReadsFrame
<1>8. CASE /\ journal[run[r].op] # None /\ SameRequest(r, journal[run[r].op])
           /\ journal[run[r].op].state # "joined"
           /\ run' = [run EXCEPT ![r].pc = "lookup", ![r].entry = journal[run[r].op]]
  <2> DEFINE e == journal[run[r].op]
  <2>1. e \in JournalRecord
    BY <1>1, <1>2, <1>8, WorldTypes
  <2> HIDE DEF e
  <2>2. /\ run' \in [Runs -> Run] /\ \A q \in Runs \ {r} : run'[q] = run[q]
        /\ run'[r].pc = "lookup" /\ run'[r].op = run[r].op /\ run'[r].human = run[r].human
        /\ run'[r].alive = run[r].alive /\ run'[r].entry = e
    BY <1>1, <1>8, <2>1 DEF TypeOK, Run, Steps, e
  <2>3. Eligible(run[r].human)' => Eligible(run[r].human)
    BY <1>3, <2>2 DEF RunOnly, Eligible, RemovalRevokes
  <2>4. RunOK(r)'
    BY <1>1, <1>2, <1>3, <1>8, <2>1, <2>2, <2>3
       DEF RunOK, Steps, AfterClaim, BeforeAdmit, Journaled, SameRequest, e
  <2> QED
    BY <1>3, <2>2, <2>4, ReadsFrame
<1> QED
  BY <1>5, <1>6, <1>7, <1>8 DEF ReadJournal

LEMMA CheckEligibleInv ==
    ASSUME Inv, NEW r \in Runs, CheckEligible(r)
    PROVE  Inv'
<1>1. TypeOK /\ RunOK(r) /\ run[r].pc = "eligible" /\ run[r] \in Run /\ Reads
  BY DEF Inv, TypeOK, CheckEligible, At
<1>2. run[r].op \in Ops /\ run[r].human \in Humans
  BY <1>1 DEF RunOK, Steps
<1>3. faults' \in 0..MaxFaults /\ RunOnly /\ UNCHANGED <<invite, journal, ledger, stray, member, admits>>
  BY <1>1, FaultType DEF Reads
<1>4. CASE End(r)
  BY <1>1, <1>3, <1>4, EndGoes, ReadsFrame DEF Goes
<1>5. CASE /\ Eligible(run[r].human)
           /\ run' = [run EXCEPT ![r].pc = "authorize", ![r].seen = invite.rev]
  <2>1. invite.rev \in 1..MaxRev /\ invite.rev \in Nat
    BY <1>1, WorldTypes
  <2>2. /\ run' \in [Runs -> Run] /\ \A q \in Runs \ {r} : run'[q] = run[q]
        /\ run'[r].pc = "authorize" /\ run'[r].op = run[r].op /\ run'[r].human = run[r].human
        /\ run'[r].alive = run[r].alive /\ run'[r].seen = invite.rev
    <3>1. ASSUME NEW n \in 0..MaxRev, run' = [run EXCEPT ![r].pc = "authorize", ![r].seen = n]
          PROVE  /\ run' \in [Runs -> Run] /\ \A q \in Runs \ {r} : run'[q] = run[q]
                 /\ run'[r].pc = "authorize" /\ run'[r].op = run[r].op /\ run'[r].human = run[r].human
                 /\ run'[r].alive = run[r].alive /\ run'[r].seen = n
      BY <1>1, <3>1 DEF TypeOK, Run, Steps
    <3>2. invite.rev \in 0..MaxRev
      BY <2>1, BoundsAssumption
    <3> QED
      BY <1>5, <3>1, <3>2
  <2>3. run[r].alive /\ run[r].human \in Welcome /\ invite.status = "active"
    BY <1>1, <1>5 DEF RunOK, BeforeAdmit, Eligible
  <2>4. ReadActive(invite.rev)'
    BY <1>3, <2>1, <2>3 DEF ReadActive
  <2>5. RunOK(r)'
    BY <1>2, <1>3, <2>2, <2>3, <2>4 DEF RunOK, Steps, AfterClaim, BeforeAdmit, ReadActive
  <2> QED
    BY <1>3, <2>2, <2>5, ReadsFrame
<1> QED
  BY <1>4, <1>5 DEF CheckEligible

LEMMA RecheckInv ==
    ASSUME Inv, NEW r \in Runs, Recheck(r)
    PROVE  Inv'
<1>1. TypeOK /\ RunOK(r) /\ run[r].pc = "recheck" /\ run[r] \in Run /\ Reads
  BY DEF Inv, TypeOK, Recheck, At
<1>2. faults' \in 0..MaxFaults /\ RunOnly /\ UNCHANGED <<invite, journal, ledger, stray, member, admits>>
  BY <1>1, FaultType DEF Reads
<1>3. CASE End(r)
  BY <1>1, <1>2, <1>3, EndGoes, ReadsFrame DEF Goes
<1>4. CASE Eligible(run[r].human) /\ To(r, "admit")
  <2>1. Goes(r, [run[r] EXCEPT !.pc = "admit"])
    BY <1>1, <1>4, ToGoes DEF Steps
  <2>2. /\ run'[r].pc = "admit" /\ run'[r].op = run[r].op /\ run'[r].human = run[r].human
        /\ run'[r].alive = run[r].alive /\ run'[r].entry = run[r].entry
    BY <1>1, <2>1 DEF Goes, Run
  <2>3. run[r].alive
    BY <1>1, <1>4 DEF RunOK, BeforeAdmit
  <2>4. RunOK(r)'
    BY <1>1, <1>2, <2>2, <2>3 DEF RunOK, Steps, AfterClaim, Journaled
  <2> QED
    BY <1>2, <2>1, <2>4, ReadsFrame DEF Goes
<1> QED
  BY <1>3, <1>4 DEF Recheck

\* A run that found its human in the channel, or joined it, goes on to close its journal.
LEMMA ToCompleteGoes ==
    ASSUME TypeOK, NEW r \in Runs, ToComplete(r)
    PROVE  /\ run' \in [Runs -> Run] /\ \A q \in Runs \ {r} : run'[q] = run[q]
           /\ run'[r].pc = "complete" /\ run'[r].op = run[r].op /\ run'[r].human = run[r].human
           /\ run'[r].entry = run[r].entry
           /\ faults' \in 0..MaxFaults
<1>1. faults' \in 0..MaxFaults
  BY FaultType DEF ToComplete
<1>2. PICK title \in Titles : run' = [run EXCEPT ![r].pc = "complete", ![r].title = title, ![r].alive = FALSE]
  BY DEF ToComplete, Named, Titles
<1>3. run \in [Runs -> Run] /\ run[r] \in Run
  BY DEF TypeOK
<1> DEFINE x == [run[r] EXCEPT !.pc = "complete", !.title = title, !.alive = FALSE]
<1>4. /\ x \in Run /\ x.pc = "complete" /\ x.op = run[r].op /\ x.human = run[r].human
      /\ x.entry = run[r].entry
  BY <1>3 DEF Run, Steps
<1>5. run' = [run EXCEPT ![r] = x]
  BY <1>2, <1>3
<1> HIDE DEF x
<1> QED
  BY <1>1, <1>3, <1>4, <1>5

\* What a run that has claimed its operation, or resumed it, holds of its journal.
LEMMA HeldJournal ==
    ASSUME Inv, NEW r \in Runs, run[r].pc \in AfterClaim
    PROVE  /\ run[r].op \in Ops /\ run[r].human \in Humans
           /\ run[r].entry \in JournalRecord /\ run[r].entry.state \in {"admitting", "outcome_unknown"}
           /\ run[r].entry.human = run[r].human
           /\ Journaled(run[r].op, run[r].human)
           /\ run[r].human \in Welcome
<1>1. RunOK(r) /\ run[r].pc \in Steps
  BY DEF Inv, AfterClaim, Steps
<1>2. Journaled(run[r].op, run[r].human) /\ run[r].op \in Ops
  BY <1>1 DEF RunOK
<1>3. run[r].human \in Welcome
  BY <1>2 DEF Inv, JournalOK, Journaled
<1>4. run[r].entry.state \in {"admitting", "outcome_unknown"}
  BY <1>1 DEF RunOK, JournalRecord
<1> QED
  BY <1>1, <1>2, <1>3, <1>4 DEF RunOK

\* A run that goes from one step after the claim to another, and only reads.
LEMMA GoesOnInv ==
    ASSUME Inv, NEW r \in Runs, run[r].pc \in AfterClaim, RunOnly,
           UNCHANGED <<invite, journal, ledger, stray, member, admits>>,
           \/ /\ run[r].human \in member /\ ToComplete(r)
           \/ /\ \E step \in {"recheck", "ambiguous", "note"} : To(r, step) /\ (step = "recheck" => run[r].pc = "lookup")
              /\ faults' \in 0..MaxFaults
    PROVE  Inv'
<1>1. TypeOK /\ run[r] \in Run /\ RunOK(r)
  BY DEF Inv, TypeOK
<1>2. CASE run[r].human \in member /\ ToComplete(r)
  <2>1. /\ run' \in [Runs -> Run] /\ \A q \in Runs \ {r} : run'[q] = run[q]
        /\ run'[r].pc = "complete" /\ run'[r].op = run[r].op /\ run'[r].human = run[r].human
        /\ run'[r].entry = run[r].entry
        /\ faults' \in 0..MaxFaults
    BY <1>1, <1>2, ToCompleteGoes
  <2>2. RunOK(r)'
    BY <1>2, <2>1, HeldJournal DEF RunOK, Steps, AfterClaim, BeforeAdmit, Journaled, WasJoined
  <2> QED
    BY <2>1, <2>2, ReadsFrame
<1>3. CASE /\ \E step \in {"recheck", "ambiguous", "note"} : To(r, step) /\ (step = "recheck" => run[r].pc = "lookup")
           /\ faults' \in 0..MaxFaults
  <2>1. PICK step \in {"recheck", "ambiguous", "note"} : To(r, step) /\ (step = "recheck" => run[r].pc = "lookup")
    BY <1>3
  <2>2. Goes(r, [run[r] EXCEPT !.pc = step])
    BY <1>1, <2>1, ToGoes DEF Steps
  <2>3. /\ run'[r].pc = step /\ run'[r].op = run[r].op /\ run'[r].human = run[r].human
        /\ run'[r].alive = run[r].alive /\ run'[r].entry = run[r].entry
    BY <1>1, <2>2 DEF Goes, Run
  <2>4. step = "recheck" /\ Eligible(run[r].human)' => run[r].alive
    BY <1>1, <2>1, <2>3 DEF RunOK, BeforeAdmit, RunOnly, Eligible, RemovalRevokes
  <2>5. RunOK(r)'
    BY <2>3, <2>4, HeldJournal DEF RunOK, Steps, AfterClaim, BeforeAdmit, Journaled
  <2> QED
    BY <1>3, <2>2, <2>5, ReadsFrame DEF Goes
<1> QED
  BY <1>2, <1>3

LEMMA LookupInv ==
    ASSUME Inv, NEW r \in Runs, Lookup(r) \/ Reconcile(r)
    PROVE  Inv'
<1>1. run[r].pc \in AfterClaim /\ RunOnly /\ UNCHANGED <<invite, journal, ledger, stray, member, admits>>
  BY DEF Lookup, Reconcile, At, AfterClaim
<1>2. Fault \/ UNCHANGED faults => faults' \in 0..MaxFaults
  BY FaultType DEF Inv
<1> QED
  BY <1>1, <1>2, GoesOnInv DEF Lookup, Reconcile, At, AfterAbsent

LEMMA RunFailsInv ==
    ASSUME Inv, NEW r \in Runs, RunFails(r)
    PROVE  Inv'
<1>1. TypeOK /\ faults' \in 0..MaxFaults
  BY FaultType DEF Inv, RunFails
<1> QED
  BY <1>1, EndGoes, ReadsFrame DEF RunFails, Goes

-----------------------------------------------------------------------------
(* The writes *)

\* A write of the link's record moves an active link only, and is there when it is `applied`.
LEMMA InviteWriteMoves ==
    ASSUME TypeOK, NEW id, NEW seen, ReadActive(seen), NEW bytes \in InviteBytes,
           InviteWrite(id, seen, bytes)
    PROVE  /\ invite' \in [rev : 1..MaxRev, status : {"active", "revoked"}, op : Ops \cup {None}]
           /\ invite' = invite \/ (invite'.rev = invite.rev + 1 /\ invite.status = "active")
           /\ InviteAnswer(id, seen, bytes) = "applied" => invite'.status = bytes.status
<1>1. /\ invite \in [rev : 1..MaxRev, status : {"active", "revoked"}, op : Ops \cup {None}]
      /\ invite.rev \in Nat /\ MaxRev \in Nat
  BY WorldTypes DEF TypeOK
<1>2. bytes.status \in {"active", "revoked"} /\ bytes.op \in Ops \cup {None}
  BY DEF InviteBytes
<1>3. CASE InviteAnswer(id, seen, bytes) = "applied" /\ ~InviteIs(bytes)
  <2>1. invite.rev = seen /\ invite.status = "active"
    BY <1>3 DEF InviteAnswer, Answer, ReadActive
  <2>2. invite.rev < MaxRev /\ invite' = InvitePut(bytes)
    BY <1>3 DEF InviteWrite
  <2> QED
    BY <1>1, <1>2, <2>1, <2>2 DEF InvitePut
<1>4. CASE InviteAnswer(id, seen, bytes) # "applied" \/ InviteIs(bytes)
  <2>1. invite' = invite
    BY <1>4 DEF InviteWrite
  <2>2. InviteAnswer(id, seen, bytes) = "applied" => invite'.status = bytes.status
    BY <1>4, <2>1 DEF InviteIs
  <2> QED
    BY <1>1, <2>1, <2>2
<1> QED
  BY <1>3, <1>4

\* At most one journal is written, with this record; it keeps its human and is not reopened.
JournalMoves(next) ==
    /\ journal' \in [Ops -> JournalRecord \cup {None}]
    /\ \A p \in Ops :
          \/ journal'[p] = journal[p]
          \/ /\ journal'[p] = next
             /\ journal[p] # None => journal[p].state # "joined" /\ journal[p].human = next.human

LEMMA JournalWriteMoves ==
    ASSUME TypeOK, NEW id, NEW o \in Ops, NEW seen \in {"absent", "admitting", "outcome_unknown"},
           NEW next \in JournalRecord, seen # "absent" => Journaled(o, next.human),
           JournalWrite(id, o, seen, next)
    PROVE  JournalMoves(next)
<1>1. journal \in [Ops -> JournalRecord \cup {None}] /\ next # None
  BY NoRecordAssumption DEF TypeOK
<1>2. CASE JournalAnswer(id, o, seen, next) = "applied"
  <2>1. journal' = [journal EXCEPT ![o] = next]
    BY <1>2 DEF JournalWrite
  <2>2. journal[o] = next \/ JournalState(o) = seen
    BY <1>2 DEF JournalAnswer, Answer
  <2>3. journal[o] = next \/ journal[o] = None \/ (journal[o].state # "joined" /\ journal[o].human = next.human)
    <3>1. journal[o] # None => journal[o].state # "absent"
      BY <1>1 DEF JournalRecord
    <3> QED
      BY <2>2, <3>1 DEF JournalState, Journaled
  <2> QED
    BY <1>1, <2>1, <2>3 DEF JournalMoves
<1>3. CASE JournalAnswer(id, o, seen, next) # "applied"
  <2>1. journal' = journal
    BY <1>3 DEF JournalWrite
  <2> QED
    BY <1>1, <2>1 DEF JournalMoves
<1> QED
  BY <1>2, <1>3

\* A write that is `applied` is there.
LEMMA JournalApplied ==
    ASSUME TypeOK, NEW id, NEW o \in Ops, NEW seen, NEW next, JournalWrite(id, o, seen, next),
           JournalAnswer(id, o, seen, next) = "applied"
    PROVE  journal'[o] = next
  BY DEF TypeOK, JournalWrite

\* A call that fails leaves at most its own write on the way.
LEMMA FailsEffect ==
    ASSUME Inv, NEW id, NEW bytes, NEW write, WriteOK(write), Fails(id, bytes, write)
    PROVE  faults' \in 0..MaxFaults /\ \A w \in stray' : WriteOK(w)
  BY FaultType DEF Inv, Fails

LEMMA AuthorizeInv ==
    ASSUME Inv, NEW r \in Runs, Authorize(r)
    PROVE  Inv'
<1> DEFINE id == <<"authorize", run[r].op>>
           bytes == [status |-> "active", op |-> run[r].op]
           answer == InviteAnswer(id, run[r].seen, bytes)
<1>1. /\ TypeOK /\ RunOK(r) /\ run[r].pc = "authorize" /\ run[r] \in Run
      /\ RunOnly /\ UNCHANGED <<journal, member, admits, expired, removed, revoker>>
  BY DEF Inv, TypeOK, Authorize, At, Writes, RunOnly
<1>2. run[r].op \in Ops /\ run[r].human \in Welcome /\ run[r].human \in Humans /\ run[r].alive /\ ReadActive(run[r].seen)
  BY <1>1 DEF RunOK, Steps
<1>3. bytes \in InviteBytes
  BY <1>2 DEF InviteBytes
<1>4. CASE /\ InviteWrite(id, run[r].seen, bytes)
           /\ \/ /\ answer = "applied"
                 /\ run' = [run EXCEPT ![r].pc = "claim", ![r].seen = invite'.rev]
              \/ answer = "conflict" /\ To(r, "eligible")
              \/ answer = "outcome_unknown" /\ End(r)
           /\ UNCHANGED <<stray, faults>>
  <2> HIDE DEF id, bytes, answer
  <2>1. /\ invite' \in [rev : 1..MaxRev, status : {"active", "revoked"}, op : Ops \cup {None}]
        /\ invite' = invite \/ (invite'.rev = invite.rev + 1 /\ invite.status = "active")
    BY <1>1, <1>2, <1>3, <1>4, InviteWriteMoves
  <2>2. WorldStep /\ JournalOK'
    BY <1>1, <2>1 DEF WorldStep, Inv, JournalOK, WasJoined
  <2>3. ASSUME run' \in [Runs -> Run], \A q \in Runs \ {r} : run'[q] = run[q], RunOK(r)'
        PROVE  Inv'
    <3>1. TypeOK'
      BY <1>1, <1>4, <2>1, <2>3 DEF TypeOK
    <3> QED
      BY <1>1, <1>4, <2>2, <2>3, <3>1, RunFrame DEF Inv
  <2>4. CASE run' = [run EXCEPT ![r].pc = "claim", ![r].seen = invite'.rev]
    <3>1. PICK n \in 1..MaxRev : n = invite'.rev
      BY <2>1
    <3>2. run' = [run EXCEPT ![r].pc = "claim", ![r].seen = n] /\ n \in 0..MaxRev
      BY <2>4, <3>1, BoundsAssumption
    <3>3. /\ run' \in [Runs -> Run] /\ \A q \in Runs \ {r} : run'[q] = run[q]
          /\ run'[r].pc = "claim" /\ run'[r].op = run[r].op /\ run'[r].human = run[r].human
          /\ run'[r].alive = run[r].alive /\ run'[r].seen = n
      BY <1>1, <3>2 DEF TypeOK, Run, Steps
    <3>4. RunOK(r)'
      BY <1>2, <3>1, <3>3 DEF RunOK, Steps, AfterClaim, BeforeAdmit
    <3> QED
      BY <2>3, <3>3, <3>4
  <2>5. CASE To(r, "eligible")
    <3>1. Goes(r, [run[r] EXCEPT !.pc = "eligible"])
      BY <1>1, <2>5, ToGoes DEF Steps
    <3>2. /\ run'[r].pc = "eligible" /\ run'[r].op = run[r].op /\ run'[r].human = run[r].human
          /\ run'[r].alive = run[r].alive
      BY <1>1, <3>1 DEF Goes, Run
    <3>3. RunOK(r)'
      BY <1>2, <3>2 DEF RunOK, Steps, AfterClaim, BeforeAdmit
    <3> QED
      BY <2>3, <3>1, <3>3 DEF Goes
  <2>6. CASE End(r)
    BY <1>1, <2>3, <2>6, EndGoes DEF Goes
  <2> QED
    BY <1>4, <2>4, <2>5, <2>6
<1>5. CASE /\ Fails(id, bytes, [op |-> None, seen |-> run[r].seen, next |-> bytes])
           /\ End(r)
           /\ UNCHANGED invite
  <2>1. run[r].seen \in 1..MaxRev
    BY <1>2 DEF ReadActive
  <2>2. WriteOK([op |-> None, seen |-> run[r].seen, next |-> bytes])
    BY <1>2, <1>3, <2>1 DEF WriteOK
  <2>3. faults' \in 0..MaxFaults /\ \A w \in stray' : WriteOK(w)
    BY <1>5, <2>2, FailsEffect
  <2>4. Goes(r, Idle) /\ RunOK(r)'
    BY <1>1, <1>5, EndGoes
  <2>5. TypeOK'
    BY <1>1, <1>5, <2>3, <2>4 DEF TypeOK, Goes
  <2>6. WorldStep /\ JournalOK'
    BY <1>1, <1>5, StillWorld
  <2> QED
    BY <1>1, <2>3, <2>4, <2>5, <2>6, RunFrame DEF Goes
<1> QED
  BY <1>4, <1>5 DEF Authorize

\* A step of a run that writes its own journal, and then ends or answers.
LEMMA JournalFrame ==
    ASSUME Inv, NEW r \in Runs, run[r].pc \in Steps, NEW id, NEW next \in JournalRecord,
           NEW seen \in {"absent", "admitting", "outcome_unknown"},
           next.human \in Welcome, next.state = "joined" => WasJoined(next.human),
           seen # "absent" => Journaled(run[r].op, next.human),
           \/ JournalWrite(id, run[r].op, seen, next) /\ UNCHANGED <<stray, faults>>
           \/ /\ Fails(id, next, [op |-> run[r].op, seen |-> seen, next |-> next])
              /\ UNCHANGED journal,
           UNCHANGED <<invite, expired, removed, revoker, member, admits>>,
           run' \in [Runs -> Run], \A q \in Runs \ {r} : run'[q] = run[q], RunOK(r)'
    PROVE  Inv'
<1>1. TypeOK /\ JournalOK /\ run[r].op \in Ops
  BY DEF Inv, RunOK
<1>2. JournalMoves(next)
  <2>1. CASE JournalWrite(id, run[r].op, seen, next)
    <3>1. PICK o \in Ops : o = run[r].op
      BY <1>1
    <3>2. JournalWrite(id, o, seen, next) /\ (seen # "absent" => Journaled(o, next.human))
      BY <2>1, <3>1
    <3> QED
      BY <1>1, <3>2, JournalWriteMoves
  <2>2. CASE UNCHANGED journal
    BY <1>1, <2>2 DEF TypeOK, JournalMoves
  <2> QED
    BY <2>1, <2>2
<1>3. faults' \in 0..MaxFaults /\ \A w \in stray' : WriteOK(w)
  <2>1. CASE UNCHANGED <<stray, faults>>
    BY <2>1 DEF Inv, TypeOK
  <2>2. CASE Fails(id, next, [op |-> run[r].op, seen |-> seen, next |-> next])
    <3>1. WriteOK([op |-> run[r].op, seen |-> seen, next |-> next])
      BY <1>1 DEF WriteOK
    <3> QED
      BY <2>2, <3>1, FailsEffect
  <2> QED
    BY <2>1, <2>2
<1>4. WorldStep
  BY <1>2, NoRecordAssumption DEF WorldStep, JournalMoves
<1>5. JournalOK'
  BY <1>1, <1>2 DEF JournalOK, WasJoined, JournalMoves
<1>6. TypeOK'
  BY <1>1, <1>2, <1>3 DEF TypeOK, JournalMoves
<1> QED
  BY <1>3, <1>4, <1>5, <1>6, RunFrame

LEMMA ClaimInv ==
    ASSUME Inv, NEW r \in Runs, Claim(r)
    PROVE  Inv'
<1> DEFINE id == <<"claim", run[r].op>>
           next == [human |-> run[r].human, rev |-> run[r].seen, state |-> "admitting", title |-> None]
           answer == JournalAnswer(id, run[r].op, "absent", next)
<1>1. /\ TypeOK /\ RunOK(r) /\ run[r].pc = "claim" /\ run[r].pc \in Steps /\ run[r] \in Run
      /\ UNCHANGED <<invite, member, admits, expired, removed, revoker>>
  BY DEF Inv, TypeOK, Claim, At, Writes, RunOnly, Steps
<1>2. /\ run[r].op \in Ops /\ run[r].human \in Welcome /\ run[r].human \in Humans /\ run[r].alive
      /\ run[r].seen \in 1..MaxRev
  BY <1>1 DEF RunOK, Steps
<1>3. next \in JournalRecord /\ next.human = run[r].human /\ next.state = "admitting"
  BY <1>2 DEF JournalRecord, Titles
<1>4. CASE /\ JournalWrite(id, run[r].op, "absent", next)
           /\ IF answer = "applied"
              THEN run' = [run EXCEPT ![r].pc = "admit", ![r].entry = next, ![r].seen = 0]
              ELSE End(r)
           /\ UNCHANGED <<stray, faults>>
  <2> HIDE DEF id, next
  <2>1. CASE answer # "applied"
    <3>1. Goes(r, Idle) /\ RunOK(r)'
      BY <1>1, <1>4, <2>1, EndGoes
    <3> QED
      BY <1>1, <1>2, <1>3, <1>4, <3>1, JournalFrame DEF Goes
  <2>2. CASE answer = "applied"
    <3>1. run' = [run EXCEPT ![r].pc = "admit", ![r].entry = next, ![r].seen = 0]
      BY <1>4, <2>2
    <3> DEFINE x == [run[r] EXCEPT !.pc = "admit", !.entry = next, !.seen = 0]
    <3>2. x \in Run /\ x.pc = "admit" /\ x.op = run[r].op /\ x.human = run[r].human /\ x.entry = next
          /\ x.alive = run[r].alive
      <4>1. 0 \in 0..MaxRev /\ next \in JournalRecord \cup {None} /\ "admit" \in Steps \cup Answers
        BY <1>3, BoundsAssumption DEF Steps
      <4> QED
        BY <1>1, <4>1 DEF Run
    <3>3. run' = [run EXCEPT ![r] = x]
      BY <1>1, <3>1 DEF TypeOK
    <3> HIDE DEF x
    <3>4. run' \in [Runs -> Run] /\ run'[r] = x /\ \A q \in Runs \ {r} : run'[q] = run[q]
      BY <1>1, <3>2, <3>3 DEF TypeOK
    <3>5. journal'[run[r].op] = next
      <4>1. PICK o \in Ops : o = run[r].op
        BY <1>2
      <4>2. JournalWrite(id, o, "absent", next) /\ JournalAnswer(id, o, "absent", next) = "applied"
        BY <1>4, <2>2, <4>1
      <4> QED
        BY <1>1, <4>1, <4>2, JournalApplied
    <3>6. RunOK(r)'
      <4>1. Journaled(run[r].op, run[r].human)'
        BY <1>3, <3>2, <3>4, <3>5, NoRecordAssumption DEF Journaled
      <4> QED
        BY <1>2, <1>3, <3>2, <3>4, <4>1 DEF RunOK, Steps, AfterClaim, BeforeAdmit
    <3> QED
      BY <1>1, <1>2, <1>3, <1>4, <3>4, <3>6, JournalFrame
  <2> QED
    BY <2>1, <2>2
<1>5. CASE /\ Fails(id, next, [op |-> run[r].op, seen |-> "absent", next |-> next])
           /\ End(r)
           /\ UNCHANGED journal
  <2> HIDE DEF id, next
  <2>1. Goes(r, Idle) /\ RunOK(r)'
    BY <1>1, <1>5, EndGoes
  <2> QED
    BY <1>1, <1>2, <1>3, <1>5, <2>1, JournalFrame DEF Goes
<1> QED
  BY <1>4, <1>5 DEF Claim

LEMMA NoteInv ==
    ASSUME Inv, NEW r \in Runs, Note(r)
    PROVE  Inv'
<1> DEFINE id == <<"outcome_unknown", run[r].op>>
           entry == run[r].entry
           next == [entry EXCEPT !.state = "outcome_unknown"]
<1>1. /\ TypeOK /\ run[r].pc \in AfterClaim /\ run[r].pc \in Steps
      /\ UNCHANGED <<invite, member, admits, expired, removed, revoker>>
  BY DEF Inv, Note, At, Writes, RunOnly, Steps, AfterClaim
<1>2. /\ run[r].op \in Ops /\ run[r].human \in Welcome /\ entry \in JournalRecord
      /\ entry.state \in {"admitting", "outcome_unknown"} /\ entry.human = run[r].human
      /\ Journaled(run[r].op, run[r].human)
  BY <1>1, HeldJournal
<1>3. Goes(r, Idle) /\ RunOK(r)'
  BY <1>1, EndGoes DEF Note
<1>4. next \in JournalRecord /\ next.human = run[r].human /\ next.state = "outcome_unknown"
  BY <1>2 DEF JournalRecord
<1>5. CASE UNCHANGED <<journal, ledger, stray, faults>>
  BY <1>1, <1>3, <1>5, ReadsFrame, FaultType DEF Goes, RunOnly
<1>6. CASE \/ JournalWrite(id, run[r].op, entry.state, next) /\ UNCHANGED <<stray, faults>>
           \/ /\ Fails(id, next, [op |-> run[r].op, seen |-> entry.state, next |-> next])
              /\ UNCHANGED journal
  <2> HIDE DEF id, entry, next
  <2> QED
    BY <1>1, <1>2, <1>3, <1>4, <1>6, JournalFrame DEF Goes
<1> QED
  BY <1>5, <1>6 DEF Note

LEMMA CompleteInv ==
    ASSUME Inv, NEW r \in Runs, Complete(r)
    PROVE  Inv'
<1> DEFINE id == <<"joined", run[r].op>>
           entry == run[r].entry
           next == [entry EXCEPT !.state = "joined", !.title = run[r].title]
           answer == JournalAnswer(id, run[r].op, entry.state, next)
<1>1. /\ TypeOK /\ RunOK(r) /\ run[r].pc = "complete" /\ run[r].pc \in AfterClaim /\ run[r].pc \in Steps
      /\ run[r] \in Run
      /\ UNCHANGED <<invite, member, admits, expired, removed, revoker>>
  BY DEF Inv, TypeOK, Complete, At, Writes, RunOnly, Steps, AfterClaim
<1>2. /\ run[r].op \in Ops /\ run[r].human \in Welcome /\ run[r].human \in Humans /\ entry \in JournalRecord
      /\ entry.state \in {"admitting", "outcome_unknown"} /\ entry.human = run[r].human
      /\ Journaled(run[r].op, run[r].human)
  BY <1>1, HeldJournal
<1>3. WasJoined(run[r].human) /\ run[r].title \in Titles
  BY <1>1 DEF RunOK, Run
<1>4. next \in JournalRecord /\ next.human = run[r].human /\ next.state = "joined"
  BY <1>2, <1>3 DEF JournalRecord
<1>5. CASE /\ JournalWrite(id, run[r].op, entry.state, next)
           /\ IF answer = "applied" THEN Return(r) ELSE End(r)
           /\ UNCHANGED <<stray, faults>>
  <2> HIDE DEF id, entry, next
  <2>1. CASE answer # "applied"
    <3>1. Goes(r, Idle) /\ RunOK(r)'
      BY <1>1, <1>5, <2>1, EndGoes
    <3> QED
      BY <1>1, <1>2, <1>3, <1>4, <1>5, <3>1, JournalFrame DEF Goes
  <2>2. CASE answer = "applied"
    <3>1. /\ run' \in [Runs -> Run] /\ \A q \in Runs \ {r} : run'[q] = run[q]
          /\ run'[r].pc = "joined" /\ run'[r].op = run[r].op /\ run'[r].human = run[r].human
      BY <1>1, <1>5, <2>2, ReturnGoes
    <3>2. journal'[run[r].op] = next
      <4>1. PICK o \in Ops : o = run[r].op
        BY <1>2
      <4>2. PICK seen \in {"admitting", "outcome_unknown"} : seen = entry.state
        BY <1>2
      <4>3. /\ JournalWrite(id, o, seen, next) /\ JournalAnswer(id, o, seen, next) = "applied"
            /\ Journaled(o, next.human)
        BY <1>2, <1>4, <1>5, <2>2, <4>1, <4>2
      <4> QED
        BY <1>1, <4>1, <4>3, JournalApplied
    <3>3. RunOK(r)'
      <4>1. Journaled(run[r].op, run[r].human)' /\ journal'[run'[r].op].state = "joined"
        BY <1>4, <3>1, <3>2, NoRecordAssumption DEF Journaled
      <4> QED
        BY <1>2, <3>1, <4>1 DEF RunOK, Steps, AfterClaim, BeforeAdmit
    <3> QED
      BY <1>1, <1>2, <1>3, <1>4, <1>5, <3>1, <3>3, JournalFrame
  <2> QED
    BY <2>1, <2>2
<1>6. CASE /\ Fails(id, next, [op |-> run[r].op, seen |-> entry.state, next |-> next])
           /\ End(r)
           /\ UNCHANGED journal
  <2> HIDE DEF id, entry, next
  <2>1. Goes(r, Idle) /\ RunOK(r)'
    BY <1>1, <1>6, EndGoes
  <2> QED
    BY <1>1, <1>2, <1>3, <1>4, <1>6, <2>1, JournalFrame DEF Goes
<1> QED
  BY <1>5, <1>6 DEF Complete, Completes

LEMMA AdmitInv ==
    ASSUME Inv, NEW r \in Runs, Admit(r)
    PROVE  Inv'
<1>1. /\ TypeOK /\ RunOK(r) /\ run[r].pc = "admit" /\ run[r].pc \in AfterClaim /\ run[r] \in Run
      /\ RunOnly /\ UNCHANGED <<invite, journal, ledger, stray, expired, removed, revoker>>
  BY DEF Inv, TypeOK, Admit, At, AfterClaim, RunOnly
<1>2. /\ run[r].op \in Ops /\ run[r].human \in Humans /\ run[r].human \in Welcome
      /\ Journaled(run[r].op, run[r].human) /\ run[r].alive
  BY <1>1, HeldJournal DEF RunOK
<1>3. Fault \/ UNCHANGED faults => faults' \in 0..MaxFaults
  BY <1>1, FaultType
<1>4. CASE End(r) /\ UNCHANGED <<member, admits, faults>>
  BY <1>1, <1>3, <1>4, EndGoes, ReadsFrame DEF Goes
<1>5. CASE Fault /\ To(r, "ambiguous") /\ UNCHANGED <<member, admits>>
  BY <1>1, <1>3, <1>5, GoesOnInv
<1>6. CASE Join(r) /\ (ToComplete(r) \/ (Fault /\ To(r, "ambiguous")))
  <2>1. /\ member' = member \cup {run[r].human}
        /\ \A a \in admits' \ admits : a = [op |-> run[r].op, human |-> run[r].human, alive |-> run[r].alive]
        /\ admits' \subseteq admits \cup {[op |-> run[r].op, human |-> run[r].human, alive |-> run[r].alive]}
    BY <1>6 DEF Join
  <2>2. /\ run' \in [Runs -> Run] /\ \A q \in Runs \ {r} : run'[q] = run[q]
        /\ run'[r].pc \in {"complete", "ambiguous"} /\ run'[r].op = run[r].op
        /\ run'[r].human = run[r].human /\ run'[r].entry = run[r].entry
        /\ faults' \in 0..MaxFaults
    <3>1. CASE ToComplete(r)
      BY <1>1, <3>1, ToCompleteGoes
    <3>2. CASE Fault /\ To(r, "ambiguous")
      <4>1. Goes(r, [run[r] EXCEPT !.pc = "ambiguous"])
        BY <1>1, <3>2, ToGoes DEF Steps
      <4> QED
        BY <1>1, <1>3, <3>2, <4>1 DEF Goes, Run
    <3> QED
      BY <1>6, <3>1, <3>2
  <2>3. [op |-> run[r].op, human |-> run[r].human, alive |-> run[r].alive]
           \in [op : Ops, human : Humans, alive : BOOLEAN]
    BY <1>1, <1>2 DEF Run
  <2>4. TypeOK'
    BY <1>1, <1>2, <2>1, <2>2, <2>3 DEF TypeOK
  <2>5. WorldStep /\ JournalOK'
    BY <1>1, <2>1, StillWorld
  <2>6. RunOK(r)'
    BY <1>1, <2>1, <2>2, HeldJournal DEF RunOK, Steps, AfterClaim, BeforeAdmit, Journaled, WasJoined
  <2>7. \A a \in admits' \ admits : a.alive /\ a.human \in Welcome /\ Journaled(a.op, a.human)
    BY <1>2, <2>1
  <2> QED
    BY <1>1, <2>2, <2>4, <2>5, <2>6, <2>7, RunFrame DEF Inv
<1> QED
  BY <1>4, <1>5, <1>6 DEF Admit

\* A step of none of the runs.
LEMMA WorldFrame ==
    ASSUME Inv, TypeOK', WorldStep, JournalOK', run' = run, RevokerOK', admits' = admits,
           \A w \in stray' : WriteOK(w)
    PROVE  Inv'
<1>1. TypeOK
  BY DEF Inv
<1>2. \A q \in Runs : RunOK(q)'
  BY <1>1, RunKept DEF Inv
<1>3. \A w \in stray' : WriteOK(w)'
  BY <1>1, WriteKept
<1>4. AdmissionIsJournaled' /\ DeadLinkAdmitsNobody'
  BY <1>1, AdmitsKept DEF Inv
<1> QED
  BY <1>2, <1>3, <1>4 DEF Inv

LEMMA RevokeReadInv ==
    ASSUME Inv, RevokeRead
    PROVE  Inv'
<1>1. TypeOK /\ invite.rev \in 1..MaxRev /\ invite.rev \in Nat /\ MaxRev \in Nat
  BY WorldTypes DEF Inv
<1>2. UNCHANGED <<invite, ledger, stray, faults, expired, journal, removed, member, run, admits>>
  BY DEF RevokeRead, RevokeTo
<1>3. \/ invite.status = "revoked" /\ revoker' = [pc |-> "ok", seen |-> 0]
      \/ invite.status = "active" /\ revoker' = [pc |-> "write", seen |-> invite.rev]
  BY DEF RevokeRead, RevokeTo
<1>4. revoker' \in [pc : {"read", "write", "ok"}, seen : 0..MaxRev]
  BY <1>1, <1>3
<1>5. TypeOK'
  BY <1>1, <1>2, <1>4 DEF TypeOK
<1>6. RevokerOK'
  BY <1>1, <1>2, <1>3 DEF RevokerOK, ReadActive
<1>7. WorldStep /\ JournalOK'
  BY <1>2, StillWorld
<1> QED
  BY <1>2, <1>5, <1>6, <1>7, WorldFrame DEF Inv

LEMMA RevokeWriteInv ==
    ASSUME Inv, RevokeWrite
    PROVE  Inv'
<1>1. TypeOK /\ RevokerOK /\ ReadActive(revoker.seen)
  BY DEF Inv, RevokeWrite, RevokerOK
<1>2. UNCHANGED <<expired, journal, removed, member, run, admits>>
  BY DEF RevokeWrite, RevokeTo
<1>3. RevokeBytes \in InviteBytes /\ RevokeBytes.status = "revoked"
  BY DEF RevokeBytes, InviteBytes
<1> DEFINE answer == InviteAnswer(RevokeId, revoker.seen, RevokeBytes)
<1>4. CASE /\ InviteWrite(RevokeId, revoker.seen, RevokeBytes)
           /\ RevokeTo(IF answer = "applied" THEN "ok" ELSE "read", 0)
           /\ UNCHANGED <<stray, faults>>
  <2>1. PICK seen : seen = revoker.seen
    OBVIOUS
  <2>2. ReadActive(seen) /\ InviteWrite(RevokeId, seen, RevokeBytes)
    BY <1>1, <1>4, <2>1
  <2>3. /\ invite' \in [rev : 1..MaxRev, status : {"active", "revoked"}, op : Ops \cup {None}]
        /\ invite' = invite \/ (invite'.rev = invite.rev + 1 /\ invite.status = "active")
        /\ answer = "applied" => invite'.status = "revoked"
    BY <1>1, <1>3, <2>1, <2>2, InviteWriteMoves
  <2>4. revoker' = [pc |-> IF answer = "applied" THEN "ok" ELSE "read", seen |-> 0]
    BY <1>4 DEF RevokeTo
  <2> HIDE DEF answer
  <2>5. revoker' \in [pc : {"read", "write", "ok"}, seen : 0..MaxRev]
    BY <2>4, BoundsAssumption
  <2>6. TypeOK'
    BY <1>1, <1>2, <1>4, <2>3, <2>5 DEF TypeOK
  <2>7. RevokerOK'
    BY <2>3, <2>4 DEF RevokerOK
  <2>8. WorldStep /\ JournalOK'
    BY <1>2, <2>3 DEF WorldStep, Inv, JournalOK, WasJoined
  <2> QED
    BY <1>2, <1>4, <2>6, <2>7, <2>8, WorldFrame DEF Inv
<1>5. CASE /\ Fails(RevokeId, RevokeBytes, [op |-> None, seen |-> revoker.seen, next |-> RevokeBytes])
           /\ RevokeTo("read", 0)
           /\ UNCHANGED invite
  <2>1. WriteOK([op |-> None, seen |-> revoker.seen, next |-> RevokeBytes])
    <3>1. revoker.seen \in 1..MaxRev
      BY <1>1 DEF ReadActive
    <3> QED
      BY <1>1, <1>3, <3>1 DEF WriteOK
  <2>2. faults' \in 0..MaxFaults /\ \A w \in stray' : WriteOK(w)
    BY <1>5, <2>1, FailsEffect
  <2>3. revoker' = [pc |-> "read", seen |-> 0]
    BY <1>5 DEF RevokeTo
  <2>4. TypeOK'
    BY <1>1, <1>2, <1>5, <2>2, <2>3, BoundsAssumption DEF TypeOK
  <2>5. RevokerOK'
    BY <2>3 DEF RevokerOK
  <2>6. WorldStep /\ JournalOK'
    BY <1>2, <1>5, StillWorld
  <2> QED
    BY <1>2, <2>2, <2>4, <2>5, <2>6, WorldFrame
<1> QED
  BY <1>4, <1>5 DEF RevokeWrite

LEMMA StrayLandsInv ==
    ASSUME Inv, StrayLands
    PROVE  Inv'
<1>1. PICK w \in stray :
         /\ stray' = stray \ {w}
         /\ \/ /\ w.op = None
               /\ IF invite.rev = w.seen
                  THEN invite.rev < MaxRev /\ invite' = InvitePut(w.next)
                  ELSE UNCHANGED invite
               /\ UNCHANGED journal
            \/ /\ w.op # None
               /\ journal' = IF JournalState(w.op) = w.seen
                             THEN [journal EXCEPT ![w.op] = w.next] ELSE journal
               /\ UNCHANGED invite
         /\ UNCHANGED <<expired, ledger, removed, member, run, revoker, admits, faults>>
  BY DEF StrayLands
<1>2. TypeOK /\ WriteOK(w) /\ JournalOK /\ RevokerOK /\ (\A v \in stray' : WriteOK(v))
  BY <1>1 DEF Inv
<1>3. /\ invite \in [rev : 1..MaxRev, status : {"active", "revoked"}, op : Ops \cup {None}]
      /\ journal \in [Ops -> JournalRecord \cup {None}]
      /\ invite.rev \in Nat /\ MaxRev \in Nat
  BY <1>2, WorldTypes DEF TypeOK
<1>4. /\ invite' \in [rev : 1..MaxRev, status : {"active", "revoked"}, op : Ops \cup {None}]
      /\ invite' = invite \/ (invite'.rev = invite.rev + 1 /\ invite.status = "active")
  <2>1. CASE w.op = None /\ invite.rev = w.seen
    <3>1. ReadActive(w.seen) /\ w.next \in InviteBytes
      BY <1>2, <2>1, NoneAssumption DEF WriteOK
    <3>2. invite' = InvitePut(w.next) /\ invite.rev < MaxRev
      BY <1>1, <2>1
    <3> QED
      BY <1>3, <2>1, <3>1, <3>2 DEF InvitePut, InviteBytes, ReadActive
  <2>2. CASE ~(w.op = None /\ invite.rev = w.seen)
    BY <1>1, <1>3, <2>2
  <2> QED
    BY <2>1, <2>2
<1>5. (\E next \in JournalRecord :
         /\ JournalMoves(next)
         /\ next.human \in Welcome /\ (next.state = "joined" => WasJoined(next.human)))
      \/ journal' = journal
  <2>1. CASE w.op # None /\ JournalState(w.op) = w.seen
    <3>1. /\ w \in [op : Ops, seen : {"absent", "admitting", "outcome_unknown"}, next : JournalRecord]
          /\ w.next.human \in Welcome
          /\ w.next.state = "joined" => WasJoined(w.next.human)
          /\ w.seen # "absent" => Journaled(w.op, w.next.human)
      BY <1>2, <2>1 DEF WriteOK
    <3>2. journal' = [journal EXCEPT ![w.op] = w.next]
      BY <1>1, <2>1
    <3>3. w.op \in Ops /\ w.next \in JournalRecord /\ w.seen # "joined"
      BY <3>1
    <3>4. journal[w.op] # None => journal[w.op].state # "joined" /\ journal[w.op].human = w.next.human
      BY <1>3, <2>1, <3>1, <3>3 DEF JournalState, Journaled, JournalRecord
    <3>5. JournalMoves(w.next)
      BY <1>3, <3>2, <3>3, <3>4 DEF JournalMoves
    <3> QED
      BY <3>1, <3>3, <3>5
  <2>2. CASE ~(w.op # None /\ JournalState(w.op) = w.seen)
    BY <1>1, <2>2
  <2> QED
    BY <2>1, <2>2
<1>6. /\ journal' \in [Ops -> JournalRecord \cup {None}]
      /\ WorldStep
      /\ JournalOK'
  <2>1. CASE journal' = journal
    BY <1>1, <1>2, <1>3, <1>4, <2>1 DEF WorldStep, JournalOK, WasJoined
  <2>2. CASE \E next \in JournalRecord :
               /\ JournalMoves(next)
               /\ next.human \in Welcome /\ (next.state = "joined" => WasJoined(next.human))
    <3>1. PICK next \in JournalRecord :
             /\ JournalMoves(next)
             /\ next.human \in Welcome /\ (next.state = "joined" => WasJoined(next.human))
      BY <2>2
    <3>2. journal' \in [Ops -> JournalRecord \cup {None}] /\ WorldStep
      BY <1>1, <1>4, <3>1, NoRecordAssumption DEF WorldStep, JournalMoves
    <3>3. JournalOK'
      BY <1>1, <1>2, <3>1 DEF JournalOK, JournalMoves, WasJoined
    <3> QED
      BY <3>2, <3>3
  <2> QED
    BY <1>5, <2>1, <2>2
<1>7. TypeOK'
  BY <1>1, <1>2, <1>4, <1>6 DEF TypeOK
<1>8. RevokerOK'
  BY <1>1, <1>2, <1>6, <1>7, RevokerKept
<1> QED
  BY <1>1, <1>2, <1>6, <1>7, <1>8, WorldFrame

LEMMA OutsideInv ==
    ASSUME Inv, ClockPasses \/ (\E h \in Removable : RemoveHuman(h)) \/ UNCHANGED vars
    PROVE  Inv'
<1>1. /\ UNCHANGED <<invite, journal, ledger, stray, run, revoker, admits, faults>>
      /\ member \cup removed \subseteq member' \cup removed' /\ removed \subseteq removed'
      /\ expired => expired'
  BY DEF ClockPasses, RemoveHuman, vars
<1>2. TypeOK'
  <2>1. expired' \in BOOLEAN /\ removed' \subseteq Removable /\ member' \subseteq Humans
    BY DEF ClockPasses, RemoveHuman, vars, Inv, TypeOK
  <2> QED
    BY <1>1, <2>1 DEF Inv, TypeOK
<1>3. WorldStep /\ JournalOK'
  BY <1>1 DEF WorldStep, Inv, JournalOK, WasJoined
<1>4. RevokerOK'
  BY <1>1, <1>2, <1>3, RevokerKept DEF Inv
<1> QED
  BY <1>1, <1>2, <1>3, <1>4, WorldFrame DEF Inv

\* Every step keeps the invariant.
LEMMA InvStep ==
    ASSUME Inv, [Next]_vars
    PROVE  Inv'
  BY BeginInv, ReadJournalInv, CheckEligibleInv, AuthorizeInv, ClaimInv, LookupInv, RecheckInv,
     AdmitInv, NoteInv, CompleteInv, RunFailsInv, RevokeReadInv, RevokeWriteInv, StrayLandsInv,
     OutsideInv
     DEF Next, Step

LEMMA InvInit ==
    ASSUME Init
    PROVE  Inv
<1>1. run \in [Runs -> Run] /\ \A r \in Runs : run[r] = Idle
  BY IdleType DEF Init
<1>2. TypeOK
  <2>1. invite \in [rev : 1..MaxRev, status : {"active", "revoked"}, op : Ops \cup {None}]
    BY BoundsAssumption DEF Init
  <2>2. revoker \in [pc : {"read", "write", "ok"}, seen : 0..MaxRev]
    BY BoundsAssumption DEF Init
  <2>3. journal \in [Ops -> JournalRecord \cup {None}]
    BY DEF Init
  <2>4. expired \in BOOLEAN
    BY DEF Init
  <2>5. removed = {} /\ member = {} /\ admits = {}
    BY DEF Init
  <2>6. faults \in 0..MaxFaults
    BY BoundsAssumption DEF Init
  <2> QED
    BY <1>1, <2>1, <2>2, <2>3, <2>4, <2>5, <2>6 DEF TypeOK
<1>3. \A r \in Runs : RunOK(r)
  <2>0. Idle.pc = "idle"
    BY DEF Idle
  <2>1. \A r \in Runs : run[r].pc = "idle"
    BY <1>1, <2>0
  <2> QED
    BY <2>1 DEF RunOK, Steps, AfterClaim, BeforeAdmit
<1>4. JournalOK
  BY DEF Init, JournalOK
<1>5. RevokerOK
  BY DEF Init, RevokerOK
<1> QED
  BY <1>2, <1>3, <1>4, <1>5 DEF Init, Inv, AdmissionIsJournaled, DeadLinkAdmitsNobody

-----------------------------------------------------------------------------
(* The theorems *)

LEMMA InvAlways == Spec => []Inv
<1>1. Init => Inv
  BY InvInit
<1>2. Inv /\ [Next]_vars => Inv'
  BY InvStep
<1> QED
  BY <1>1, <1>2, PTL DEF Spec

(* Every reachable state of admitInvite and revokeInvite is well typed: what  *)
(* the retries put together from what they read earlier are journals and      *)
(* revisions.                                                                 *)
THEOREM TypeCorrect == Spec => []TypeOK
<1>1. Inv => TypeOK
  BY DEF Inv
<1> QED
  BY <1>1, InvAlways, PTL

(* Whoever gateway.admit joined is the human the journal of the operation is  *)
(* bound to and one the link's policy allows, however the runs of one         *)
(* operation ID overlap and fail.                                             *)
THEOREM Journaling == Spec => []AdmissionIsJournaled
<1>1. Inv => AdmissionIsJournaled
  BY DEF Inv
<1> QED
  BY <1>1, InvAlways, PTL

(* A request that arrives when the link is dead joins nobody, also as the     *)
(* retry of an admission that resumeAdmission finds begun.                    *)
THEOREM DeadLink == Spec => []DeadLinkAdmitsNobody
<1>1. Inv => DeadLinkAdmitsNobody
  BY DEF Inv
<1> QED
  BY <1>1, InvAlways, PTL

(* Once revokeInvite has answered ok the link is revoked for good: no         *)
(* authorization that was under way puts the active record back.              *)
THEOREM RevokeHolds == Spec => []RevokeAnswerHolds
<1>1. Inv => RevokeAnswerHolds
  BY DEF Inv, RevokerOK, RevokeAnswerHolds
<1> QED
  BY <1>1, InvAlways, PTL

(* An answer `joined` or `already_joined` is about a closed journal of this   *)
(* human, and the human was joined.                                           *)
THEOREM JoinedHolds == Spec => []JoinedAnswerHolds
<1>1. Inv => JoinedAnswerHolds
  BY DEF Inv, RunOK, JournalOK, Journaled, WasJoined, JournalState, JoinedAnswerHolds
<1> QED
  BY <1>1, InvAlways, PTL
=============================================================================
