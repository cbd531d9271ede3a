-------------------------- MODULE AgentJoinProofs ---------------------------
(***************************************************************************)
(* Proofs about AgentJoin, for any number of confirms, polls, ready reports, *)
(* humans and names, and any number of store faults.                         *)
(*                                                                         *)
(* Every write of the join record carries the revision the writer read.  The *)
(* argument is that a writer whose revision is still the record's knows the  *)
(* record well enough for its write to be a legal move (`Owned`, `Copy`), and *)
(* that the same holds of a write that is still on its way (`StrayOK`).       *)
(* What was true of the record for good stays true then, whoever writes next.*)
(***************************************************************************)
EXTENDS AgentJoin, TLAPS

-----------------------------------------------------------------------------
(* The inductive invariant *)

\* A record that can be in the store: sealed credentials are there exactly while it is
\* confirmed, they are for its owner, and a ready agent has been invited.
RecOK(r) ==
    /\ r.creds # None <=> r.state = "confirmed"
    /\ r.creds # None => OwnerOf(r.creds) = r.owner
    /\ Settled(r) => r.owner # None
    /\ r.state = "ready" => invited

\* What one write may do to the record.
Moves(r, s) ==
    /\ s.rev = r.rev + 1
    /\ s.state \in Order[r.state]
    /\ r.owner # None => s.owner = r.owner

\* A handler's copy of the record: as good as the record while the revision stands.
Copy(r) == r.rev <= rec.rev /\ (r.rev = rec.rev => r = rec)

\* The copy of a confirm that is alone with the join: while the revision stands, the
\* record is pending and is this human's.
Owned(r, human) ==
    /\ r.state = "pending" /\ r.creds = None /\ r.owner = human
    /\ r.rev <= rec.rev
    /\ r.rev = rec.rev => rec.state = "pending" /\ rec.owner = human

\* A write that is still on its way.
WriteOK(w) ==
    /\ w.seen <= rec.rev
    /\ RecOK(w.next)
    /\ w.next.rev = w.seen + 1
    /\ w.seen = rec.rev => Moves(rec, w.next)

StrayOK == \A w \in stray : WriteOK(w)

SettledFor(human) == Settled(rec) /\ rec.owner = human

ConfOK(c) ==
    LET r == conf[c].record IN
    /\ conf[c].pc = "member" =>
          /\ Copy(r) /\ RecOK(r)
          /\ Settled(r) => SettledFor(r.owner)
    /\ conf[c].pc = "lock" => Copy(r) /\ r.state = "pending" /\ r.creds = None /\ r.owner = None
    /\ conf[c].pc \in ConfirmSteps \ {"read", "member", "lock"} => Owned(r, OwnerOf(c))
    /\ conf[c].pc = "confirmed" => SettledFor(OwnerOf(c))

\* Nothing is to be had from the join any more.
Over == late \/ rec.state \notin {"pending", "confirmed"}

HoldsCredentials(who) == who # None /\ OwnerOf(who) = rec.owner

PollOK(g) ==
    /\ poll[g].pc = "claim" =>
          Copy(poll[g].record) /\ RecOK(poll[g].record) /\ poll[g].record.state = "confirmed"
    /\ poll[g].pc = "credentials" =>
          rec.state \in {"claimed", "ready"} /\ HoldsCredentials(poll[g].record.creds)
    /\ poll[g].pc \in {"claimed", "expired"} => Over

ReadyOK(g) ==
    /\ ready[g].pc \in {"invite", "mark"} =>
          Copy(ready[g].record) /\ RecOK(ready[g].record) /\ ready[g].record.state = "claimed"
    /\ ready[g].pc = "mark" => invited
    /\ ready[g].pc = "done" => rec.state = "ready"

OneHolder ==
    \A g, h \in Polls : poll[g].pc = "credentials" /\ poll[h].pc = "credentials" => g = h

AgentOK ==
    /\ agent.pc \in {"report", "reporting", "ready"} => HoldsCredentials(agent.creds)
    /\ agent.pc = "ready" => rec.state = "ready"
    /\ agent.pc = "expired" /\ agent.told # "not_found" => Over

\* The agent waits for a run of the handler it called.
Waiting ==
    /\ agent.pc = "polling" => agent.run \in Polls
    /\ agent.pc = "reporting" => agent.run \in Readies

Types == TypeOK /\ Waiting

Inv ==
    /\ Types
    /\ RecOK(rec)
    /\ StrayOK
    /\ \A c \in Confirms : ConfOK(c)
    /\ \A g \in Polls : PollOK(g)
    /\ \A g \in Readies : ReadyOK(g)
    /\ OneHolder
    /\ AgentOK

-----------------------------------------------------------------------------
(* Types *)

\* The part of the type invariant that is about the store.
StoreTypes ==
    /\ rec \in JoinRecord
    /\ stray \subseteq [seen : Nat, next : JoinRecord]
    /\ faults \in 0..MaxFaults

PollSteps == {"unsent", "read", "claim", "claimRead"}
ReadySteps == {"unsent", "read", "invite", "mark", "markRead"}

\* A record with another state and revision is a record.
LEMMA RestampType ==
    ASSUME NEW r \in JoinRecord, NEW s \in JoinStates, NEW n \in Nat
    PROVE  [r EXCEPT !.state = s, !.rev = n] \in JoinRecord
  BY DEF JoinRecord

LEMMA FoundType ==
    ASSUME TypeOK
    PROVE  Found \in JoinRecord
<1>1. rec \in JoinRecord /\ rec.rev \in Nat
  BY DEF TypeOK, JoinRecord
<1>2. "expired" \in JoinStates /\ rec.rev + 1 \in Nat
  BY <1>1 DEF JoinStates
<1>3. [rec EXCEPT !.state = "expired", !.rev = rec.rev + 1] \in JoinRecord
  BY <1>1, <1>2, RestampType
<1> QED
  BY <1>1, <1>3 DEF Found

\* A read answers a record, and what it may leave behind is a write.
LEMMA ReadTypes ==
    ASSUME TypeOK, Read \/ ReadFails
    PROVE  StoreTypes'
<1>1. Found \in JoinRecord /\ rec \in JoinRecord /\ rec.rev \in Nat
  BY FoundType DEF TypeOK, JoinRecord
<1> QED
  BY <1>1, MaxFaultsAssumption DEF TypeOK, StoreTypes, Read, ReadFails

\* So does a replacement.
LEMMA ReplaceTypes ==
    ASSUME TypeOK, NEW seen \in Nat, NEW next \in JoinRecord,
           \/ ReplaceApplied(seen, next)
           \/ ReplaceConflict(seen)
           \/ ReplaceFails(seen, next)
    PROVE  StoreTypes'
<1>1. [next EXCEPT !.rev = seen + 1] \in JoinRecord
  BY DEF JoinRecord
<1> QED
  BY <1>1, MaxFaultsAssumption DEF TypeOK, StoreTypes, ReplaceApplied, ReplaceConflict, ReplaceFails

LEMMA FreshType == Fresh \in JoinRecord
  BY DEF Fresh, JoinRecord, JoinStates

\* What a step of a confirm does to the confirms: only this one moves.
LEMMA ConfirmToEffect ==
    ASSUME TypeOK, NEW c \in Confirms, NEW step \in ConfirmSteps \cup ConfirmAnswers,
           NEW r \in JoinRecord, ConfirmTo(c, step, r)
    PROVE  /\ conf' \in [Confirms -> [by : Owners, pc : ConfirmSteps \cup ConfirmAnswers,
                                      tries : {0, 1}, record : JoinRecord]]
           /\ conf'[c].pc = step /\ conf'[c].by = conf[c].by
           /\ step \notin ConfirmAnswers => conf'[c].record = r
           /\ \A d \in Confirms \ {c} : conf'[d] = conf[d]
           /\ UNCHANGED <<late, poll, ready, invited, agent>>
<1>1. Keep(step, ConfirmAnswers, r) \in JoinRecord
  BY FreshType DEF Keep
<1>2. conf \in [Confirms -> [by : Owners, pc : ConfirmSteps \cup ConfirmAnswers,
                             tries : {0, 1}, record : JoinRecord]]
  BY DEF TypeOK
<1> QED
  BY <1>1, <1>2 DEF ConfirmTo, Keep

LEMMA PollToEffect ==
    ASSUME TypeOK, NEW g \in Polls, NEW step \in PollSteps \cup PollAnswers,
           NEW r \in JoinRecord, PollTo(g, step, r)
    PROVE  /\ poll' \in [Polls -> [pc : PollSteps \cup PollAnswers, record : JoinRecord]]
           /\ poll'[g].pc = step
           /\ step \notin PollAnswers \ {"credentials"} => poll'[g].record = r
           /\ \A h \in Polls \ {g} : poll'[h] = poll[h]
           /\ UNCHANGED <<late, conf, ready, invited, agent>>
<1>1. Keep(step, PollAnswers \ {"credentials"}, r) \in JoinRecord
  BY FreshType DEF Keep
<1> QED
  BY <1>1 DEF TypeOK, PollTo, Keep, PollSteps

LEMMA ReadyToEffect ==
    ASSUME TypeOK, NEW g \in Readies, NEW step \in ReadySteps \cup ReadyAnswers,
           NEW r \in JoinRecord, ReadyTo(g, step, r)
    PROVE  /\ ready' \in [Readies -> [pc : ReadySteps \cup ReadyAnswers, record : JoinRecord]]
           /\ ready'[g].pc = step
           /\ step \notin ReadyAnswers => ready'[g].record = r
           /\ \A h \in Readies \ {g} : ready'[h] = ready[h]
           /\ UNCHANGED <<late, conf, poll, agent>>
<1>1. Keep(step, ReadyAnswers, r) \in JoinRecord
  BY FreshType DEF Keep
<1> QED
  BY <1>1, ZenonT(60) DEF TypeOK, ReadyTo, Keep, ReadySteps

\* So a step that leaves the store well typed leaves everything well typed.
LEMMA ConfirmToTypes ==
    ASSUME Types, NEW c \in Confirms, NEW step \in ConfirmSteps \cup ConfirmAnswers,
           NEW r \in JoinRecord, ConfirmTo(c, step, r), StoreTypes'
    PROVE  Types'
<1>1. TypeOK
  BY DEF Types
<1> QED
  BY <1>1, ConfirmToEffect DEF Types, TypeOK, Waiting, StoreTypes

LEMMA PollToTypes ==
    ASSUME Types, NEW g \in Polls, NEW step \in PollSteps \cup PollAnswers,
           NEW r \in JoinRecord, PollTo(g, step, r), StoreTypes'
    PROVE  Types'
<1>1. TypeOK
  BY DEF Types
<1> QED
  BY <1>1, PollToEffect DEF Types, TypeOK, Waiting, StoreTypes, PollSteps

LEMMA ReadyToTypes ==
    ASSUME Types, NEW g \in Readies, NEW step \in ReadySteps \cup ReadyAnswers,
           NEW r \in JoinRecord, ReadyTo(g, step, r), StoreTypes', invited' \in BOOLEAN
    PROVE  Types'
<1>1. TypeOK
  BY DEF Types
<1> QED
  BY <1>1, ReadyToEffect DEF Types, TypeOK, Waiting, StoreTypes, ReadySteps

\* The copies of the record that the handlers hold are records.
LEMMA LocalRecords ==
    ASSUME TypeOK
    PROVE  /\ StoreTypes
           /\ UNCHANGED <<rec, stray, faults>> => StoreTypes'
           /\ \A c \in Confirms : conf[c].record \in JoinRecord /\ conf[c].record.rev \in Nat
           /\ \A g \in Polls : poll[g].record \in JoinRecord /\ poll[g].record.rev \in Nat
           /\ \A g \in Readies : ready[g].record \in JoinRecord /\ ready[g].record.rev \in Nat
<1>1. \A r \in JoinRecord : r.rev \in Nat
  BY DEF JoinRecord
<1> QED
  BY <1>1 DEF TypeOK, StoreTypes

\* Every step of a confirm keeps the types.
LEMMA ConfirmTypes ==
    ASSUME Types, NEW c \in Confirms, Confirm(c)
    PROVE  Types'
<1> DEFINE r == conf[c].record
<1>1. TypeOK
  BY DEF Types
<1>2. r \in JoinRecord /\ r.rev \in Nat /\ (UNCHANGED <<rec, stray, faults>> => StoreTypes')
  BY <1>1, LocalRecords
<1>3. ConfirmSteps \subseteq ConfirmSteps \cup ConfirmAnswers
      /\ ConfirmAnswers \subseteq ConfirmSteps \cup ConfirmAnswers
  OBVIOUS
<1>4. OwnerOf(c) \in Owners
  BY <1>1 DEF TypeOK, OwnerOf
<1>5. \A n \in Nat : [r EXCEPT !.rev = n] \in JoinRecord
  BY <1>2 DEF JoinRecord
<1> HIDE DEF r
<1>6. CASE ConfirmRead(c)
  <2>1. "member" \in ConfirmSteps /\ "unavailable" \in ConfirmAnswers
    BY DEF ConfirmSteps, ConfirmAnswers
  <2>2. StoreTypes'
    BY <1>1, <1>6, ReadTypes DEF ConfirmRead
  <2>3. Found \in JoinRecord
    BY <1>1, FoundType
  <2> QED
    BY <1>2, <1>3, <1>6, <2>1, <2>2, <2>3, ConfirmToTypes DEF ConfirmRead, r
<1>7. CASE ConfirmMember(c)
  <2>1. {"not_member", "unavailable", "expired", "already_confirmed_by_other", "confirmed", "lock",
         "provision"} \subseteq ConfirmSteps \cup ConfirmAnswers
    BY DEF ConfirmSteps, ConfirmAnswers
  <2>2. StoreTypes'
    BY <1>2, <1>7 DEF ConfirmMember
  <2>3. PICK step \in ConfirmSteps \cup ConfirmAnswers : ConfirmTo(c, step, r)
    BY <1>7, <2>1 DEF ConfirmMember, r
  <2> QED
    BY <1>2, <2>2, <2>3, ConfirmToTypes
<1>8. CASE ConfirmLock(c)
  <2> DEFINE mine == [r EXCEPT !.owner = OwnerOf(c)]
  <2>1. mine \in JoinRecord /\ \A n \in Nat : [mine EXCEPT !.rev = n] \in JoinRecord
    BY <1>2, <1>4 DEF JoinRecord
  <2>2. {"provision", "read", "unavailable"} \subseteq ConfirmSteps \cup ConfirmAnswers
    BY DEF ConfirmSteps, ConfirmAnswers
  <2> HIDE DEF mine
  <2>3. StoreTypes'
    BY <1>1, <1>2, <1>8, <2>1, ReplaceTypes DEF ConfirmLock, r, mine
  <2>4. CASE \E step \in {"provision", "unavailable"}, s \in JoinRecord : ConfirmTo(c, step, s)
    BY <2>2, <2>3, <2>4, ConfirmToTypes
  <2> DEFINE again == [by |-> OwnerOf(c), tries |-> 1, record |-> Fresh,
                       pc |-> IF conf[c].tries = 0 THEN "read" ELSE "unavailable"]
  <2>5. CASE /\ conf' = [conf EXCEPT ![c] = again]
             /\ UNCHANGED <<late, poll, ready, invited, agent>>
    <3>0. again \in [by : Owners, pc : ConfirmSteps \cup ConfirmAnswers, tries : {0, 1}, record : JoinRecord]
      BY <1>4, <2>2, FreshType
    <3> HIDE DEF again
    <3>1. conf' \in [Confirms -> [by : Owners, pc : ConfirmSteps \cup ConfirmAnswers,
                                  tries : {0, 1}, record : JoinRecord]]
      BY <1>1, <2>5, <3>0 DEF TypeOK
    <3> QED
      BY <2>3, <2>5, <3>1 DEF Types, TypeOK, StoreTypes, Waiting
  <2> QED
    <3>1. [mine EXCEPT !.rev = r.rev + 1] \in JoinRecord
      BY <1>2, <2>1
    <3> QED
      BY <1>2, <1>8, <2>4, <2>5, <3>1 DEF ConfirmLock, r, mine
<1>9. CASE ConfirmProvision(c)
  <2>1. {"expired", "stage", "not_member", "unavailable"} \subseteq ConfirmSteps \cup ConfirmAnswers
    BY DEF ConfirmSteps, ConfirmAnswers
  <2>2. \A n \in Names : [r EXCEPT !.name = n] \in JoinRecord
    BY <1>2 DEF JoinRecord
  <2>3. StoreTypes'
    BY <1>2, <1>9 DEF ConfirmProvision
  <2>4. PICK step \in ConfirmSteps \cup ConfirmAnswers, s \in JoinRecord : ConfirmTo(c, step, s)
    BY <1>2, <1>9, <2>1, <2>2 DEF ConfirmProvision, r
  <2> QED
    BY <2>3, <2>4, ConfirmToTypes
<1>10. CASE ConfirmStage(c)
  <2>1. {"staged", "stageRead", "unavailable"} \subseteq ConfirmSteps \cup ConfirmAnswers
    BY DEF ConfirmSteps, ConfirmAnswers
  <2>2. StoreTypes'
    BY <1>1, <1>2, <1>10, ReplaceTypes DEF ConfirmStage, r
  <2>3. PICK step \in ConfirmSteps \cup ConfirmAnswers, s \in JoinRecord : ConfirmTo(c, step, s)
    <3>1. [r EXCEPT !.rev = r.rev + 1] \in JoinRecord
      BY <1>2, <1>5
    <3> QED
      BY <1>2, <1>10, <2>1, <3>1 DEF ConfirmStage, r
  <2> QED
    BY <2>2, <2>3, ConfirmToTypes
<1>11. CASE ConfirmStageRead(c)
  <2>1. {"staged", "restage", "unavailable", "expired", "confirmed"} \subseteq ConfirmSteps \cup ConfirmAnswers
    BY DEF ConfirmSteps, ConfirmAnswers
  <2>2. StoreTypes'
    BY <1>1, <1>11, ReadTypes DEF ConfirmStageRead
  <2>3. Found.rev \in Nat
    BY <1>1, FoundType DEF JoinRecord
  <2>4. [r EXCEPT !.rev = Found.rev] \in JoinRecord
    BY <1>5, <2>3
  <2>5. PICK step \in ConfirmSteps \cup ConfirmAnswers, s \in JoinRecord : ConfirmTo(c, step, s)
    BY <1>2, <1>11, <2>1, <2>4 DEF ConfirmStageRead, View, r
  <2> QED
    BY <2>2, <2>5, ConfirmToTypes
<1>12. CASE ConfirmStaged(c)
  <2>1. {"expired", "confirm", "unavailable"} \subseteq ConfirmSteps \cup ConfirmAnswers
    BY DEF ConfirmSteps, ConfirmAnswers
  <2>2. StoreTypes'
    BY <1>1, <1>2, <1>12, ReadTypes DEF ConfirmStaged
  <2>3. PICK step \in ConfirmSteps \cup ConfirmAnswers : ConfirmTo(c, step, r)
    BY <1>12, <2>1 DEF ConfirmStaged, r
  <2> QED
    BY <1>2, <2>2, <2>3, ConfirmToTypes
<1>13. CASE ConfirmConfirm(c)
  <2> DEFINE next == [r EXCEPT !.state = "confirmed", !.creds = c]
  <2>1. next \in JoinRecord
    BY <1>2 DEF JoinRecord, JoinStates
  <2>2. {"expired", "confirmed", "confirmRead", "unavailable"} \subseteq ConfirmSteps \cup ConfirmAnswers
    BY DEF ConfirmSteps, ConfirmAnswers
  <2>3. View(next) \in {"expired", "confirmed"}
    BY DEF View
  <2> HIDE DEF next
  <2>4. StoreTypes'
    BY <1>1, <1>2, <1>13, <2>1, ReplaceTypes DEF ConfirmConfirm, r, next
  <2>5. PICK step \in ConfirmSteps \cup ConfirmAnswers, s \in JoinRecord : ConfirmTo(c, step, s)
    BY <1>2, <1>13, <2>1, <2>2, <2>3 DEF ConfirmConfirm, r, next
  <2> QED
    BY <2>4, <2>5, ConfirmToTypes
<1>14. CASE ConfirmConfirmRead(c)
  <2>1. {"expired", "confirmed", "unavailable"} \subseteq ConfirmSteps \cup ConfirmAnswers
    BY DEF ConfirmSteps, ConfirmAnswers
  <2>2. StoreTypes'
    BY <1>1, <1>14, ReadTypes DEF ConfirmConfirmRead
  <2>3. PICK step \in ConfirmSteps \cup ConfirmAnswers : ConfirmTo(c, step, r)
    BY <1>14, <2>1 DEF ConfirmConfirmRead, View, r
  <2> QED
    BY <1>2, <2>2, <2>3, ConfirmToTypes
<1> QED
  BY <1>6, <1>7, <1>8, <1>9, <1>10, <1>11, <1>12, <1>13, <1>14 DEF Confirm

\* Every step of a poll keeps the types.
LEMMA PollTypes ==
    ASSUME Types, NEW g \in Polls, Poll(g)
    PROVE  Types'
<1> DEFINE r == poll[g].record
<1>1. TypeOK
  BY DEF Types
<1>2. r \in JoinRecord /\ r.rev \in Nat /\ Found \in JoinRecord
  BY <1>1, LocalRecords, FoundType
<1> HIDE DEF r
<1>3. CASE PollRead(g)
  <2>1. {"claim", "claimed", "pending", "expired", "not_found"} \subseteq PollSteps \cup PollAnswers
    BY DEF PollSteps, PollAnswers
  <2>2. StoreTypes'
    BY <1>1, <1>3, ReadTypes DEF PollRead
  <2>3. EffectiveState(Found) \in JoinStates
    BY <1>2 DEF EffectiveState, JoinRecord, JoinStates
  <2> DEFINE step == CASE EffectiveState(Found) = "confirmed" -> "claim"
                       [] EffectiveState(Found) = "ready" -> "claimed"
                       [] OTHER -> EffectiveState(Found)
  <2>4. step \in {"claim", "claimed", "pending", "expired"}
    BY <2>3 DEF JoinStates
  <2>5. PollTo(g, step, Found) \/ PollTo(g, "not_found", r)
    BY <1>3 DEF PollRead, r
  <2> HIDE DEF step
  <2> QED
    BY <1>2, <2>1, <2>2, <2>4, <2>5, PollToTypes
<1>4. CASE PollClaim(g)
  <2> DEFINE next == [r EXCEPT !.state = "claimed", !.creds = None]
  <2>1. next \in JoinRecord
    BY <1>2 DEF JoinRecord, JoinStates
  <2>2. {"credentials", "claimRead", "unavailable"} \subseteq PollSteps \cup PollAnswers
    BY DEF PollSteps, PollAnswers
  <2> HIDE DEF next
  <2>3. StoreTypes'
    BY <1>1, <1>2, <1>4, <2>1, ReplaceTypes DEF PollClaim, r, next
  <2>4. PICK step \in {"credentials", "claimRead", "unavailable"} : PollTo(g, step, r)
    BY <1>4 DEF PollClaim, r
  <2> QED
    BY <1>2, <2>2, <2>3, <2>4, PollToTypes
<1>5. CASE PollClaimRead(g)
  <2>1. {"claimed", "unavailable"} \subseteq PollSteps \cup PollAnswers
    BY DEF PollSteps, PollAnswers
  <2>2. StoreTypes'
    BY <1>1, <1>5, ReadTypes DEF PollClaimRead
  <2>3. PICK step \in {"claimed", "unavailable"} : PollTo(g, step, r)
    BY <1>5 DEF PollClaimRead, r
  <2> QED
    BY <1>2, <2>1, <2>2, <2>3, PollToTypes
<1> QED
  BY <1>3, <1>4, <1>5 DEF Poll

\* Every step of a ready report keeps the types.
LEMMA ReadyTypes ==
    ASSUME Types, NEW g \in Readies, Ready(g)
    PROVE  Types'
<1> DEFINE r == ready[g].record
<1>1. TypeOK /\ invited \in BOOLEAN
  BY DEF Types, TypeOK
<1>2. r \in JoinRecord /\ r.rev \in Nat /\ Found \in JoinRecord
      /\ (UNCHANGED <<rec, stray, faults>> => StoreTypes')
  BY <1>1, LocalRecords, FoundType
<1>3. {"done", "not_confirmed", "not_found", "unavailable", "invite", "mark", "markRead"}
        \subseteq ReadySteps \cup ReadyAnswers
  BY DEF ReadySteps, ReadyAnswers
<1> HIDE DEF r
<1>4. CASE ReadyRead(g)
  <2>1. StoreTypes' /\ invited' \in BOOLEAN
    BY <1>1, <1>4, ReadTypes DEF ReadyRead
  <2>2. PICK step \in {"done", "invite", "not_confirmed", "not_found"}, s \in JoinRecord : ReadyTo(g, step, s)
    BY <1>2, <1>4 DEF ReadyRead, r
  <2> QED
    BY <1>3, <2>1, <2>2, ReadyToTypes
<1>5. CASE ReadyInvite(g)
  <2>1. StoreTypes'
    BY <1>2, <1>5 DEF ReadyInvite
  <2>2. invited' \in BOOLEAN
    BY <1>1, <1>5 DEF ReadyInvite
  <2>3. PICK step \in {"mark", "unavailable"} : ReadyTo(g, step, r)
    BY <1>5 DEF ReadyInvite, r
  <2> QED
    BY <1>2, <1>3, <2>1, <2>2, <2>3, ReadyToTypes
<1>6. CASE ReadyMark(g)
  <2> DEFINE next == [r EXCEPT !.state = "ready"]
  <2>1. next \in JoinRecord
    BY <1>2 DEF JoinRecord, JoinStates
  <2> HIDE DEF next
  <2>2. StoreTypes'
    BY <1>1, <1>2, <1>6, <2>1, ReplaceTypes DEF ReadyMark, r, next
  <2>3. invited' \in BOOLEAN
    BY <1>1, <1>6 DEF ReadyMark
  <2>4. PICK step \in {"done", "markRead", "unavailable"} : ReadyTo(g, step, r)
    BY <1>6 DEF ReadyMark, r
  <2> QED
    BY <1>2, <1>3, <2>2, <2>3, <2>4, ReadyToTypes
<1>7. CASE ReadyMarkRead(g)
  <2>1. StoreTypes' /\ invited' \in BOOLEAN
    BY <1>1, <1>7, ReadTypes DEF ReadyMarkRead
  <2>2. PICK step \in {"done", "unavailable"} : ReadyTo(g, step, r)
    BY <1>7 DEF ReadyMarkRead, r
  <2> QED
    BY <1>2, <1>3, <2>1, <2>2, ReadyToTypes
<1> QED
  BY <1>4, <1>5, <1>6, <1>7 DEF Ready

\* The agent's own record.
AgentState == [pc : AgentSteps, run : Polls \cup Readies \cup {None}, creds : Confirms \cup {None},
               told : PollAnswers \cup {None}]

LEMMA AgentToTypes ==
    ASSUME Types, NEW step \in AgentSteps \ {"polling", "reporting"}, AgentTo(step, None)
    PROVE  Types'
<1>1. agent \in AgentState
  BY DEF Types, TypeOK, AgentState
<1>2. agent' = [agent EXCEPT !.pc = step, !.run = None]
  BY DEF AgentTo
<1>3. agent' \in AgentState /\ agent'.pc = step
  BY <1>1, <1>2 DEF AgentState
<1> QED
  BY <1>3 DEF Types, TypeOK, AgentTo, Waiting, AgentState

\* Every step of the agent keeps the types.
LEMMA AgentTypes ==
    ASSUME Types, Agent
    PROVE  Types'
<1>1. TypeOK /\ agent \in AgentState
  BY DEF Types, TypeOK, AgentState
<1>2. CASE \E g \in Polls : SendPoll(g)
  <2>1. PICK g \in Polls : SendPoll(g)
    BY <1>2
  <2>2. agent' \in AgentState /\ agent'.pc = "polling" /\ agent'.run = g
    BY <1>1, <2>1 DEF SendPoll, AgentState, AgentSteps
  <2>3. poll' \in [Polls -> [pc : {"unsent", "read", "claim", "claimRead"} \cup PollAnswers, record : JoinRecord]]
    BY <1>1, <2>1 DEF SendPoll, TypeOK
  <2> QED
    BY <2>1, <2>2, <2>3 DEF Types, TypeOK, Waiting, SendPoll, AgentState
<1>3. CASE PollAnswered
  <2>1. agent.run \in Polls /\ poll[agent.run].pc \in PollAnswers
    BY <1>3 DEF Types, Waiting, PollAnswered
  <2>2. poll[agent.run].record.creds \in Confirms \cup {None}
    BY <1>1, <2>1, LocalRecords DEF JoinRecord
  <2>3. AfterPoll(poll[agent.run].pc) \in AgentSteps \ {"polling", "reporting"}
    BY <2>1 DEF AfterPoll, PollAnswers, AgentSteps
  <2>4. agent' \in AgentState /\ agent'.pc \in AgentSteps \ {"polling", "reporting"}
    BY <1>3, <2>1, <2>2, <2>3 DEF PollAnswered, AgentState
  <2> QED
    BY <1>3, <2>4 DEF Types, TypeOK, Waiting, PollAnswered, AgentState
<1>4. CASE PollLost \/ PollStopped \/ ReadyLost
  <2>1. {"poll", "failed"} \subseteq AgentSteps \ {"polling", "reporting"}
    BY DEF AgentSteps
  <2> QED
    BY <1>4, <2>1, AgentToTypes DEF PollLost, PollStopped, ReadyLost
<1>5. CASE \E g \in Readies : SendReady(g)
  <2>1. PICK g \in Readies : SendReady(g)
    BY <1>5
  <2>2. agent' \in AgentState /\ agent'.pc = "reporting" /\ agent'.run = g
    BY <1>1, <2>1 DEF SendReady, AgentState, AgentSteps
  <2>3. ready' \in [Readies -> [pc : {"unsent", "read", "invite", "mark", "markRead"} \cup ReadyAnswers,
                               record : JoinRecord]]
    BY <1>1, <2>1 DEF SendReady, TypeOK
  <2> QED
    BY <2>1, <2>2, <2>3 DEF Types, TypeOK, Waiting, SendReady, AgentState
<1>6. CASE ReadyAnswered
  <2>1. \A answer : AfterReady(answer) \subseteq AgentSteps \ {"polling", "reporting"}
    BY DEF AfterReady, AgentSteps
  <2> QED
    BY <1>6, <2>1, AgentToTypes DEF ReadyAnswered
<1> QED
  BY <1>2, <1>3, <1>4, <1>5, <1>6 DEF Agent

\* Every step keeps the types.
LEMMA TypesStep ==
    ASSUME Types, [Next]_vars
    PROVE  Types'
<1>1. CASE StrayLands
  BY <1>1 DEF Types, TypeOK, Waiting, StrayLands
<1>2. CASE ClockPasses
  BY <1>2 DEF Types, TypeOK, Waiting, ClockPasses
<1>3. CASE UNCHANGED vars
  BY <1>3 DEF Types, TypeOK, Waiting, vars
<1> QED
  BY <1>1, <1>2, <1>3, ConfirmTypes, PollTypes, ReadyTypes, AgentTypes DEF Next

LEMMA TypesInit ==
    ASSUME Init
    PROVE  Types
<1>1. PICK by \in [Confirms -> Owners] :
         conf = [c \in Confirms |-> [by |-> by[c], pc |-> "read", tries |-> 0, record |-> Fresh]]
  BY DEF Init
<1>2. conf \in [Confirms -> [by : Owners, pc : ConfirmSteps \cup ConfirmAnswers, tries : {0, 1},
                            record : JoinRecord]]
  BY <1>1, FreshType DEF ConfirmSteps
<1>3. agent \in AgentState /\ agent.pc = "poll"
  BY DEF Init, AgentState, AgentSteps
<1>4. /\ poll \in [Polls -> [pc : PollSteps \cup PollAnswers, record : JoinRecord]]
      /\ ready \in [Readies -> [pc : ReadySteps \cup ReadyAnswers, record : JoinRecord]]
  BY FreshType DEF Init, PollSteps, ReadySteps
<1>5. rec \in JoinRecord /\ late = FALSE /\ stray = {} /\ faults \in 0..MaxFaults /\ invited = FALSE
  BY FreshType, MaxFaultsAssumption DEF Init
<1> QED
  BY <1>2, <1>3, <1>4, <1>5 DEF Types, TypeOK, Waiting, AgentState, PollSteps, ReadySteps

(* Every reachable state of the join handlers is well typed: a handler ends   *)
(* in one of its own answers, and the copies of the record that it writes     *)
(* back, late or twice, are join records.                                     *)
THEOREM TypeCorrect == Spec => []TypeOK
<1>1. Init => Types
  BY TypesInit
<1>2. Types /\ [Next]_vars => Types'
  BY TypesStep
<1>3. Types => TypeOK
  BY DEF Types
<1> QED
  BY <1>1, <1>2, <1>3, PTL DEF Spec

-----------------------------------------------------------------------------
(* What a step leaves alone *)

\* The record stays or makes a legal move, and the writes on their way were legal before it.
StoreStep ==
    /\ rec' = rec \/ (Moves(rec, rec') /\ RecOK(rec'))
    /\ \A w \in stray' : WriteOK(w)

\* What nothing takes back.
WorldStep ==
    /\ \A c \in Confirms : conf'[c].by = conf[c].by
    /\ invited => invited'
    /\ late => late'

\* What a legal move of the record keeps for good.
LEMMA RecordStep ==
    ASSUME Inv, Types', StoreStep, WorldStep
    PROVE  /\ rec.rev \in Nat /\ rec'.rev \in Nat
           /\ rec'.rev >= rec.rev
           /\ rec'.rev = rec.rev => rec' = rec
           /\ rec'.state \in Order[rec.state]
           /\ rec.owner # None => rec'.owner = rec.owner
           /\ Settled(rec) => Settled(rec')
           /\ rec.state \in {"claimed", "ready"} => rec'.state \in {"claimed", "ready"}
           /\ rec.state = "ready" => rec'.state = "ready"
           /\ Over => Over'
<1>1. rec \in JoinRecord /\ rec' \in JoinRecord /\ late \in BOOLEAN /\ late' \in BOOLEAN
  BY DEF Inv, Types, TypeOK
<1>2. rec.rev \in Nat /\ rec'.rev \in Nat /\ rec.state \in JoinStates
  BY <1>1 DEF JoinRecord
<1>3. rec'.state \in Order[rec.state]
  BY <1>2 DEF StoreStep, Moves, Order, JoinStates
<1> QED
  BY <1>1, <1>2, <1>3 DEF StoreStep, WorldStep, Moves, Order, JoinStates, Settled, Over

\* The humans behind the confirms do not change, so neither does whose credentials are whose.
LEMMA OwnersStay ==
    ASSUME Inv, Types', WorldStep, NEW c \in Confirms
    PROVE  OwnerOf(c) \in Owners /\ OwnerOf(c) # None /\ conf'[c].by = conf[c].by
  BY NoneAssumption DEF Inv, Types, TypeOK, OwnerOf, WorldStep

LEMMA RecOKKept ==
    ASSUME Inv, Types', WorldStep, NEW r \in JoinRecord, RecOK(r)
    PROVE  /\ r.creds # None <=> r.state = "confirmed"
           /\ r.creds # None => conf'[r.creds].by = r.owner
           /\ Settled(r) => r.owner # None
           /\ r.state = "ready" => invited'
<1>1. r.creds # None => r.creds \in Confirms
  BY DEF JoinRecord
<1> QED
  BY <1>1, OwnersStay DEF RecOK, OwnerOf, WorldStep

LEMMA RecOKStep ==
    ASSUME Inv, Types', StoreStep, WorldStep
    PROVE  RecOK(rec)'
<1>1. rec' \in JoinRecord /\ RecOK(rec')
  BY DEF Inv, Types, TypeOK, StoreStep
<1> QED
  BY <1>1, RecOKKept DEF RecOK, OwnerOf, Settled

LEMMA StrayStep ==
    ASSUME Inv, Types', StoreStep, WorldStep
    PROVE  StrayOK'
<1> SUFFICES ASSUME NEW w \in stray' PROVE WriteOK(w)'
  BY DEF StrayOK
<1>1. WriteOK(w)
  BY DEF StoreStep
<1>2. w.seen \in Nat /\ w.next \in JoinRecord
  BY DEF Types, TypeOK
<1>3. /\ w.next.creds # None <=> w.next.state = "confirmed"
      /\ w.next.creds # None => conf'[w.next.creds].by = w.next.owner
      /\ Settled(w.next) => w.next.owner # None
      /\ w.next.state = "ready" => invited'
  BY <1>1, <1>2, RecOKKept DEF WriteOK
<1>4. w.seen <= rec'.rev /\ (w.seen = rec'.rev => Moves(rec', w.next))
  BY <1>1, <1>2, RecordStep DEF WriteOK
<1> QED
  BY <1>1, <1>3, <1>4 DEF WriteOK, RecOK, OwnerOf, Settled, Moves

LEMMA ConfStep ==
    ASSUME Inv, Types', StoreStep, WorldStep, NEW c \in Confirms, conf'[c] = conf[c]
    PROVE  ConfOK(c)'
<1> DEFINE r == conf[c].record
<1>1. r \in JoinRecord /\ r.rev \in Nat /\ ConfOK(c)
  BY LocalRecords DEF Inv, Types
<1>2. OwnerOf(c) # None /\ OwnerOf(c)' = OwnerOf(c)
  BY OwnersStay DEF OwnerOf
<1>3. conf[c].pc = "member" => Copy(r)' /\ RecOK(r)' /\ (Settled(r) => SettledFor(r.owner))'
  <2> SUFFICES ASSUME conf[c].pc = "member" PROVE Copy(r)' /\ RecOK(r)' /\ (Settled(r) => SettledFor(r.owner))'
    OBVIOUS
  <2>1. Copy(r) /\ RecOK(r) /\ (Settled(r) => SettledFor(r.owner))
    BY <1>1 DEF ConfOK
  <2>2. RecOK(r)'
    BY <1>1, <2>1, RecOKKept DEF RecOK, OwnerOf, Settled
  <2>3. Copy(r)'
    BY <1>1, <2>1, RecordStep DEF Copy
  <2>4. Settled(r) => r.owner # None
    BY <2>1 DEF RecOK
  <2>5. (Settled(r) => SettledFor(r.owner))'
    BY <2>1, <2>4, RecordStep DEF SettledFor, Settled
  <2> QED
    BY <2>2, <2>3, <2>5
<1>4. Copy(r) => Copy(r)'
  BY <1>1, RecordStep DEF Copy
<1>5. Owned(r, OwnerOf(c)) => Owned(r, OwnerOf(c))'
  BY <1>1, <1>2, RecordStep DEF Owned
<1>6. SettledFor(OwnerOf(c)) => SettledFor(OwnerOf(c))'
  BY <1>2, RecordStep DEF SettledFor, Settled
<1> QED
  BY <1>1, <1>3, <1>4, <1>5, <1>6 DEF ConfOK

LEMMA HolderKept ==
    ASSUME Inv, Types', StoreStep, WorldStep, NEW who \in Confirms \cup {None}, HoldsCredentials(who)
    PROVE  who # None /\ conf'[who].by = rec'.owner
  BY OwnersStay, RecordStep DEF HoldsCredentials, OwnerOf

LEMMA PollStep ==
    ASSUME Inv, Types', StoreStep, WorldStep, NEW g \in Polls, poll'[g] = poll[g]
    PROVE  PollOK(g)'
<1> DEFINE r == poll[g].record
<1>1. r \in JoinRecord /\ r.rev \in Nat /\ r.creds \in Confirms \cup {None} /\ PollOK(g)
  BY LocalRecords DEF Inv, Types, JoinRecord
<1>2. Copy(r) => Copy(r)'
  BY <1>1, RecordStep DEF Copy
<1>3. RecOK(r) => RecOK(r)'
  BY <1>1, RecOKKept DEF RecOK, OwnerOf, Settled
<1>4. HoldsCredentials(r.creds) => HoldsCredentials(r.creds)'
  BY <1>1, HolderKept DEF HoldsCredentials, OwnerOf
<1>5. rec.state \in {"claimed", "ready"} => rec'.state \in {"claimed", "ready"}
  BY RecordStep
<1>6. Over => Over'
  BY RecordStep
<1> QED
  BY <1>1, <1>2, <1>3, <1>4, <1>5, <1>6 DEF PollOK

LEMMA ReadyStep ==
    ASSUME Inv, Types', StoreStep, WorldStep, NEW g \in Readies, ready'[g] = ready[g]
    PROVE  ReadyOK(g)'
<1> DEFINE r == ready[g].record
<1>1. r \in JoinRecord /\ r.rev \in Nat /\ ReadyOK(g)
  BY LocalRecords DEF Inv, Types
<1>2. Copy(r) => Copy(r)'
  BY <1>1, RecordStep DEF Copy
<1>3. RecOK(r) => RecOK(r)'
  BY <1>1, RecOKKept DEF RecOK, OwnerOf, Settled
<1>4. (rec.state = "ready" => rec'.state = "ready") /\ (invited => invited')
  BY RecordStep DEF WorldStep
<1> QED
  BY <1>1, <1>2, <1>3, <1>4 DEF ReadyOK

LEMMA AgentStep ==
    ASSUME Inv, Types', StoreStep, WorldStep, agent' = agent
    PROVE  AgentOK'
<1>1. agent.creds \in Confirms \cup {None} /\ AgentOK
  BY DEF Inv, Types, TypeOK
<1>2. HoldsCredentials(agent.creds) => HoldsCredentials(agent.creds)'
  BY <1>1, HolderKept DEF HoldsCredentials, OwnerOf
<1>3. (rec.state = "ready" => rec'.state = "ready") /\ (Over => Over')
  BY RecordStep
<1> QED
  BY <1>1, <1>2, <1>3 DEF AgentOK

-----------------------------------------------------------------------------
(* What a step does to the store *)

\* The expiry that a read enforces is a legal move.
LEMMA FoundMoves ==
    ASSUME Inv
    PROVE  /\ RecOK(Found)
           /\ Found = rec \/ Moves(rec, Found)
           /\ Found.owner = rec.owner
           /\ Found.state # rec.state => Found.state = "expired" /\ late
<1>1. rec \in JoinRecord /\ RecOK(rec) /\ rec.rev \in Nat
  BY DEF Inv, Types, TypeOK, JoinRecord
<1>2. CASE ~Retires(rec)
  BY <1>1, <1>2 DEF Found
<1>3. CASE Retires(rec)
  <2>1. rec.state = "pending" /\ late
    BY <1>3 DEF Retires, EffectiveState
  <2>2. Found = [rec EXCEPT !.state = "expired", !.rev = rec.rev + 1]
    BY <1>3 DEF Found
  <2>3. /\ Found.state = "expired" /\ Found.owner = rec.owner /\ Found.creds = rec.creds
        /\ Found.rev = rec.rev + 1
    BY <1>1, <2>2 DEF JoinRecord
  <2> QED
    BY <1>1, <2>1, <2>3 DEF RecOK, Moves, Settled, Order
<1> QED
  BY <1>2, <1>3

LEMMA ReadStore ==
    ASSUME Inv, Read \/ ReadFails
    PROVE  StoreStep
<1>1. RecOK(Found) /\ (Found = rec \/ Moves(rec, Found)) /\ RecOK(rec) /\ StrayOK
  BY FoundMoves DEF Inv
<1>2. CASE Read
  BY <1>1, <1>2 DEF Read, StoreStep, StrayOK
<1>3. CASE ReadFails
  <2>1. Retires(rec) => WriteOK([seen |-> rec.rev, next |-> Found])
    <3> SUFFICES ASSUME Retires(rec) PROVE WriteOK([seen |-> rec.rev, next |-> Found])
      OBVIOUS
    <3>1. rec \in JoinRecord /\ rec.rev \in Nat
      BY DEF Inv, Types, TypeOK, JoinRecord
    <3>2. Found.rev = rec.rev + 1
      BY <3>1 DEF Found, JoinRecord
    <3>3. Moves(rec, Found)
      BY <1>1, <3>1, <3>2
    <3> QED
      BY <1>1, <3>1, <3>2, <3>3 DEF WriteOK
  <2> QED
    BY <1>1, <1>3, <2>1 DEF ReadFails, StoreStep, StrayOK
<1> QED
  BY <1>2, <1>3

LEMMA ReplaceStore ==
    ASSUME Inv, NEW seen \in Nat, NEW next \in JoinRecord, seen <= rec.rev, RecOK(next),
           seen = rec.rev => Moves(rec, [next EXCEPT !.rev = seen + 1]),
           \/ ReplaceApplied(seen, next)
           \/ ReplaceConflict(seen)
           \/ ReplaceFails(seen, next)
    PROVE  StoreStep
<1> DEFINE s == [next EXCEPT !.rev = seen + 1]
<1>1. /\ s.rev = seen + 1 /\ s.state = next.state /\ s.owner = next.owner /\ s.creds = next.creds
  BY DEF JoinRecord
<1>2. RecOK(s)
  BY <1>1 DEF RecOK, Settled
<1>3. seen = rec.rev => Moves(rec, s)
  OBVIOUS
<1>4. RecOK(rec) /\ StrayOK
  BY DEF Inv
<1> HIDE DEF s
<1>5. WriteOK([seen |-> seen, next |-> s])
  BY <1>1, <1>2, <1>3 DEF WriteOK
<1> QED
  BY <1>2, <1>3, <1>4, <1>5 DEF ReplaceApplied, ReplaceConflict, ReplaceFails, StoreStep, StrayOK, s

-----------------------------------------------------------------------------
(* confirm() keeps the invariant *)

\* The invariant is kept, by a legal move of the record if it moved at all.
Kept == Inv' /\ (rec' = rec \/ Moves(rec, rec'))

\* Only this confirm has moved.
Alone(c) ==
    /\ conf'[c].by = conf[c].by
    /\ \A d \in Confirms \ {c} : conf'[d] = conf[d]
    /\ UNCHANGED <<late, poll, ready, invited, agent>>

LEMMA ConfirmFrame ==
    ASSUME Inv, Types', StoreStep, NEW c \in Confirms, Alone(c), ConfOK(c)'
    PROVE  Kept
<1>1. WorldStep
  BY DEF WorldStep, Alone
<1>2. RecOK(rec)' /\ StrayOK'
  BY <1>1, RecOKStep, StrayStep
<1>3. \A d \in Confirms : ConfOK(d)'
  BY <1>1, ConfStep DEF Alone
<1>4. \A g \in Polls : PollOK(g)'
  BY <1>1, PollStep DEF Alone
<1>5. \A g \in Readies : ReadyOK(g)'
  BY <1>1, ReadyStep DEF Alone
<1>6. AgentOK'
  BY <1>1, AgentStep DEF Alone
<1>7. OneHolder'
  BY DEF Inv, OneHolder, Alone
<1> QED
  BY <1>2, <1>3, <1>4, <1>5, <1>6, <1>7 DEF Inv, Kept, StoreStep

\* An answer other than `confirmed` promises nothing.
LEMMA ConfirmEnds ==
    ASSUME Inv, Types', StoreStep, NEW c \in Confirms, NEW r \in JoinRecord,
           NEW step \in ConfirmAnswers, ConfirmTo(c, step, r),
           step = "confirmed" => Settled(rec') /\ rec'.owner = OwnerOf(c)
    PROVE  Kept
<1>1. TypeOK /\ step \in ConfirmSteps \cup ConfirmAnswers
  BY DEF Inv, Types
<1>2. Alone(c) /\ conf'[c].pc = step
  BY <1>1, ConfirmToEffect DEF Alone
<1>3. ConfOK(c)'
  BY <1>2 DEF ConfOK, ConfirmSteps, ConfirmAnswers, SettledFor, Settled, OwnerOf, Alone
<1> QED
  BY <1>2, <1>3, ConfirmFrame

\* Owned, in the state the step leads to.
OwnedNext(r, human) ==
    /\ r.state = "pending" /\ r.creds = None /\ r.owner = human
    /\ r.rev <= rec'.rev
    /\ r.rev = rec'.rev => rec'.state = "pending" /\ rec'.owner = human

\* A confirm that goes on has the join to itself while the revision stands.
LEMMA ConfirmGoesOn ==
    ASSUME Inv, Types', StoreStep, NEW c \in Confirms, NEW r \in JoinRecord,
           NEW step \in ConfirmSteps \ {"read", "member", "lock"}, ConfirmTo(c, step, r),
           OwnedNext(r, OwnerOf(c))
    PROVE  Kept
<1>1. TypeOK /\ step \in ConfirmSteps \cup ConfirmAnswers
  BY DEF Inv, Types
<1>2. Alone(c) /\ conf'[c].pc = step
  BY <1>1, ConfirmToEffect DEF Alone
<1>3. conf'[c].record = r
  BY <1>1, ConfirmToEffect DEF ConfirmSteps, ConfirmAnswers
<1>4. ConfOK(c)'
  BY <1>2, <1>3 DEF ConfOK, OwnerOf, Owned, OwnedNext, ConfirmSteps, Alone
<1> QED
  BY <1>2, <1>4, ConfirmFrame

\* While the revision that was read stands, a step that writes nothing changes nothing.
LEMMA StillOwned ==
    ASSUME Inv, Types', StoreStep, WorldStep, NEW r \in JoinRecord, NEW human \in Owners, Owned(r, human)
    PROVE  OwnedNext(r, human)
<1>1. r.rev \in Nat /\ human # None
  BY NoneAssumption DEF JoinRecord
<1> QED
  BY <1>1, RecordStep DEF Owned, OwnedNext

\* A write by a confirm that owns the join is legal.
LEMMA OwnedWrite ==
    ASSUME Inv, NEW c \in Confirms, NEW r \in JoinRecord, Owned(r, OwnerOf(c)),
           NEW next \in JoinRecord, next.owner = r.owner,
           \/ next.state = "pending" /\ next.creds = None
           \/ next.state = "confirmed" /\ next.creds = c,
           \/ ReplaceApplied(r.rev, next)
           \/ ReplaceConflict(r.rev)
           \/ ReplaceFails(r.rev, next)
    PROVE  StoreStep
<1>1. r.rev \in Nat /\ rec \in JoinRecord /\ rec.rev \in Nat /\ OwnerOf(c) \in Owners
  BY DEF Inv, Types, TypeOK, JoinRecord, OwnerOf
<1>2. RecOK(next)
  BY <1>1, NoneAssumption DEF RecOK, Owned, Settled
<1> DEFINE s == [next EXCEPT !.rev = r.rev + 1]
<1>3. s.rev = r.rev + 1 /\ s.state = next.state /\ s.owner = next.owner
  BY DEF JoinRecord
<1>4. r.rev = rec.rev => Moves(rec, s)
  BY <1>1, <1>3 DEF Owned, Moves, Order
<1> QED
  BY <1>1, <1>2, <1>4, ReplaceStore DEF Owned

\* Every step of a confirm keeps the invariant.
LEMMA ConfirmInv ==
    ASSUME Inv, NEW c \in Confirms, Confirm(c)
    PROVE  Kept
<1>1. Types' /\ TypeOK /\ ConfOK(c) /\ RecOK(rec) /\ StrayOK
  BY ConfirmTypes DEF Inv, Types
<1>2. PICK r \in JoinRecord : r = conf[c].record
  BY <1>1, LocalRecords
<1>3. r.rev \in Nat /\ OwnerOf(c) \in Owners /\ OwnerOf(c) # None /\ rec \in JoinRecord /\ rec.rev \in Nat
  BY <1>1, <1>2, NoneAssumption DEF TypeOK, OwnerOf, JoinRecord
<1>4. UNCHANGED <<rec, stray, faults>> => StoreStep
  BY <1>1 DEF StoreStep, StrayOK
<1>5. ConfirmAnswers = {"confirmed", "expired", "already_confirmed_by_other", "not_member", "unavailable"}
  BY DEF ConfirmAnswers
<1>6. {"provision", "stage", "stageRead", "restage", "staged", "confirm", "confirmRead"}
         \subseteq ConfirmSteps \ {"read", "member", "lock"}
  BY DEF ConfirmSteps
<1>7. ASSUME NEW step \in ConfirmSteps \cup ConfirmAnswers, NEW s \in JoinRecord, ConfirmTo(c, step, s)
      PROVE  WorldStep /\ Alone(c)
  <2>1. Alone(c)
    BY <1>1, <1>7, ConfirmToEffect DEF Alone
  <2> QED
    BY <2>1 DEF Alone, WorldStep
<1>8. CASE ConfirmRead(c)
  <2>1. StoreStep
    BY <1>8, ReadStore DEF ConfirmRead
  <2>2. CASE ReadFails /\ ConfirmTo(c, "unavailable", conf[c].record)
    BY <1>1, <1>2, <1>5, <2>1, <2>2, ConfirmEnds
  <2>3. CASE Read /\ ConfirmTo(c, "member", Found)
    <3>1. Found \in JoinRecord /\ "member" \in ConfirmSteps \cup ConfirmAnswers /\ "member" \notin ConfirmAnswers
      BY <1>1, FoundType DEF ConfirmSteps, ConfirmAnswers
    <3>2. Alone(c) /\ WorldStep /\ conf'[c].pc = "member" /\ conf'[c].record = Found /\ rec' = Found
      BY <1>1, <1>7, <2>3, <3>1, ConfirmToEffect DEF Read
    <3>3. Found.rev \in Nat
      BY <3>1 DEF JoinRecord
    <3>4. RecOK(rec)'
      BY <1>1, <2>1, <3>2, RecOKStep
    <3>5. ConfOK(c)'
      <4>1. Copy(conf[c].record)'
        BY <3>2, <3>3 DEF Copy
      <4>2. RecOK(conf[c].record)'
        BY <3>2, <3>4
      <4>3. Settled(conf[c].record)' => SettledFor(conf[c].record.owner)'
        BY <3>2 DEF SettledFor
      <4> QED
        BY <3>2, <4>1, <4>2, <4>3 DEF ConfOK
    <3> QED
      BY <1>1, <2>1, <3>2, <3>5, ConfirmFrame
  <2> QED
    BY <1>8, <2>2, <2>3 DEF ConfirmRead
<1>9. CASE ConfirmMember(c)
  <2>1. StoreStep /\ rec' = rec
    BY <1>4, <1>9 DEF ConfirmMember
  <2>2. Copy(r) /\ RecOK(r) /\ (Settled(r) => SettledFor(r.owner))
    BY <1>1, <1>2, <1>9 DEF ConfOK, ConfirmMember
  <2>3. CASE \E answer \in {"not_member", "unavailable", "expired", "already_confirmed_by_other"} : ConfirmTo(c, answer, r)
    BY <1>1, <1>5, <2>1, <2>3, ConfirmEnds
  <2>4. CASE /\ EffectiveState(r) # "expired" /\ r.owner \in {None, OwnerOf(c)} /\ Settled(r)
             /\ ConfirmTo(c, "confirmed", r)
    <3>1. Settled(rec') /\ rec'.owner = OwnerOf(c)
      BY <2>1, <2>2, <2>4 DEF SettledFor, RecOK
    <3> QED
      BY <1>1, <1>5, <2>1, <2>4, <3>1, ConfirmEnds
  <2>5. CASE /\ EffectiveState(r) # "expired" /\ ~Settled(r) /\ r.owner = None
             /\ ConfirmTo(c, "lock", r)
    <3>1. r.state = "pending" /\ r.creds = None
      BY <2>2, <2>5 DEF RecOK, Settled, EffectiveState, JoinRecord, JoinStates
    <3>2. Alone(c) /\ conf'[c].pc = "lock" /\ conf'[c].record = r
      BY <1>1, <1>7, <2>5, ConfirmToEffect DEF ConfirmSteps, ConfirmAnswers
    <3>3. ConfOK(c)'
      BY <2>1, <2>2, <2>5, <3>1, <3>2 DEF ConfOK, Copy, ConfirmSteps
    <3> QED
      BY <1>1, <2>1, <3>2, <3>3, ConfirmFrame
  <2>6. CASE /\ EffectiveState(r) # "expired" /\ ~Settled(r) /\ r.owner = OwnerOf(c)
             /\ ConfirmTo(c, "provision", r)
    <3>1. r.state = "pending" /\ r.creds = None
      BY <2>2, <2>6 DEF RecOK, Settled, EffectiveState, JoinRecord, JoinStates
    <3>2. OwnedNext(r, OwnerOf(c))
      BY <2>1, <2>2, <2>6, <3>1 DEF OwnedNext, Copy
    <3> QED
      BY <1>1, <1>6, <2>1, <2>6, <3>2, ConfirmGoesOn
  <2> QED
    BY <1>2, <1>3, <1>9, <2>3, <2>4, <2>5, <2>6 DEF ConfirmMember
<1>10. CASE ConfirmLock(c)
  <2>1. Copy(r) /\ r.state = "pending" /\ r.creds = None /\ r.owner = None
    BY <1>1, <1>2, <1>10 DEF ConfOK, ConfirmLock
  <2> DEFINE mine == [r EXCEPT !.owner = OwnerOf(c)]
  <2> DEFINE won == [mine EXCEPT !.rev = r.rev + 1]
  <2>2. /\ mine \in JoinRecord /\ mine.rev = r.rev /\ mine.owner = OwnerOf(c) /\ mine.state = "pending"
        /\ mine.creds = None
    BY <1>3, <2>1 DEF JoinRecord
  <2>3. /\ won \in JoinRecord /\ won.rev = r.rev + 1 /\ won.owner = OwnerOf(c) /\ won.state = "pending"
        /\ won.creds = None
    <3> HIDE DEF mine
    <3>1. r.rev + 1 \in Nat
      BY <1>3
    <3> QED
      BY <2>2, <3>1 DEF JoinRecord
  <2>4. RecOK(mine) /\ (r.rev = rec.rev => Moves(rec, won))
    BY <1>3, <2>1, <2>2, <2>3 DEF RecOK, Moves, Copy, Settled, Order
  <2>5. \/ ReplaceApplied(r.rev, mine) /\ ConfirmTo(c, "provision", won)
        \/ /\ ReplaceConflict(r.rev)
           /\ conf' = [conf EXCEPT ![c] = [by |-> OwnerOf(c), tries |-> 1, record |-> Fresh,
                        pc |-> IF conf[c].tries = 0 THEN "read" ELSE "unavailable"]]
           /\ UNCHANGED <<late, poll, ready, invited, agent>>
        \/ ReplaceFails(r.rev, mine) /\ ConfirmTo(c, "unavailable", r)
    BY <1>2, <1>10 DEF ConfirmLock
  <2>6. r.rev <= rec.rev
    BY <2>1 DEF Copy
  <2> HIDE DEF mine
  <2>7. StoreStep
    BY <1>3, <2>2, <2>4, <2>5, <2>6, ReplaceStore
  <2>8. CASE ReplaceApplied(r.rev, mine) /\ ConfirmTo(c, "provision", won)
    <3>1. rec' = won
      BY <2>8 DEF ReplaceApplied
    <3> HIDE DEF won
    <3>2. OwnedNext(won, OwnerOf(c))
      BY <1>3, <2>3, <3>1 DEF OwnedNext
    <3> QED
      BY <1>1, <1>6, <2>3, <2>7, <2>8, <3>2, ConfirmGoesOn
  <2>9. CASE /\ conf' = [conf EXCEPT ![c] = [by |-> OwnerOf(c), tries |-> 1, record |-> Fresh,
                          pc |-> IF conf[c].tries = 0 THEN "read" ELSE "unavailable"]]
             /\ UNCHANGED <<late, poll, ready, invited, agent>>
    <3>1. Alone(c) /\ conf'[c].pc \in {"read", "unavailable"}
      BY <1>1, <2>9 DEF TypeOK, OwnerOf, Alone
    <3>2. ConfOK(c)'
      BY <3>1 DEF ConfOK, ConfirmSteps
    <3> QED
      BY <1>1, <2>7, <3>1, <3>2, ConfirmFrame
  <2>10. CASE ConfirmTo(c, "unavailable", r)
    BY <1>1, <1>5, <2>7, <2>10, ConfirmEnds
  <2> QED
    BY <2>5, <2>8, <2>9, <2>10
<1>11. ASSUME conf[c].pc \in ConfirmSteps \ {"read", "member", "lock"} PROVE Owned(r, OwnerOf(c))
  BY <1>1, <1>2, <1>11 DEF ConfOK
<1>12. CASE ConfirmProvision(c)
  <2>1. Owned(r, OwnerOf(c)) /\ StoreStep /\ rec' = rec
    BY <1>4, <1>6, <1>11, <1>12 DEF ConfirmProvision
  <2>2. CASE \E answer \in {"not_member", "unavailable"} : ConfirmTo(c, answer, r)
    BY <1>1, <1>5, <2>1, <2>2, ConfirmEnds
  <2>3. CASE \E n \in Names : ConfirmTo(c, IF EffectiveState(r) = "expired" THEN "expired" ELSE "stage",
                                         [r EXCEPT !.name = n])
    <3>1. PICK n \in Names : ConfirmTo(c, IF EffectiveState(r) = "expired" THEN "expired" ELSE "stage",
                                       [r EXCEPT !.name = n])
      BY <2>3
    <3> DEFINE named == [r EXCEPT !.name = n]
    <3>2. /\ named \in JoinRecord /\ named.rev = r.rev /\ named.owner = r.owner /\ named.state = r.state
          /\ named.creds = r.creds
      BY DEF JoinRecord
    <3>3. ConfirmTo(c, "expired", named) \/ ConfirmTo(c, "stage", named)
      BY <3>1
    <3> HIDE DEF named
    <3>4. OwnedNext(named, OwnerOf(c))
      BY <2>1, <3>2 DEF Owned, OwnedNext
    <3> QED
      BY <1>1, <1>5, <1>6, <2>1, <3>2, <3>3, <3>4, ConfirmEnds, ConfirmGoesOn
  <2> QED
    BY <1>2, <1>12, <2>2, <2>3 DEF ConfirmProvision
<1>13. CASE ConfirmStage(c)
  <2> DEFINE staged == [r EXCEPT !.rev = r.rev + 1]
  <2>1. Owned(r, OwnerOf(c))
    BY <1>6, <1>11, <1>13 DEF ConfirmStage
  <2>2. \/ ReplaceApplied(r.rev, r) /\ ConfirmTo(c, "staged", staged)
        \/ ReplaceConflict(r.rev) /\ (ConfirmTo(c, "stageRead", r) \/ ConfirmTo(c, "unavailable", r))
        \/ ReplaceFails(r.rev, r) /\ ConfirmTo(c, "unavailable", r)
    BY <1>2, <1>13 DEF ConfirmStage
  <2>3. StoreStep
    BY <2>1, <2>2, OwnedWrite DEF Owned
  <2>4. /\ staged \in JoinRecord /\ staged.rev = r.rev + 1 /\ staged.owner = OwnerOf(c)
        /\ staged.state = "pending" /\ staged.creds = None
    BY <1>3, <2>1 DEF JoinRecord, Owned
  <2>5. CASE ReplaceApplied(r.rev, r) /\ ConfirmTo(c, "staged", staged)
    <3>1. rec' = staged
      BY <2>5 DEF ReplaceApplied
    <3> HIDE DEF staged
    <3>2. OwnedNext(staged, OwnerOf(c))
      BY <1>3, <2>4, <3>1 DEF OwnedNext
    <3> QED
      BY <1>1, <1>6, <2>3, <2>4, <2>5, <3>2, ConfirmGoesOn
  <2>6. CASE ConfirmTo(c, "stageRead", r)
    <3>1. WorldStep
      BY <1>6, <1>7, <2>6
    <3>2. OwnedNext(r, OwnerOf(c))
      BY <1>1, <1>3, <2>1, <2>3, <3>1, StillOwned
    <3> QED
      BY <1>1, <1>6, <2>3, <2>6, <3>2, ConfirmGoesOn
  <2>7. CASE ConfirmTo(c, "unavailable", r)
    BY <1>1, <1>5, <2>3, <2>7, ConfirmEnds
  <2> QED
    BY <2>2, <2>5, <2>6, <2>7
<1>14. CASE ConfirmStageRead(c)
  <2>1. Owned(r, OwnerOf(c)) /\ StoreStep
    BY <1>6, <1>11, <1>14, ReadStore DEF ConfirmStageRead
  <2>2. CASE ConfirmTo(c, "unavailable", r)
    BY <1>1, <1>5, <2>1, <2>2, ConfirmEnds
  <2>3. Found \in JoinRecord /\ Found.rev \in Nat /\ Found.state \in JoinStates
    BY <1>1, FoundType DEF JoinRecord
  <2> DEFINE seen == [r EXCEPT !.rev = Found.rev]
  <2>4. /\ seen \in JoinRecord /\ seen.rev = Found.rev /\ seen.owner = OwnerOf(c)
        /\ seen.state = "pending" /\ seen.creds = None
    BY <2>1, <2>3 DEF JoinRecord, Owned
  <2>5. CASE /\ Read
             /\ ConfirmTo(c, IF Found.owner # OwnerOf(c) THEN "unavailable"
                             ELSE IF Settled(Found) \/ EffectiveState(Found) = "expired" THEN View(Found)
                             ELSE IF Found.name = r.name THEN "staged" ELSE "restage", seen)
    <3>1. rec' = Found
      BY <2>5 DEF Read
    <3> HIDE DEF seen
    <3>2. CASE Found.owner # OwnerOf(c)
      BY <1>1, <1>5, <2>1, <2>4, <2>5, <3>2, ConfirmEnds
    <3>3. CASE Found.owner = OwnerOf(c) /\ (Settled(Found) \/ EffectiveState(Found) = "expired")
      <4>1. View(Found) \in {"expired", "confirmed"} /\ ConfirmTo(c, View(Found), seen)
        BY <2>5, <3>3 DEF View
      <4>2. View(Found) = "confirmed" => Settled(rec') /\ rec'.owner = OwnerOf(c)
        BY <3>1, <3>3 DEF View
      <4> QED
        BY <1>1, <1>5, <2>1, <2>4, <4>1, <4>2, ConfirmEnds
    <3>4. CASE Found.owner = OwnerOf(c) /\ ~Settled(Found) /\ EffectiveState(Found) # "expired"
      <4>1. Found.state = "pending"
        BY <2>3, <3>4 DEF Settled, EffectiveState, JoinStates
      <4>2. OwnedNext(seen, OwnerOf(c))
        BY <2>3, <2>4, <3>1, <3>4, <4>1 DEF OwnedNext
      <4>3. ConfirmTo(c, "staged", seen) \/ ConfirmTo(c, "restage", seen)
        BY <2>5, <3>4
      <4> QED
        BY <1>1, <1>6, <2>1, <2>4, <4>2, <4>3, ConfirmGoesOn
    <3> QED
      BY <3>2, <3>3, <3>4
  <2> QED
    BY <1>2, <1>14, <2>2, <2>5 DEF ConfirmStageRead
<1>15. CASE ConfirmStaged(c)
  <2>1. Owned(r, OwnerOf(c)) /\ StoreStep
    BY <1>4, <1>6, <1>11, <1>15, ReadStore DEF ConfirmStaged
  <2>2. CASE ConfirmTo(c, "expired", r) \/ ConfirmTo(c, "unavailable", r)
    BY <1>1, <1>5, <2>1, <2>2, ConfirmEnds
  <2>3. CASE ConfirmTo(c, "confirm", r)
    <3>1. WorldStep
      BY <1>6, <1>7, <2>3
    <3>2. OwnedNext(r, OwnerOf(c))
      BY <1>1, <1>3, <2>1, <3>1, StillOwned
    <3> QED
      BY <1>1, <1>6, <2>1, <2>3, <3>2, ConfirmGoesOn
  <2> QED
    BY <1>2, <1>15, <2>2, <2>3 DEF ConfirmStaged
<1>16. CASE ConfirmConfirm(c)
  <2> DEFINE next == [r EXCEPT !.state = "confirmed", !.creds = c]
  <2>1. Owned(r, OwnerOf(c))
    BY <1>6, <1>11, <1>16 DEF ConfirmConfirm
  <2>2. next \in JoinRecord /\ next.owner = r.owner /\ next.state = "confirmed" /\ next.creds = c
    BY DEF JoinRecord, JoinStates
  <2>3. \/ /\ ReplaceApplied(r.rev, next)
           /\ ConfirmTo(c, View(next), next) \/ ConfirmTo(c, "unavailable", next)
        \/ ReplaceConflict(r.rev) /\ ConfirmTo(c, "confirmRead", r)
        \/ ReplaceFails(r.rev, next) /\ ConfirmTo(c, "unavailable", r)
    BY <1>2, <1>16 DEF ConfirmConfirm
  <2> HIDE DEF next
  <2>4. StoreStep
    BY <2>1, <2>2, <2>3, OwnedWrite
  <2>5. CASE ReplaceApplied(r.rev, next) /\ ConfirmTo(c, View(next), next)
    <3>1. rec'.state = "confirmed" /\ rec'.owner = OwnerOf(c)
      BY <2>1, <2>2, <2>5 DEF ReplaceApplied, Owned, JoinRecord
    <3>2. View(next) \in ConfirmAnswers
      BY <1>5 DEF View
    <3> QED
      BY <1>1, <2>2, <2>4, <2>5, <3>1, <3>2, ConfirmEnds DEF Settled
  <2>6. CASE ConfirmTo(c, "confirmRead", r)
    <3>1. WorldStep
      BY <1>6, <1>7, <2>6
    <3>2. OwnedNext(r, OwnerOf(c))
      BY <1>1, <1>3, <2>1, <2>4, <3>1, StillOwned
    <3> QED
      BY <1>1, <1>6, <2>4, <2>6, <3>2, ConfirmGoesOn
  <2>7. CASE ConfirmTo(c, "unavailable", next) \/ ConfirmTo(c, "unavailable", r)
    BY <1>1, <1>5, <2>2, <2>4, <2>7, ConfirmEnds
  <2> QED
    BY <2>3, <2>5, <2>6, <2>7
<1>17. CASE ConfirmConfirmRead(c)
  <2>1. StoreStep
    BY <1>17, ReadStore DEF ConfirmConfirmRead
  <2>2. CASE ConfirmTo(c, "unavailable", r)
    BY <1>1, <1>5, <2>1, <2>2, ConfirmEnds
  <2>3. CASE Read /\ Found.owner = OwnerOf(c) /\ Settled(Found) /\ ConfirmTo(c, View(Found), r)
    <3>1. View(Found) \in ConfirmAnswers /\ rec' = Found
      BY <1>5, <2>3 DEF View, Read
    <3> QED
      BY <1>1, <2>1, <2>3, <3>1, ConfirmEnds
  <2> QED
    BY <1>2, <1>17, <2>2, <2>3 DEF ConfirmConfirmRead
<1> QED
  BY <1>8, <1>9, <1>10, <1>12, <1>13, <1>14, <1>15, <1>16, <1>17 DEF Confirm

-----------------------------------------------------------------------------
(* The agent's routes keep the invariant *)

\* Only this poll has moved.
PollFrameStep(g) ==
    /\ \A h \in Polls \ {g} : poll'[h] = poll[h]
    /\ UNCHANGED <<late, conf, ready, invited, agent>>

LEMMA PollFrame ==
    ASSUME Inv, Types', StoreStep, NEW g \in Polls, PollFrameStep(g), PollOK(g)', OneHolder'
    PROVE  Kept
<1>1. WorldStep
  BY DEF WorldStep, PollFrameStep
<1>2. RecOK(rec)' /\ StrayOK' /\ AgentOK'
  BY <1>1, RecOKStep, StrayStep, AgentStep DEF PollFrameStep
<1>3. \A d \in Confirms : ConfOK(d)'
  BY <1>1, ConfStep DEF PollFrameStep
<1>4. \A h \in Polls : PollOK(h)'
  BY <1>1, PollStep DEF PollFrameStep
<1>5. \A h \in Readies : ReadyOK(h)'
  BY <1>1, ReadyStep DEF PollFrameStep
<1> QED
  BY <1>2, <1>3, <1>4, <1>5 DEF Inv, Kept, StoreStep

\* Every step of a poll keeps the invariant.
LEMMA PollInv ==
    ASSUME Inv, NEW g \in Polls, Poll(g)
    PROVE  Kept
<1>1. Types' /\ TypeOK /\ PollOK(g) /\ RecOK(rec) /\ StrayOK
  BY PollTypes DEF Inv, Types
<1>2. PICK r \in JoinRecord : r = poll[g].record
  BY <1>1, LocalRecords
<1>3. r.rev \in Nat /\ rec \in JoinRecord /\ rec.rev \in Nat /\ Found \in JoinRecord
      /\ Found.rev \in Nat /\ Found.state \in JoinStates
  BY <1>1, <1>2, FoundType DEF TypeOK, JoinRecord
<1>4. ASSUME NEW step \in PollSteps \cup PollAnswers, NEW s \in JoinRecord, PollTo(g, step, s)
      PROVE  /\ PollFrameStep(g)
             /\ poll'[g].pc = step
             /\ step \in {"claim", "credentials"} => poll'[g].record = s
  BY <1>1, <1>4, PollToEffect DEF PollFrameStep, PollSteps, PollAnswers
\* Any step but the one that hands the credentials over.
<1>5. ASSUME NEW step \in PollSteps \cup PollAnswers, NEW s \in JoinRecord, PollTo(g, step, s),
             StoreStep, step \notin {"claim", "credentials"},
             step \in {"claimed", "expired"} => Over'
      PROVE  Kept
  <2>1. PollFrameStep(g) /\ poll'[g].pc = step
    BY <1>4, <1>5
  <2>2. PollOK(g)'
    BY <1>5, <2>1 DEF PollOK
  <2>3. OneHolder'
    BY <1>5, <2>1 DEF Inv, OneHolder, PollFrameStep
  <2> QED
    BY <1>1, <1>5, <2>1, <2>2, <2>3, PollFrame
<1>6. CASE PollRead(g)
  <2>1. StoreStep
    BY <1>6, ReadStore DEF PollRead
  <2>2. CASE PollTo(g, "not_found", r)
    BY <1>5, <2>1, <2>2 DEF PollAnswers
  <2> DEFINE s == EffectiveState(Found)
  <2>3. CASE Read /\ s = "confirmed" /\ PollTo(g, "claim", Found)
    <3>1. PollFrameStep(g) /\ poll'[g].pc = "claim" /\ poll'[g].record = Found /\ rec' = Found
      BY <1>3, <1>4, <2>3 DEF PollSteps, Read
    <3>2. WorldStep
      BY <3>1 DEF WorldStep, PollFrameStep
    <3>3. RecOK(rec)' /\ Found.state = "confirmed"
      BY <1>1, <2>1, <2>3, <3>2, RecOKStep DEF EffectiveState
    <3>4. RecOK(poll[g].record)'
      BY <3>1, <3>3
    <3>5. PollOK(g)'
      BY <1>3, <3>1, <3>3, <3>4 DEF PollOK, Copy
    <3>6. OneHolder'
      BY <3>1 DEF Inv, OneHolder, PollFrameStep
    <3> QED
      BY <1>1, <2>1, <3>1, <3>5, <3>6, PollFrame
  <2>4. CASE Read /\ s # "confirmed" /\ PollTo(g, IF s = "ready" THEN "claimed" ELSE s, Found)
    <3>1. s \in {"pending", "claimed", "ready", "expired"} /\ rec' = Found /\ late' = late
      BY <1>3, <2>4 DEF EffectiveState, JoinStates, Read, PollTo
    <3>2. s # "pending" => Over'
      BY <3>1 DEF EffectiveState, Over
    <3> HIDE DEF s
    <3> QED
      BY <1>3, <1>5, <2>1, <2>4, <3>1, <3>2 DEF PollAnswers
  <2> QED
    BY <1>2, <1>6, <2>2, <2>3, <2>4 DEF PollRead
<1>7. CASE PollClaim(g)
  <2> DEFINE next == [r EXCEPT !.state = "claimed", !.creds = None]
  <2>1. Copy(r) /\ RecOK(r) /\ r.state = "confirmed" /\ r.rev <= rec.rev
    BY <1>1, <1>2, <1>7 DEF PollOK, PollClaim, Copy
  <2>2. next \in JoinRecord /\ next.owner = r.owner /\ next.state = "claimed" /\ next.creds = None
    BY DEF JoinRecord, JoinStates
  <2>3. \/ ReplaceApplied(r.rev, next) /\ PollTo(g, "credentials", r)
        \/ ReplaceConflict(r.rev) /\ PollTo(g, "claimRead", r)
        \/ ReplaceFails(r.rev, next) /\ PollTo(g, "unavailable", r)
    BY <1>2, <1>7 DEF PollClaim
  <2> HIDE DEF next
  <2>4. RecOK(next)
    BY <2>1, <2>2 DEF RecOK, Settled
  <2>5. r.rev = rec.rev => Moves(rec, [next EXCEPT !.rev = r.rev + 1])
    BY <1>3, <2>1, <2>2 DEF Moves, Copy, Order, JoinRecord
  <2>6. StoreStep
    BY <1>3, <2>1, <2>2, <2>3, <2>4, <2>5, ReplaceStore
  <2>7. CASE PollTo(g, "claimRead", r) \/ PollTo(g, "unavailable", r)
    BY <1>5, <2>6, <2>7 DEF PollSteps, PollAnswers
  <2>8. CASE ReplaceApplied(r.rev, next) /\ PollTo(g, "credentials", r)
    <3>1. PollFrameStep(g) /\ poll'[g].pc = "credentials" /\ poll'[g].record = r
      BY <1>4, <2>8 DEF PollAnswers
    <3>2. rec = r /\ rec'.state = "claimed" /\ rec'.owner = r.owner
      BY <1>3, <2>1, <2>2, <2>8 DEF ReplaceApplied, Copy, JoinRecord
    <3>3. r.creds # None /\ OwnerOf(r.creds) = r.owner /\ OwnerOf(r.creds)' = OwnerOf(r.creds)
      BY <2>1, <3>1 DEF RecOK, PollFrameStep, OwnerOf
    <3>4. PollOK(g)'
      BY <3>1, <3>2, <3>3 DEF PollOK, HoldsCredentials, OwnerOf, PollFrameStep
    <3>5. \A h \in Polls : poll[h].pc # "credentials"
      BY <2>1, <3>2 DEF Inv, PollOK
    <3>6. OneHolder'
      BY <3>1, <3>5 DEF OneHolder, PollFrameStep
    <3> QED
      BY <1>1, <2>6, <3>1, <3>4, <3>6, PollFrame
  <2> QED
    BY <2>3, <2>7, <2>8
<1>8. CASE PollClaimRead(g)
  <2>1. StoreStep
    BY <1>8, ReadStore DEF PollClaimRead
  <2>2. CASE PollTo(g, "unavailable", r)
    BY <1>5, <2>1, <2>2 DEF PollAnswers
  <2>3. CASE Read /\ Found.state \in {"claimed", "ready"} /\ PollTo(g, "claimed", r)
    <3>1. Over'
      BY <2>3 DEF Over, Read
    <3> QED
      BY <1>5, <2>1, <2>3, <3>1 DEF PollAnswers
  <2> QED
    BY <1>2, <1>8, <2>2, <2>3 DEF PollClaimRead
<1> QED
  BY <1>6, <1>7, <1>8 DEF Poll

\* Only this ready report has moved, and the invitation if it sent one.
ReadyFrameStep(g) ==
    /\ \A h \in Readies \ {g} : ready'[h] = ready[h]
    /\ UNCHANGED <<late, conf, poll, agent>>

LEMMA ReadyFrame ==
    ASSUME Inv, Types', StoreStep, NEW g \in Readies, ReadyFrameStep(g), invited => invited', ReadyOK(g)'
    PROVE  Kept
<1>1. WorldStep
  BY DEF WorldStep, ReadyFrameStep
<1>2. RecOK(rec)' /\ StrayOK' /\ AgentOK'
  BY <1>1, RecOKStep, StrayStep, AgentStep DEF ReadyFrameStep
<1>3. \A d \in Confirms : ConfOK(d)'
  BY <1>1, ConfStep DEF ReadyFrameStep
<1>4. \A h \in Polls : PollOK(h)'
  BY <1>1, PollStep DEF ReadyFrameStep
<1>5. \A h \in Readies : ReadyOK(h)'
  BY <1>1, ReadyStep DEF ReadyFrameStep
<1>6. OneHolder'
  BY DEF Inv, OneHolder, ReadyFrameStep
<1> QED
  BY <1>2, <1>3, <1>4, <1>5, <1>6 DEF Inv, Kept, StoreStep

\* Every step of a ready report keeps the invariant.
LEMMA ReadyInv ==
    ASSUME Inv, NEW g \in Readies, Ready(g)
    PROVE  Kept
<1>1. Types' /\ TypeOK /\ ReadyOK(g) /\ RecOK(rec) /\ StrayOK /\ invited \in BOOLEAN
  BY ReadyTypes DEF Inv, Types, TypeOK
<1>2. PICK r \in JoinRecord : r = ready[g].record
  BY <1>1, LocalRecords
<1>3. r.rev \in Nat /\ rec \in JoinRecord /\ rec.rev \in Nat /\ Found \in JoinRecord /\ Found.rev \in Nat
  BY <1>1, <1>2, FoundType DEF TypeOK, JoinRecord
<1>4. ASSUME NEW step \in ReadySteps \cup ReadyAnswers, NEW s \in JoinRecord, ReadyTo(g, step, s)
      PROVE  /\ ReadyFrameStep(g)
             /\ ready'[g].pc = step
             /\ step \in {"invite", "mark"} => ready'[g].record = s
  BY <1>1, <1>4, ReadyToEffect DEF ReadyFrameStep, ReadySteps, ReadyAnswers
<1>5. ASSUME NEW step \in ReadySteps \cup ReadyAnswers, NEW s \in JoinRecord, ReadyTo(g, step, s),
             StoreStep, invited => invited', step \notin {"invite", "mark"},
             step = "done" => rec'.state = "ready"
      PROVE  Kept
  <2>1. ReadyFrameStep(g) /\ ready'[g].pc = step
    BY <1>4, <1>5
  <2>2. ReadyOK(g)'
    BY <1>5, <2>1 DEF ReadyOK
  <2> QED
    BY <1>1, <1>5, <2>1, <2>2, ReadyFrame
<1>6. CASE ReadyRead(g)
  <2>1. StoreStep /\ invited' = invited
    BY <1>6, ReadStore DEF ReadyRead
  <2>2. CASE ReadyTo(g, "not_found", r)
    BY <1>5, <2>1, <2>2 DEF ReadyAnswers
  <2>3. CASE Read /\ Found.state = "claimed" /\ ReadyTo(g, "invite", Found)
    <3>1. ReadyFrameStep(g) /\ ready'[g].pc = "invite" /\ ready'[g].record = Found /\ rec' = Found
      BY <1>3, <1>4, <2>3 DEF ReadySteps, Read
    <3>2. WorldStep
      BY <2>1, <3>1 DEF WorldStep, ReadyFrameStep
    <3>3. RecOK(rec)'
      BY <1>1, <2>1, <3>2, RecOKStep
    <3>4. RecOK(ready[g].record)'
      BY <3>1, <3>3
    <3>5. ReadyOK(g)'
      BY <1>3, <2>3, <3>1, <3>4 DEF ReadyOK, Copy
    <3> QED
      BY <1>1, <2>1, <3>1, <3>5, ReadyFrame
  <2>4. CASE Read /\ Found.state = "ready" /\ ReadyTo(g, "done", Found)
    <3>1. rec'.state = "ready"
      BY <2>4 DEF Read
    <3> QED
      BY <1>3, <1>5, <2>1, <2>4, <3>1 DEF ReadyAnswers
  <2>5. CASE ReadyTo(g, "not_confirmed", Found)
    BY <1>3, <1>5, <2>1, <2>5 DEF ReadyAnswers
  <2> QED
    BY <1>2, <1>6, <2>2, <2>3, <2>4, <2>5 DEF ReadyRead
<1>7. CASE ReadyInvite(g)
  <2>1. StoreStep /\ UNCHANGED rec
    BY <1>1, <1>7 DEF ReadyInvite, StoreStep, StrayOK
  <2>2. invited => invited'
    BY <1>7 DEF ReadyInvite
  <2>3. CASE ReadyTo(g, "unavailable", r)
    BY <1>5, <2>1, <2>2, <2>3 DEF ReadyAnswers
  <2>4. CASE invited' /\ ReadyTo(g, "mark", r)
    <3>1. ReadyFrameStep(g) /\ ready'[g].pc = "mark" /\ ready'[g].record = r
      BY <1>4, <2>4 DEF ReadySteps
    <3>2. Copy(r) /\ RecOK(r) /\ r.state = "claimed"
      BY <1>1, <1>2, <1>7 DEF ReadyOK, ReadyInvite
    <3>3. WorldStep
      BY <2>2, <3>1 DEF WorldStep, ReadyFrameStep
    <3>4. RecOK(ready[g].record)'
      BY <1>1, <3>1, <3>2, <3>3, RecOKKept DEF RecOK, OwnerOf, Settled
    <3>5. ReadyOK(g)'
      BY <2>1, <2>4, <3>1, <3>2, <3>4 DEF ReadyOK, Copy
    <3> QED
      BY <1>1, <2>1, <2>2, <3>1, <3>5, ReadyFrame
  <2> QED
    BY <1>2, <1>7, <2>3, <2>4 DEF ReadyInvite
<1>8. CASE ReadyMark(g)
  <2> DEFINE next == [r EXCEPT !.state = "ready"]
  <2>1. Copy(r) /\ RecOK(r) /\ r.state = "claimed" /\ r.rev <= rec.rev /\ invited
    BY <1>1, <1>2, <1>8 DEF ReadyOK, ReadyMark, Copy
  <2>2. next \in JoinRecord /\ next.owner = r.owner /\ next.state = "ready" /\ next.creds = r.creds
    BY DEF JoinRecord, JoinStates
  <2>3. /\ \/ ReplaceApplied(r.rev, next) /\ ReadyTo(g, "done", r)
           \/ ReplaceConflict(r.rev) /\ ReadyTo(g, "markRead", r)
           \/ ReplaceFails(r.rev, next) /\ ReadyTo(g, "unavailable", r)
        /\ invited' = invited
    BY <1>2, <1>8 DEF ReadyMark
  <2> HIDE DEF next
  <2>4. RecOK(next)
    BY <2>1, <2>2 DEF RecOK, Settled
  <2>5. r.rev = rec.rev => Moves(rec, [next EXCEPT !.rev = r.rev + 1])
    BY <1>3, <2>1, <2>2 DEF Moves, Copy, Order, JoinRecord
  <2>6. StoreStep
    BY <1>3, <2>1, <2>2, <2>3, <2>4, <2>5, ReplaceStore
  <2>7. CASE ReadyTo(g, "markRead", r) \/ ReadyTo(g, "unavailable", r)
    BY <1>5, <2>3, <2>6, <2>7 DEF ReadySteps, ReadyAnswers
  <2>8. CASE ReplaceApplied(r.rev, next) /\ ReadyTo(g, "done", r)
    <3>1. rec'.state = "ready"
      BY <2>2, <2>8 DEF ReplaceApplied, JoinRecord
    <3> QED
      BY <1>5, <2>3, <2>6, <2>8, <3>1 DEF ReadyAnswers
  <2> QED
    BY <2>3, <2>7, <2>8
<1>9. CASE ReadyMarkRead(g)
  <2>1. StoreStep /\ invited' = invited
    BY <1>9, ReadStore DEF ReadyMarkRead
  <2>2. CASE ReadyTo(g, "unavailable", r)
    BY <1>5, <2>1, <2>2 DEF ReadyAnswers
  <2>3. CASE Read /\ Found.state = "ready" /\ ReadyTo(g, "done", r)
    <3>1. rec'.state = "ready"
      BY <2>3 DEF Read
    <3> QED
      BY <1>5, <2>1, <2>3, <3>1 DEF ReadyAnswers
  <2> QED
    BY <1>2, <1>9, <2>2, <2>3 DEF ReadyMarkRead
<1> QED
  BY <1>6, <1>7, <1>8, <1>9 DEF Ready

-----------------------------------------------------------------------------
(* The agent, the clock and the store keep the invariant *)

\* The agent moves, and nothing it believes is wrong.
LEMMA AgentFrame ==
    ASSUME Inv, Types', UNCHANGED <<rec, late, stray, conf, invited>>, AgentOK',
           \A g \in Polls : poll'[g] = poll[g] \/ poll'[g].pc = "read",
           \A g \in Readies : ready'[g] = ready[g] \/ ready'[g].pc = "read"
    PROVE  Kept
<1>1. WorldStep /\ StoreStep
  BY DEF WorldStep, StoreStep, Inv, StrayOK
<1>2. RecOK(rec)' /\ StrayOK'
  BY <1>1, RecOKStep, StrayStep
<1>3. \A d \in Confirms : ConfOK(d)'
  BY <1>1, ConfStep
<1>4. \A h \in Polls : PollOK(h)'
  <2> SUFFICES ASSUME NEW h \in Polls, poll'[h].pc = "read" PROVE PollOK(h)'
    BY <1>1, PollStep
  <2> QED
    BY DEF PollOK
<1>5. \A h \in Readies : ReadyOK(h)'
  <2> SUFFICES ASSUME NEW h \in Readies, ready'[h].pc = "read" PROVE ReadyOK(h)'
    BY <1>1, ReadyStep
  <2> QED
    BY DEF ReadyOK
<1>6. OneHolder'
  <2> SUFFICES ASSUME NEW g \in Polls, NEW h \in Polls, poll'[g].pc = "credentials", poll'[h].pc = "credentials"
               PROVE  g = h
    BY DEF OneHolder
  <2>1. poll[g].pc = "credentials" /\ poll[h].pc = "credentials"
    OBVIOUS
  <2> QED
    BY <2>1 DEF Inv, OneHolder
<1> QED
  BY <1>2, <1>3, <1>4, <1>5, <1>6 DEF Inv, Kept, StoreStep

\* Every step of the agent keeps the invariant.
LEMMA AgentInv ==
    ASSUME Inv, Agent
    PROVE  Kept
<1>1. Types' /\ Types /\ TypeOK /\ AgentOK /\ agent \in AgentState
  BY AgentTypes DEF Inv, Types, TypeOK, AgentState
<1>2. CASE \E g \in Polls : SendPoll(g)
  <2>1. PICK g \in Polls : SendPoll(g)
    BY <1>2
  <2>2. agent'.pc = "polling"
    BY <1>1, <2>1 DEF SendPoll, AgentState
  <2>3. AgentOK'
    BY <2>2 DEF AgentOK
  <2>4. \A h \in Polls : poll'[h] = poll[h] \/ poll'[h].pc = "read"
    BY <1>1, <2>1 DEF SendPoll, TypeOK
  <2> QED
    BY <1>1, <2>1, <2>3, <2>4, AgentFrame DEF SendPoll
<1>3. CASE PollAnswered
  <2>1. agent.run \in Polls /\ poll[agent.run].pc \in PollAnswers /\ PollOK(agent.run)
    BY <1>1, <1>3 DEF Inv, Types, Waiting, PollAnswered
  <2>2. /\ UNCHANGED <<rec, late, stray, conf, invited, poll, ready>>
        /\ agent'.pc = AfterPoll(poll[agent.run].pc) /\ agent'.told = poll[agent.run].pc
        /\ poll[agent.run].pc = "credentials" => agent'.creds = poll[agent.run].record.creds
    BY <1>3 DEF PollAnswered
  <2>3. agent'.pc \in {"report", "reporting", "ready"} => agent'.pc = "report" /\ poll[agent.run].pc = "credentials"
    BY <2>1, <2>2 DEF AfterPoll, PollAnswers
  <2>4. agent'.pc = "expired" => poll[agent.run].pc \in {"claimed", "expired", "not_found"}
    BY <2>1, <2>2 DEF AfterPoll, PollAnswers
  <2>5. agent'.pc = "report" => HoldsCredentials(agent.creds)'
    BY <2>1, <2>2, <2>3 DEF PollOK, HoldsCredentials, OwnerOf
  <2>6. agent'.pc = "expired" /\ agent'.told # "not_found" => Over'
    BY <2>1, <2>2, <2>4 DEF PollOK, Over
  <2>7. AgentOK'
    BY <2>3, <2>5, <2>6 DEF AgentOK
  <2> QED
    BY <1>1, <2>2, <2>7, AgentFrame
<1>4. CASE PollLost \/ PollStopped \/ ReadyLost
  <2>1. agent'.pc \in {"poll", "failed"} /\ UNCHANGED <<rec, late, stray, conf, invited, poll, ready>>
    BY <1>1, <1>4 DEF PollLost, PollStopped, ReadyLost, AgentTo, AgentState
  <2>2. AgentOK'
    BY <2>1 DEF AgentOK
  <2> QED
    BY <1>1, <2>1, <2>2, AgentFrame
<1>5. CASE \E g \in Readies : SendReady(g)
  <2>1. PICK g \in Readies : SendReady(g)
    BY <1>5
  <2>2. agent.pc = "report" /\ agent'.pc = "reporting" /\ agent'.creds = agent.creds
    BY <1>1, <2>1 DEF SendReady, AgentState
  <2>3. AgentOK'
    BY <1>1, <2>1, <2>2 DEF AgentOK, SendReady, HoldsCredentials, OwnerOf
  <2>4. \A h \in Readies : ready'[h] = ready[h] \/ ready'[h].pc = "read"
    BY <1>1, <2>1 DEF SendReady, TypeOK
  <2> QED
    BY <1>1, <2>1, <2>3, <2>4, AgentFrame DEF SendReady
<1>6. CASE ReadyAnswered
  <2>1. agent.run \in Readies /\ ReadyOK(agent.run) /\ agent.pc = "reporting"
    BY <1>1, <1>6 DEF Inv, Types, Waiting, ReadyAnswered
  <2>2. PICK step \in AfterReady(ready[agent.run].pc) : AgentTo(step, None)
    BY <1>6 DEF ReadyAnswered
  <2>3. /\ agent'.pc = step /\ agent'.creds = agent.creds
        /\ UNCHANGED <<rec, late, stray, conf, invited, poll, ready>>
    BY <1>1, <2>2 DEF AgentTo, AgentState
  <2>4. step \in {"ready", "report", "failed"} /\ (step = "ready" => ready[agent.run].pc = "done")
    BY <2>2 DEF AfterReady
  <2>5. HoldsCredentials(agent.creds)'
    BY <1>1, <2>1, <2>3 DEF AgentOK, HoldsCredentials, OwnerOf
  <2>6. AgentOK'
    BY <2>1, <2>3, <2>4, <2>5 DEF AgentOK, ReadyOK
  <2> QED
    BY <1>1, <2>3, <2>6, AgentFrame
<1> QED
  BY <1>2, <1>3, <1>4, <1>5, <1>6 DEF Agent

\* Every step keeps the invariant, and moves the record legally.
LEMMA InvStep ==
    ASSUME Inv, [Next]_vars
    PROVE  Kept
<1>1. CASE StrayLands \/ ClockPasses \/ UNCHANGED vars
  <2>1. Types'
    BY TypesStep DEF Inv
  <2>2. UNCHANGED <<conf, poll, ready, invited, agent>> /\ (late => late')
    BY <1>1 DEF StrayLands, ClockPasses, vars
  <2>3. WorldStep
    BY <2>2 DEF WorldStep
  <2>4. StoreStep
    BY <1>1 DEF StrayLands, ClockPasses, vars, StoreStep, Inv, StrayOK, WriteOK
  <2>5. RecOK(rec)' /\ StrayOK' /\ AgentOK'
    BY <2>1, <2>2, <2>3, <2>4, RecOKStep, StrayStep, AgentStep
  <2>6. \A d \in Confirms : ConfOK(d)'
    BY <2>1, <2>2, <2>3, <2>4, ConfStep
  <2>7. \A h \in Polls : PollOK(h)'
    BY <2>1, <2>2, <2>3, <2>4, PollStep
  <2>8. \A h \in Readies : ReadyOK(h)'
    BY <2>1, <2>2, <2>3, <2>4, ReadyStep
  <2>9. OneHolder'
    BY <2>2 DEF Inv, OneHolder
  <2> QED
    BY <2>1, <2>4, <2>5, <2>6, <2>7, <2>8, <2>9 DEF Inv, Kept, StoreStep
<1> QED
  BY <1>1, ConfirmInv, PollInv, ReadyInv, AgentInv DEF Next

LEMMA InvInit ==
    ASSUME Init
    PROVE  Inv
<1>1. Types
  BY TypesInit
<1>2. RecOK(rec) /\ StrayOK
  BY DEF Init, Fresh, RecOK, Settled, StrayOK
<1>3. \A c \in Confirms : conf[c].pc = "read"
  <2>1. PICK by \in [Confirms -> Owners] :
           conf = [c \in Confirms |-> [by |-> by[c], pc |-> "read", tries |-> 0, record |-> Fresh]]
    BY DEF Init
  <2> QED
    BY <2>1
<1>4. \A c \in Confirms : ConfOK(c)
  BY <1>3 DEF ConfOK, ConfirmSteps
<1>5. (\A g \in Polls : poll[g].pc = "unsent") /\ (\A g \in Readies : ready[g].pc = "unsent")
      /\ agent.pc = "poll"
  BY DEF Init
<1> QED
  BY <1>1, <1>2, <1>4, <1>5 DEF Inv, PollOK, ReadyOK, OneHolder, AgentOK

-----------------------------------------------------------------------------
(* The theorems *)

\* What Inv says of the properties.
LEMMA InvImplies ==
    ASSUME Inv
    PROVE  CredentialsLeaveOnce /\ ConfirmedAnswerHolds /\ ReadyWasInvited /\ GivesUpForGood
<1>1. RecOK(rec) /\ rec \in JoinRecord /\ late \in BOOLEAN
  BY DEF Inv, Types, TypeOK
<1>2. CredentialsLeaveOnce
  <2>1. rec.creds # None => rec.state = "confirmed" /\ OwnerOf(rec.creds) = rec.owner
    BY <1>1 DEF RecOK
  <2> SUFFICES ASSUME NEW g \in Polls, poll[g].pc = "credentials"
               PROVE  /\ rec.creds = None
                      /\ poll[g].record.creds # None /\ OwnerOf(poll[g].record.creds) = rec.owner
                      /\ \A h \in Polls : poll[h].pc = "credentials" => h = g
    BY <2>1 DEF CredentialsLeaveOnce
  <2>2. rec.state \in {"claimed", "ready"} /\ HoldsCredentials(poll[g].record.creds)
    BY DEF Inv, PollOK
  <2> QED
    BY <1>1, <2>2 DEF RecOK, HoldsCredentials, Inv, OneHolder
<1>3. ConfirmedAnswerHolds
  BY DEF Inv, ConfOK, SettledFor, ConfirmedAnswerHolds
<1>4. ReadyWasInvited
  BY <1>1 DEF Inv, RecOK, AgentOK, HoldsCredentials, ReadyWasInvited
<1>5. GivesUpForGood
  BY <1>1 DEF Inv, AgentOK, Over, GivesUpForGood, EffectiveState
<1> QED
  BY <1>2, <1>3, <1>4, <1>5

LEMMA InvAlways == Spec => []Inv
<1>1. Init => Inv
  BY InvInit
<1>2. Inv /\ [Next]_vars => Inv'
  BY InvStep DEF Kept
<1> QED
  BY <1>1, <1>2, PTL DEF Spec

(* The credentials leave the record once, and to the agent of the human the   *)
(* join is locked to (the compare-and-set in the poll route before it answers *)
(* with them), for any number of polls and confirms.                          *)
THEOREM CredentialsOnce == Spec => []CredentialsLeaveOnce
<1>1. Inv => CredentialsLeaveOnce
  BY InvImplies
<1> QED
  BY <1>1, InvAlways, PTL

(* A human whose confirm() was answered `confirmed` was told the truth for    *)
(* good, whether the answer came from the write, from the read after a        *)
(* conflict or from the record as it was found.                               *)
THEOREM ConfirmedHolds == Spec => []ConfirmedAnswerHolds
<1>1. Inv => ConfirmedAnswerHolds
  BY InvImplies
<1> QED
  BY <1>1, InvAlways, PTL

(* A join is marked ready only after the invitation, and an agent that goes   *)
(* on holds the credentials of the human who confirmed it.                    *)
THEOREM ReadyInvited == Spec => []ReadyWasInvited
<1>1. Inv => ReadyWasInvited
  BY InvImplies
<1> QED
  BY <1>1, InvAlways, PTL

(* An agent whose polling was ended by the answer that the join is expired or *)
(* claimed could not have got anything by asking again.  Of the answer that   *)
(* there is no such join, which a failed read of the store gives too, this    *)
(* says nothing: see OutageIsTolerated.                                       *)
THEOREM GivesUp == Spec => []GivesUpForGood
<1>1. Inv => GivesUpForGood
  BY InvImplies
<1> QED
  BY <1>1, InvAlways, PTL

(* A join moves forward only, keeps its human, and never comes back from      *)
(* `expired`: every write, late ones included, is conditional on the revision *)
(* its writer read.                                                           *)
THEOREM MovesForward == Spec => ForwardOnly
<1>1. Inv /\ [Next]_vars =>
        [ /\ rec'.state \in Order[rec.state]
          /\ rec.owner # None => rec'.owner = rec.owner
          /\ rec # rec' => rec'.rev > rec.rev ]_vars
  <2> SUFFICES ASSUME Inv, [Next]_vars
               PROVE  /\ rec'.state \in Order[rec.state]
                      /\ rec.owner # None => rec'.owner = rec.owner
                      /\ rec # rec' => rec'.rev > rec.rev
    OBVIOUS
  <2>1. rec \in JoinRecord /\ rec.rev \in Nat /\ rec.state \in JoinStates
    BY DEF Inv, Types, TypeOK, JoinRecord
  <2>2. rec' = rec \/ Moves(rec, rec')
    BY InvStep DEF Kept
  <2>3. rec'.state \in Order[rec.state]
    BY <2>1, <2>2 DEF Moves, Order, JoinStates
  <2> QED
    BY <2>1, <2>2, <2>3 DEF Moves
<1> QED
  BY <1>1, InvAlways, PTL DEF Spec, ForwardOnly
=============================================================================
