------------------------- MODULE ControlStoreProofs -------------------------
(***************************************************************************)
(* Proofs about ControlStore, for any number of callers, keys, operation    *)
(* IDs and faults.                                                          *)
(***************************************************************************)
EXTENDS ControlStore, TLAPS

\* Assigning a local variable of a caller keeps its locals well typed.
LEMMA LocalTypes ==
    ASSUME local \in [Callers -> Locals], NEW p \in Callers,
           \/ UNCHANGED local
           \/ \E e \in Nat : local' = [local EXCEPT ![p].etag = e]
           \/ \E c \in Etags \cup {None} : local' = [local EXCEPT ![p].cond = c]
           \/ \E b \in BOOLEAN : local' = [local EXCEPT ![p].retry = b]
           \/ local' = [local EXCEPT ![p].attempt = 2]
    PROVE  local' \in [Callers -> Locals]
<1>1. CASE UNCHANGED local
  BY <1>1
<1>2. CASE \E e \in Nat : local' = [local EXCEPT ![p].etag = e]
  BY <1>2 DEF Locals
<1>3. CASE \E c \in Etags \cup {None} : local' = [local EXCEPT ![p].cond = c]
  BY <1>3 DEF Locals
<1>4. CASE \E b \in BOOLEAN : local' = [local EXCEPT ![p].retry = b]
  BY <1>4 DEF Locals
<1>5. CASE local' = [local EXCEPT ![p].attempt = 2]
  BY <1>5 DEF Locals
<1> QED
  BY <1>1, <1>2, <1>3, <1>4, <1>5

\* The condition of a write is an ETag or None.
LEMMA RawEtagType ==
    ASSUME TypeOK, NEW k \in Keys
    PROVE  RawEtag(k) \in Etags \cup {None}
  BY DEF TypeOK, RawEtag, Envelope

\* The conditional write a caller sends is one.
LEMMA MyWriteType ==
    ASSUME TypeOK, NEW p \in Callers, pc[p] = "write"
    PROVE  MyWrite(p) \in ConditionalWrite
  BY DEF TypeOK, MyWrite, ConditionalWrite, CompareAndSetInput, Locals

\* A write that takes effect stores an envelope and logs it.
LEMMA WriteLandsType ==
    ASSUME TypeOK, NEW w \in ConditionalWrite, WriteLands(w)
    PROVE  /\ records' \in [Keys -> Envelope \cup {None}]
           /\ landed' \subseteq [key : Keys, op : Ops, content : Contents,
                                expected : Etags \cup {None}, etag : Etags]
           /\ nextEtag' \in Etags
           /\ wrote' \subseteq Callers
  BY DEF TypeOK, WriteLands, ConditionalWrite, Envelope, Etags

(* Every reachable state of the adapter and of its callers is well typed:    *)
(* no step of compareAndSet, resolve or writeAndResolve builds a record, a   *)
(* claim or a condition that it could not have.                              *)
THEOREM TypeCorrect == Spec => []TypeOK
<1>1. Init => TypeOK
  BY MaxFaultsAssumption DEF Init, TypeOK, Steps, Etags, Foreign, Locals
<1>2. TypeOK /\ [Next]_vars => TypeOK'
  <2> SUFFICES ASSUME TypeOK, [Next]_vars PROVE TypeOK'
    OBVIOUS
  <2> USE RequestsAssumption, ExpiringAssumption, MaxFaultsAssumption
  <2>1. ASSUME NEW p \in Callers, Begin(p) PROVE TypeOK'
    BY <2>1 DEF Begin, TypeOK, Goto, Steps, Answers, storeVars, LiveRevision, Live, Envelope, CompareAndSetInput
  <2>2. ASSUME NEW p \in Callers, Claim(p) PROVE TypeOK'
    <3>1. nextEtag \in Nat /\ Foreign \in Nat /\ local \in [Callers -> Locals]
      BY DEF TypeOK, Etags, Foreign
    <3>2. local' \in [Callers -> Locals]
      BY <2>2, <3>1, LocalTypes DEF Claim, ReadThen
    <3> QED
      BY <2>2, <3>2 DEF Claim, TypeOK, Goto, Steps, Answers, ClaimLands, Rejected, Unclear, Return,
                        Fault, ReadThen, storeVars, MyClaim, LedgerEntry, CompareAndSetInput, Etags
  <2>3. ASSUME NEW p \in Callers, ClaimConfirm(p) PROVE TypeOK'
    <3>1. local' \in [Callers -> Locals]
      BY <2>3, LocalTypes DEF ClaimConfirm, ReadReturns, TypeOK
    <3> QED
      BY <2>3, <3>1 DEF ClaimConfirm, TypeOK, Goto, Steps, Answers, Unclear, Return, Fault, ReadReturns, storeVars
  <2>4. ASSUME NEW p \in Callers, ClaimRead(p) PROVE TypeOK'
    <3>1. TRUE \in BOOLEAN /\ local \in [Callers -> Locals]
      BY DEF TypeOK
    <3>2. local' \in [Callers -> Locals]
      BY <2>4, <3>1, LocalTypes DEF ClaimRead, ReadReturns
    <3> QED
      BY <2>4, <3>2 DEF ClaimRead, TypeOK, Goto, Steps, Answers, Unclear, Return, Fault,
                        ReadReturns, storeVars
  <2>5. ASSUME NEW p \in Callers, ReadBefore(p) PROVE TypeOK'
    <3>1. call[p].key \in Keys /\ local \in [Callers -> Locals]
      BY <2>5 DEF ReadBefore, TypeOK, CompareAndSetInput
    <3>2. RawEtag(call[p].key) \in Etags \cup {None}
      BY <3>1, RawEtagType
    <3>3. local' \in [Callers -> Locals]
      BY <2>5, <3>1, <3>2, LocalTypes DEF ReadBefore, ReadReturns, ReadThrows
    <3> QED
      BY <2>5, <3>3 DEF ReadBefore, TypeOK, Goto, Steps, Answers, ReadThrows, Rejected, Unclear,
                        Return, Fault, ReadReturns, Absent, storeVars
  <2>6. ASSUME NEW p \in Callers, Write(p) PROVE TypeOK'
    <3>1. MyWrite(p) \in ConditionalWrite
      BY <2>6, MyWriteType DEF Write
    <3>2. nextEtag \in Nat /\ Foreign \in Nat /\ local \in [Callers -> Locals]
      BY DEF TypeOK, Etags, Foreign
    <3>3. local' \in [Callers -> Locals]
      BY <2>6, <3>2, LocalTypes DEF Write, ReadThen
    <3>4. CASE WriteLands(MyWrite(p))
      <4>1. UNCHANGED <<ledger, passed>>
        BY <3>4 DEF WriteLands
      <4> QED
        BY <2>6, <3>1, <3>3, <3>4, <4>1, WriteLandsType
           DEF Write, TypeOK, Goto, Steps, Answers, Rejected, Unclear, Return, Fault, ReadThen,
               storeVars
    <3>5. CASE ~WriteLands(MyWrite(p))
      BY <2>6, <3>1, <3>3, <3>5
         DEF Write, TypeOK, Goto, Steps, Answers, Rejected, Unclear, Return, Fault, ReadThen,
             storeVars
    <3> QED
      BY <3>4, <3>5
  <2>7. ASSUME NEW p \in Callers, Confirm(p) PROVE TypeOK'
    BY <2>7 DEF Confirm, TypeOK, Goto, Steps, Answers, Unclear, Return, Fault, ReadReturns, storeVars
  <2>8. ASSUME NEW p \in Callers, ReadBack(p) PROVE TypeOK'
    BY <2>8 DEF ReadBack, TypeOK, Goto, Steps, Answers, ReadThrows, Rejected, Unclear, Return, Fault, ReadReturns, Absent, storeVars
  <2>9. ASSUME NEW p \in Callers, Resolve(p) PROVE TypeOK'
    <3>1. local' \in [Callers -> Locals]
      BY <2>9, LocalTypes DEF Resolve, ReadThen, TypeOK
    <3> QED
      BY <2>9, <3>1 DEF Resolve, TypeOK, Goto, Steps, Answers, ReadThen, Fault, storeVars
  <2>10. ASSUME LateClaimLands PROVE TypeOK'
    BY <2>10 DEF LateClaimLands, ClaimLands, TypeOK, storeVars, LedgerEntry, Etags
  <2>11. ASSUME LateWriteLands PROVE TypeOK'
    BY <2>11 DEF LateWriteLands, WriteLands, TypeOK, storeVars, Envelope, ConditionalWrite, Etags
  <2>12. ASSUME ClockPasses PROVE TypeOK'
    BY <2>12 DEF ClockPasses, TypeOK
  <2>13. ASSUME UNCHANGED vars PROVE TypeOK'
    BY <2>13 DEF vars, TypeOK
  <2> QED
    BY <2>1, <2>2, <2>3, <2>4, <2>5, <2>6, <2>7, <2>8, <2>9, <2>10, <2>11, <2>12, <2>13
       DEF Next, Step
<1> QED
  BY <1>1, <1>2, PTL DEF Spec

-----------------------------------------------------------------------------
(* The operations ledger *)

\* The operation ID is bound to this key and these bytes.
Binds(o, k, c) == ledger[o] # None /\ ledger[o].key = k /\ ledger[o].content = c

(* What the claim protects: nobody sends, has under way or has made a write   *)
(* that its operation ID does not name.                                       *)
LedgerInv ==
    /\ \A p \in Callers : pc[p] \in {"before", "write", "confirm", "readBack"} => Claimed(p)
    /\ \A w \in lateWrites : Binds(w.op, w.key, w.content)
    /\ \A w \in landed : Binds(w.op, w.key, w.content)

\* A ledger entry is written once.
LEMMA LedgerWriteOnce ==
    ASSUME TypeOK, [Next]_vars, NEW o \in Ops, ledger[o] # None
    PROVE  ledger'[o] = ledger[o]
<1>1. ASSUME NEW r \in Ops, NEW k, NEW c, ClaimLands(r, k, c) PROVE ledger'[o] = ledger[o]
  BY <1>1 DEF ClaimLands, TypeOK
<1>2. ASSUME NEW p \in Callers, Claim(p) PROVE ledger'[o] = ledger[o]
  <2>1. call[p].op \in Ops
    BY <1>2 DEF Claim, TypeOK, CompareAndSetInput
  <2> QED
    BY <1>1, <1>2, <2>1 DEF Claim, ReadThen, storeVars
<1>3. ASSUME LateClaimLands PROVE ledger'[o] = ledger[o]
  BY <1>1, <1>3 DEF LateClaimLands, TypeOK, storeVars
<1>4. ASSUME NEW p \in Callers, Step(p), ~Claim(p) PROVE ledger'[o] = ledger[o]
  BY <1>4 DEF Step, Begin, ClaimConfirm, ClaimRead, ReadBefore, Write, Confirm, ReadBack, Resolve,
              ReadThen, ReadReturns, ReadThrows, WriteLands, storeVars
<1>5. ASSUME LateWriteLands \/ ClockPasses \/ UNCHANGED vars PROVE ledger'[o] = ledger[o]
  BY <1>5 DEF LateWriteLands, WriteLands, ClockPasses, storeVars, vars
<1> QED
  BY <1>2, <1>3, <1>4, <1>5 DEF Next

\* So what an operation ID names, it names for ever.
LEMMA BindsForEver ==
    ASSUME TypeOK, [Next]_vars, NEW o \in Ops, NEW k, NEW c, Binds(o, k, c)
    PROVE  Binds(o, k, c)'
  BY LedgerWriteOnce DEF Binds

-----------------------------------------------------------------------------
(* What a step may do to the records *)

\* A conditional write that is about to be sent, or was sent and given up on.
InFlight(w) == w \in lateWrites \/ \E p \in Callers : pc[p] = "write" /\ w = MyWrite(p)

LEMMA InFlightType ==
    ASSUME TypeOK, NEW w, InFlight(w)
    PROVE  w \in ConditionalWrite
  BY MyWriteType DEF InFlight, TypeOK

\* Only a write in flight joins the requests that may still land.
LEMMA OnlyInFlightIsLate ==
    ASSUME [Next]_vars, NEW w \in lateWrites'
    PROVE  InFlight(w)
<1>1. ASSUME NEW p \in Callers, Write(p) PROVE InFlight(w)
  BY <1>1 DEF Write, ReadThen, InFlight
<1>2. ASSUME NEW p \in Callers, Step(p), ~Write(p) PROVE InFlight(w)
  BY <1>2 DEF Step, Begin, Claim, ClaimConfirm, ClaimRead, ReadBefore, Confirm, ReadBack, Resolve,
              ReadThen, ReadReturns, ReadThrows, InFlight
<1>3. ASSUME LateClaimLands \/ LateWriteLands \/ ClockPasses \/ UNCHANGED vars PROVE InFlight(w)
  BY <1>3 DEF LateClaimLands, LateWriteLands, ClockPasses, vars, InFlight
<1> QED
  BY <1>1, <1>2, <1>3 DEF Next

\* Only a write in flight changes a record.
LEMMA OnlyInFlightLands ==
    ASSUME [Next]_vars
    PROVE  \/ UNCHANGED <<records, landed, wrote>>
           \/ \E w : InFlight(w) /\ WriteLands(w)
<1> DEFINE Goal == UNCHANGED <<records, landed, wrote>> \/ \E w : InFlight(w) /\ WriteLands(w)
<1>1. ASSUME NEW p \in Callers, Write(p) PROVE Goal
  BY <1>1 DEF Write, ReadThen, storeVars, InFlight
<1>2. ASSUME NEW p \in Callers, Step(p), ~Write(p) PROVE Goal
  BY <1>2 DEF Step, Begin, Claim, ClaimLands, ClaimConfirm, ClaimRead, ReadBefore, Confirm, ReadBack,
              Resolve, ReadThen, ReadReturns, ReadThrows, storeVars
<1>3. ASSUME LateWriteLands PROVE Goal
  BY <1>3 DEF LateWriteLands, storeVars, InFlight
<1>4. ASSUME LateClaimLands \/ ClockPasses \/ UNCHANGED vars PROVE Goal
  BY <1>4 DEF LateClaimLands, ClaimLands, ClockPasses, vars, storeVars
<1> QED
  BY <1>1, <1>2, <1>3, <1>4 DEF Next

\* A caller's input is fixed by its first step.
LEMMA CallIsFixed ==
    ASSUME TypeOK, [Next]_vars, NEW p \in Callers, pc[p] # "idle"
    PROVE  call'[p] = call[p] /\ pc'[p] # "idle"
<1>1. ASSUME NEW q \in Callers, Begin(q) PROVE call'[p] = call[p] /\ pc'[p] # "idle"
  BY <1>1 DEF Begin, Goto, TypeOK
<1>2. ASSUME NEW q \in Callers, Step(q), ~Begin(q) PROVE call'[p] = call[p] /\ pc'[p] # "idle"
  <2>1. call' = call
    BY <1>2 DEF Step, Claim, ClaimConfirm, ClaimRead, ReadBefore, Write, Confirm, ReadBack, Resolve,
                ReadThen, ReadReturns, ReadThrows
  <2>2. \E s : pc' = [pc EXCEPT ![q] = s] /\ s # "idle"
    BY <1>2 DEF Step, Claim, ClaimConfirm, ClaimRead, ReadBefore, Write, Confirm, ReadBack, Resolve,
                ReadThen, ReadReturns, ReadThrows, Rejected, Unclear, Return, Goto, Absent
  <2> QED
    BY <2>1, <2>2 DEF TypeOK
<1>3. ASSUME LateClaimLands \/ LateWriteLands \/ ClockPasses \/ UNCHANGED vars
      PROVE  call'[p] = call[p] /\ pc'[p] # "idle"
  BY <1>3 DEF LateClaimLands, LateWriteLands, ClockPasses, vars
<1> QED
  BY <1>1, <1>2, <1>3 DEF Next
-----------------------------------------------------------------------------
(* The operation ID names one write *)

\* A write in flight is the one its operation ID names.
LEMMA InFlightIsBound ==
    ASSUME TypeOK, LedgerInv, NEW w, InFlight(w)
    PROVE  Binds(w.op, w.key, w.content)
  BY DEF InFlight, LedgerInv, MyWrite, Claimed, Binds

LEMMA LedgerInvStep ==
    ASSUME TypeOK, LedgerInv, [Next]_vars
    PROVE  LedgerInv'
<1>1. ASSUME NEW w, InFlight(w) PROVE Binds(w.op, w.key, w.content)'
  <2>1. w.op \in Ops
    BY <1>1, InFlightType DEF ConditionalWrite
  <2> QED
    BY <1>1, <2>1, InFlightIsBound, BindsForEver
<1>2. ASSUME NEW w \in landed PROVE Binds(w.op, w.key, w.content)'
  <2>1. w.op \in Ops
    BY DEF TypeOK
  <2> QED
    BY <2>1, BindsForEver DEF LedgerInv
<1>3. ASSUME NEW w \in landed' PROVE Binds(w.op, w.key, w.content)'
  <2>1. CASE UNCHANGED landed
    BY <1>2, <2>1
  <2>2. CASE \E v : InFlight(v) /\ WriteLands(v)
    <3>1. PICK v : InFlight(v) /\ WriteLands(v)
      BY <2>2
    <3>2. w \in landed \/ (w.op = v.op /\ w.key = v.key /\ w.content = v.content)
      BY <3>1 DEF WriteLands
    <3> QED
      BY <3>1, <3>2, <1>1, <1>2
  <2> QED
    BY <2>1, <2>2, OnlyInFlightLands
<1>4. ASSUME NEW q \in Callers, pc'[q] \in {"before", "write", "confirm", "readBack"}
      PROVE  Claimed(q)'
  <2>1. pc[q] # "idle" /\ Claimed(q)
    <3>1. CASE UNCHANGED <<pc, call>>
      BY <1>4, <3>1 DEF LedgerInv
    <3>2. ASSUME NEW p \in Callers, Step(p) PROVE pc[q] # "idle" /\ Claimed(q)
      <4>1. CASE p # q
        <5>1. \E s : pc' = [pc EXCEPT ![p] = s]
          BY <3>2 DEF Step, Begin, Claim, ClaimConfirm, ClaimRead, ReadBefore, Write, Confirm, ReadBack,
                      Resolve, ReadThen, ReadReturns, ReadThrows, Rejected, Unclear, Return, Goto
        <5>2. pc'[q] = pc[q]
          BY <4>1, <5>1 DEF TypeOK
        <5> QED
          BY <1>4, <5>2 DEF LedgerInv
      <4>2. CASE p = q /\ (ClaimConfirm(p) \/ ClaimRead(p))
        BY <1>4, <4>2 DEF ClaimConfirm, ClaimRead, ReadReturns, Unclear, Return, Goto, TypeOK
      <4>3. CASE p = q /\ (ReadBefore(p) \/ Write(p) \/ Confirm(p) \/ ReadBack(p))
        BY <4>3 DEF ReadBefore, Write, Confirm, ReadBack, LedgerInv
      <4>4. CASE p = q /\ (Begin(p) \/ Claim(p) \/ Resolve(p))
        BY <1>4, <4>4 DEF Begin, Claim, Resolve, ReadThen, Rejected, Unclear, Return, Goto, TypeOK
      <4> QED
        BY <3>2, <4>1, <4>2, <4>3, <4>4 DEF Step
    <3>3. ASSUME LateClaimLands \/ LateWriteLands \/ ClockPasses \/ UNCHANGED vars
          PROVE  UNCHANGED <<pc, call>>
      BY <3>3 DEF LateClaimLands, LateWriteLands, ClockPasses, vars
    <3> QED
      BY <3>1, <3>2, <3>3 DEF Next
  <2>2. call[q].op \in Ops /\ call'[q] = call[q]
    BY <2>1, CallIsFixed DEF TypeOK, CompareAndSetInput
  <2>3. ledger'[call[q].op] = ledger[call[q].op]
    BY <2>1, <2>2, LedgerWriteOnce DEF Claimed
  <2> QED
    BY <2>1, <2>2, <2>3 DEF Claimed
<1> QED
  BY <1>1, <1>3, <1>4, OnlyInFlightIsLate DEF LedgerInv

(* The claim of a caller outlives it: whatever is in flight is what the       *)
(* ledger binds the operation ID to.                                          *)
THEOREM LedgerCorrect == Spec => []LedgerInv
<1>1. Init => LedgerInv
  BY DEF Init, LedgerInv
<1>2. TypeOK /\ LedgerInv /\ [Next]_vars => LedgerInv'
  BY LedgerInvStep
<1> QED
  BY <1>1, <1>2, TypeCorrect, PTL DEF Spec

(* Two keys share no transaction and a lost response can land at any time,    *)
(* yet no operation ID ever names two different writes.                       *)
THEOREM OperationNamesOneWrite == Spec => []OneWritePerOperation
<1>1. LedgerInv => OneWritePerOperation
  BY DEF LedgerInv, Binds, OneWritePerOperation
<1> QED
  BY <1>1, LedgerCorrect, PTL
-----------------------------------------------------------------------------
(* The refinement of CasStore *)

\* Every ETag in use was handed out: the next one is fresh.
EtagInv ==
    /\ \A k \in Keys : records[k] # None => records[k].etag < nextEtag
    /\ \A p \in Callers : local[p].cond # None => local[p].cond < nextEtag
    /\ \A w \in lateWrites : w.cond # None => w.cond < nextEtag

(* The condition a write carries protects what its caller expected: the very  *)
(* revision it read or, when it read nothing live, an expired record (which   *)
(* stays expired) or none at all.                                             *)
Justified(w) ==
    IF w.expected = None
    THEN w.cond # None /\ records[w.key] # None /\ records[w.key].etag = w.cond =>
             records[w.key].content \in passed
    ELSE w.cond = w.expected

PendingInv ==
    /\ \A p \in Callers : pc[p] = "write" => Justified(MyWrite(p))
    /\ \A w \in lateWrites : Justified(w)

LEMMA EtagsGrow ==
    ASSUME TypeOK, [Next]_vars
    PROVE  nextEtag' \in Etags /\ nextEtag' >= nextEtag /\ passed \subseteq passed'
<1> DEFINE Goal == nextEtag' \in Etags /\ nextEtag' >= nextEtag /\ passed \subseteq passed'
<1>0. nextEtag \in Nat \ {0}
  BY DEF TypeOK, Etags
<1>1. ASSUME NEW w, WriteLands(w) PROVE Goal
  BY <1>0, <1>1 DEF WriteLands, Etags
<1>2. ASSUME NEW o, NEW k, NEW c, ClaimLands(o, k, c) PROVE Goal
  BY <1>0, <1>2 DEF ClaimLands, Etags
<1>3. ASSUME UNCHANGED <<passed, nextEtag>> PROVE Goal
  BY <1>0, <1>3 DEF Etags
<1>4. ASSUME NEW p \in Callers, Step(p), ~Claim(p), ~Write(p) PROVE UNCHANGED <<passed, nextEtag>>
  BY <1>4 DEF Step, Begin, ClaimConfirm, ClaimRead, ReadBefore, Confirm, ReadBack, Resolve,
              ReadThen, ReadReturns, ReadThrows, storeVars
<1>5. ASSUME NEW p \in Callers, Claim(p) \/ Write(p) PROVE Goal
  BY <1>1, <1>2, <1>3, <1>5 DEF Claim, Write, ReadThen, storeVars
<1>6. ASSUME LateClaimLands \/ LateWriteLands PROVE Goal
  BY <1>1, <1>2, <1>3, <1>6 DEF LateClaimLands, LateWriteLands, storeVars
<1>7. ASSUME ClockPasses PROVE Goal
  BY <1>0, <1>7 DEF ClockPasses, Etags
<1>8. ASSUME UNCHANGED vars PROVE UNCHANGED <<passed, nextEtag>>
  BY <1>8 DEF vars
<1> QED
  BY <1>3, <1>4, <1>5, <1>6, <1>7, <1>8 DEF Next

\* A caller's write condition is set by the read before the write, and only there.
LEMMA ConditionIsRead ==
    ASSUME TypeOK, [Next]_vars, NEW q \in Callers
    PROVE  \/ local'[q].cond = local[q].cond /\ (pc'[q] = "write" => pc[q] = "write" /\ call'[q] = call[q])
           \/ /\ local'[q].cond = RawEtag(call[q].key)
              /\ pc[q] = "before" /\ call'[q] = call[q]
              /\ LiveRevision(call[q].key) = call[q].expected
              /\ UNCHANGED <<records, passed>>
<1> DEFINE Same == local'[q].cond = local[q].cond /\ (pc'[q] = "write" => pc[q] = "write" /\ call'[q] = call[q])
<1> DEFINE Read == /\ local'[q].cond = RawEtag(call[q].key)
                   /\ pc[q] = "before" /\ call'[q] = call[q]
                   /\ LiveRevision(call[q].key) = call[q].expected
                   /\ UNCHANGED <<records, passed>>
<1> HIDE DEF Same, Read
<1>1. ASSUME UNCHANGED <<pc, call, local>> PROVE Same
  BY <1>1 DEF Same
<1>2. ASSUME NEW p \in Callers, p # q, Step(p) PROVE Same
  <2>1. \E s : pc' = [pc EXCEPT ![p] = s]
    BY <1>2 DEF Step, Begin, Claim, ClaimConfirm, ClaimRead, ReadBefore, Write, Confirm, ReadBack,
                Resolve, ReadThen, ReadReturns, ReadThrows, Rejected, Unclear, Return, Goto
  <2>2. pc'[q] = pc[q]
    BY <1>2, <2>1 DEF TypeOK
  <2>3. local'[q] = local[q]
    BY <1>2 DEF Step, Begin, Claim, ClaimConfirm, ClaimRead, ReadBefore, Write, Confirm, ReadBack,
                Resolve, ReadThen, ReadReturns, ReadThrows, TypeOK
  <2>4. pc[q] = "write" => call'[q] = call[q]
    BY CallIsFixed
  <2> QED
    BY <2>2, <2>3, <2>4 DEF Same
<1>3. ASSUME Step(q), ~ReadBefore(q) PROVE Same
  <2>1. pc'[q] # "write"
    BY <1>3 DEF Step, Begin, Claim, ClaimConfirm, ClaimRead, Write, Confirm, ReadBack, Absent,
                Resolve, ReadThen, ReadReturns, ReadThrows, Rejected, Unclear, Return, Goto, TypeOK
  <2>2. local'[q].cond = local[q].cond
    BY <1>3 DEF Step, Begin, Claim, ClaimConfirm, ClaimRead, Write, Confirm, ReadBack,
                Resolve, ReadThen, ReadReturns, ReadThrows, TypeOK, Locals
  <2> QED
    BY <2>1, <2>2 DEF Same
<1>4. ASSUME ReadBefore(q) PROVE Same \/ Read
  <2>1. CASE ReadReturns(q, "applied") \/ ReadReturns(q, Absent(q)) \/ ReadThrows(q)
    <3>1. pc'[q] # "write" /\ UNCHANGED local
      BY <2>1 DEF ReadReturns, ReadThrows, Rejected, Unclear, Return, Goto, Absent, TypeOK
    <3> QED
      BY <3>1 DEF Same
  <2>2. CASE ~(ReadReturns(q, "applied") \/ ReadReturns(q, Absent(q)) \/ ReadThrows(q))
    BY <1>4, <2>2 DEF ReadBefore, storeVars, TypeOK, Locals, Read
  <2> QED
    BY <2>1, <2>2
<1>5. ASSUME LateClaimLands \/ LateWriteLands \/ ClockPasses \/ UNCHANGED vars
      PROVE  UNCHANGED <<pc, call, local>>
  BY <1>5 DEF LateClaimLands, LateWriteLands, ClockPasses, vars
<1> QED
  BY <1>1, <1>2, <1>3, <1>4, <1>5 DEF Next, Same, Read
LEMMA EtagInvStep ==
    ASSUME TypeOK, EtagInv, [Next]_vars
    PROVE  EtagInv'
<1>0. /\ nextEtag \in Nat /\ nextEtag' \in Nat /\ nextEtag' >= nextEtag
      /\ \A k \in Keys : records[k] # None => records[k].etag \in Nat
  BY EtagsGrow DEF TypeOK, Etags, Envelope
<1>1. ASSUME NEW k \in Keys, records'[k] # None PROVE records'[k].etag < nextEtag'
  <2>1. CASE UNCHANGED records
    BY <1>0, <1>1, <2>1 DEF EtagInv
  <2>2. CASE \E w : InFlight(w) /\ WriteLands(w)
    <3>1. PICK w : InFlight(w) /\ WriteLands(w)
      BY <2>2
    <3>2. w.key \in Keys
      BY <3>1, InFlightType DEF ConditionalWrite
    <3>3. records'[k] = records[k] \/ records'[k].etag = nextEtag
      BY <3>1, <3>2 DEF WriteLands, TypeOK
    <3>4. nextEtag' = nextEtag + 1
      BY <3>1 DEF WriteLands
    <3> QED
      BY <1>0, <1>1, <3>3, <3>4 DEF EtagInv
  <2> QED
    BY <2>1, <2>2, OnlyInFlightLands
<1>2. ASSUME NEW p \in Callers, local'[p].cond # None PROVE local'[p].cond < nextEtag'
  <2>1. CASE local'[p].cond = local[p].cond
    <3>1. local[p].cond \in Nat
      BY <1>2, <2>1 DEF TypeOK, Locals, Etags
    <3> QED
      BY <1>0, <1>2, <2>1, <3>1 DEF EtagInv
  <2>2. CASE local'[p].cond = RawEtag(call[p].key) /\ pc[p] = "before"
    <3>1. call[p].key \in Keys
      BY <2>2 DEF TypeOK, CompareAndSetInput
    <3> QED
      BY <1>0, <1>2, <2>2, <3>1 DEF EtagInv, RawEtag
  <2> QED
    BY <2>1, <2>2, ConditionIsRead
<1>3. ASSUME NEW w \in lateWrites', w.cond # None PROVE w.cond < nextEtag'
  <2>1. InFlight(w)
    BY OnlyInFlightIsLate
  <2>2. w.cond < nextEtag
    BY <1>3, <2>1 DEF InFlight, EtagInv, MyWrite
  <2>3. w.cond \in Nat
    BY <1>3, <2>1, InFlightType DEF ConditionalWrite, Etags
  <2> QED
    BY <1>0, <2>2, <2>3
<1> QED
  BY <1>1, <1>2, <1>3 DEF EtagInv

\* A justified write stays justified, whatever lands and whatever expires.
LEMMA StaysJustified ==
    ASSUME TypeOK, EtagInv, [Next]_vars, NEW w, InFlight(w), Justified(w)
    PROVE  Justified(w)'
<1>1. w.key \in Keys /\ w.cond \in Etags \cup {None} /\ (w.cond # None => w.cond < nextEtag)
  <2>1. w \in ConditionalWrite
    BY InFlightType
  <2> QED
    BY <2>1 DEF InFlight, EtagInv, MyWrite, ConditionalWrite
<1>2. CASE w.expected # None
  BY <1>2 DEF Justified
<1>3. CASE w.expected = None
  <2> SUFFICES ASSUME w.cond # None, records'[w.key] # None, records'[w.key].etag = w.cond
               PROVE  records'[w.key].content \in passed'
    BY <1>3 DEF Justified
  <2>1. CASE UNCHANGED records
    BY <1>3, <2>1, EtagsGrow DEF Justified
  <2>2. CASE \E v : InFlight(v) /\ WriteLands(v)
    <3>1. PICK v : InFlight(v) /\ WriteLands(v)
      BY <2>2
    <3>2. v.key \in Keys
      BY <3>1, InFlightType DEF ConditionalWrite
    <3>3. records'[w.key] = records[w.key] \/ records'[w.key].etag = nextEtag
      BY <1>1, <3>1, <3>2 DEF WriteLands, TypeOK
    <3>4. records'[w.key].etag # nextEtag
      BY <1>1 DEF TypeOK, Etags
    <3> QED
      BY <1>3, <3>3, <3>4, EtagsGrow DEF Justified
  <2> QED
    BY <2>1, <2>2, OnlyInFlightLands
<1> QED
  BY <1>2, <1>3

LEMMA PendingInvStep ==
    ASSUME TypeOK, EtagInv, PendingInv, [Next]_vars
    PROVE  PendingInv'
<1>1. ASSUME NEW w, InFlight(w) PROVE Justified(w)'
  <2>1. Justified(w)
    BY <1>1 DEF InFlight, PendingInv
  <2> QED
    BY <1>1, <2>1, StaysJustified
<1>2. ASSUME NEW p \in Callers, pc'[p] = "write" PROVE Justified(MyWrite(p))'
  <2>1. CASE local'[p].cond = local[p].cond /\ pc[p] = "write" /\ call'[p] = call[p]
    <3>1. MyWrite(p)' = MyWrite(p)
      BY <2>1 DEF MyWrite
    <3>2. InFlight(MyWrite(p))
      BY <2>1 DEF InFlight
    <3> QED
      BY <1>1, <3>1, <3>2 DEF Justified
  <2>2. CASE /\ local'[p].cond = RawEtag(call[p].key)
             /\ pc[p] = "before" /\ call'[p] = call[p]
             /\ LiveRevision(call[p].key) = call[p].expected
             /\ UNCHANGED <<records, passed>>
    <3>1. call[p].key \in Keys
      BY <2>2 DEF TypeOK, CompareAndSetInput
    <3>2. records[call[p].key] # None => records[call[p].key].etag # None
      BY <3>1, NoneAssumption DEF TypeOK, Envelope, Etags
    <3> QED
      BY <2>2, <3>1, <3>2 DEF Justified, MyWrite, RawEtag, LiveRevision, Live
  <2> QED
    BY <1>2, <2>1, <2>2, ConditionIsRead
<1> QED
  BY <1>1, <1>2, OnlyInFlightIsLate DEF PendingInv
\* A write that takes effect is one the abstract store allows.
LEMMA WriteRefines ==
    ASSUME TypeOK, LedgerInv, EtagInv, PendingInv, NEW w, InFlight(w), WriteLands(w)
    PROVE  Abstract!Next
<1>1. /\ w.key \in Keys /\ w.op \in Ops /\ w.content \in Contents
      /\ w.expected \in Etags \cup {None} /\ w.cond \in Etags \cup {None}
  BY InFlightType DEF ConditionalWrite
<1>2. Justified(w)
  BY DEF InFlight, PendingInv
<1>3. Binds(w.op, w.key, w.content)
  BY InFlightIsBound
<1>4. records[w.key] # None => /\ records[w.key].etag # None
                               /\ records[w.key].etag \in Etags
                               /\ records[w.key].etag < nextEtag
  BY <1>1, NoneAssumption DEF TypeOK, Envelope, Etags, EtagInv
<1>5. Abstract!Replaces(w.key, w.expected)
  BY <1>2, <1>4 DEF WriteLands, RawEtag, Justified, Abstract!Replaces, Abstract!Live
<1>6. w.expected \in (1..nextEtag) \cup {None}
  <2>1. w.expected # None => w.expected = records[w.key].etag /\ records[w.key] # None
    BY <1>2, <1>4 DEF WriteLands, RawEtag, Justified
  <2>2. nextEtag \in Nat
    BY DEF TypeOK, Etags
  <2> QED
    BY <1>1, <1>4, <2>1, <2>2 DEF Etags
<1>7. Abstract!Write(w.key, w.op, w.content, w.expected)
  BY <1>3, <1>5 DEF WriteLands, Binds, Abstract!Write
<1> QED
  BY <1>1, <1>6, <1>7 DEF Abstract!Next

\* So does a claim ...
LEMMA ClaimRefines ==
    ASSUME TypeOK, NEW o \in Ops, NEW k \in Keys, NEW c \in Contents, ClaimLands(o, k, c)
    PROVE  Abstract!Next
<1>1. Abstract!Bind(o)
  BY DEF ClaimLands, Abstract!Bind
<1> QED
  BY <1>1 DEF Abstract!Next

\* ... and every other step leaves the store alone or lets time pass.
LEMMA StepRefines ==
    ASSUME TypeOK, LedgerInv, EtagInv, PendingInv, [Next]_vars
    PROVE  [Abstract!Next]_Abstract!vars
<1> DEFINE Goal == Abstract!Next \/ UNCHANGED Abstract!vars
<1>1. ASSUME UNCHANGED storeVars PROVE Goal
  BY <1>1 DEF storeVars, Abstract!vars
<1>2. ASSUME NEW p \in Callers, Claim(p) PROVE Goal
  <2>1. call[p].op \in Ops /\ call[p].key \in Keys /\ call[p].content \in Contents
    BY <1>2 DEF Claim, TypeOK, CompareAndSetInput
  <2> QED
    BY <1>1, <1>2, <2>1, ClaimRefines DEF Claim, ReadThen
<1>3. ASSUME NEW p \in Callers, Write(p) PROVE Goal
  <2>1. InFlight(MyWrite(p))
    BY <1>3 DEF Write, InFlight
  <2> QED
    BY <1>1, <1>3, <2>1, WriteRefines DEF Write, ReadThen
<1>4. ASSUME NEW p \in Callers, Step(p), ~Claim(p), ~Write(p) PROVE UNCHANGED storeVars
  BY <1>4 DEF Step, Begin, ClaimConfirm, ClaimRead, ReadBefore, Confirm, ReadBack, Resolve,
              ReadThen, ReadReturns, ReadThrows, storeVars
<1>5. ASSUME LateClaimLands PROVE Goal
  BY <1>1, <1>5, ClaimRefines DEF LateClaimLands, TypeOK
<1>6. ASSUME LateWriteLands PROVE Goal
  BY <1>1, <1>6, WriteRefines DEF LateWriteLands, InFlight
<1>7. ASSUME ClockPasses PROVE Goal
  <2>1. Abstract!Expire
    BY <1>7, ExpiringAssumption DEF ClockPasses, Abstract!Expire
  <2> QED
    BY <2>1 DEF Abstract!Next
<1>8. ASSUME UNCHANGED vars PROVE UNCHANGED storeVars
  BY <1>8 DEF vars, storeVars
<1> QED
  BY <1>1, <1>2, <1>3, <1>4, <1>5, <1>6, <1>7, <1>8 DEF Next

(* The adapter keeps the promise of the port: whatever is lost, delayed or    *)
(* misreported by the provider, the records change only by writes that        *)
(* replace exactly the revision their caller expected (or nothing live) and   *)
(* that their operation ID names.                                             *)
THEOREM Refinement == Spec => Implements
<1>1. Init => Abstract!Init
  BY DEF Init, Abstract!Init
<1>2. Init => EtagInv /\ PendingInv
  BY DEF Init, EtagInv, PendingInv, Justified
<1>3. TypeOK /\ EtagInv /\ PendingInv /\ [Next]_vars => EtagInv' /\ PendingInv'
  BY EtagInvStep, PendingInvStep
<1>4. TypeOK /\ LedgerInv /\ EtagInv /\ PendingInv /\ [Next]_vars => [Abstract!Next]_Abstract!vars
  BY StepRefines
<1> QED
  BY <1>1, <1>2, <1>3, <1>4, TypeCorrect, LedgerCorrect, PTL DEF Spec, Implements, Abstract!Spec
-----------------------------------------------------------------------------
(* What a caller is answered *)

\* A record is in the log of writes under the operation ID it carries.
StoredInv ==
    \A k \in Keys : records[k] # None => \E w \in landed : w.key = k /\ w.op = records[k].op

LEMMA StoredInvStep ==
    ASSUME TypeOK, StoredInv, [Next]_vars
    PROVE  StoredInv' /\ landed \subseteq landed'
<1>1. CASE UNCHANGED <<records, landed, wrote>>
  BY <1>1 DEF StoredInv
<1>2. CASE \E w : InFlight(w) /\ WriteLands(w)
  <2>1. PICK v : InFlight(v) /\ WriteLands(v)
    BY <1>2
  <2>2. landed \subseteq landed'
    BY <2>1 DEF WriteLands
  <2>3. ASSUME NEW k \in Keys, records'[k] # None
        PROVE  \E w \in landed' : w.key = k /\ w.op = records'[k].op
    <3>1. CASE k = v.key
      <4>1. records'[k].op = v.op
        BY <2>1, <3>1 DEF WriteLands, TypeOK
      <4> DEFINE e == [key |-> v.key, op |-> v.op, content |-> v.content,
                       expected |-> v.expected, etag |-> nextEtag]
      <4>2. e \in landed' /\ e.key = v.key /\ e.op = v.op
        BY <2>1 DEF WriteLands
      <4> QED
        BY <3>1, <4>1, <4>2
    <3>2. CASE k # v.key
      <4>1. records'[k] = records[k]
        BY <2>1, <3>2 DEF WriteLands, TypeOK
      <4> QED
        BY <2>2, <2>3, <4>1 DEF StoredInv
    <3> QED
      BY <3>1, <3>2
  <2> QED
    BY <2>2, <2>3 DEF StoredInv
<1> QED
  BY <1>1, <1>2, OnlyInFlightLands

\* A caller is told `applied` by a read that found its operation ID in the record.
LEMMA AppliedIsRead ==
    ASSUME TypeOK, [Next]_vars, NEW q \in Callers, pc'[q] = "applied", pc[q] # "applied"
    PROVE  /\ pc[q] # "idle"
           /\ records[call[q].key] # None /\ records[call[q].key].op = call[q].op
<1> DEFINE Goal == /\ pc[q] # "idle"
                   /\ records[call[q].key] # None /\ records[call[q].key].op = call[q].op
<1>1. ASSUME NEW p \in Callers, p # q, Step(p) PROVE FALSE
  <2>1. \E s : pc' = [pc EXCEPT ![p] = s]
    BY <1>1 DEF Step, Begin, Claim, ClaimConfirm, ClaimRead, ReadBefore, Write, Confirm, ReadBack,
                Resolve, ReadThen, ReadReturns, ReadThrows, Rejected, Unclear, Return, Goto
  <2> QED
    BY <1>1, <2>1 DEF TypeOK
<1>2. ASSUME Begin(q) \/ Claim(q) \/ ClaimConfirm(q) \/ ClaimRead(q) \/ Write(q) PROVE FALSE
  BY <1>2 DEF Begin, Claim, ClaimConfirm, ClaimRead, Write, ReadThen, ReadReturns, Rejected, Unclear,
              Return, Goto, TypeOK
<1>3. ASSUME ReadBefore(q) \/ Confirm(q) \/ ReadBack(q) PROVE Goal
  BY <1>3 DEF ReadBefore, Confirm, ReadBack, ReadReturns, ReadThrows, Rejected, Unclear, Return, Goto,
              Absent, SameWrite, Live, TypeOK
<1>4. ASSUME Resolve(q) PROVE Goal
  BY <1>4 DEF Resolve, ReadThen, Goto, TypeOK
<1>5. ASSUME LateClaimLands \/ LateWriteLands \/ ClockPasses \/ UNCHANGED vars PROVE FALSE
  BY <1>5 DEF LateClaimLands, LateWriteLands, ClockPasses, vars
<1> QED
  BY <1>1, <1>2, <1>3, <1>4, <1>5 DEF Next, Step

(* `applied` is never a guess: the write that the operation ID names took     *)
(* effect on this key, although responses are lost and the SDK reports        *)
(* failed writes as done.                                                     *)
THEOREM AppliedCorrect == Spec => []AppliedIsLanded
<1>1. Init => StoredInv /\ AppliedIsLanded
  BY DEF Init, StoredInv, AppliedIsLanded
<1>2. TypeOK /\ StoredInv /\ AppliedIsLanded /\ [Next]_vars => StoredInv' /\ AppliedIsLanded'
  <2> SUFFICES ASSUME TypeOK, StoredInv, AppliedIsLanded, [Next]_vars
               PROVE  StoredInv' /\ AppliedIsLanded'
    OBVIOUS
  <2>1. StoredInv' /\ landed \subseteq landed'
    BY StoredInvStep
  <2>2. ASSUME NEW q \in Callers, pc'[q] = "applied"
        PROVE  \E w \in landed' : w.key = call'[q].key /\ w.op = call'[q].op
    <3>1. CASE pc[q] = "applied"
      BY <2>1, <3>1, CallIsFixed DEF AppliedIsLanded
    <3>2. CASE pc[q] # "applied"
      <4>1. /\ pc[q] # "idle"
            /\ records[call[q].key] # None /\ records[call[q].key].op = call[q].op
        BY <2>2, <3>2, AppliedIsRead
      <4>2. call[q].key \in Keys /\ call'[q] = call[q]
        BY <4>1, CallIsFixed DEF TypeOK, CompareAndSetInput
      <4> QED
        BY <2>1, <4>1, <4>2 DEF StoredInv
    <3> QED
      BY <3>1, <3>2
  <2> QED
    BY <2>1, <2>2 DEF AppliedIsLanded
<1> QED
  BY <1>1, <1>2, TypeCorrect, PTL DEF Spec
\* Nothing this caller sent has landed or can still land.
Untouched(p) == p \notin wrote /\ \A w \in lateWrites : w.by # p

(* Why a refusal is definite.  A caller that has sent a write holds the claim *)
(* of its ID, so it will never see `operation_mismatch`; and on a second      *)
(* attempt it finds its own claim, so `retry` is set and `conflict` is not    *)
(* answered.  A fresh claim means that it has sent nothing.                   *)
RefusalInv ==
    \A p \in Callers :
        /\ pc[p] # "idle" /\ ~Untouched(p) => Claimed(p)
        /\ pc[p] \in {"idle", "conflict", "operation_mismatch"} => Untouched(p)
        /\ pc[p] \in {"before", "write", "readBack"} /\ ~local[p].retry => Untouched(p)
        /\ pc[p] = "claimConfirm" /\ local[p].etag # Foreign => Untouched(p)

\* Only a caller at its write can touch anything; its claim is then its own.
LEMMA OnlyWriterTouches ==
    ASSUME TypeOK, [Next]_vars, NEW q \in Callers, Untouched(q), ~Untouched(q)'
    PROVE  pc[q] = "write" /\ Write(q)
<1>1. ASSUME NEW w, InFlight(w), w.by = q PROVE pc[q] = "write" /\ w = MyWrite(q)
  BY <1>1 DEF InFlight, Untouched, MyWrite
<1>2. pc[q] = "write"
  <2>1. CASE \E w \in lateWrites' : w.by = q
    BY <1>1, <2>1, OnlyInFlightIsLate
  <2>2. CASE q \in wrote'
    BY <1>1, <2>2, OnlyInFlightLands DEF WriteLands, Untouched
  <2> QED
    BY <2>1, <2>2 DEF Untouched
<1>3. ASSUME NEW p \in Callers, p # q, Step(p) PROVE FALSE
  <2>1. CASE Write(p)
    <3>1. MyWrite(p).by # q
      BY <1>3 DEF MyWrite
    <3> QED
      BY <2>1, <3>1 DEF Write, WriteLands, ReadThen, Untouched
  <2>2. CASE ~Write(p)
    BY <1>3, <2>2 DEF Step, Begin, Claim, ClaimConfirm, ClaimRead, ReadBefore, Confirm, ReadBack,
                      Resolve, ReadThen, ReadReturns, ReadThrows, Untouched
  <2> QED
    BY <2>1, <2>2
<1>4. ASSUME Step(q) PROVE Write(q)
  BY <1>2, <1>4 DEF Step, Begin, Claim, ClaimConfirm, ClaimRead, ReadBefore, Confirm, ReadBack, Resolve
<1>5. ASSUME LateClaimLands \/ LateWriteLands \/ ClockPasses \/ UNCHANGED vars PROVE FALSE
  BY <1>5 DEF LateClaimLands, LateWriteLands, WriteLands, ClockPasses, vars, Untouched
<1> QED
  BY <1>2, <1>3, <1>4, <1>5 DEF Next
\* Where a caller goes from its write.
LEMMA WriteMoves ==
    ASSUME TypeOK, NEW q \in Callers, Write(q)
    PROVE  /\ pc'[q] \in {"confirm", "readBack", "unavailable", "resolve", "outcome_unknown"}
           /\ pc'[q] = "readBack" => UNCHANGED <<lateWrites, wrote, local>>
  BY DEF Write, ReadThen, Rejected, Unclear, Return, Goto, TypeOK

\* A claim outlives the steps of its caller.
LEMMA ClaimedForEver ==
    ASSUME TypeOK, [Next]_vars, NEW q \in Callers, pc[q] # "idle", Claimed(q)
    PROVE  Claimed(q)'
<1>1. call[q].op \in Ops /\ call'[q] = call[q]
  BY CallIsFixed DEF TypeOK, CompareAndSetInput
<1>2. ledger'[call[q].op] = ledger[call[q].op]
  BY <1>1, LedgerWriteOnce DEF Claimed
<1> QED
  BY <1>1, <1>2 DEF Claimed

\* A caller that is not stepping stands still.
LEMMA OthersStandStill ==
    ASSUME TypeOK, [Next]_vars, NEW q \in Callers, ~Step(q)
    PROVE  pc'[q] = pc[q] /\ local'[q] = local[q]
<1>1. ASSUME NEW p \in Callers, p # q, Step(p) PROVE pc'[q] = pc[q] /\ local'[q] = local[q]
  <2>1. \E s : pc' = [pc EXCEPT ![p] = s]
    BY <1>1 DEF Step, Begin, Claim, ClaimConfirm, ClaimRead, ReadBefore, Write, Confirm, ReadBack,
                Resolve, ReadThen, ReadReturns, ReadThrows, Rejected, Unclear, Return, Goto
  <2>2. local'[q] = local[q]
    BY <1>1 DEF Step, Begin, Claim, ClaimConfirm, ClaimRead, ReadBefore, Write, Confirm, ReadBack,
                Resolve, ReadThen, ReadReturns, ReadThrows, TypeOK
  <2> QED
    BY <1>1, <2>1, <2>2 DEF TypeOK
<1>2. ASSUME LateClaimLands \/ LateWriteLands \/ ClockPasses \/ UNCHANGED vars
      PROVE  pc'[q] = pc[q] /\ local'[q] = local[q]
  BY <1>2 DEF LateClaimLands, LateWriteLands, ClockPasses, vars
<1> QED
  BY <1>1, <1>2 DEF Next

LEMMA RefusalInvStep ==
    ASSUME TypeOK, LedgerInv, RefusalInv, [Next]_vars, NEW q \in Callers
    PROVE  /\ pc'[q] # "idle" /\ ~Untouched(q)' => Claimed(q)'
           /\ pc'[q] \in {"idle", "conflict", "operation_mismatch"} => Untouched(q)'
           /\ pc'[q] \in {"before", "write", "readBack"} /\ ~local'[q].retry => Untouched(q)'
           /\ pc'[q] = "claimConfirm" /\ local'[q].etag # Foreign => Untouched(q)'
<1>1. CASE Untouched(q)'
  BY <1>1
<1>2. CASE Untouched(q) /\ ~Untouched(q)'
  <2>1. pc[q] = "write" /\ Write(q)
    BY <1>2, OnlyWriterTouches
  <2>2. Claimed(q)'
    BY <2>1, ClaimedForEver DEF LedgerInv
  <2>3. pc'[q] \in {"confirm", "unavailable", "resolve", "outcome_unknown"}
    BY <1>2, <2>1, WriteMoves DEF Untouched
  <2> QED
    BY <2>2, <2>3
<1>3. CASE ~Untouched(q)
  <2>1. /\ pc[q] \notin {"idle", "conflict", "operation_mismatch"}
        /\ Claimed(q)
        /\ pc[q] \in {"before", "write", "readBack"} => local[q].retry
        /\ pc[q] = "claimConfirm" => local[q].etag = Foreign
    BY <1>3 DEF RefusalInv
  <2>2. Claimed(q)' /\ pc'[q] # "idle"
    BY <2>1, ClaimedForEver, CallIsFixed
  <2> SUFFICES /\ pc'[q] \notin {"conflict", "operation_mismatch"}
               /\ pc'[q] \in {"before", "write", "readBack"} => local'[q].retry
               /\ pc'[q] = "claimConfirm" => local'[q].etag = Foreign
    BY <2>2
  <2>3. CASE ~Step(q)
    BY <2>1, <2>3, OthersStandStill
  <2>4. CASE Claim(q)
    <3>1. ~ClaimLands(call[q].op, call[q].key, call[q].content)
      BY <2>1 DEF Claimed, ClaimLands
    <3> QED
      BY <2>4, <3>1 DEF Claim, ReadThen, Rejected, Unclear, Return, Goto, TypeOK, Locals
  <2>5. CASE ClaimConfirm(q)
    <3>1. ledger[call[q].op].etag # Foreign
      BY <2>1 DEF Claimed, TypeOK, CompareAndSetInput, LedgerEntry, Etags, Foreign
    <3> QED
      BY <2>1, <2>5, <3>1 DEF ClaimConfirm, ReadReturns, Unclear, Return, Goto, TypeOK
  <2>6. CASE ClaimRead(q)
    BY <2>1, <2>6 DEF ClaimRead, ReadReturns, Unclear, Return, Goto, TypeOK, Locals
  <2>7. CASE ReadBefore(q)
    BY <2>1, <2>7 DEF ReadBefore, ReadReturns, ReadThrows, Rejected, Unclear, Return, Goto, Absent, TypeOK, Locals
  <2>8. CASE Write(q)
    BY <2>1, <2>8, WriteMoves DEF Write
  <2>9. CASE ReadBack(q)
    BY <2>1, <2>9 DEF ReadBack, ReadReturns, ReadThrows, Rejected, Unclear, Return, Goto, Absent, TypeOK
  <2>10. CASE Begin(q) \/ Confirm(q) \/ Resolve(q)
    BY <2>1, <2>10 DEF Begin, Confirm, Resolve, ReadReturns, ReadThen, Unclear, Return, Goto, TypeOK
  <2> QED
    BY <2>3, <2>4, <2>5, <2>6, <2>7, <2>8, <2>9, <2>10 DEF Step
<1> QED
  BY <1>1, <1>2, <1>3

(* `conflict` and `operation_mismatch` are definite: no attempt of the caller *)
(* has written, and nothing it sent is still on its way to the provider.      *)
THEOREM RefusalCorrect == Spec => []DefiniteRefusalWroteNothing
<1>1. Init => RefusalInv
  BY DEF Init, RefusalInv, Untouched
<1>2. TypeOK /\ LedgerInv /\ RefusalInv /\ [Next]_vars => RefusalInv'
  BY RefusalInvStep DEF RefusalInv
<1>3. RefusalInv => DefiniteRefusalWroteNothing
  BY DEF RefusalInv, Untouched, DefiniteRefusalWroteNothing
<1> QED
  BY <1>1, <1>2, <1>3, TypeCorrect, LedgerCorrect, PTL DEF Spec
=============================================================================
