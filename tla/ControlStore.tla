---------------------------- MODULE ControlStore ----------------------------
(***************************************************************************)
(* The Netlify Blobs adapter of the control plane                           *)
(* (apps/control/src/runtime/control-store.ts) and the helper its callers   *)
(* write through, writeAndResolve (apps/control/src/invitations/            *)
(* internal.ts).                                                            *)
(*                                                                         *)
(* Every step of a caller is one round trip to the provider, so the callers *)
(* interleave at every `await`.  A round trip may fail: with a definite     *)
(* rejection (nothing happened), ambiguously (the request may take effect   *)
(* now, later or never), or with the SDK's `modified: true` on an HTTP      *)
(* error.  A content is a (value, expiresAt) pair; digestOf is injective on *)
(* those, so a content is its own digest.  The copying of legacy records    *)
(* whose key contains a `#` is left out: here no key is a legacy one.       *)
(***************************************************************************)
EXTENDS Naturals

CONSTANTS
    Callers,    \* invocations of writeAndResolve
    Keys,
    Ops,        \* operation IDs
    Contents,   \* (value, expiresAt) pairs
    Expiring,   \* the contents whose expiresAt is not null
    Requests,   \* the writes callers ask for
    MaxFaults,  \* bound: how many round trips may fail
    None

ASSUME ExpiringAssumption == Expiring \subseteq Contents

ASSUME RequestsAssumption ==
    Requests \subseteq [key : Keys, op : Ops, content : Contents]

ASSUME NoneAssumption ==
    /\ None \notin Nat
    /\ None \notin [op : Ops, content : Contents, etag : Nat]
    /\ None \notin [key : Keys, content : Contents, etag : Nat]

ASSUME MaxFaultsAssumption == MaxFaults \in Nat

\* An ETag that is well formed and belongs to no stored object.
Foreign == 0

VARIABLES
    records, ledger, passed, nextEtag, landed,  \* see CasStore
    lateClaims, lateWrites,  \* requests that were given up on and may still land
    faults,                  \* round trips that failed so far
    pc,                      \* where each caller is, and what it was answered
    call,                    \* its CompareAndSetInput
    local,                   \* its local variables
    wrote                    \* history: the callers one of whose writes landed

storeVars == <<records, ledger, passed, nextEtag, landed>>
vars == <<records, ledger, passed, nextEtag, landed, lateClaims, lateWrites,
          faults, pc, call, local, wrote>>

Etags == Nat \ {0}
Envelope == [op : Ops, content : Contents, etag : Etags]
LedgerEntry == [key : Keys, content : Contents, etag : Etags]
CompareAndSetInput == [key : Keys, op : Ops, content : Contents, expected : Etags \cup {None}]
ConditionalWrite == [key : Keys, op : Ops, content : Contents, expected : Etags \cup {None},
                     cond : Etags \cup {None}, by : Callers]
Locals == [attempt : {1, 2}, retry : BOOLEAN, cond : Etags \cup {None}, etag : Nat]
Answers == {"applied", "conflict", "operation_mismatch", "outcome_unknown", "unavailable"}
Steps == {"idle", "claim", "claimConfirm", "claimRead", "before", "write", "confirm",
          "readBack", "resolve"}

Init ==
    /\ records = [k \in Keys |-> None]
    /\ ledger = [o \in Ops |-> None]
    /\ passed = {}
    /\ nextEtag = 1
    /\ landed = {}
    /\ lateClaims = {} /\ lateWrites = {}
    /\ faults = 0
    /\ pc = [p \in Callers |-> "idle"]
    /\ call = [p \in Callers |-> None]
    /\ local = [p \in Callers |-> [attempt |-> 1, retry |-> FALSE, cond |-> None, etag |-> Foreign]]
    /\ wrote = {}

-----------------------------------------------------------------------------
(* The provider *)

\* isRecordLive
Live(r) == r # None /\ r.content \notin passed

\* The revision of the live record, `before.live?.revision ?? null`.
LiveRevision(k) == IF Live(records[k]) THEN records[k].etag ELSE None

\* The condition of the next write: onlyIfMatch the stored ETag, or onlyIfNew.
RawEtag(k) == IF records[k] = None THEN None ELSE records[k].etag

\* sameWrite: the live record is this operation's write.
SameWrite(p) ==
    /\ Live(records[call[p].key])
    /\ records[call[p].key].op = call[p].op
    /\ records[call[p].key].content = call[p].content

\* A conditional setJSON of the ledger takes effect.
ClaimLands(o, k, c) ==
    /\ ledger[o] = None
    /\ ledger' = [ledger EXCEPT ![o] = [key |-> k, content |-> c, etag |-> nextEtag]]
    /\ nextEtag' = nextEtag + 1
    /\ UNCHANGED <<records, passed, landed>>

\* A conditional setJSON of a record takes effect.
WriteLands(w) ==
    /\ RawEtag(w.key) = w.cond
    /\ records' = [records EXCEPT ![w.key] =
                      [op |-> w.op, content |-> w.content, etag |-> nextEtag]]
    /\ landed' = landed \cup {[key |-> w.key, op |-> w.op, content |-> w.content,
                               expected |-> w.expected, etag |-> nextEtag]}
    /\ nextEtag' = nextEtag + 1
    /\ wrote' = wrote \cup {w.by}
    /\ UNCHANGED <<ledger, passed>>

Fault == faults < MaxFaults /\ faults' = faults + 1

\* The provider commits a request whose sender has stopped waiting for it ...
LateClaimLands ==
    \E w \in lateClaims :
        /\ \/ ClaimLands(w.op, w.key, w.content)
           \/ ledger[w.op] # None /\ UNCHANGED storeVars
        /\ lateClaims' = lateClaims \ {w}
        /\ UNCHANGED <<lateWrites, faults, pc, call, local, wrote>>

LateWriteLands ==
    \E w \in lateWrites :
        /\ \/ WriteLands(w)
           \/ RawEtag(w.key) # w.cond /\ UNCHANGED <<storeVars, wrote>>
        /\ lateWrites' = lateWrites \ {w}
        /\ UNCHANGED <<lateClaims, faults, pc, call, local>>

\* ... and the trusted clock passes an expiry.
ClockPasses ==
    /\ \E c \in Expiring \ passed : passed' = passed \cup {c}
    /\ UNCHANGED <<records, ledger, nextEtag, landed, lateClaims, lateWrites,
                   faults, pc, call, local, wrote>>

-----------------------------------------------------------------------------
(* Outcomes of a caller's step *)

Goto(p, step) == pc' = [pc EXCEPT ![p] = step]

(* compareAndSet has returned `kind`.  writeAndResolve passes it on, unless  *)
(* this is its first attempt and the outcome is unknown: then it resolves.   *)
Return(p, kind) ==
    Goto(p, IF kind = "outcome_unknown" /\ local[p].attempt = 1 THEN "resolve" ELSE kind)

\* The answer of a round trip that threw: isDefiniteRejection or not.
Rejected(p) == Fault /\ Return(p, "unavailable")
Unclear(p) == Fault /\ Return(p, "outcome_unknown")

\* A read that threw.  It changes nothing at the provider.
ReadThrows(p) ==
    /\ Rejected(p) \/ Unclear(p)
    /\ UNCHANGED <<storeVars, lateClaims, lateWrites, call, local, wrote>>

\* A read that changes nothing but where its caller goes next.
ReadThen(p, step) ==
    /\ Goto(p, step)
    /\ UNCHANGED <<storeVars, lateClaims, lateWrites, faults, call, local, wrote>>

ReadReturns(p, kind) ==
    /\ Return(p, kind)
    /\ UNCHANGED <<storeVars, lateClaims, lateWrites, faults, call, local, wrote>>

-----------------------------------------------------------------------------
(* The caller: read, then compareAndSet what was read *)

\* read: the caller bases its write on the live revision it finds.
Begin(p) ==
    /\ pc[p] = "idle"
    /\ \E r \in Requests :
          call' = [call EXCEPT ![p] =
              [key |-> r.key, op |-> r.op, content |-> r.content, expected |-> LiveRevision(r.key)]]
    /\ Goto(p, "claim")
    /\ UNCHANGED <<storeVars, lateClaims, lateWrites, faults, local, wrote>>

MyClaim(p) == [op |-> call[p].op, key |-> call[p].key, content |-> call[p].content]

\* claimOperation: setJSON onlyIfNew in the operations ledger.
Claim(p) ==
    /\ pc[p] = "claim"
    /\ \/ /\ ClaimLands(call[p].op, call[p].key, call[p].content)
          /\ local' = [local EXCEPT ![p].etag = nextEtag]
          /\ Goto(p, "claimConfirm")
          /\ UNCHANGED <<lateClaims, lateWrites, faults, call, wrote>>
       \/ /\ ledger[call[p].op] # None
          /\ ReadThen(p, "claimRead")
       \/ /\ Rejected(p)
          /\ UNCHANGED <<storeVars, lateClaims, lateWrites, call, local, wrote>>
       \/ /\ Unclear(p)
          /\ lateClaims' = lateClaims \cup {MyClaim(p)}
          /\ UNCHANGED <<storeVars, lateWrites, call, local, wrote>>
       \/ \* modified: true on an HTTP error, with some ETag
          /\ Fault
          /\ lateClaims' = lateClaims \cup {MyClaim(p)}
          /\ local' = [local EXCEPT ![p].etag = Foreign]
          /\ Goto(p, "claimConfirm")
          /\ UNCHANGED <<storeVars, lateWrites, call, wrote>>

\* Mutant: any ledger entry counts as this write's claim.
Claimed_AnyEntry(p) == ledger[call[p].op] # None

\* sameLedgerEntry
Claimed(p) ==
    LET e == ledger[call[p].op] IN
    e # None /\ e.key = call[p].key /\ e.content = call[p].content

\* The strong read that confirms a fresh claim: only this call's own ETag will do.
ClaimConfirm(p) ==
    /\ pc[p] = "claimConfirm"
    /\ \/ /\ Claimed(p) /\ ledger[call[p].op].etag = local[p].etag
          /\ local' = [local EXCEPT ![p].retry = FALSE]
          /\ Goto(p, "before")
          /\ UNCHANGED <<storeVars, lateClaims, lateWrites, faults, call, wrote>>
       \/ /\ ~(Claimed(p) /\ ledger[call[p].op].etag = local[p].etag)
          /\ ReadReturns(p, "outcome_unknown")
       \/ /\ Unclear(p)
          /\ UNCHANGED <<storeVars, lateClaims, lateWrites, call, local, wrote>>

\* The ID was claimed before: by this very write, or by another one.
ClaimRead(p) ==
    /\ pc[p] = "claimRead"
    /\ \/ /\ Claimed(p)
          /\ local' = [local EXCEPT ![p].retry = TRUE]
          /\ Goto(p, "before")
          /\ UNCHANGED <<storeVars, lateClaims, lateWrites, faults, call, wrote>>
       \/ /\ ~Claimed(p)
          /\ ReadReturns(p, "operation_mismatch")
       \/ /\ Unclear(p)
          /\ UNCHANGED <<storeVars, lateClaims, lateWrites, call, local, wrote>>

\* Mutant: the retry flag of the claim is dropped.
Absent_IgnoresRetry(p) == "conflict"

\* What may be said of a write that is not there: a retried claim may have
\* landed and been superseded, so only a first claim is a definite conflict.
Absent(p) == IF local[p].retry THEN "outcome_unknown" ELSE "conflict"

\* readLive before the write.  Bytes that do not decode are `unavailable`.
ReadBefore(p) ==
    /\ pc[p] = "before"
    /\ \/ SameWrite(p) /\ ReadReturns(p, "applied")
       \/ /\ ~SameWrite(p)
          /\ LiveRevision(call[p].key) # call[p].expected
          /\ ReadReturns(p, Absent(p))
       \/ /\ ~SameWrite(p)
          /\ LiveRevision(call[p].key) = call[p].expected
          /\ local' = [local EXCEPT ![p].cond = RawEtag(call[p].key)]
          /\ Goto(p, "write")
          /\ UNCHANGED <<storeVars, lateClaims, lateWrites, faults, call, wrote>>
       \/ ReadThrows(p)

\* Mutant: the write is conditional on what is stored when it is sent, not on
\* what the check saw.
MyWrite_FreshCondition(p) ==
    [key |-> call[p].key, op |-> call[p].op, content |-> call[p].content,
     expected |-> call[p].expected, cond |-> RawEtag(call[p].key), by |-> p]

MyWrite(p) ==
    [key |-> call[p].key, op |-> call[p].op, content |-> call[p].content,
     expected |-> call[p].expected, cond |-> local[p].cond, by |-> p]

\* The conditional write of the record.
Write(p) ==
    /\ pc[p] = "write"
    /\ \/ /\ WriteLands(MyWrite(p))
          /\ local' = [local EXCEPT ![p].etag = nextEtag]
          /\ Goto(p, "confirm")
          /\ UNCHANGED <<lateClaims, lateWrites, faults, call>>
       \/ /\ RawEtag(call[p].key) # local[p].cond
          /\ ReadThen(p, "readBack")
       \/ /\ Rejected(p)
          /\ UNCHANGED <<storeVars, lateClaims, lateWrites, call, local, wrote>>
       \/ /\ Unclear(p)
          /\ lateWrites' = lateWrites \cup {MyWrite(p)}
          /\ UNCHANGED <<storeVars, lateClaims, call, local, wrote>>
       \/ \* modified: true on an HTTP error, with some ETag
          /\ Fault
          /\ lateWrites' = lateWrites \cup {MyWrite(p)}
          /\ local' = [local EXCEPT ![p].etag = Foreign]
          /\ Goto(p, "confirm")
          /\ UNCHANGED <<storeVars, lateClaims, call, wrote>>

\* Mutant: `modified: true` is believed, with no confirming read.
Confirm_Believes(p) == pc[p] = "confirm" /\ ReadReturns(p, "applied")

\* The strong read that confirms the write: this ETag and these bytes.
Confirm(p) ==
    /\ pc[p] = "confirm"
    /\ \/ /\ SameWrite(p) /\ records[call[p].key].etag = local[p].etag
          /\ ReadReturns(p, "applied")
       \/ /\ ~(SameWrite(p) /\ records[call[p].key].etag = local[p].etag)
          /\ ReadReturns(p, "outcome_unknown")
       \/ /\ Unclear(p)
          /\ UNCHANGED <<storeVars, lateClaims, lateWrites, call, local, wrote>>

\* The precondition failed: read back rather than guess.
ReadBack(p) ==
    /\ pc[p] = "readBack"
    /\ \/ SameWrite(p) /\ ReadReturns(p, "applied")
       \/ ~SameWrite(p) /\ ReadReturns(p, Absent(p))
       \/ ReadThrows(p)

\* resolve: an expired record still proves that its operation landed.
Resolve(p) ==
    /\ pc[p] = "resolve"
    /\ LET r == records[call[p].key] IN
       \/ r # None /\ r.op = call[p].op /\ ReadThen(p, "applied")
       \/ r # None /\ r.op # call[p].op /\ ReadThen(p, "outcome_unknown")
       \/ \* not_applied: compareAndSet once more, with the same bytes
          /\ r = None
          /\ local' = [local EXCEPT ![p].attempt = 2]
          /\ Goto(p, "claim")
          /\ UNCHANGED <<storeVars, lateClaims, lateWrites, faults, call, wrote>>
       \/ /\ Fault /\ Goto(p, "outcome_unknown")
          /\ UNCHANGED <<storeVars, lateClaims, lateWrites, call, local, wrote>>

-----------------------------------------------------------------------------
Step(p) ==
    \/ Begin(p) \/ Claim(p) \/ ClaimConfirm(p) \/ ClaimRead(p) \/ ReadBefore(p)
    \/ Write(p) \/ Confirm(p) \/ ReadBack(p) \/ Resolve(p)

Next ==
    \/ \E p \in Callers : Step(p)
    \/ LateClaimLands \/ LateWriteLands \/ ClockPasses

Spec == Init /\ [][Next]_vars
-----------------------------------------------------------------------------
(* Correctness *)

(* What is stored, in flight or held by a caller stays well formed: no       *)
(* stored object, claim or condition ever carries the empty ETag, and a      *)
(* caller that has begun has an input.                                       *)
TypeOK ==
    /\ records \in [Keys -> Envelope \cup {None}]
    /\ ledger \in [Ops -> LedgerEntry \cup {None}]
    /\ passed \subseteq Expiring
    /\ nextEtag \in Etags
    /\ landed \subseteq [key : Keys, op : Ops, content : Contents,
                         expected : Etags \cup {None}, etag : Etags]
    /\ lateClaims \subseteq [key : Keys, op : Ops, content : Contents]
    /\ lateWrites \subseteq ConditionalWrite
    /\ faults \in 0..MaxFaults
    /\ pc \in [Callers -> Steps \cup Answers]
    /\ call \in [Callers -> CompareAndSetInput \cup {None}]
    /\ \A p \in Callers : pc[p] # "idle" => call[p] \in CompareAndSetInput
    /\ local \in [Callers -> Locals]
    /\ wrote \subseteq Callers

(* An `applied` answer is never a guess: the write that the operation ID     *)
(* names took effect on this key, although responses are lost and the SDK    *)
(* says `modified: true` of writes that failed.                              *)
AppliedIsLanded ==
    \A p \in Callers : pc[p] = "applied" =>
        \E w \in landed : w.key = call[p].key /\ w.op = call[p].op

(* An operation ID never names two different writes, not even on two keys   *)
(* that share no transaction.                                               *)
OneWritePerOperation ==
    \A v, w \in landed : v.op = w.op => v.key = w.key /\ v.content = w.content

(* `conflict` and `operation_mismatch` are definite: no attempt of this      *)
(* caller has written anything, and nothing it sent is still on its way.     *)
DefiniteRefusalWroteNothing ==
    \A p \in Callers : pc[p] \in {"conflict", "operation_mismatch"} =>
        /\ p \notin wrote
        /\ \A w \in lateWrites : w.by # p

\* Requests, timeouts and callers are forgotten; what is stored is seen as it is.
Abstract == INSTANCE CasStore WITH
    Keys <- Keys, Ops <- Ops, Contents <- Contents, None <- None,
    records <- records, ledger <- ledger, passed <- passed,
    nextEtag <- nextEtag, landed <- landed

(* What is stored, and how it changes, is what CasStore allows: compareAndSet *)
(* replaces exactly the revision its caller expected, under an operation ID   *)
(* that is bound to this key and these bytes, whatever requests are lost.     *)
Implements == Abstract!Spec
=============================================================================
