----------------------- MODULE ChannelOperationsProofs -----------------------
(***************************************************************************)
(* Proofs about ChannelOperations, for any number of calls, items, devices   *)
(* and faults, and about ChannelTimeline, what is shown of a channel, for    *)
(* any number of events, sends and lifecycles and any queue.  The two share  *)
(* no state; their proofs stand one after the other.                        *)
(*                                                                         *)
(* ChannelOperations: everything hangs on the compare-and-set of the        *)
(* journal.  A call whose revision is the journal's (`Held`) knows what the *)
(* record says, for nobody has written it since: a create that took the     *)
(* lease is the only one that did so at its revision, and an intro that     *)
(* records an item writes the batch it read, with that one item changed.    *)
(* The rest is what the record says of the world: while an attempt is to be *)
(* made there is no room, and an item recorded as accepted is in the room.  *)
(*                                                                         *)
(* ChannelTimeline: no update of a lifecycle ends before an earlier one, an  *)
(* update brings all of its window that is shown (or what it leaves out has  *)
(* gone astray), and an own event that is shown beyond the window stands     *)
(* next to a message.  So what is new has exactly the known events after it  *)
(* at or behind its anchor.                                                  *)
(***************************************************************************)
EXTENDS ChannelOperations, ChannelTimeline, SequenceTheorems, WellFoundedInduction, TLAPS

-----------------------------------------------------------------------------
(* The inductive invariant *)

CreatePlaces == {"idle", "creating", "reconcile", "take", "settling", "done", "dead"}
SendPlaces == {"idle", "gate", "transmit", "record", "done", "dead"}
Attempting == {"creating", "settling"}
Sending == {"gate", "transmit", "record"}
Results == {None, "done", "rejected", "unknown"}

Batches == [ids : Calls, device : Devices, items : [Batch -> ItemStates]]
Events == [item : Batch, ids : Calls, device : Devices]

CallType == [pc : CreatePlaces \cup SendPlaces, device : Nat, rev : Nat,
             record : {None} \cup Batches, index : Nat, result : Results, answer : Answers]

Types ==
    /\ op \in {"create", "send", "intro"} /\ proves \in BOOLEAN
    /\ revision \in Nat /\ rooms \in Nat /\ faults \in Nat
    /\ calls \in [Calls -> CallType]
    /\ joined \in BOOLEAN /\ device \in Devices
    /\ history \in [outlived : BOOLEAN, strayed : BOOLEAN]

\* The record in the journal is as the call x read or wrote it.
Held(x) == x.rev = revision

\* No room is there and none is to come by itself.
Nothing == rooms = 0 /\ flying = {}

\* Where one room is promised.
Sure == ~(proves /\ history.outlived)

CreateOK(x) ==
    /\ x.pc \in CreatePlaces
    /\ x.rev <= revision
    /\ x.pc \in {"take", "reconcile"} /\ Held(x) =>
          /\ journal # None /\ journal.state # "created"
          /\ journal.state = "attempting" => ~journal.live
    /\ x.pc \in Attempting /\ Held(x) => journal # None /\ journal.state = "attempting"

\* No two attempts have the lease of one revision.
Alone ==
    \A c, d \in Calls :
        calls[c].pc \in Attempting /\ calls[d].pc \in Attempting /\ calls[c].rev = calls[d].rev => c = d

AttemptOK(x) ==
    /\ x.pc = "creating" => Held(x) /\ Nothing /\ (proves => journal.live)
    /\ x.pc = "settling" /\ x.result = "rejected" /\ Held(x) => Nothing
    /\ x.pc = "take" /\ Held(x) => Nothing /\ (journal.state = "not_applied" \/ proves)

AtMostOne ==
    /\ rooms <= 1
    /\ rooms = 1 => flying = {}
    /\ \A x, y \in flying : x = y
    /\ journal = None => Nothing
    /\ journal # None => (journal.state = "not_applied" => Nothing)

CreateInv ==
    /\ journal \in {None} \cup Creations
    /\ timeline = <<>>
    /\ \A c \in Calls : CreateOK(calls[c])
    /\ Alone
    /\ Sure => AtMostOne /\ \A c \in Calls : AttemptOK(calls[c])

\* The item is in the room.
In(i) == \E k \in DOMAIN timeline : timeline[k].item = i

\* What a call past its start has of the batch.
Knows(x) ==
    /\ journal # None /\ x.record \in Batches
    /\ x.record.ids = journal.ids /\ x.record.device = journal.device
    /\ x.device = journal.device
    /\ \A i \in Batch : x.record.items[i] = "accepted" => In(i)

SendOK(x) ==
    /\ x.pc \in SendPlaces
    /\ x.rev <= revision
    /\ x.pc \in Sending => Knows(x)
    /\ x.pc = "gate" => Unsent(x.record) # {}
    /\ x.pc \in {"gate", "transmit"} /\ Held(x) => x.record = journal
    /\ x.pc \in {"transmit", "record"} =>
          /\ x.index \in Batch
          /\ \A i \in Batch : i < x.index => x.record.items[i] = "accepted"
    /\ x.pc = "transmit" => x.record.items[x.index] # "accepted"
    /\ x.pc = "record" /\ Held(x) =>
          /\ journal.items[x.index] # "accepted"
          /\ \A i \in Batch \ {x.index} : x.record.items[i] = journal.items[i]

\* What is in the room, or on its way there.
RoomOK ==
    /\ timeline \in Seq(Events) /\ flying \subseteq Events
    /\ journal = None => timeline = <<>> /\ flying = {}
    /\ journal # None => \A i \in Batch : journal.items[i] = "accepted" => In(i)
    /\ \A e \in flying : \A i \in Batch : i < e.item => In(i)
    /\ ~history.strayed =>
          /\ \A e \in flying : e.ids = journal.ids /\ e.device = journal.device
          /\ \A k \in DOMAIN timeline : timeline[k].ids = journal.ids /\ timeline[k].device = journal.device

SendInv ==
    /\ journal \in {None} \cup Batches
    /\ rooms = 0
    /\ \A c \in Calls : SendOK(calls[c])
    /\ RoomOK
    /\ OnceInOrder

Inv ==
    /\ Types
    /\ op = "create" => CreateInv
    /\ op # "create" => SendInv

-----------------------------------------------------------------------------
(* Helpers *)

\* A set of naturals that is not empty has a least member.
LEMMA LeastMember ==
    ASSUME NEW S, S \subseteq Nat, S # {}
    PROVE  \E i \in S : \A j \in S : i <= j
<1> DEFINE R == OpToRel(<, Nat)
<1>1. IsWellFoundedOn(R, Nat)
  BY NatLessThanWellFounded
<1>2. \A x, y \in Nat : x < y => <<x, y>> \in R
  BY DEF OpToRel
<1> HIDE DEF R
<1>3. \E i \in S : \A j \in S : ~(<<j, i>> \in R)
  BY <1>1, WFMin
<1>4. PICK i \in S : \A j \in S : ~(<<j, i>> \in R)
  BY <1>3
<1>5. \A j \in S : ~(j < i)
  BY <1>2, <1>4
<1> QED
  BY <1>5

\* One call changes, to x.
Update(c, x) == calls' = [calls EXCEPT ![c] = x] /\ x \in CallType

LEMMA Updated ==
    ASSUME Types, UNCHANGED op, NEW c \in Calls, NEW x, Update(c, x)
    PROVE  /\ calls' \in [Calls -> CallType'] /\ CallType' = CallType /\ Batch' = Batch
           /\ calls'[c] = x /\ \A d \in Calls \ {c} : calls'[d] = calls[d]
<1>1. Batch' = Batch
  BY DEF Batch
<1>2. CallType' = CallType
  BY <1>1 DEF CallType, Batches
<1> QED
  BY <1>1, <1>2 DEF Update, Types

\* The fields of a call.
LEMMA CallFields ==
    ASSUME Types, NEW c \in Calls
    PROVE  /\ calls[c] \in CallType /\ calls[c].rev \in Nat /\ calls[c].index \in Nat
           /\ calls[c].record \in {None} \cup Batches /\ calls[c].result \in Results
  BY DEF Types, CallType

LEMMA TypesNext ==
    ASSUME Types, UNCHANGED <<op, proves>>, NEW c \in Calls, NEW x, Update(c, x),
           revision' \in Nat, rooms' \in Nat, faults' \in Nat,
           joined' \in BOOLEAN, device' \in Devices,
           history' \in [outlived : BOOLEAN, strayed : BOOLEAN]
    PROVE  Types'
  BY Updated DEF Types

-----------------------------------------------------------------------------
(* create *)

\* A call moves on and leaves the journal and the rooms as they are.
LEMMA CreateStep ==
    ASSUME Types, CreateInv, UNCHANGED <<op, proves>>, NEW c \in Calls, NEW x, Update(c, x),
           UNCHANGED <<journal, revision, rooms, flying, timeline, history>>,
           CreateOK(x), Sure => AttemptOK(x),
           x.pc \in Attempting => calls[c].pc \in Attempting /\ x.rev = calls[c].rev
    PROVE  CreateInv'
<1>1. calls'[c] = x /\ \A d \in Calls \ {c} : calls'[d] = calls[d]
  BY Updated
<1>2. \A d \in Calls : CreateOK(calls'[d])
  BY <1>1 DEF CreateInv
<1>3. \A d \in Calls : CreateOK(calls[d])'
  BY <1>2 DEF CreateOK, Held
<1>4. Alone'
  BY <1>1 DEF CreateInv, Alone
<1>5. Sure' => AtMostOne'
  BY DEF CreateInv, Sure, AtMostOne, Nothing
<1>6. Sure => \A d \in Calls : AttemptOK(calls'[d])
  BY <1>1 DEF CreateInv
<1>7. Sure' => \A d \in Calls : AttemptOK(calls[d])'
  BY <1>6 DEF AttemptOK, Held, Nothing, Sure
<1> QED
  BY <1>3, <1>4, <1>5, <1>7 DEF CreateInv

\* The record is written: whoever else read it has an old revision.
LEMMA CreateWrites ==
    ASSUME Types, CreateInv, UNCHANGED <<op, proves>>, NEW c \in Calls, NEW x, Update(c, x),
           UNCHANGED <<rooms, flying, timeline, history>>,
           revision' = revision + 1, journal' \in Creations,
           x.pc \in {"done", "creating"}, x.rev <= revision',
           x.pc = "creating" => x.rev = revision' /\ journal' = Attempt,
           Sure => \A d \in Calls \ {c} : calls[d].pc # "creating",
           Sure /\ (x.pc = "creating" \/ journal'.state = "not_applied") => Nothing
    PROVE  CreateInv'
<1>1. calls'[c] = x /\ \A d \in Calls \ {c} : calls'[d] = calls[d]
  BY Updated
<1>2. journal' # None /\ revision \in Nat /\ x.rev \in Nat
  BY NoRecordAssumption DEF Types, Update, CallType
<1>3. \A d \in Calls \ {c} : calls[d].rev <= revision /\ calls[d].rev \in Nat
                             /\ calls[d].pc \in CreatePlaces /\ calls[d].rev < revision'
  BY <1>2, CallFields DEF CreateInv, CreateOK
<1>4. CreateOK(x)'
  BY <1>2 DEF CreateOK, Held, CreatePlaces, Attempting, Attempt
<1>5. \A d \in Calls \ {c} : CreateOK(calls[d])'
  BY <1>1, <1>2, <1>3 DEF CreateOK, Held
<1>6. \A d \in Calls : CreateOK(calls[d])'
  BY <1>1, <1>4, <1>5 DEF CreateOK, Held
<1>7. Alone'
  BY <1>1, <1>2, <1>3 DEF CreateInv, Alone, Attempting
<1>8. Sure' => Sure /\ AtMostOne'
  BY <1>2 DEF CreateInv, Sure, AtMostOne, Nothing
<1>9. Sure' => \A d \in Calls : AttemptOK(calls[d])'
  <2> SUFFICES ASSUME Sure, NEW d \in Calls
               PROVE  AttemptOK(calls[d])'
    BY <1>8
  <2>1. CASE d = c
    BY <1>1, <2>1 DEF AttemptOK, Held, Nothing, Attempt
  <2>2. CASE d # c
    BY <1>1, <1>3, <2>2 DEF AttemptOK, Held
  <2> QED
    BY <2>1, <2>2
<1> QED
  BY <1>6, <1>7, <1>8, <1>9 DEF CreateInv

LEMMA Answered ==
    ASSUME Types, NEW c \in Calls, NEW a \in Answers, Answer(c, a)
    PROVE  \E x : Update(c, x) /\ x.pc = "done" /\ x.rev = calls[c].rev
<1> DEFINE x == [calls[c] EXCEPT !.pc = "done", !.answer = a]
<1>1. calls[c] \in CallType
  BY CallFields
<1>2. x \in CallType /\ x.pc = "done" /\ x.rev = calls[c].rev
  BY <1>1 DEF CallType, CreatePlaces
<1>3. calls' = [calls EXCEPT ![c] = x]
  BY DEF Answer
<1> HIDE DEF x
<1> QED
  BY <1>2, <1>3 DEF Update

\* Stored, or nothing happened.
LEMMA Replaced ==
    ASSUME Types, NEW c \in Calls, NEW v, Replace(c, v)
    PROVE  /\ revision' \in Nat /\ faults' \in Nat
           /\ \/ calls[c].rev = revision /\ journal' = v /\ revision' = revision + 1
              \/ UNCHANGED <<journal, revision>>
           /\ Stores(c) <=> revision' = revision + 1
  BY DEF Types, Replace, Fault, Stores

\* A call that is over asks for nothing.
LEMMA OverOK ==
    ASSUME Types, CreateInv, NEW c \in Calls, NEW x, x.pc \in {"done", "dead"}, x.rev = calls[c].rev
    PROVE  CreateOK(x) /\ AttemptOK(x) /\ x.pc \notin Attempting
  BY DEF CreateInv, CreateOK, AttemptOK, CreatePlaces, Attempting

\* While an attempt is to be made nobody else can write the record.
LEMMA NoAttempt ==
    ASSUME Types, CreateInv, Sure, NEW d \in Calls, calls[d].pc = "creating"
    PROVE  calls[d].rev = revision /\ Nothing /\ journal # None /\ journal.state = "attempting"
           /\ (proves => journal.live)
  BY DEF CreateInv, AttemptOK, CreateOK, Held, Attempting

LEMMA FoundFacts ==
    ASSUME NEW c \in Calls, journal \in Creations
    PROVE  /\ Found(c) = "take" => journal.state = "not_applied"
           /\ Found(c) = "reconcile" => /\ journal.state \in {"attempting", "unknown"}
                                        /\ journal.state = "attempting" => ~journal.live
  BY DEF Found, Creations

LEMMA CreateActInv ==
    ASSUME Types, CreateInv, NEW c \in Calls, Create(c)
    PROVE  Types' /\ CreateInv'
<1>1. UNCHANGED <<op, proves, joined, device, rooms, timeline, flying, history>>
      /\ rooms' \in Nat /\ joined' \in BOOLEAN /\ device' \in Devices
      /\ history' \in [outlived : BOOLEAN, strayed : BOOLEAN]
  BY DEF Create, env, Types
<1>2. calls[c] \in CallType /\ revision \in Nat /\ revision + 1 \in Nat /\ faults \in Nat
  BY CallFields DEF Types
<1>3. CASE Claims(c, Attempt) /\ calls' = [calls EXCEPT ![c].pc = "creating", ![c].rev = revision']
  <2> DEFINE x == [calls[c] EXCEPT !.pc = "creating", !.rev = revision']
  <2>1. journal = None /\ journal' = Attempt /\ revision' = revision + 1 /\ faults' = faults
    BY <1>3 DEF Claims
  <2>2. calls' = [calls EXCEPT ![c] = x]
    BY <1>3
  <2>3. x \in CallType /\ x.pc = "creating" /\ x.rev = revision'
    BY <1>2, <2>1 DEF CallType, CreatePlaces
  <2> HIDE DEF x
  <2>4. Update(c, x)
    BY <2>2, <2>3 DEF Update
  <2>5. Attempt \in Creations
    BY DEF Attempt, Creations
  <2>6. Sure => Nothing /\ \A d \in Calls : calls[d].pc # "creating"
    BY <2>1, NoAttempt DEF CreateInv, AtMostOne
  <2>7. revision' <= revision'
    BY <1>2, <2>1
  <2>8. Types'
    BY <1>1, <1>2, <2>1, <2>4, TypesNext
  <2> QED
    BY <1>1, <2>1, <2>3, <2>4, <2>5, <2>6, <2>7, <2>8, CreateWrites
<1>4. CASE /\ journal # None /\ Found(c) \in {"take", "reconcile"}
           /\ calls' = [calls EXCEPT ![c].pc = Found(c), ![c].rev = revision]
           /\ UNCHANGED <<journal, revision, faults>>
  <2> DEFINE x == [calls[c] EXCEPT !.pc = Found(c), !.rev = revision]
  <2>1. calls' = [calls EXCEPT ![c] = x]
    BY <1>4
  <2>2. x \in CallType /\ x.pc = Found(c) /\ x.rev = revision
    BY <1>2, <1>4 DEF CallType, CreatePlaces
  <2> HIDE DEF x
  <2>3. Update(c, x)
    BY <2>1, <2>2 DEF Update
  <2>4. journal \in Creations
    BY <1>4 DEF CreateInv
  <2>5. CreateOK(x)
    BY <1>2, <1>4, <2>2, <2>4, FoundFacts DEF CreateOK, Held, CreatePlaces, Attempting
  <2>6. Sure => AttemptOK(x)
    BY <1>4, <2>2, <2>4, FoundFacts DEF CreateInv, AtMostOne, AttemptOK
  <2>7. x.pc \notin Attempting
    BY <1>4, <2>2 DEF Attempting
  <2>8. Types'
    BY <1>1, <1>2, <1>4, <2>3, TypesNext
  <2> QED
    BY <1>1, <1>4, <2>3, <2>5, <2>6, <2>7, <2>8, CreateStep
<1>5. CASE /\ \E a \in Answers : Answer(c, a)
           /\ UNCHANGED <<journal, revision>> /\ faults' \in Nat
  <2>1. PICK x : Update(c, x) /\ x.pc = "done" /\ x.rev = calls[c].rev
    BY <1>5, Answered
  <2>2. Types'
    BY <1>1, <1>2, <1>5, <2>1, TypesNext
  <2> QED
    BY <1>1, <1>5, <2>1, <2>2, OverOK, CreateStep
<1>6. {"ok", "unknown", "unavailable"} \subseteq Answers
  BY DEF Answers
<1>7. Fault => faults' \in Nat
  BY <1>2 DEF Fault
<1> QED
  BY <1>2, <1>3, <1>4, <1>5, <1>6, <1>7 DEF Create, JournalAway

\* A call that ends, whether its write was stored or not.
LEMMA EndsInv ==
    ASSUME Types, CreateInv, NEW c \in Calls, NEW a \in Answers, Answer(c, a),
           NEW v \in Creations, Replace(c, v),
           UNCHANGED <<env, rooms, timeline, flying, history>>,
           Sure => \A d \in Calls \ {c} : calls[d].pc = "creating" => calls[c].rev # revision,
           Sure /\ v.state = "not_applied" /\ calls[c].rev = revision => Nothing
    PROVE  Types' /\ CreateInv'
<1>1. PICK x : Update(c, x) /\ x.pc = "done" /\ x.rev = calls[c].rev
  BY Answered
<1>2. /\ revision' \in Nat /\ faults' \in Nat
      /\ \/ calls[c].rev = revision /\ journal' = v /\ revision' = revision + 1
         \/ UNCHANGED <<journal, revision>>
  BY Replaced
<1>3. UNCHANGED <<op, proves, joined, device>>
  BY DEF env
<1>4. Types'
  BY <1>1, <1>2, <1>3, TypesNext DEF Types
<1>5. CASE UNCHANGED <<journal, revision>>
  BY <1>1, <1>3, <1>4, <1>5, OverOK, CreateStep
<1>6. CASE calls[c].rev = revision /\ journal' = v /\ revision' = revision + 1
  <2>1. x.rev <= revision'
    BY <1>1, <1>6 DEF Types
  <2> QED
    BY <1>1, <1>3, <1>4, <1>6, <2>1, CreateWrites
<1> QED
  BY <1>2, <1>4, <1>5, <1>6

LEMMA SettleCreateInv ==
    ASSUME Types, CreateInv, NEW c \in Calls, SettleCreate(c)
    PROVE  Types' /\ CreateInv'
<1> DEFINE v == Settled(calls[c].result)
<1>1. v \in Creations /\ (v.state = "not_applied" => calls[c].result = "rejected")
  BY DEF Settled, Creations
<1>2. PICK a \in Answers : Answer(c, a)
  BY CallFields DEF SettleCreate, Answers, Results
<1>3. calls[c].pc = "settling" /\ Replace(c, v)
      /\ UNCHANGED <<env, rooms, timeline, flying, history>>
  BY DEF SettleCreate
<1> HIDE DEF v
<1>4. Sure => \A d \in Calls \ {c} : calls[d].pc = "creating" => calls[c].rev # revision
  BY <1>3, NoAttempt DEF CreateInv, Alone, Attempting
<1>5. Sure /\ v.state = "not_applied" /\ calls[c].rev = revision => Nothing
  BY <1>1, <1>3 DEF CreateInv, AttemptOK, Held
<1> QED
  BY <1>1, <1>2, <1>3, <1>4, <1>5, EndsInv

\* A room found is recorded; without one, and with nothing on its way, the lease is free.
LEMMA ReconcileInv ==
    ASSUME Types, CreateInv, NEW c \in Calls, Reconcile(c)
    PROVE  Types' /\ CreateInv'
<1>1. UNCHANGED <<op, proves, joined, device, rooms, timeline, flying, history>>
      /\ UNCHANGED <<env, rooms, timeline, flying, history>> /\ calls[c].pc = "reconcile"
  BY DEF Reconcile, env
<1>2. calls[c] \in CallType /\ {"ok", "unknown"} \subseteq Answers
  BY CallFields DEF Answers
<1>3. CASE rooms > 0 /\ Replace(c, [state |-> "created", live |-> FALSE]) /\ Answer(c, "ok")
  <2> DEFINE v == [state |-> "created", live |-> FALSE]
  <2>1. v \in Creations /\ v.state = "created"
    BY DEF Creations
  <2>2. Replace(c, v)
    BY <1>3
  <2> HIDE DEF v
  <2>3. Sure => \A d \in Calls : calls[d].pc # "creating"
    <3>1. rooms # 0
      BY <1>3 DEF Types
    <3> QED
      BY <3>1, NoAttempt DEF Nothing
  <2> QED
    BY <1>1, <1>2, <1>3, <2>1, <2>2, <2>3, EndsInv
<1>4. CASE /\ proves /\ rooms = 0 /\ flying = {}
           /\ calls' = [calls EXCEPT ![c].pc = "take"]
           /\ UNCHANGED <<journal, revision, faults>>
  <2> DEFINE x == [calls[c] EXCEPT !.pc = "take"]
  <2>1. calls' = [calls EXCEPT ![c] = x]
    BY <1>4
  <2>2. x \in CallType /\ x.pc = "take" /\ x.rev = calls[c].rev
    BY <1>2 DEF CallType, CreatePlaces
  <2> HIDE DEF x
  <2>3. Update(c, x)
    BY <2>1, <2>2 DEF Update
  <2>4. CreateOK(x)
    BY <1>1, <2>2 DEF CreateInv, CreateOK, Held, CreatePlaces, Attempting
  <2>5. AttemptOK(x) /\ x.pc \notin Attempting
    BY <1>4, <2>2 DEF AttemptOK, Nothing, Attempting
  <2>6. Types'
    BY <1>1, <1>4, <2>3, TypesNext DEF Types
  <2> QED
    BY <1>1, <1>4, <2>3, <2>4, <2>5, <2>6, CreateStep
<1>5. CASE Answer(c, "unknown") /\ UNCHANGED <<journal, revision, faults>>
  <2>1. PICK x : Update(c, x) /\ x.pc = "done" /\ x.rev = calls[c].rev
    BY <1>2, <1>5, Answered
  <2>2. Types'
    BY <1>1, <1>5, <2>1, TypesNext DEF Types
  <2> QED
    BY <1>1, <1>5, <2>1, <2>2, OverOK, CreateStep
<1> QED
  BY <1>3, <1>4, <1>5 DEF Reconcile

\* Of two that take the lease one finds the record as it read it.
LEMMA TakeLeaseInv ==
    ASSUME Types, CreateInv, NEW c \in Calls, TakeLease(c)
    PROVE  Types' /\ CreateInv'
<1>1. UNCHANGED <<op, proves, joined, device, rooms, timeline, flying, history>>
      /\ calls[c].pc = "take" /\ Replace(c, Attempt)
  BY DEF TakeLease, env
<1>2. /\ revision' \in Nat /\ faults' \in Nat
      /\ \/ calls[c].rev = revision /\ journal' = Attempt /\ revision' = revision + 1
         \/ UNCHANGED <<journal, revision>>
      /\ Stores(c) <=> revision' = revision + 1
  BY <1>1, Replaced
<1>3. calls[c] \in CallType /\ {"unknown", "unavailable"} \subseteq Answers /\ revision \in Nat
  BY CallFields DEF Answers, Types
<1>4. CASE calls[c].rev = revision /\ journal' = Attempt /\ revision' = revision + 1
  <2> DEFINE x == [calls[c] EXCEPT !.pc = "creating", !.rev = revision']
  <2>1. calls' = [calls EXCEPT ![c] = x]
    BY <1>2, <1>4 DEF TakeLease
  <2>2. x \in CallType /\ x.pc = "creating" /\ x.rev = revision'
    BY <1>2, <1>3 DEF CallType, CreatePlaces
  <2> HIDE DEF x
  <2>3. Update(c, x)
    BY <2>1, <2>2 DEF Update
  <2>4. Attempt \in Creations /\ revision' <= revision'
    BY <1>2 DEF Attempt, Creations
  <2>5. Sure => Nothing /\ (journal.state = "not_applied" \/ proves)
    BY <1>1, <1>4 DEF CreateInv, AttemptOK, Held
  <2>6. journal.state = "attempting" => ~journal.live
    BY <1>1, <1>4 DEF CreateInv, CreateOK, Held
  <2>7. Sure => \A d \in Calls : calls[d].pc # "creating"
    BY <2>5, <2>6, NoAttempt
  <2>8. Types'
    BY <1>1, <1>2, <2>3, TypesNext DEF Types
  <2> QED
    BY <1>1, <1>4, <2>2, <2>3, <2>4, <2>5, <2>7, <2>8, CreateWrites
<1>5. CASE UNCHANGED <<journal, revision>>
  <2>1. PICK a \in Answers : Answer(c, a)
    <3>1. ~Stores(c)
      BY <1>3, <1>5 DEF Stores
    <3>2. Answer(c, IF faults' = faults THEN "unknown" ELSE "unavailable")
      BY <3>1 DEF TakeLease, Answer
    <3> QED
      BY <1>3, <3>2
  <2>2. PICK x : Update(c, x) /\ x.pc = "done" /\ x.rev = calls[c].rev
    BY <2>1, Answered
  <2>3. Types'
    BY <1>1, <1>2, <2>2, TypesNext DEF Types
  <2> QED
    BY <1>1, <1>5, <2>2, <2>3, OverOK, CreateStep
<1> QED
  BY <1>2, <1>4, <1>5

\* The one attempt there is makes at most one room.
LEMMA CreateRoomInv ==
    ASSUME Types, CreateInv, NEW c \in Calls, CreateRoom(c)
    PROVE  Types' /\ CreateInv'
<1>1. UNCHANGED <<op, proves, joined, device, journal, revision, timeline, faults, history>>
      /\ calls[c].pc = "creating"
  BY DEF CreateRoom, env
<1>2. PICK result \in {"done", "rejected", "unknown"}, lands \in {"now", "later", "never"} :
          /\ result = "rejected" => lands = "never"
          /\ rooms' = IF lands = "now" THEN rooms + 1 ELSE rooms
          /\ flying' = IF lands = "later" THEN flying \cup {<<c>>} ELSE flying
          /\ calls' = [calls EXCEPT ![c].pc = "settling", ![c].result = result]
  BY DEF CreateRoom
<1> DEFINE x == [calls[c] EXCEPT !.pc = "settling", !.result = result]
<1>3. calls[c] \in CallType /\ rooms \in Nat /\ revision \in Nat
  BY CallFields DEF Types
<1>4. x \in CallType /\ x.pc = "settling" /\ x.rev = calls[c].rev /\ x.result = result
  BY <1>3 DEF CallType, CreatePlaces, Results
<1>5. Update(c, x)
  BY <1>2, <1>4 DEF Update
<1> HIDE DEF x
<1>6. calls'[c] = x /\ \A d \in Calls \ {c} : calls'[d] = calls[d]
  BY <1>1, <1>5, Updated
<1>7. Types'
  BY <1>1, <1>2, <1>3, <1>5, TypesNext DEF Types
<1>8. \A d \in Calls : CreateOK(calls'[d])
  <2>1. CreateOK(x)
    BY <1>1, <1>4 DEF CreateInv, CreateOK, Held, CreatePlaces, Attempting
  <2> QED
    BY <1>6, <2>1 DEF CreateInv
<1>9. \A d \in Calls : CreateOK(calls[d])'
  BY <1>1, <1>8 DEF CreateOK, Held
<1>10. Alone'
  BY <1>1, <1>4, <1>6 DEF CreateInv, Alone, Attempting
<1>11. ASSUME Sure'
       PROVE  AtMostOne' /\ \A d \in Calls : AttemptOK(calls[d])'
  <2>1. Sure
    BY <1>1, <1>11 DEF Sure
  <2>2. calls[c].rev = revision /\ Nothing /\ journal # None /\ journal.state = "attempting"
        /\ (proves => journal.live)
    BY <1>1, <2>1, NoAttempt
  <2>3. AtMostOne'
    BY <1>1, <1>2, <2>2 DEF AtMostOne, Nothing
  <2>4. AttemptOK(calls[c])'
    BY <1>2, <1>4, <1>6, <2>2 DEF AttemptOK, Nothing
  <2>5. ASSUME NEW d \in Calls \ {c}
        PROVE  AttemptOK(calls[d])'
    <3>1. ~(calls[d].pc \in Attempting /\ calls[d].rev = revision)
      BY <1>1, <2>2 DEF CreateInv, Alone, Attempting
    <3>2. calls[d].pc # "creating"
      BY <2>1, <3>1, NoAttempt DEF Attempting
    <3>3. ~(calls[d].pc = "take" /\ calls[d].rev = revision)
      BY <2>1, <2>2 DEF CreateInv, CreateOK, AttemptOK, Held
    <3> QED
      BY <1>1, <1>6, <3>1, <3>2, <3>3 DEF AttemptOK, Held, Attempting
  <2> QED
    BY <2>3, <2>4, <2>5
<1> QED
  BY <1>1, <1>7, <1>9, <1>10, <1>11 DEF CreateInv

\* Where the absence of a room is proved, an attempt that the lease leaves behind counts.
LEMMA LeaseExpiresInv ==
    ASSUME Types, CreateInv, LeaseExpires
    PROVE  Types' /\ CreateInv'
<1>1. UNCHANGED <<op, proves, joined, device, revision, calls, rooms, timeline, flying, faults>>
      /\ journal # None /\ journal.state = "attempting" /\ journal.live
  BY DEF LeaseExpires, env
<1>2. journal \in Creations
  BY <1>1 DEF CreateInv
<1>3. journal' \in Creations /\ journal'.state = "attempting" /\ journal'.live = FALSE
  BY <1>2, <1>1 DEF LeaseExpires, Creations
<1>4. journal' # None
  BY <1>3, NoRecordAssumption
<1>5. /\ history' \in [outlived : BOOLEAN, strayed : BOOLEAN]
      /\ history'.outlived = (history.outlived
            \/ \E c \in Calls : calls[c].pc = "creating" /\ calls[c].rev = revision)
  BY DEF LeaseExpires, Types
<1>6. Types'
  <2>1. CallType' = CallType
    BY <1>1 DEF CallType, Batches, Batch
  <2> QED
    BY <1>1, <1>5, <2>1 DEF Types
<1>7. \A c \in Calls : CreateOK(calls[c])'
  BY <1>1, <1>3, <1>4 DEF CreateInv, CreateOK, Held
<1>8. Alone'
  BY <1>1 DEF CreateInv, Alone
<1>9. ASSUME Sure'
      PROVE  AtMostOne' /\ \A c \in Calls : AttemptOK(calls[c])'
  <2>1. Sure
    BY <1>1, <1>5, <1>9 DEF Sure
  <2>2. AtMostOne'
    BY <1>1, <1>3, <1>4, <2>1 DEF CreateInv, AtMostOne, Nothing
  <2>3. ASSUME NEW c \in Calls
        PROVE  AttemptOK(calls[c])'
    <3>1. CASE calls[c].pc = "creating"
      <4>1. calls[c].rev = revision /\ Nothing
        BY <2>1, <3>1, NoAttempt
      <4>2. ~proves
        BY <1>1, <1>5, <1>9, <3>1, <4>1 DEF Sure
      <4> QED
        BY <1>1, <3>1, <4>1, <4>2 DEF AttemptOK, Held, Nothing
    <3>2. CASE calls[c].pc = "settling"
      BY <1>1, <2>1, <3>2 DEF CreateInv, AttemptOK, Held, Nothing
    <3>3. CASE calls[c].pc \notin {"creating", "settling"}
      <4>1. ~(calls[c].pc = "take" /\ Held(calls[c]))
        BY <1>1 DEF CreateInv, CreateOK
      <4> QED
        BY <1>1, <3>3, <4>1 DEF AttemptOK, Held
    <3> QED
      BY <3>1, <3>2, <3>3
  <2> QED
    BY <2>2, <2>3
<1> QED
  BY <1>1, <1>3, <1>6, <1>7, <1>8, <1>9 DEF CreateInv

\* What was on its way arrives: it was alone.
LEMMA RoomArrivesInv ==
    ASSUME Types, CreateInv, op = "create", Arrives
    PROVE  Types' /\ CreateInv'
<1>1. UNCHANGED <<op, proves, joined, device, journal, revision, calls, timeline, faults, history>>
      /\ rooms' = rooms + 1
  BY DEF Arrives, env
<1>2. PICK request \in flying : flying' = flying \ {request}
  BY DEF Arrives
<1>3. Types'
  <2>1. CallType' = CallType
    BY <1>1 DEF CallType, Batches, Batch
  <2> QED
    BY <1>1, <2>1 DEF Types
<1>4. \A c \in Calls : CreateOK(calls[c])'
  BY <1>1 DEF CreateInv, CreateOK, Held
<1>5. Alone'
  BY <1>1 DEF CreateInv, Alone
<1>6. ASSUME Sure'
      PROVE  AtMostOne' /\ \A c \in Calls : AttemptOK(calls[c])'
  <2>1. Sure /\ ~Nothing
    BY <1>1, <1>2, <1>6 DEF Sure, Nothing
  <2>2. rooms = 0 /\ flying' = {} /\ rooms' = 1
    BY <1>1, <1>2, <2>1 DEF CreateInv, AtMostOne, Types
  <2>3. AtMostOne'
    BY <1>1, <2>1, <2>2 DEF CreateInv, AtMostOne
  <2>4. \A c \in Calls : AttemptOK(calls[c])'
    BY <1>1, <2>1 DEF CreateInv, AttemptOK, Held
  <2> QED
    BY <2>3, <2>4
<1> QED
  BY <1>1, <1>3, <1>4, <1>5, <1>6 DEF CreateInv

LEMMA Died ==
    ASSUME Types, NEW c \in Calls, Die(c)
    PROVE  /\ \E x : Update(c, x) /\ x.pc = "dead" /\ x.rev = calls[c].rev
           /\ Types'
           /\ UNCHANGED <<op, proves, joined, device, journal, revision, rooms, timeline, flying,
                          faults, history>>
<1> DEFINE x == [calls[c] EXCEPT !.pc = "dead"]
<1>1. calls[c] \in CallType
  BY CallFields
<1>2. x \in CallType /\ x.pc = "dead" /\ x.rev = calls[c].rev
  BY <1>1 DEF CallType, CreatePlaces
<1>3. calls' = [calls EXCEPT ![c] = x]
  BY DEF Die
<1> HIDE DEF x
<1>4. Update(c, x)
  BY <1>2, <1>3 DEF Update
<1>5. UNCHANGED <<op, proves, joined, device, journal, revision, rooms, timeline, flying,
                  faults, history>>
  BY DEF Die, env
<1>6. Types'
  BY <1>4, <1>5, TypesNext DEF Types
<1> QED
  BY <1>2, <1>4, <1>5, <1>6

\* The steps of a create.
LEMMA CreateInvNext ==
    ASSUME Types, CreateInv, op = "create", [Next]_vars
    PROVE  Types' /\ CreateInv'
<1>1. ASSUME NEW c \in Calls, Create(c) \/ Reconcile(c) \/ TakeLease(c) \/ CreateRoom(c) \/ SettleCreate(c)
      PROVE  Types' /\ CreateInv'
  BY <1>1, CreateActInv, ReconcileInv, TakeLeaseInv, CreateRoomInv, SettleCreateInv
<1>2. ASSUME NEW c \in Calls, Prepare(c) \/ ResumeIntro(c) \/ MembershipGate(c) \/ SendEvent(c) \/ RecordItem(c)
      PROVE  FALSE
  <2>1. calls[c].pc \in CreatePlaces
    BY DEF CreateInv, CreateOK
  <2> QED
    BY <1>2, <2>1 DEF Prepare, ResumeIntro, MembershipGate, SendEvent, RecordItem, CreatePlaces
<1>3. ASSUME NEW c \in Calls, Die(c)
      PROVE  Types' /\ CreateInv'
  BY <1>3, Died, OverOK, CreateStep
<1>4. CASE LeaseExpires \/ Arrives
  BY <1>4, LeaseExpiresInv, RoomArrivesInv
<1>5. ~Revoke /\ \A d \in Devices : ~ReplaceDevice(d)
  BY DEF Revoke, ReplaceDevice
<1>6. CASE UNCHANGED vars
  <2>1. UNCHANGED <<op, proves, joined, device, journal, revision, calls, rooms, timeline, flying,
                    faults, history>>
    BY <1>6 DEF vars
  <2>2. CallType' = CallType
    BY <2>1 DEF CallType, Batches, Batch
  <2>3. Types'
    BY <2>1, <2>2 DEF Types
  <2>4. CreateInv'
    BY <2>1 DEF CreateInv, CreateOK, Held, Alone, Sure, AtMostOne, Nothing, AttemptOK
  <2> QED
    BY <2>3, <2>4
<1> QED
  BY <1>1, <1>2, <1>3, <1>4, <1>5, <1>6 DEF Next

-----------------------------------------------------------------------------
(* send and intro *)

LEMMA BatchFacts ==
    ASSUME op \in {"create", "send", "intro"}
    PROVE  \E n \in Nat \ {0} : Batch = 1..n
  BY ConstantsAssumption DEF Batch

LEMMA BatchesAreMessages ==
    ASSUME op \in {"create", "send", "intro"}
    PROVE  Batches \subseteq Messages /\ None \notin Batches
<1>1. PICK n \in Nat : Batch = 1..n
  BY BatchFacts
<1>2. [Batch -> ItemStates] \subseteq Seq(ItemStates)
  BY <1>1, SeqDef
<1>3. Batches \subseteq Messages
  BY <1>2 DEF Batches, Messages
<1> QED
  BY <1>3, NoRecordAssumption

\* A call that goes on, although others write the record or items land.
LEMMA SendKept ==
    ASSUME Types, UNCHANGED op, NEW d \in Calls, NEW y \in CallType, calls'[d] = y, SendOK(y),
           \A i \in Batch : In(i) => In(i)',
           journal # None => journal' # None /\ journal'.ids = journal.ids
                             /\ journal'.device = journal.device,
           \/ journal' = journal /\ revision' = revision
           \/ revision' = revision + 1
    PROVE  SendOK(calls[d])'
<1>1. Batch' = Batch /\ Batches' = Batches
  BY DEF Batch, Batches
<1>2. y.rev \in Nat /\ revision \in Nat
  BY DEF CallType, Types
<1>3. y.pc \in Sending => Knows(calls[d])'
  BY <1>1 DEF SendOK, Knows
<1>4. y.pc = "gate" => Unsent(y.record)' # {}
  BY DEF SendOK, Unsent
<1>5. calls'[d].rev = revision' => y.rev = revision /\ journal' = journal
  BY <1>2 DEF SendOK
<1>6. calls'[d].rev <= revision'
  BY <1>2 DEF SendOK
<1> HIDE DEF Knows, Unsent
<1>7. (y.pc = "record" /\ Held(calls[d])') =>
          /\ journal'.items[y.index] # "accepted"
          /\ \A i \in Batch' \ {y.index} : y.record.items[i] = journal'.items[i]
  BY <1>1, <1>5 DEF SendOK, Held
<1>8. (y.pc \in {"gate", "transmit"} /\ Held(calls[d])') => y.record = journal'
  BY <1>5 DEF SendOK, Held
<1>9. /\ y.pc \in SendPlaces
      /\ y.pc \in {"transmit", "record"} =>
          /\ y.index \in Batch'
          /\ \A i \in Batch' : i < y.index => y.record.items[i] = "accepted"
      /\ y.pc = "transmit" => y.record.items[y.index] # "accepted"
  BY <1>1 DEF SendOK
<1> QED
  BY <1>3, <1>4, <1>6, <1>7, <1>8, <1>9 DEF SendOK

\* An event lands behind the ones it follows, unless it is there.
LEMMA LandsFacts ==
    ASSUME Types, SendInv, UNCHANGED <<op, journal>>, NEW e \in Events, Lands(e),
           \A i \in Batch : i < e.item => In(i),
           ~history'.strayed => ~history.strayed /\ e.ids = journal.ids /\ e.device = journal.device
    PROVE  /\ timeline' \in Seq(Events) /\ Events' = Events /\ In(e.item)'
           /\ \A i \in Batch : In(i) => In(i)'
           /\ ~history'.strayed =>
                 \A k \in DOMAIN timeline' : timeline'[k].ids = journal.ids
                                             /\ timeline'[k].device = journal.device
           /\ OnceInOrder'
<1>1. Events' = Events
  BY DEF Events, Batch
<1>2. timeline \in Seq(Events) /\ Len(timeline) \in Nat /\ DOMAIN timeline = 1..Len(timeline)
  BY LenProperties DEF SendInv, RoomOK
<1>3. CASE Landed(e)
  <2>1. timeline' = timeline
    BY <1>3 DEF Lands
  <2>2. In(e.item)
    BY <1>3 DEF Landed, In
  <2>3. OnceInOrder'
    BY <2>1 DEF SendInv, OnceInOrder
  <2> QED
    BY <1>1, <1>2, <2>1, <2>2, <2>3 DEF In, SendInv, RoomOK
<1>4. CASE ~Landed(e)
  <2> DEFINE n == Len(timeline)
  <2>1. timeline' = Append(timeline, e)
    BY <1>4 DEF Lands
  <2>2. /\ timeline' \in Seq(Events) /\ Len(timeline') = n + 1
        /\ \A k \in 1..n : timeline'[k] = timeline[k]
        /\ timeline'[n + 1] = e
    BY <1>2, <2>1
  <2>3. DOMAIN timeline' = 1..(n + 1) /\ n + 1 \in 1..(n + 1) /\ n \in Nat
    BY <1>2, <2>2, LenProperties
  <2> HIDE DEF n
  <2>4. In(e.item)'
    BY <2>2, <2>3 DEF In
  <2>5. \A i \in Batch : In(i) => In(i)'
    BY <1>2, <2>2, <2>3 DEF In, n
  <2>6. ~history'.strayed =>
          \A k \in DOMAIN timeline' : timeline'[k].ids = journal.ids /\ timeline'[k].device = journal.device
    BY <1>2, <2>2, <2>3 DEF SendInv, RoomOK, n
  <2>7. ASSUME NEW k \in DOMAIN timeline'
        PROVE  /\ \A i \in 1..timeline'[k].item - 1 : \E j \in 1..k - 1 : timeline'[j].item = i
               /\ ~history'.strayed => \A j \in 1..k - 1 : timeline'[j].item # timeline'[k].item
    <3>1. CASE k = n + 1
      <4>1. \A i \in 1..e.item - 1 : i \in Batch /\ i < e.item
        <5>1. PICK m \in Nat : Batch = 1..m
          BY BatchFacts DEF Types
        <5>2. e.item \in 1..m
          BY <5>1 DEF Events
        <5> QED
          BY <5>1, <5>2
      <4>2. \A i \in 1..e.item - 1 : \E j \in 1..n : timeline[j].item = i
        BY <1>2, <4>1 DEF In, n
      <4>3. ~history'.strayed => \A j \in 1..n : timeline[j].item # e.item
        <5> SUFFICES ASSUME ~history'.strayed, NEW j \in 1..n, timeline[j].item = e.item
                     PROVE  FALSE
          OBVIOUS
        <5>1. timeline[j] \in Events /\ timeline[j].ids = journal.ids /\ timeline[j].device = journal.device
          BY <1>2 DEF SendInv, RoomOK, n
        <5>2. timeline[j] = e
          BY <5>1 DEF Events
        <5> QED
          BY <1>2, <1>4, <5>2 DEF Landed, n
      <4>4. k - 1 = n
        BY <2>3, <3>1
      <4> QED
        BY <2>2, <3>1, <4>2, <4>3, <4>4
    <3>2. CASE k # n + 1
      <4>1. k \in 1..n /\ \A j \in 1..k - 1 : j \in 1..n
        BY <2>3, <3>2
      <4>2. /\ \A i \in 1..timeline[k].item - 1 : \E j \in 1..k - 1 : timeline[j].item = i
            /\ ~history.strayed => \A j \in 1..k - 1 : timeline[j].item # timeline[k].item
        BY <1>2, <4>1 DEF SendInv, OnceInOrder, n
      <4> QED
        BY <2>2, <4>1, <4>2
    <3> QED
      BY <3>1, <3>2
  <2>8. OnceInOrder'
    BY <2>7 DEF OnceInOrder
  <2> QED
    BY <1>1, <2>2, <2>4, <2>5, <2>6, <2>8
<1> QED
  BY <1>3, <1>4

\* A call moves on and leaves the journal and the room as they are.
LEMMA SendStep ==
    ASSUME Types, SendInv, UNCHANGED op, NEW c \in Calls, NEW x, Update(c, x),
           UNCHANGED <<journal, revision, rooms, flying, timeline, history>>,
           SendOK(x)
    PROVE  SendInv'
<1>1. calls'[c] = x /\ (\A d \in Calls \ {c} : calls'[d] = calls[d]) /\ x \in CallType
      /\ Batch' = Batch
  BY Updated DEF Update
<1>2. \A i \in Batch : In(i) => In(i)'
  BY DEF In
<1>3. \A d \in Calls : calls'[d] \in CallType /\ SendOK(calls'[d])
  BY <1>1, CallFields DEF SendInv
<1>4. \A d \in Calls : SendOK(calls[d])'
  BY <1>2, <1>3, SendKept
<1>5. RoomOK'
  BY <1>1 DEF SendInv, RoomOK, In, Events
<1>6. OnceInOrder'
  BY DEF SendInv, OnceInOrder
<1>7. Batches' = Batches
  BY <1>1 DEF Batches
<1> QED
  BY <1>4, <1>5, <1>6, <1>7 DEF SendInv

\* The record is written, with what is known to be in the room.
LEMMA SendWrites ==
    ASSUME Types, SendInv, UNCHANGED op, NEW c \in Calls, NEW x, Update(c, x),
           UNCHANGED <<rooms, flying, timeline, history>>,
           revision' = revision + 1, journal' \in Batches,
           journal # None => journal'.ids = journal.ids /\ journal'.device = journal.device,
           \A i \in Batch : journal'.items[i] = "accepted" => In(i),
           SendOK(calls[c])'
    PROVE  SendInv'
<1>1. calls'[c] = x /\ (\A d \in Calls \ {c} : calls'[d] = calls[d]) /\ Batch' = Batch
  BY Updated
<1>2. \A i \in Batch : In(i) => In(i)'
  BY DEF In
<1>3. journal' # None
  BY BatchesAreMessages DEF Types
<1>4. \A d \in Calls \ {c} : calls'[d] \in CallType /\ SendOK(calls'[d])
  BY <1>1, CallFields DEF SendInv
<1>5. \A d \in Calls \ {c} : SendOK(calls[d])'
  BY <1>2, <1>3, <1>4, SendKept
<1>6. Batches' = Batches /\ Events' = Events
  BY <1>1 DEF Batches, Events
<1>7. RoomOK'
  <2>1. /\ timeline' \in Seq(Events') /\ flying' \subseteq Events'
        /\ \A i \in Batch' : journal'.items[i] = "accepted" => In(i)'
        /\ \A e \in flying' : \A i \in Batch' : i < e.item => In(i)'
    BY <1>1, <1>2, <1>6 DEF SendInv, RoomOK, Events
  <2>2. CASE journal = None
    <3>1. timeline' = <<>> /\ flying' = {}
      BY <2>2 DEF SendInv, RoomOK
    <3>2. DOMAIN timeline' = {}
      BY <3>1
    <3> QED
      BY <1>3, <2>1, <3>1, <3>2 DEF RoomOK
  <2>3. CASE journal # None
    BY <1>3, <2>1, <2>3 DEF SendInv, RoomOK
  <2> QED
    BY <2>2, <2>3
<1>8. OnceInOrder'
  BY DEF SendInv, OnceInOrder
<1> QED
  BY <1>5, <1>6, <1>7, <1>8 DEF SendInv

LEMMA SendOver ==
    ASSUME Types, SendInv, NEW c \in Calls, NEW x, x.pc \in {"done", "dead"}, x.rev = calls[c].rev
    PROVE  SendOK(x)
  BY DEF SendInv, SendOK, SendPlaces, Sending

\* A call answers.
LEMMA SendAnswers ==
    ASSUME Types, SendInv, NEW c \in Calls, NEW a \in Answers, Answer(c, a),
           UNCHANGED <<op, proves, joined, device, journal, revision, rooms, timeline, flying, history>>,
           faults' \in Nat
    PROVE  Types' /\ SendInv'
<1>1. PICK x : Update(c, x) /\ x.pc = "done" /\ x.rev = calls[c].rev
  BY Answered
<1>2. SendOK(x)
  BY <1>1, SendOver
<1>3. Types'
  BY <1>1, TypesNext DEF Types
<1> QED
  BY <1>1, <1>2, <1>3, SendStep

\* The batch of the first call is pending, all of it.
LEMMA ClaimInv ==
    ASSUME Types, SendInv, NEW c \in Calls, Claims(c, Intent(c)),
           calls' = [calls EXCEPT ![c].pc = "gate", ![c].rev = revision', ![c].device = device,
                                  ![c].record = Intent(c)],
           UNCHANGED <<op, proves, joined, device, rooms, timeline, flying, history>>
    PROVE  Types' /\ SendInv'
<1> DEFINE r == Intent(c)
           x == [calls[c] EXCEPT !.pc = "gate", !.rev = revision', !.device = device, !.record = r]
<1>1. journal = None /\ journal' = r /\ revision' = revision + 1 /\ faults' = faults
  BY DEF Claims
<1>2. calls[c] \in CallType /\ revision' \in Nat /\ device \in Devices /\ device \in Nat
  BY <1>1, CallFields, ConstantsAssumption DEF Types
<1>3. /\ r \in Batches /\ r.ids = c /\ r.device = device
      /\ \A i \in Batch : r.items[i] = "pending"
      /\ DOMAIN r.items = Batch
  BY <1>2 DEF Intent, Batches, ItemStates
<1>4. calls' = [calls EXCEPT ![c] = x]
  OBVIOUS
<1> HIDE DEF r
<1>5. /\ x \in CallType /\ x.pc = "gate" /\ x.rev = revision' /\ x.device = device /\ x.record = r
  BY <1>2, <1>3 DEF CallType, SendPlaces
<1> HIDE DEF x
<1>6. Update(c, x)
  BY <1>4, <1>5 DEF Update
<1>7. calls'[c] = x /\ Batch' = Batch /\ Batches' = Batches
  BY <1>6, Updated DEF Batches
<1>8. SendOK(calls[c])'
  <2>1. Knows(calls[c])'
    <3>1. journal' # None
      BY <1>1, <1>3, BatchesAreMessages DEF Types
    <3>2. calls'[c].record = r /\ calls'[c].device = device /\ r \in Batches'
      BY <1>3, <1>5, <1>7
    <3>3. \A i \in Batch' : calls'[c].record.items[i] # "accepted"
      BY <1>3, <1>7, <3>2
    <3>4. r.ids = journal'.ids /\ r.device = journal'.device /\ calls'[c].device = journal'.device
      BY <1>1, <1>3, <3>2
    <3> HIDE DEF In, Batches, Batch
    <3> QED
      BY <3>1, <3>2, <3>3, <3>4 DEF Knows
  <2>2. Unsent(calls[c].record)' # {}
    <3>1. 1 \in Batch
      BY BatchFacts DEF Types
    <3>2. 1 \in DOMAIN calls'[c].record.items /\ calls'[c].record.items[1] # "accepted"
      BY <1>3, <1>5, <1>7, <3>1
    <3> QED
      BY <3>2 DEF Unsent
  <2>3. calls'[c].rev <= revision'
    BY <1>2, <1>5, <1>7
  <2> HIDE DEF Knows, Unsent
  <2> QED
    BY <1>1, <1>5, <1>7, <2>1, <2>2, <2>3 DEF SendOK, SendPlaces
<1>9. Types'
  BY <1>1, <1>2, <1>6, TypesNext DEF Types
<1> QED
  BY <1>1, <1>3, <1>6, <1>8, <1>9, SendWrites

\* The record is taken up as it was left.
LEMMA ResumesInv ==
    ASSUME Types, SendInv, NEW c \in Calls, journal # None, Resumes(c, journal),
           UNCHANGED <<op, proves, joined, device, journal, revision, faults, rooms, timeline, flying, history>>
    PROVE  Types' /\ SendInv'
<1>1. journal \in Batches /\ {"ok", "rejected"} \subseteq Answers /\ faults' \in Nat
  BY DEF SendInv, Answers, Types
<1>2. CASE \E a \in Answers : Answer(c, a)
  BY <1>1, <1>2, SendAnswers
<1>3. CASE /\ ~AllAccepted(journal) /\ journal.device = device
           /\ calls' = [calls EXCEPT ![c].pc = "gate", ![c].rev = revision, ![c].record = journal,
                                     ![c].device = device]
  <2> DEFINE x == [calls[c] EXCEPT !.pc = "gate", !.rev = revision, !.record = journal, !.device = device]
  <2>1. calls[c] \in CallType /\ revision \in Nat /\ device \in Nat
    BY CallFields, ConstantsAssumption DEF Types
  <2>2. calls' = [calls EXCEPT ![c] = x]
    BY <1>3
  <2>3. x \in CallType /\ x.pc = "gate" /\ x.rev = revision /\ x.record = journal /\ x.device = device
    BY <1>1, <2>1 DEF CallType, SendPlaces
  <2> HIDE DEF x
  <2>4. Update(c, x)
    BY <2>2, <2>3 DEF Update
  <2>5. Unsent(x.record) # {}
    BY <1>3, <2>3 DEF Unsent, AllAccepted
  <2>6. Knows(x)
    BY <1>1, <1>3, <2>3 DEF Knows, SendInv, RoomOK
  <2>7. SendOK(x)
    BY <2>1, <2>3, <2>5, <2>6 DEF SendOK, SendPlaces
  <2>8. Types'
    BY <1>1, <2>4, TypesNext DEF Types
  <2> QED
    BY <2>4, <2>7, <2>8, SendStep
<1> QED
  BY <1>1, <1>2, <1>3 DEF Resumes

LEMMA PrepareInv ==
    ASSUME Types, SendInv, NEW c \in Calls, Prepare(c) \/ ResumeIntro(c)
    PROVE  Types' /\ SendInv'
<1>1. UNCHANGED <<op, proves, joined, device, rooms, timeline, flying, history>>
  BY DEF Prepare, ResumeIntro, env
<1>2. {"rejected", "unavailable"} \subseteq Answers /\ faults \in Nat
  BY DEF Answers, Types
<1>3. CASE /\ Claims(c, Intent(c))
           /\ calls' = [calls EXCEPT ![c].pc = "gate", ![c].rev = revision', ![c].device = device,
                                     ![c].record = Intent(c)]
  BY <1>1, <1>3, ClaimInv
<1>4. CASE journal # None /\ Resumes(c, journal) /\ UNCHANGED <<journal, revision, faults>>
  BY <1>1, <1>4, ResumesInv
<1>5. CASE JournalAway(c)
  BY <1>1, <1>2, <1>5, SendAnswers DEF JournalAway, Fault
<1>6. CASE Answer(c, "rejected") /\ UNCHANGED <<journal, revision, faults>>
  BY <1>1, <1>2, <1>6, SendAnswers
<1> QED
  BY <1>3, <1>4, <1>5, <1>6 DEF Prepare, ResumeIntro

\* The first item that is not accepted, and those before it.
LEMMA FirstFacts ==
    ASSUME Types, NEW r \in Batches, Unsent(r) # {}
    PROVE  /\ First(r) \in Batch /\ r.items[First(r)] # "accepted"
           /\ \A i \in Batch : i < First(r) => r.items[i] = "accepted"
<1>1. PICK n \in Nat : Batch = 1..n
  BY BatchFacts DEF Types
<1>2. DOMAIN r.items = Batch
  BY DEF Batches
<1>3. Unsent(r) \subseteq Nat
  BY <1>1, <1>2 DEF Unsent
<1>4. \E i \in Unsent(r) : \A j \in Unsent(r) : i <= j
  BY <1>3, LeastMember
<1>5. First(r) \in Unsent(r) /\ \A j \in Unsent(r) : First(r) <= j
  BY <1>4 DEF First
<1>6. First(r) \in Batch /\ r.items[First(r)] # "accepted"
  BY <1>2, <1>5 DEF Unsent
<1>7. ASSUME NEW i \in Batch, i < First(r)
      PROVE  r.items[i] = "accepted"
  <2>1. i \notin Unsent(r)
    BY <1>1, <1>5, <1>6, <1>7
  <2> QED
    BY <1>2, <2>1 DEF Unsent
<1> QED
  BY <1>6, <1>7

LEMMA MembershipGateInv ==
    ASSUME Types, SendInv, NEW c \in Calls, MembershipGate(c)
    PROVE  Types' /\ SendInv'
<1>1. UNCHANGED <<op, proves, joined, device, journal, revision, rooms, timeline, flying, history>>
      /\ calls[c].pc = "gate"
  BY DEF MembershipGate, env
<1>2. {"rejected", "unavailable"} \subseteq Answers /\ faults' \in Nat
  BY DEF MembershipGate, Answers, Types, Fault
<1>3. CASE \E a \in Answers : Answer(c, a)
  BY <1>1, <1>2, <1>3, SendAnswers
<1>4. CASE calls' = [calls EXCEPT ![c].pc = "transmit", ![c].index = First(calls[c].record)]
  <2> DEFINE f == First(calls[c].record)
             x == [calls[c] EXCEPT !.pc = "transmit", !.index = f]
  <2>1. SendOK(calls[c]) /\ calls[c] \in CallType
    BY CallFields DEF SendInv
  <2>2. Knows(calls[c]) /\ Unsent(calls[c].record) # {}
    BY <1>1, <2>1 DEF SendOK, Sending
  <2>3. /\ f \in Batch /\ calls[c].record.items[f] # "accepted"
        /\ \A i \in Batch : i < f => calls[c].record.items[i] = "accepted"
    BY <2>2, FirstFacts DEF Knows
  <2>4. f \in Nat
    BY <2>3, BatchFacts DEF Types
  <2>5. calls' = [calls EXCEPT ![c] = x]
    BY <1>4
  <2> HIDE DEF f
  <2>6. /\ x \in CallType /\ x.pc = "transmit" /\ x.index = f /\ x.rev = calls[c].rev
        /\ x.record = calls[c].record /\ x.device = calls[c].device
    BY <2>1, <2>4 DEF CallType, SendPlaces
  <2> HIDE DEF x
  <2>7. Update(c, x)
    BY <2>5, <2>6 DEF Update
  <2>8. Knows(x)
    BY <2>2, <2>6 DEF Knows
  <2>9. Held(x) => x.record = journal
    BY <1>1, <2>1, <2>6 DEF SendOK, Held
  <2>10. x.rev <= revision
    BY <2>1, <2>6 DEF SendOK
  <2> HIDE DEF Knows
  <2>11. SendOK(x)
    BY <2>3, <2>6, <2>8, <2>9, <2>10 DEF SendOK, SendPlaces
  <2>12. Types'
    BY <1>1, <1>2, <2>7, TypesNext DEF Types
  <2> QED
    BY <1>1, <2>7, <2>11, <2>12, SendStep
<1> QED
  BY <1>2, <1>3, <1>4 DEF MembershipGate

\* The item is sent: from now on it is in the room, on its way, or not there.
LEMMA SendEventInv ==
    ASSUME Types, SendInv, NEW c \in Calls, SendEvent(c)
    PROVE  Types' /\ SendInv'
<1>1. UNCHANGED <<op, proves, joined, device, journal, revision, rooms, faults>>
      /\ calls[c].pc = "transmit"
      /\ history' = [history EXCEPT !.strayed = @ \/ calls[c].device # device]
  BY DEF SendEvent, env
<1> PICK e, i, r : e = Event(c) /\ i = calls[c].index /\ r = calls[c].record
  OBVIOUS
<1>2. PICK result \in ItemStates \ {"pending"}, lands \in {"now", "later", "never"} :
          /\ result = "accepted" => lands = "now"
          /\ IF lands = "now" THEN Lands(e) ELSE UNCHANGED timeline
          /\ flying' = IF lands = "later" THEN flying \cup {e} ELSE flying
          /\ calls' = [calls EXCEPT ![c].pc = "record", ![c].record.items[calls[c].index] = result]
  BY DEF SendEvent
<1>3. SendOK(calls[c]) /\ calls[c] \in CallType /\ device \in Devices
  BY CallFields DEF SendInv, Types
<1>4. /\ Knows(calls[c]) /\ r \in Batches /\ i \in Batch /\ r.items[i] # "accepted"
      /\ \A j \in Batch : j < i => r.items[j] = "accepted" /\ In(j)
      /\ Held(calls[c]) => r = journal
  BY <1>1, <1>3 DEF SendOK, Sending, Knows
<1>5. e \in Events /\ e.item = i /\ e.ids = r.ids /\ e.device = device
  BY <1>3, <1>4 DEF Event, Events, Batches
<1>6. /\ history' \in [outlived : BOOLEAN, strayed : BOOLEAN]
      /\ ~history'.strayed => /\ ~history.strayed /\ e.ids = journal.ids
                              /\ e.device = journal.device
  BY <1>1, <1>4, <1>5 DEF Types, Knows
<1> DEFINE s == [r EXCEPT !.items = [r.items EXCEPT ![i] = result]]
           x == [calls[c] EXCEPT !.pc = "record", !.record = s]
<1>7. /\ s \in Batches /\ s.ids = r.ids /\ s.device = r.device
      /\ s.items[i] = result /\ \A j \in Batch \ {i} : s.items[j] = r.items[j]
  BY <1>4 DEF Batches
<1>8. calls' = [calls EXCEPT ![c] = x]
  BY <1>2
<1> HIDE DEF s
<1>9. /\ x \in CallType /\ x.pc = "record" /\ x.record = s /\ x.index = i
      /\ x.rev = calls[c].rev /\ x.device = calls[c].device
  BY <1>3, <1>7 DEF CallType, SendPlaces
<1> HIDE DEF x
<1>10. Update(c, x)
  BY <1>8, <1>9 DEF Update
<1>11. calls'[c] = x /\ (\A d \in Calls \ {c} : calls'[d] = calls[d]) /\ Batch' = Batch
       /\ Batches' = Batches /\ Events' = Events
  BY <1>1, <1>10, Updated DEF Batches, Events
<1>12. /\ timeline' \in Seq(Events) /\ (result = "accepted" => In(i)')
       /\ \A j \in Batch : In(j) => In(j)'
       /\ ~history'.strayed =>
             \A k \in DOMAIN timeline' : timeline'[k].ids = journal.ids
                                         /\ timeline'[k].device = journal.device
       /\ OnceInOrder'
  <2>1. CASE lands = "now"
    <3>1. Lands(e)
      BY <1>2, <2>1
    <3>2. \A j \in Batch : j < e.item => In(j)
      BY <1>4, <1>5
    <3>3. In(e.item)' => In(i)'
      BY <1>5
    <3> QED
      BY <1>1, <1>5, <1>6, <3>1, <3>2, <3>3, LandsFacts
  <2>2. CASE lands # "now"
    BY <1>2, <1>6, <2>2 DEF In, SendInv, RoomOK, OnceInOrder
  <2> QED
    BY <2>1, <2>2
<1>13. \A d \in Calls \ {c} : SendOK(calls[d])'
  <2>1. \A d \in Calls \ {c} : calls'[d] \in CallType /\ SendOK(calls'[d])
    BY <1>11, CallFields DEF SendInv
  <2> QED
    BY <1>1, <1>12, <2>1, SendKept
<1>14. SendOK(calls[c])'
  <2>1. \A j \in Batch : s.items[j] = "accepted" => In(j)'
    BY <1>4, <1>7, <1>12 DEF Knows
  <2>2. Knows(calls[c])'
    BY <1>1, <1>4, <1>7, <1>9, <1>11, <2>1 DEF Knows
  <2>3. calls'[c].rev <= revision'
    BY <1>1, <1>3, <1>9, <1>11 DEF SendOK
  <2>4. \A j \in Batch : j < i => j # i /\ s.items[j] = "accepted"
    <3>1. i \in Nat /\ Batch \subseteq Nat
      BY <1>4, BatchFacts DEF Types
    <3> QED
      BY <1>4, <1>7, <3>1
  <2>5. Held(calls[c])' => journal = r
    BY <1>1, <1>4, <1>9, <1>11 DEF Held
  <2> HIDE DEF Knows
  <2>6. Held(calls[c])' => /\ journal'.items[i] # "accepted"
                           /\ \A j \in Batch' \ {i} : s.items[j] = journal'.items[j]
    BY <1>1, <1>4, <1>7, <1>11, <2>5
  <2> QED
    BY <1>4, <1>9, <1>11, <2>2, <2>3, <2>4, <2>6 DEF SendOK, SendPlaces
<1>15. RoomOK'
  <2>1. \A f \in flying' : f \in Events /\ \A j \in Batch : j < f.item => In(j)'
    BY <1>2, <1>4, <1>5, <1>12 DEF SendInv, RoomOK
  <2>2. journal # None /\ \A j \in Batch : journal.items[j] = "accepted" => In(j)'
    BY <1>4, <1>12 DEF SendInv, RoomOK, Knows
  <2>3. ~history'.strayed => \A f \in flying' : f.ids = journal.ids /\ f.device = journal.device
    BY <1>2, <1>6 DEF SendInv, RoomOK
  <2> QED
    BY <1>1, <1>11, <1>12, <2>1, <2>2, <2>3 DEF RoomOK
<1>16. Types'
  BY <1>1, <1>6, <1>10, TypesNext DEF Types
<1> QED
  BY <1>1, <1>11, <1>12, <1>13, <1>14, <1>15, <1>16 DEF SendInv

\* What the next item is, once this one is recorded as accepted.
LEMMA LaterFacts ==
    ASSUME Types, NEW c \in Calls, calls[c].record \in Batches, calls[c].index \in Batch, Later(c) # {},
           State(c) = "accepted",
           \A i \in Batch : i < calls[c].index => calls[c].record.items[i] = "accepted"
    PROVE  LET n == CHOOSE i \in Later(c) : \A j \in Later(c) : i <= j IN
           /\ n \in Batch /\ calls[c].record.items[n] # "accepted"
           /\ \A i \in Batch : i < n => calls[c].record.items[i] = "accepted"
<1> DEFINE n == CHOOSE i \in Later(c) : \A j \in Later(c) : i <= j
<1>1. PICK m \in Nat : Batch = 1..m
  BY BatchFacts DEF Types
<1>2. DOMAIN calls[c].record.items = Batch
  BY DEF Batches
<1>3. Later(c) \subseteq Nat
  BY <1>1, <1>2 DEF Later, Unsent
<1>4. \E i \in Later(c) : \A j \in Later(c) : i <= j
  BY <1>3, LeastMember
<1>5. n \in Later(c) /\ \A j \in Later(c) : n <= j
  BY <1>4
<1> HIDE DEF n
<1>6. n \in Batch /\ calls[c].record.items[n] # "accepted"
  BY <1>2, <1>5 DEF Later, Unsent
<1>7. ASSUME NEW i \in Batch, i < n
      PROVE  calls[c].record.items[i] = "accepted"
  <2>1. i \notin Later(c)
    BY <1>1, <1>5, <1>6, <1>7
  <2>2. CASE i > calls[c].index
    BY <1>2, <2>1, <2>2 DEF Later, Unsent
  <2>3. CASE i = calls[c].index
    BY <2>3 DEF State
  <2>4. CASE i < calls[c].index
    BY <2>4
  <2> QED
    BY <1>1, <2>2, <2>3, <2>4
<1>8. /\ n \in Batch /\ calls[c].record.items[n] # "accepted"
      /\ \A i \in Batch : i < n => calls[c].record.items[i] = "accepted"
  BY <1>6, <1>7
<1> QED
  BY <1>8 DEF n

\* The batch that is written is the one that was read, with this item changed.
LEMMA RecordItemInv ==
    ASSUME Types, SendInv, NEW c \in Calls, RecordItem(c)
    PROVE  Types' /\ SendInv'
<1> DEFINE r == calls[c].record
<1>1. UNCHANGED <<op, proves, joined, device, rooms, timeline, flying, history>>
      /\ calls[c].pc = "record" /\ Replace(c, r)
  BY DEF RecordItem, env
<1>2. /\ revision' \in Nat /\ faults' \in Nat
      /\ \/ calls[c].rev = revision /\ journal' = r /\ revision' = revision + 1
         \/ UNCHANGED <<journal, revision>>
      /\ Stores(c) <=> revision' = revision + 1
  BY <1>1, Replaced
<1>3. SendOK(calls[c]) /\ calls[c] \in CallType /\ revision \in Nat
  BY CallFields DEF SendInv, Types
<1>4. /\ Knows(calls[c]) /\ r \in Batches /\ calls[c].index \in Batch
      /\ \A i \in Batch : i < calls[c].index => r.items[i] = "accepted"
      /\ r.ids = journal.ids /\ r.device = journal.device
      /\ \A i \in Batch : r.items[i] = "accepted" => In(i)
  BY <1>1, <1>3 DEF SendOK, Sending, Knows
<1>5. ItemAnswers(c) \subseteq Answers
  BY DEF ItemAnswers, Answers
<1>6. CASE UNCHANGED <<journal, revision>>
  <2>1. ~Stores(c)
    BY <1>6 DEF Stores
  <2>2. PICK a \in Answers : Answer(c, a)
    BY <1>5, <2>1 DEF RecordItem, GoesOn
  <2> QED
    BY <1>1, <1>2, <1>6, <2>2, SendAnswers
<1>7. CASE calls[c].rev = revision /\ journal' = r /\ revision' = revision + 1 /\ ~GoesOn(c)
  <2>1. PICK a \in Answers : Answer(c, a)
    BY <1>5, <1>7 DEF RecordItem
  <2>2. PICK x : Update(c, x) /\ x.pc = "done" /\ x.rev = calls[c].rev
    BY <2>1, Answered
  <2>3. calls'[c] = x
    BY <1>1, <2>2, Updated
  <2>4. SendOK(calls[c])'
    BY <1>3, <1>7, <2>2, <2>3 DEF SendOK, SendPlaces, Sending
  <2>5. Types'
    BY <1>1, <1>2, <2>2, TypesNext DEF Types
  <2> QED
    BY <1>1, <1>4, <1>7, <2>2, <2>4, <2>5, SendWrites
<1>8. CASE calls[c].rev = revision /\ journal' = r /\ revision' = revision + 1 /\ GoesOn(c)
  <2> DEFINE n == CHOOSE i \in Later(c) : \A j \in Later(c) : i <= j
             x == [calls[c] EXCEPT !.pc = "transmit", !.rev = revision', !.index = n]
  <2>1. calls' = [calls EXCEPT ![c] = x]
    BY <1>8 DEF RecordItem
  <2>2. /\ n \in Batch /\ r.items[n] # "accepted"
        /\ \A i \in Batch : i < n => r.items[i] = "accepted"
    BY <1>4, <1>8, LaterFacts DEF GoesOn
  <2>3. n \in Nat
    BY <2>2, BatchFacts DEF Types
  <2> HIDE DEF n
  <2>4. /\ x \in CallType /\ x.pc = "transmit" /\ x.index = n /\ x.rev = revision'
        /\ x.record = r /\ x.device = calls[c].device
    BY <1>2, <1>3, <2>3 DEF CallType, SendPlaces
  <2> HIDE DEF x
  <2>5. Update(c, x)
    BY <2>1, <2>4 DEF Update
  <2>6. calls'[c] = x /\ Batch' = Batch /\ Batches' = Batches
    BY <1>1, <2>5, Updated DEF Batches
  <2>7. Knows(calls[c])'
    <3>1. journal' # None
      BY <1>4, <1>8, BatchesAreMessages DEF Types
    <3>2. \A i \in Batch : In(i) => In(i)'
      BY <1>1 DEF In
    <3> QED
      BY <1>4, <1>8, <2>4, <2>6, <3>1, <3>2 DEF Knows
  <2>8. calls'[c].rev <= revision'
    BY <1>2, <2>4, <2>6
  <2> HIDE DEF Knows, r
  <2>9. SendOK(calls[c])'
    BY <1>8, <2>2, <2>4, <2>6, <2>7, <2>8 DEF SendOK, SendPlaces
  <2>10. Types'
    BY <1>1, <1>2, <2>5, TypesNext DEF Types
  <2> QED
    BY <1>1, <1>4, <1>8, <2>5, <2>9, <2>10, SendWrites
<1> QED
  BY <1>2, <1>6, <1>7, <1>8

\* An item that was on its way lands.
LEMMA ItemArrivesInv ==
    ASSUME Types, SendInv, op # "create", Arrives
    PROVE  Types' /\ SendInv'
<1>1. UNCHANGED <<op, proves, joined, device, journal, revision, calls, rooms, faults, history>>
  BY DEF Arrives, env
<1>2. PICK e \in flying : flying' = flying \ {e} /\ Lands(e)
  BY DEF Arrives
<1>3. /\ e \in Events /\ (\A i \in Batch : i < e.item => In(i)) /\ journal # None
      /\ ~history.strayed => e.ids = journal.ids /\ e.device = journal.device
  BY <1>2 DEF SendInv, RoomOK
<1>4. /\ timeline' \in Seq(Events) /\ Events' = Events
      /\ \A i \in Batch : In(i) => In(i)'
      /\ ~history'.strayed =>
            \A k \in DOMAIN timeline' : timeline'[k].ids = journal.ids
                                        /\ timeline'[k].device = journal.device
      /\ OnceInOrder'
  BY <1>1, <1>2, <1>3, LandsFacts
<1>5. Batch' = Batch /\ Batches' = Batches /\ CallType' = CallType
  BY <1>1 DEF Batch, Batches, CallType
<1>6. Types'
  BY <1>1, <1>5 DEF Types
<1>7. \A d \in Calls : SendOK(calls[d])'
  <2>1. \A d \in Calls : calls'[d] \in CallType /\ SendOK(calls'[d])
    BY <1>1, CallFields DEF SendInv
  <2> QED
    BY <1>1, <1>4, <2>1, SendKept
<1>8. RoomOK'
  <2>1. \A f \in flying' : f \in Events /\ \A j \in Batch : j < f.item => In(j)'
    BY <1>2, <1>4 DEF SendInv, RoomOK
  <2>2. \A j \in Batch : journal.items[j] = "accepted" => In(j)'
    BY <1>3, <1>4 DEF SendInv, RoomOK
  <2>3. ~history'.strayed => \A f \in flying' : f.ids = journal.ids /\ f.device = journal.device
    BY <1>1, <1>2 DEF SendInv, RoomOK
  <2> QED
    BY <1>1, <1>3, <1>4, <1>5, <2>1, <2>2, <2>3 DEF RoomOK
<1> QED
  BY <1>1, <1>4, <1>5, <1>6, <1>7, <1>8 DEF SendInv

\* The steps of a send or an intro.
LEMMA SendInvNext ==
    ASSUME Types, SendInv, op # "create", [Next]_vars
    PROVE  Types' /\ SendInv'
<1>1. ASSUME NEW c \in Calls, Create(c) \/ Reconcile(c) \/ TakeLease(c) \/ CreateRoom(c) \/ SettleCreate(c)
      PROVE  FALSE
  <2>1. calls[c].pc \in SendPlaces
    BY DEF SendInv, SendOK
  <2> QED
    BY <1>1, <2>1 DEF Create, Reconcile, TakeLease, CreateRoom, SettleCreate, SendPlaces
<1>2. ASSUME NEW c \in Calls, Prepare(c) \/ ResumeIntro(c) \/ MembershipGate(c) \/ SendEvent(c) \/ RecordItem(c)
      PROVE  Types' /\ SendInv'
  BY <1>2, PrepareInv, MembershipGateInv, SendEventInv, RecordItemInv
<1>3. ASSUME NEW c \in Calls, Die(c)
      PROVE  Types' /\ SendInv'
  BY <1>3, Died, SendOver, SendStep
<1>4. CASE Arrives
  BY <1>4, ItemArrivesInv
<1>5. ~LeaseExpires
  BY DEF LeaseExpires
<1>6. ASSUME UNCHANGED <<op, proves, journal, revision, calls, rooms, timeline, flying, history>>,
             joined' \in BOOLEAN, device' \in Devices, faults' \in Nat
      PROVE  Types' /\ SendInv'
  <2>1. Batch' = Batch /\ Batches' = Batches /\ CallType' = CallType /\ Events' = Events
    BY <1>6 DEF Batch, Batches, CallType, Events
  <2>2. Types'
    BY <1>6, <2>1 DEF Types
  <2>3. \A i \in Batch : In(i) => In(i)'
    BY <1>6 DEF In
  <2>4. \A d \in Calls : calls'[d] \in CallType /\ SendOK(calls'[d])
    BY <1>6, CallFields DEF SendInv
  <2>5. \A d \in Calls : SendOK(calls[d])'
    BY <1>6, <2>3, <2>4, SendKept
  <2>6. RoomOK' /\ OnceInOrder'
    BY <1>6, <2>1 DEF SendInv, RoomOK, OnceInOrder, In
  <2> QED
    BY <1>6, <2>1, <2>2, <2>5, <2>6 DEF SendInv
<1>7. CASE Revoke \/ \E d \in Devices : ReplaceDevice(d)
  <2>1. UNCHANGED <<op, proves, journal, revision, calls, rooms, timeline, flying, history>>
    BY <1>7 DEF Revoke, ReplaceDevice
  <2>2. joined' = FALSE \/ joined' = joined
    BY <1>7 DEF Revoke, ReplaceDevice
  <2>3. joined' \in BOOLEAN
    BY <2>2, Zenon DEF Types
  <2>4. device' \in Devices
    BY <1>7 DEF Revoke, ReplaceDevice, Types
  <2>5. faults' \in Nat
    BY <1>7 DEF Revoke, ReplaceDevice, Fault, Types
  <2> QED
    BY <1>6, <2>1, <2>3, <2>4, <2>5
<1>8. CASE UNCHANGED vars
  BY <1>6, <1>8 DEF vars, Types
<1> QED
  BY <1>1, <1>2, <1>3, <1>4, <1>5, <1>7, <1>8 DEF Next

-----------------------------------------------------------------------------
(* The invariant holds in every behaviour *)

LEMMA SameOperation ==
    ASSUME [Next]_vars
    PROVE  UNCHANGED op
<1>1. ASSUME NEW c \in Calls, Create(c) \/ Reconcile(c) \/ TakeLease(c) \/ CreateRoom(c) \/ SettleCreate(c)
      PROVE  UNCHANGED op
  BY <1>1 DEF Create, Reconcile, TakeLease, CreateRoom, SettleCreate, env
<1>2. ASSUME NEW c \in Calls, Prepare(c) \/ ResumeIntro(c) \/ MembershipGate(c) \/ SendEvent(c)
                              \/ RecordItem(c) \/ Die(c)
      PROVE  UNCHANGED op
  BY <1>2 DEF Prepare, ResumeIntro, MembershipGate, SendEvent, RecordItem, Die, env
<1>3. CASE LeaseExpires \/ Arrives \/ Revoke \/ \E d \in Devices : ReplaceDevice(d)
  BY <1>3 DEF LeaseExpires, Arrives, Revoke, ReplaceDevice, env
<1>4. CASE UNCHANGED vars
  BY <1>4 DEF vars
<1> QED
  BY <1>1, <1>2, <1>3, <1>4 DEF Next

LEMMA InvInit == Init => Inv
<1> SUFFICES ASSUME Init PROVE Inv
  OBVIOUS
<1>1. op \in {"create", "send", "intro"} /\ proves \in BOOLEAN
  BY ConstantsAssumption DEF Init
<1>2. Idle \in CallType /\ Idle.pc = "idle" /\ Idle.rev = 0
  BY DEF Idle, CallType, CreatePlaces, Results, Answers
<1>3. \A c \in Calls : calls[c] = Idle
  BY DEF Init
<1>4. Types
  <2>1. calls \in [Calls -> CallType]
    BY <1>2 DEF Init
  <2>2. history \in [outlived : BOOLEAN, strayed : BOOLEAN]
    BY DEF Init
  <2>3. joined \in BOOLEAN
    BY Zenon DEF Init
  <2>4. device \in Devices /\ revision = 0 /\ rooms = 0 /\ faults = 0
    BY DEF Init
  <2>5. device \in Devices /\ revision \in Nat /\ rooms \in Nat /\ faults \in Nat
    BY <2>4
  <2> QED
    BY <1>1, <2>1, <2>2, <2>3, <2>5 DEF Types
<1>5. journal = None /\ revision = 0 /\ rooms = 0 /\ timeline = <<>> /\ flying = {}
  BY DEF Init
<1>6. CreateInv
  <2>1. ASSUME NEW c \in Calls PROVE CreateOK(calls[c])
    <3>1. /\ calls[c].pc \in CreatePlaces /\ calls[c].rev <= revision
          /\ ~(calls[c].pc \in {"take", "reconcile"}) /\ ~(calls[c].pc \in Attempting)
      BY <1>2, <1>3, <1>5 DEF CreatePlaces, Attempting
    <3> QED
      BY <3>1, Zenon DEF CreateOK
  <2>2. Alone
    BY <1>2, <1>3 DEF Alone, Attempting
  <2>3. ASSUME NEW c \in Calls PROVE AttemptOK(calls[c])
    <3>1. calls[c].pc # "creating" /\ calls[c].pc # "settling" /\ calls[c].pc # "take"
      BY <1>2, <1>3
    <3>2. /\ ~(calls[c].pc = "creating")
          /\ ~(calls[c].pc = "settling" /\ calls[c].result = "rejected" /\ Held(calls[c]))
          /\ ~(calls[c].pc = "take" /\ Held(calls[c]))
      BY <3>1
    <3> QED
      BY <3>2, Zenon DEF AttemptOK
  <2>4. AtMostOne
    BY <1>5 DEF AtMostOne, Nothing
  <2> QED
    BY <1>5, <2>1, <2>2, <2>3, <2>4 DEF CreateInv
<1>7. SendInv
  <2>1. ASSUME NEW c \in Calls PROVE SendOK(calls[c])
    <3>1. calls[c].pc = "idle" /\ calls[c].rev <= revision
      BY <1>2, <1>3, <1>5
    <3> QED
      BY <3>1 DEF SendOK, SendPlaces, Sending
  <2>2. timeline \in Seq(Events) /\ DOMAIN timeline = {}
    BY <1>5
  <2>3. RoomOK
    BY <1>5, <2>2 DEF RoomOK
  <2>4. OnceInOrder
    BY <2>2 DEF OnceInOrder
  <2> QED
    BY <1>5, <2>1, <2>3, <2>4 DEF SendInv
<1> QED
  BY <1>4, <1>6, <1>7 DEF Inv

LEMMA InvStep == Inv /\ [Next]_vars => Inv'
<1> SUFFICES ASSUME Inv, [Next]_vars PROVE Inv'
  OBVIOUS
<1>1. UNCHANGED op
  BY SameOperation
<1>2. CASE op = "create"
  BY <1>1, <1>2, CreateInvNext DEF Inv
<1>3. CASE op # "create"
  BY <1>1, <1>3, SendInvNext DEF Inv
<1> QED
  BY <1>2, <1>3

LEMMA InvAlways == Spec => []Inv
<1> QED
  BY InvInit, InvStep, PTL DEF Spec

-----------------------------------------------------------------------------
(* The theorems *)

\* The journal holds a creation or a batch and the calls hold batches, as room-journal.ts
\* has them, whatever the calls do to each other.
THEOREM TypeCorrect == Spec => []TypeOK
<1>1. Inv => TypeOK
  <2> SUFFICES ASSUME Inv PROVE TypeOK
    OBVIOUS
  <2>1. Types /\ Batches \subseteq Messages
    BY BatchesAreMessages DEF Inv, Types
  <2>2. journal \in {None} \cup Creations \cup Messages
    BY <2>1 DEF Inv, CreateInv, SendInv
  <2>3. \A c \in Calls : calls[c].record \in {None} \cup Messages /\ calls[c].answer \in Answers
    BY <2>1, CallFields DEF CallType
  <2> QED
    BY <2>1, <2>2, <2>3 DEF Types, TypeOK
<1> QED
  BY <1>1, InvAlways, PTL

\* create.ts makes one room for an operation ID, however many calls, tabs and retries there are:
\* the lease and the reconciliation before it is taken keep the second attempt away.
THEOREM OneRoomOnly == Spec => []OneRoom
<1>1. Inv => OneRoom
  <2> SUFFICES ASSUME Inv PROVE OneRoom
    OBVIOUS
  <2>1. CASE op = "create" /\ Sure
    BY <2>1 DEF Inv, CreateInv, AtMostOne, OneRoom
  <2>2. CASE op = "create" /\ ~Sure
    BY <2>2 DEF Sure, OneRoom
  <2>3. CASE op # "create"
    BY <2>3 DEF Inv, SendInv, OneRoom
  <2> QED
    BY <2>1, <2>2, <2>3
<1> QED
  BY <1>1, InvAlways, PTL

\* For any number of items, calls and devices, no item of send.ts and intro.ts lands before those
\* that precede it; and each lands once, as long as no call transmits on another device than the
\* one it passed its gate with (NeverResent says what happens then).
THEOREM InOrder == Spec => []OnceInOrder
<1>1. Inv => OnceInOrder
  <2> SUFFICES ASSUME Inv PROVE OnceInOrder
    OBVIOUS
  <2>1. CASE op = "create"
    <3>1. DOMAIN timeline = {}
      BY <2>1 DEF Inv, CreateInv
    <3> QED
      BY <3>1 DEF OnceInOrder
  <2>2. CASE op # "create"
    BY <2>2 DEF Inv, SendInv
  <2> QED
    BY <2>1, <2>2
<1> QED
  BY <1>1, InvAlways, PTL

\* A write of the journal happens at the revision that was read.
LEMMA Written ==
    ASSUME NEW c, NEW v, Replace(c, v), journal' # journal
    PROVE  calls[c].rev = revision /\ journal' = v
  BY DEF Replace

\* What is recorded as created stays created, through retries, lost answers and late settlements.
LEMMA CreatedStays ==
    ASSUME Inv, op = "create", journal # None, journal.state = "created", [Next]_vars
    PROVE  journal'.state = "created"
<1> SUFFICES ASSUME journal' # journal
             PROVE  journal'.state = "created"
  OBVIOUS
<1>1. \A c \in Calls : CreateOK(calls[c])
  BY DEF Inv, CreateInv
<1>2. ASSUME NEW c \in Calls, Create(c) \/ CreateRoom(c) \/ TakeLease(c) \/ SettleCreate(c)
      PROVE  FALSE
  <2>1. CASE Create(c) \/ CreateRoom(c)
    BY <2>1 DEF Create, CreateRoom, Claims, JournalAway
  <2>2. CASE TakeLease(c)
    BY <1>1, <2>2, Written DEF TakeLease, CreateOK, Held
  <2>3. CASE SettleCreate(c)
    BY <1>1, <2>3, Written DEF SettleCreate, CreateOK, Held, Attempting
  <2> QED
    BY <1>2, <2>1, <2>2, <2>3
<1>3. ASSUME NEW c \in Calls, Reconcile(c)
      PROVE  journal'.state = "created"
  <2>1. journal' = [state |-> "created", live |-> FALSE]
    BY <1>3, Written DEF Reconcile
  <2> QED
    BY <2>1
<1>4. ASSUME NEW c \in Calls, Prepare(c) \/ ResumeIntro(c) \/ MembershipGate(c) \/ SendEvent(c)
                              \/ RecordItem(c) \/ Die(c)
      PROVE  FALSE
  <2>1. calls[c].pc \in CreatePlaces
    BY <1>1 DEF CreateOK
  <2> QED
    BY <1>4, <2>1 DEF Prepare, ResumeIntro, MembershipGate, SendEvent, RecordItem, Die, CreatePlaces
<1>5. ~(LeaseExpires \/ Arrives \/ Revoke \/ \E d \in Devices : ReplaceDevice(d))
  BY DEF LeaseExpires, Arrives, Revoke, ReplaceDevice
<1> QED
  BY <1>2, <1>3, <1>4, <1>5 DEF Next, vars

\* What is recorded as accepted stays accepted: a call writes the record it read, one item changed.
LEMMA AcceptedStays ==
    ASSUME Inv, op # "create", journal # None, NEW i \in Batch, journal.items[i] = "accepted",
           [Next]_vars
    PROVE  journal'.items[i] = "accepted"
<1> SUFFICES ASSUME journal' # journal
             PROVE  journal'.items[i] = "accepted"
  OBVIOUS
<1>1. \A c \in Calls : SendOK(calls[c])
  BY DEF Inv, SendInv
<1>2. ASSUME NEW c \in Calls, RecordItem(c)
      PROVE  journal'.items[i] = "accepted"
  <2>1. calls[c].pc = "record" /\ Held(calls[c]) /\ journal' = calls[c].record
    BY <1>2, Written DEF RecordItem, Held
  <2>2. /\ journal.items[calls[c].index] # "accepted"
        /\ \A j \in Batch \ {calls[c].index} : calls[c].record.items[j] = journal.items[j]
    BY <1>1, <2>1 DEF SendOK
  <2> QED
    BY <2>1, <2>2
<1>3. ASSUME NEW c \in Calls, Prepare(c) \/ ResumeIntro(c) \/ MembershipGate(c) \/ SendEvent(c)
                              \/ Die(c)
      PROVE  FALSE
  BY <1>3 DEF Prepare, ResumeIntro, MembershipGate, SendEvent, Die, Claims, JournalAway
<1>4. ASSUME NEW c \in Calls, Create(c) \/ Reconcile(c) \/ TakeLease(c) \/ CreateRoom(c) \/ SettleCreate(c)
      PROVE  FALSE
  <2>1. calls[c].pc \in SendPlaces
    BY <1>1 DEF SendOK
  <2> QED
    BY <1>4, <2>1 DEF Create, Reconcile, TakeLease, CreateRoom, SettleCreate, SendPlaces
<1>5. ~(LeaseExpires \/ Arrives \/ Revoke \/ \E d \in Devices : ReplaceDevice(d))
  BY DEF LeaseExpires, Arrives, Revoke, ReplaceDevice
<1> QED
  BY <1>2, <1>3, <1>4, <1>5 DEF Next, vars

\* The compare-and-set of room-journal.ts keeps what is recorded: no late call undoes a created
\* room or an accepted item.
THEOREM ProgressKept == Spec => ProgressIsKept
<1> DEFINE Kept == journal # None =>
          IF op = "create" THEN journal.state = "created" => journal'.state = "created"
          ELSE \A i \in Batch : journal.items[i] = "accepted" => journal'.items[i] = "accepted"
<1>1. Inv /\ [Next]_vars => Kept
  BY CreatedStays, AcceptedStays
<1>2. Inv /\ [Next]_vars => [Kept]_vars
  BY <1>1
<1> HIDE DEF Kept
<1>3. Spec => [][Kept]_vars
  BY <1>2, InvAlways, PTL DEF Spec
<1> QED
  BY <1>3 DEF ProgressIsKept, Kept

-----------------------------------------------------------------------------
(* ChannelTimeline: the inductive invariant *)

\* What is known of an event agrees with the room.
Genuine(id, entry, g) ==
    /\ id \in DOMAIN events /\ entry.gen = g
    /\ entry.kind = "message" => events[id].makes = "row" /\ entry.send = events[id].send
    /\ entry.kind # "message" => entry.send = Absent

\* An update is of events of its window.
UpdateOK(job) ==
    /\ \A id \in DOMAIN job.entries : Genuine(id, job.entries[id], job.gen)
    /\ \A id \in job.ignored : id \in DOMAIN events /\ events[id].makes # "row"
    /\ DOMAIN job.entries \cup job.ignored \subseteq job.window.lo..job.window.hi
    /\ job.gen = gen => job.window.hi <= window.hi

\* The answer to a send names its event.
EchoOK(job) ==
    /\ job.state = "accepted" => job.id # {} /\ job.id = PlaceOf(job.send)
    /\ job.state # "accepted" => job.id = {}

JobOK(job) ==
    /\ job.gen <= gen
    /\ job.kind = "remote" => UpdateOK(job)
    /\ job.kind = "local" => EchoOK(job)

\* A send has one event, which makes a row; what is loaded is in the room.
EventInv ==
    /\ \A i, j \in DOMAIN events :
          events[i].send = events[j].send /\ events[i].send # Absent => i = j
    /\ \A i \in DOMAIN events : events[i].makes # "row" => events[i].send = Absent
    /\ window.hi <= Len(events) /\ (window = Unloaded \/ window.lo <= window.hi)
    /\ publishing # Absent => publishing = window /\ window.lo <= window.hi

JobInv ==
    /\ \A k \in DOMAIN queue : JobOK(queue[k])
    /\ applying # Absent => JobOK(applying.job) /\ applying.job.kind # "replay"

\* The projection agrees with the room, and a send that it shows is in one place.
ViewInv ==
    /\ \A id \in DOMAIN shown.remote : Genuine(id, shown.remote[id], shown.gen)
    /\ \A id \in shown.ignored : id \in DOMAIN events /\ events[id].makes # "row"
    /\ DOMAIN shown.remote \cap shown.ignored = {}
    /\ \A id \in Ids : <<id, id>> \notin shown.before
    /\ \A i, j : <<i, j>> \in shown.before => i \in DOMAIN shown.remote /\ j \in DOMAIN shown.remote
    /\ EchoReplacesSend

\* The lifecycles follow one another.
AgeInv ==
    /\ shown.gen <= gen
    /\ \A s \in Sends : sends[s].gen <= gen
    /\ applying # Absent => /\ applying.job.gen = applying.gen
                            /\ applying.gen <= shown.gen

Applies(kind) == applying # Absent /\ applying.job.kind = kind

\* An update that ends at hi finds a place for what it brings: before what is shown beyond hi,
\* nothing is to come but what has a message after it that the update reaches.
Reaches(view, hi) ==
    \A y \in DOMAIN view.remote : \A z \in Ids :
        hi < y /\ z < y /\ z \notin DOMAIN view.remote /\ z \notin view.ignored =>
           \E p \in DOMAIN view.remote :
              view.remote[p].kind = "message" /\ z < p /\ p <= hi

\* Updates reach no less far than those before them, and far enough for what is shown.
FrontInv ==
    /\ astray = {} => /\ RoomOrder
                      /\ shown.gen = gen => Reaches(shown, window.hi)
                      /\ \A k \in DOMAIN queue :
                            queue[k].kind = "remote" /\ queue[k].gen = shown.gen =>
                               Reaches(shown, queue[k].window.hi)
                      /\ Applies("remote") /\ applying.gen = shown.gen =>
                            Reaches(shown, applying.job.window.hi)
    /\ \A k, l \in DOMAIN queue :
          k < l /\ queue[k].kind = "remote" /\ queue[l].kind = "remote"
                /\ queue[k].gen = queue[l].gen => queue[k].window.hi <= queue[l].window.hi
    /\ Applies("remote") =>
          \A k \in DOMAIN queue : queue[k].kind = "remote" /\ queue[k].gen = applying.gen =>
             applying.job.window.hi <= queue[k].window.hi

\* What was answered last about a send waits in the queue, is being applied, or is shown.
Tells(job, s) == job.kind = "local" /\ job.gen = gen /\ job.send = s

Seen(s) ==
    \/ shown.local[s] = sends[s].state
    \/ Shows(shown, s)
    \/ PlaceOf(s) # {} /\ PlaceOf(s) \subseteq DOMAIN shown.remote

Pending(s) == \E k \in DOMAIN queue : Tells(queue[k], s)
InHand(s) == applying # Absent /\ Tells(applying.job, s)

EchoInv ==
    \A s \in Sends : sends[s].gen = gen /\ sends[s].state # Absent =>
        /\ \A k \in DOMAIN queue :
              Tells(queue[k], s) /\ (\A j \in DOMAIN queue : j > k => ~Tells(queue[j], s)) =>
                 queue[k].state = sends[s].state
        /\ ~Pending(s) /\ InHand(s) => applying.job.state = sends[s].state
        /\ ~Pending(s) /\ ~InHand(s) => shown.gen = gen /\ Seen(s)

TimelineInv ==
    TimelineTypeOK /\ EventInv /\ JobInv /\ ViewInv /\ AgeInv /\ FrontInv /\ EchoInv

-----------------------------------------------------------------------------
(* Types and what a step keeps *)

\* An entry map is a function of some events.
LEMMA MapFacts ==
    /\ \A m \in EntryMaps : DOMAIN m \subseteq Ids /\ \A id \in DOMAIN m : m[id] \in Entries
    /\ \A ids \in SUBSET Ids : \A m \in [ids -> Entries] : m \in EntryMaps
BY DEF EntryMaps

LEMMA JobFacts ==
    ASSUME NEW job \in Jobs
    PROVE  /\ job.kind \in {"local", "remote", "replay"} /\ job.gen \in Generations
           /\ job.kind = "local" =>
                 job.send \in Sends /\ job.state \in SendStates /\ job.id \subseteq Ids
           /\ job.kind = "remote" => /\ job.entries \in EntryMaps /\ job.ignored \subseteq Ids
                                     /\ job.window \in Windows
<1>1. CASE job \in [kind : {"local"}, gen : Generations, send : Sends, state : SendStates,
                    id : SUBSET Ids]
  BY <1>1
<1>2. CASE job \in [kind : {"remote"}, gen : Generations, entries : EntryMaps,
                    ignored : SUBSET Ids, window : Windows]
  BY <1>2
<1>3. CASE job \in [kind : {"replay"}, gen : Generations]
  BY <1>3
<1> QED BY <1>1, <1>2, <1>3 DEF Jobs

\* Bounds are numbers.
LEMMA TimelineNumbers ==
    /\ Ids \subseteq Nat /\ Generations \subseteq Nat
    /\ \A w \in Windows : w.lo \in Nat /\ w.hi \in Nat
BY TimelineAssumption DEF Ids, Generations, Windows

\* What was so of the room, and what it means for the updates, is still so.
Grows ==
    /\ \A id \in DOMAIN events : id \in DOMAIN events' /\ events'[id] = events[id]
    /\ \A s \in Sends : PlaceOf(s) # {} => PlaceOf(s)' = PlaceOf(s)
    /\ gen <= gen' /\ gen' \in Generations /\ window' \in Windows
    /\ gen' = gen => window.hi <= window'.hi

LEMMA GenuineKept ==
    ASSUME Grows, NEW id, NEW entry, NEW g, Genuine(id, entry, g)
    PROVE  Genuine(id, entry, g)'
BY DEF Grows, Genuine

LEMMA JobKept ==
    ASSUME TimelineTypeOK, Grows, NEW job \in Jobs, JobOK(job)
    PROVE  JobOK(job)'
<1>1. gen \in Nat /\ gen' \in Nat /\ job.gen \in Nat /\ window.hi \in Nat /\ window'.hi \in Nat
  BY JobFacts, TimelineNumbers DEF TimelineTypeOK, Grows
<1>2. job.gen <= gen'
  BY <1>1 DEF JobOK, Grows
<1>3. ASSUME job.kind = "remote" PROVE UpdateOK(job)'
  <2>1. UpdateOK(job) /\ job.window.hi \in Nat
    BY <1>3, JobFacts, TimelineNumbers DEF JobOK
  <2>2. \A id \in DOMAIN job.entries : Genuine(id, job.entries[id], job.gen)'
    BY <2>1, GenuineKept DEF UpdateOK
  <2>3. \A id \in job.ignored : id \in DOMAIN events' /\ events'[id].makes # "row"
    BY <2>1 DEF UpdateOK, Grows
  <2>4. ASSUME job.gen = gen' PROVE job.window.hi <= window'.hi
    <3>1. gen' = gen /\ window.hi <= window'.hi
      BY <1>1, <2>4 DEF JobOK, Grows
    <3>2. job.window.hi <= window.hi
      BY <2>1, <2>4, <3>1 DEF UpdateOK
    <3> QED BY <1>1, <2>1, <3>1, <3>2
  <2> QED BY <2>1, <2>2, <2>3, <2>4 DEF UpdateOK
<1>4. ASSUME job.kind = "local" PROVE EchoOK(job)'
  BY <1>4, JobFacts DEF JobOK, EchoOK, Grows
<1> QED BY <1>2, <1>3, <1>4 DEF JobOK

\* Nothing that waits, is applied or is shown changes.
StandsStill == UNCHANGED <<queue, applying, shown, astray>>

LEMMA JobsStay ==
    ASSUME TimelineTypeOK, JobInv, Grows, UNCHANGED <<queue, applying>>
    PROVE  JobInv'
<1>1. \A k \in DOMAIN queue : queue[k] \in Jobs
  BY DEF TimelineTypeOK
<1>2. applying # Absent => applying.job \in Jobs
  BY DEF TimelineTypeOK
<1>3. \A job \in Jobs : JobOK(job) => JobOK(job)'
  BY JobKept
<1> QED BY <1>1, <1>2, <1>3 DEF JobInv

LEMMA ViewStays ==
    ASSUME ViewInv, Grows, UNCHANGED shown
    PROVE  ViewInv'
<1>1. \A id \in DOMAIN shown.remote : Genuine(id, shown.remote[id], shown.gen)'
  BY GenuineKept DEF ViewInv
<1>2. \A id \in shown.ignored : id \in DOMAIN events' /\ events'[id].makes # "row"
  BY DEF ViewInv, Grows
<1>3. EchoReplacesSend'
  BY DEF ViewInv, EchoReplacesSend, Shows
<1> QED BY <1>1, <1>2, <1>3 DEF ViewInv

\* What reaches so far as another reaches what the other does.
LEMMA ReachesOn ==
    ASSUME NEW view, NEW lo \in Nat, NEW hi \in Nat, lo <= hi, DOMAIN view.remote \subseteq Nat,
           Reaches(view, lo)
    PROVE  Reaches(view, hi)
<1> SUFFICES ASSUME NEW y \in DOMAIN view.remote, NEW z \in Ids, hi < y, z < y,
                    z \notin DOMAIN view.remote, z \notin view.ignored
             PROVE  \E p \in DOMAIN view.remote :
                       view.remote[p].kind = "message" /\ z < p /\ p <= hi
  BY DEF Reaches
<1>1. lo < y
  OBVIOUS
<1>2. PICK p \in DOMAIN view.remote : view.remote[p].kind = "message" /\ z < p /\ p <= lo
  BY <1>1 DEF Reaches
<1>3. p <= hi
  BY <1>2
<1> QED BY <1>2, <1>3

\* What is shown is of the room.
LEMMA ViewFacts ==
    ASSUME TimelineTypeOK
    PROVE  /\ shown \in Views /\ shown.gen \in Nat /\ gen \in Nat /\ window.hi \in Nat
           /\ DOMAIN shown.remote \subseteq Ids /\ DOMAIN shown.remote \subseteq Nat
           /\ \A id \in DOMAIN shown.remote : shown.remote[id] \in Entries
<1>1. shown \in Views /\ gen \in Generations /\ window \in Windows
  BY DEF TimelineTypeOK
<1>2. shown.remote \in EntryMaps /\ shown.gen \in Generations
  BY <1>1 DEF Views
<1> QED BY <1>1, <1>2, MapFacts, TimelineNumbers

LEMMA FrontStays ==
    ASSUME TimelineTypeOK, ViewInv, FrontInv, AgeInv, Grows, StandsStill
    PROVE  FrontInv'
<1>1. ASSUME astray = {}, shown.gen = gen' PROVE Reaches(shown, window'.hi)
  <2>1. gen' = gen /\ gen' \in Nat
    BY <1>1, ViewFacts, TimelineNumbers DEF Grows, AgeInv
  <2>2. Reaches(shown, window.hi) /\ window.hi <= window'.hi /\ window'.hi \in Nat
    BY <1>1, <2>1, TimelineNumbers DEF FrontInv, Grows
  <2> QED BY <2>2, ViewFacts, ReachesOn
<1>2. RoomOrder' <=> RoomOrder
  BY DEF StandsStill, RoomOrder
<1>3. Applies("remote")' <=> Applies("remote")
  BY DEF StandsStill, Applies
<1> QED BY <1>1, <1>2, <1>3 DEF FrontInv, StandsStill, Reaches

\* The sends and what is known of them change only for what is not waiting.
LEMMA EchoesStay ==
    ASSUME EchoInv, Grows, StandsStill, gen' = gen, UNCHANGED sends
    PROVE  EchoInv'
<1>1. \A s \in Sends : /\ Pending(s)' = Pending(s) /\ InHand(s)' = InHand(s)
                       /\ Seen(s) => Seen(s)'
  BY DEF Pending, InHand, Tells, Seen, Shows, StandsStill, Grows
<1> QED BY <1>1 DEF EchoInv, StandsStill, Tells

-----------------------------------------------------------------------------
(* The room and the Matrix client *)

\* What else is of its type is so still.
LEMMA TypesStay ==
    ASSUME TimelineTypeOK, StandsStill, UNCHANGED <<sends, attempts>>,
           events' \in Seq([send : Sends \cup {Absent}, makes : Makes]),
           Len(events') <= MaxEvents,
           window' \in Windows, publishing' \in Windows \cup {Absent}, readable' \subseteq Ids,
           joinTs' \in 1..MaxEvents + 1, published' \in BOOLEAN, gen' \in Generations
    PROVE  TimelineTypeOK'
BY DEF TimelineTypeOK, StandsStill, Jobs, Views, EntryMaps, Entries, Ids, Generations

\* An event of nobody's, or the one event of a send, comes last.
LEMMA EventComes ==
    ASSUME TimelineInv, NEW e \in [send : Sends \cup {Absent}, makes : Makes],
           e.makes # "row" => e.send = Absent, e.send \in Sends => PlaceOf(e.send) = {},
           Len(events) < MaxEvents, events' = Append(events, e),
           UNCHANGED <<window, readable, joinTs, publishing, gen, queue, applying, shown, sends,
                       attempts, astray, published>>
    PROVE  TimelineInv'
<1>1. /\ TimelineTypeOK /\ EventInv /\ events \in Seq([send : Sends \cup {Absent}, makes : Makes])
      /\ Len(events) \in Nat /\ MaxEvents \in Nat /\ window \in Windows /\ gen \in Generations
  BY TimelineAssumption DEF TimelineInv, TimelineTypeOK
<1>2. /\ events' \in Seq([send : Sends \cup {Absent}, makes : Makes])
      /\ Len(events') = Len(events) + 1 /\ Len(events') <= MaxEvents
      /\ \A id \in DOMAIN events : id \in DOMAIN events' /\ events'[id] = events[id]
      /\ \A id \in DOMAIN events' : id \in DOMAIN events \/ (id = Len(events) + 1 /\ events'[id] = e)
  BY <1>1
<1>3. ASSUME NEW s \in Sends, PlaceOf(s) # {} PROVE PlaceOf(s)' = PlaceOf(s)
  <2>1. e.send # s
    BY <1>3
  <2> QED BY <1>1, <1>2, <2>1 DEF PlaceOf
<1>4. Grows
  BY <1>1, <1>2, <1>3, TimelineNumbers DEF Grows
<1>5. EventInv'
  <2>1. \A i \in DOMAIN events : events[i].send = e.send => e.send = Absent
    BY <1>1 DEF PlaceOf
  <2>2. window'.hi <= Len(events')
    BY <1>1, <1>2, TimelineNumbers DEF EventInv
  <2>3. \A i, j \in DOMAIN events' :
           events'[i].send = events'[j].send /\ events'[i].send # Absent => i = j
    BY <1>1, <1>2, <2>1 DEF EventInv
  <2>4. \A i \in DOMAIN events' : events'[i].makes # "row" => events'[i].send = Absent
    BY <1>1, <1>2 DEF EventInv
  <2> QED BY <1>1, <2>2, <2>3, <2>4 DEF EventInv
<1>6. TimelineTypeOK'
  BY <1>1, <1>2, TypesStay DEF TimelineTypeOK, StandsStill
<1>7. AgeInv'
  BY DEF TimelineInv, AgeInv
<1> QED
  BY <1>4, <1>5, <1>6, <1>7, JobsStay, ViewStays, FrontStays, EchoesStay DEF TimelineInv, StandsStill

LEMMA OtherEventSafe ==
    ASSUME TimelineInv, NEW makes \in Makes, OtherEvent(makes)
    PROVE  TimelineInv'
<1> DEFINE e == [send |-> Absent, makes |-> makes]
<1>1. e \in [send : Sends \cup {Absent}, makes : Makes] /\ e.send = Absent /\ e.send \notin Sends
  BY TimelineAssumption
<1>2. events' = Append(events, e)
  BY DEF OtherEvent
<1> HIDE DEF e
<1> QED BY <1>1, <1>2, EventComes DEF OtherEvent

LEMMA SendLandsSafe ==
    ASSUME TimelineInv, NEW s \in Sends, SendLands(s)
    PROVE  TimelineInv'
<1> DEFINE e == [send |-> s, makes |-> "row"]
<1>1. e \in [send : Sends \cup {Absent}, makes : Makes] /\ e.makes = "row" /\ e.send = s
  BY DEF Makes
<1>2. events' = Append(events, e)
  BY DEF SendLands
<1> HIDE DEF e
<1> QED BY <1>1, <1>2, EventComes DEF SendLands

\* The client loads more, or reads more of what it has loaded.
LEMMA ClientLoads ==
    ASSUME TimelineInv, window' \in Windows, window.hi <= window'.hi, window'.hi <= Len(events),
           window' = Unloaded \/ window'.lo <= window'.hi, publishing' # Absent => window'.lo <= window'.hi,
           readable' \subseteq Ids, publishing' \in {window', Absent},
           joinTs' \in 1..MaxEvents + 1,
           UNCHANGED <<events, gen, queue, applying, shown, sends, attempts, astray, published>>
    PROVE  TimelineInv'
<1>1. Grows
  BY TimelineNumbers DEF Grows, PlaceOf, TimelineInv, TimelineTypeOK
<1>2. TimelineTypeOK'
  BY TypesStay DEF TimelineInv, TimelineTypeOK, StandsStill
<1>3. EventInv'
  BY TimelineNumbers DEF TimelineInv, EventInv
<1>4. AgeInv'
  BY DEF TimelineInv, AgeInv
<1> QED
  BY <1>1, <1>2, <1>3, <1>4, JobsStay, ViewStays, FrontStays, EchoesStay
     DEF TimelineInv, StandsStill

LEMMA LoadSafe ==
    ASSUME TimelineInv, NEW lo \in 1..MaxEvents + 1, NEW hi \in 0..MaxEvents, Load(lo, hi),
           window.hi <= hi, hi <= Len(events), lo <= hi
    PROVE  TimelineInv'
<1>1. window' \in Windows /\ window'.lo = lo /\ window'.hi = hi /\ publishing' = window'
  BY DEF Load, Windows
<1>2. readable' \subseteq Ids /\ joinTs' \in 1..MaxEvents + 1
  BY DEF Load, TimelineInv, TimelineTypeOK
<1> QED BY <1>1, <1>2, ClientLoads DEF Load

LEMMA SyncSafe == ASSUME TimelineInv, Sync PROVE TimelineInv'
<1>1. /\ window.lo \in 1..MaxEvents + 1 /\ window.hi \in 0..MaxEvents /\ MaxEvents \in Nat
      /\ Len(events) \in 0..MaxEvents /\ window.lo <= window.hi + 1
  BY TimelineAssumption DEF TimelineInv, TimelineTypeOK, Windows, EventInv, Unloaded
<1>2. CASE Load(window.lo, window.hi + 1)
  <2>1. window.hi + 1 \in 0..MaxEvents /\ window.hi <= window.hi + 1 /\ window.hi + 1 <= Len(events)
    BY <1>1 DEF Sync
  <2> QED BY <1>1, <1>2, <2>1, LoadSafe
<1>3. CASE Load(Len(events), Len(events))
  <2>1. Len(events) \in 1..MaxEvents + 1 /\ window.hi <= Len(events)
    BY <1>1 DEF Sync
  <2> QED BY <1>1, <1>3, <2>1, LoadSafe
<1> QED BY <1>2, <1>3 DEF Sync

LEMMA PaginateSafe == ASSUME TimelineInv, Paginate PROVE TimelineInv'
<1>1. /\ window.lo \in 1..MaxEvents + 1 /\ window.hi \in 0..MaxEvents /\ MaxEvents \in Nat
      /\ window.hi <= Len(events) /\ window.lo <= window.hi + 1
  BY TimelineAssumption DEF TimelineInv, TimelineTypeOK, Windows, EventInv, Unloaded
<1>2. /\ window.lo - 1 \in 1..MaxEvents + 1 /\ window.hi <= window.hi
      /\ window.lo - 1 <= window.hi
  BY <1>1 DEF Paginate
<1> QED BY <1>1, <1>2, LoadSafe DEF Paginate

LEMMA DecryptSafe == ASSUME TimelineInv, NEW id \in Ids, Decrypt(id) PROVE TimelineInv'
<1>1. window \in Windows /\ window' = window /\ window.hi <= Len(events) /\ readable \subseteq Ids
  BY DEF Decrypt, TimelineInv, TimelineTypeOK, EventInv
<1>2. window.hi <= window.hi /\ window.lo <= window.hi
  BY <1>1, TimelineNumbers DEF Decrypt, Ids
<1>3. /\ readable' \subseteq Ids /\ publishing' \in {window', Absent}
      /\ joinTs' \in 1..MaxEvents + 1
  BY <1>1 DEF Decrypt, TimelineInv, TimelineTypeOK
<1> QED BY <1>1, <1>2, <1>3, ClientLoads DEF Decrypt

LEMMA MemberChangesSafe == ASSUME TimelineInv, MemberChanges PROVE TimelineInv'
<1>1. /\ window \in Windows /\ window' = window /\ window.hi <= Len(events)
      /\ (window = Unloaded \/ window.lo <= window.hi) /\ readable \subseteq Ids
      /\ Len(events) \in Nat /\ Len(events) <= MaxEvents /\ window.hi \in Nat
  BY TimelineNumbers DEF MemberChanges, TimelineInv, TimelineTypeOK, EventInv
<1>2. joinTs' \in 1..MaxEvents + 1
  BY <1>1, TimelineAssumption DEF MemberChanges
<1>3. publishing' \in {window', Absent} /\ readable' \subseteq Ids
  BY <1>1 DEF MemberChanges
<1>4. publishing' # Absent => window'.lo <= window'.hi
  BY <1>1 DEF MemberChanges, Unloaded
<1>5. /\ window.hi <= window'.hi /\ window'.hi <= Len(events)
      /\ window' = Unloaded \/ window'.lo <= window'.hi
  BY <1>1
<1> QED BY <1>1, <1>2, <1>3, <1>4, <1>5, ClientLoads DEF MemberChanges

LEMMA NewGenerationSafe == ASSUME TimelineInv, NewGeneration PROVE TimelineInv'
<1>1. gen \in Nat /\ gen' = gen + 1 /\ gen' \in Generations
  BY TimelineAssumption DEF NewGeneration, TimelineInv, TimelineTypeOK, Generations
<1>2. window' \in Windows /\ window'.hi = 0 /\ window'.lo = 1 /\ publishing' = Absent /\ readable' = {}
  BY TimelineAssumption DEF NewGeneration, Unloaded, Windows
<1>3. Grows
  BY <1>1, <1>2, TimelineNumbers DEF Grows, PlaceOf, NewGeneration
<1>4. TimelineTypeOK'
  BY <1>1, <1>2, TypesStay DEF NewGeneration, TimelineInv, TimelineTypeOK, StandsStill
<1>5. EventInv'
  BY <1>2 DEF NewGeneration, TimelineInv, EventInv, TimelineTypeOK
<1>6. shown.gen \in Nat /\ \A s \in Sends : sends[s].gen \in Nat
  BY TimelineNumbers DEF TimelineInv, TimelineTypeOK, Views
<1>7. AgeInv'
  BY <1>1, <1>6 DEF NewGeneration, TimelineInv, AgeInv
<1>8. EchoInv'
  BY <1>1, <1>6 DEF NewGeneration, TimelineInv, AgeInv, EchoInv
<1> QED
  BY <1>3, <1>4, <1>5, <1>7, <1>8, JobsStay, ViewStays, FrontStays
     DEF TimelineInv, StandsStill, NewGeneration

-----------------------------------------------------------------------------
(* What is queued *)

LEMMA Elements == ASSUME NEW S, NEW q \in Seq(S) PROVE \A i \in DOMAIN q : q[i] \in S
OBVIOUS

\* A queue with one more.
LEMMA OneMore ==
    ASSUME TimelineTypeOK, NEW job \in Jobs, queue' = Append(queue, job)
    PROVE  /\ queue' \in Seq(Jobs) /\ Len(queue) \in Nat /\ DOMAIN queue = 1..Len(queue)
           /\ DOMAIN queue' = 1..Len(queue) + 1
           /\ queue'[Len(queue) + 1] = job
           /\ \A k \in DOMAIN queue : queue'[k] = queue[k] /\ queue[k] \in Jobs
BY DEF TimelineTypeOK

\* It is as good as those before it.
LEMMA JobQueued ==
    ASSUME TimelineInv, NEW job \in Jobs, queue' = Append(queue, job), JobOK(job),
           job.kind = "remote" => job.gen = gen /\ job.window.hi = window.hi,
           UNCHANGED <<events, window, gen, applying, shown, astray>>
    PROVE  JobInv' /\ FrontInv'
<1>1. TimelineTypeOK /\ gen \in Nat /\ window.hi \in Nat
  BY TimelineNumbers DEF TimelineInv, TimelineTypeOK
<1>2. Grows
  BY <1>1, TimelineNumbers DEF Grows, PlaceOf, TimelineTypeOK
<1>3. \A j \in Jobs : JobOK(j) => JobOK(j)'
  BY <1>1, <1>2, JobKept
<1>4. JobInv'
  BY <1>1, <1>3, OneMore DEF TimelineInv, JobInv, TimelineTypeOK
<1>6. ASSUME NEW k \in DOMAIN queue, queue[k].kind = "remote", queue[k].gen = job.gen,
             job.kind = "remote"
      PROVE  queue[k].window.hi <= job.window.hi
  <2>1. UpdateOK(queue[k]) /\ queue[k].gen = gen
    BY <1>6 DEF TimelineInv, JobInv, JobOK
  <2> QED BY <1>6, <2>1 DEF UpdateOK
<1>7. ASSUME Applies("remote"), job.gen = applying.gen, job.kind = "remote"
      PROVE  applying.job.window.hi <= job.window.hi
  <2>1. UpdateOK(applying.job) /\ applying.job.gen = gen
    BY <1>7 DEF TimelineInv, JobInv, JobOK, AgeInv, Applies
  <2> QED BY <1>7, <2>1 DEF UpdateOK
<1>8. ASSUME astray = {}, job.kind = "remote", job.gen = shown.gen
      PROVE  Reaches(shown, job.window.hi)
  BY <1>8 DEF TimelineInv, FrontInv
<1>9. /\ RoomOrder' <=> RoomOrder
      /\ Applies("remote")' <=> Applies("remote")
  BY DEF RoomOrder, Applies
<1>10. \A k, l \in DOMAIN queue' :
          k < l /\ queue'[k].kind = "remote" /\ queue'[l].kind = "remote"
                /\ queue'[k].gen = queue'[l].gen => queue'[k].window.hi <= queue'[l].window.hi
  <2> SUFFICES ASSUME NEW k \in DOMAIN queue', NEW l \in DOMAIN queue', k < l,
                      queue'[k].kind = "remote", queue'[l].kind = "remote",
                      queue'[k].gen = queue'[l].gen
               PROVE  queue'[k].window.hi <= queue'[l].window.hi
    OBVIOUS
  <2>1. k \in DOMAIN queue /\ queue'[k] = queue[k]
    BY <1>1, OneMore
  <2>2. CASE l \in DOMAIN queue
    <3>1. queue'[l] = queue[l]
      BY <1>1, <2>2, OneMore
    <3> QED BY <2>1, <2>2, <3>1 DEF TimelineInv, FrontInv
  <2>3. CASE l \notin DOMAIN queue
    <3>1. queue'[l] = job
      BY <1>1, <2>3, OneMore
    <3> QED BY <1>6, <2>1, <3>1
  <2> QED BY <2>2, <2>3
<1>11. \A k \in DOMAIN queue' : (k \in DOMAIN queue /\ queue'[k] = queue[k]) \/ queue'[k] = job
  BY <1>1, OneMore
<1>12. FrontInv'
  BY <1>7, <1>8, <1>9, <1>10, <1>11 DEF TimelineInv, FrontInv, Reaches
<1> QED BY <1>4, <1>12

LEMMA EchoSafe ==
    ASSUME TimelineInv, NEW s \in Sends, NEW state \in SendStates, NEW g \in Generations, g <= gen,
           state = "accepted" => PlaceOf(s) # {}, Echo(s, state, g),
           sends' = [sends EXCEPT ![s] = [state |-> state, gen |-> g]],
           attempts' \in 0..MaxAttempts,
           UNCHANGED <<events, window, readable, joinTs, publishing, gen, applying, shown, astray,
                       published>>
    PROVE  TimelineInv'
<1> DEFINE job == [kind |-> "local", gen |-> g, send |-> s, state |-> state,
                   id |-> IF state = "accepted" THEN PlaceOf(s) ELSE {}]
<1>1. /\ TimelineTypeOK /\ gen \in Nat /\ g \in Nat /\ Len(events) \in Nat /\ Len(events) <= MaxEvents
      /\ MaxEvents \in Nat
  <2>1. TimelineTypeOK /\ gen \in Nat /\ g \in Nat
    BY TimelineNumbers DEF TimelineInv, TimelineTypeOK
  <2>2. Len(events) \in Nat /\ Len(events) <= MaxEvents
    BY <2>1 DEF TimelineTypeOK
  <2> QED BY <2>1, <2>2, TimelineAssumption
<1>2. PlaceOf(s) \subseteq Ids
  BY <1>1 DEF PlaceOf, Ids
<1>3. job \in Jobs
  BY <1>2 DEF Jobs
<1>4. queue' = Append(queue, job)
  BY DEF Echo, Enqueue
<1>5. /\ job.kind = "local" /\ job.gen = g /\ job.send = s /\ job.state = state
      /\ job.id = IF state = "accepted" THEN PlaceOf(s) ELSE {}
  OBVIOUS
<1> HIDE DEF job
<1>6. JobOK(job)
  BY <1>5 DEF JobOK, EchoOK
<1>7. JobInv' /\ FrontInv'
  BY <1>3, <1>4, <1>5, <1>6, JobQueued
<1>8. TimelineTypeOK'
  <2>1. sends' \in [Sends -> [state : SendStates \cup {Absent}, gen : Generations]]
    BY <1>1 DEF TimelineTypeOK
  <2> QED BY <1>1, <1>3, <1>4, <2>1, OneMore DEF TimelineTypeOK
<1>9. EventInv' /\ ViewInv'
  BY DEF TimelineInv, EventInv, ViewInv, Genuine, EchoReplacesSend, Shows
<1>10. sends'[s].gen = g /\ sends'[s].state = state /\ \A r \in Sends \ {s} : sends'[r] = sends[r]
  BY <1>1 DEF TimelineTypeOK
<1>11. AgeInv'
  BY <1>10 DEF TimelineInv, AgeInv
<1>12. ASSUME NEW r \in Sends, sends'[r].gen = gen, sends'[r].state # Absent
       PROVE  /\ \A k \in DOMAIN queue' :
                    Tells(queue'[k], r)
                    /\ (\A j \in DOMAIN queue' : j > k => ~Tells(queue'[j], r)) =>
                       queue'[k].state = sends'[r].state
              /\ ~Pending(r)' /\ InHand(r) => applying.job.state = sends'[r].state
              /\ ~Pending(r)' /\ ~InHand(r) => shown.gen = gen /\ Seen(r)'
  <2>1. CASE r = s
    <3>1. Tells(queue'[Len(queue) + 1], s)
      BY <1>1, <1>3, <1>4, <1>5, <1>10, <1>12, <2>1, OneMore DEF Tells
    <3>2. Pending(s)'
      BY <1>1, <1>3, <1>4, <3>1, OneMore DEF Pending, Tells
    <3>3. ASSUME NEW k \in DOMAIN queue', \A j \in DOMAIN queue' : j > k => ~Tells(queue'[j], s)
          PROVE  k = Len(queue) + 1
      BY <1>1, <1>3, <1>4, <3>1, <3>3, OneMore
    <3>4. queue'[Len(queue) + 1].state = sends'[s].state
      BY <1>1, <1>3, <1>4, <1>5, <1>10, OneMore
    <3> QED BY <2>1, <3>2, <3>3, <3>4
  <2>2. CASE r # s
    <3>1. sends'[r] = sends[r] /\ ~Tells(job, r)
      BY <1>5, <1>10, <2>2 DEF Tells
    <3>2. \A k \in DOMAIN queue' :
             Tells(queue'[k], r) => k \in DOMAIN queue /\ queue'[k] = queue[k]
      BY <1>1, <1>3, <1>4, <3>1, OneMore
    <3>3. \A k \in DOMAIN queue : k \in DOMAIN queue' /\ queue'[k] = queue[k]
      BY <1>1, <1>3, <1>4, OneMore
    <3>4. Pending(r)' <=> Pending(r)
      BY <3>2, <3>3 DEF Pending, Tells
    <3>5. Seen(r)' <=> Seen(r)
      BY <3>1 DEF Seen, Shows, PlaceOf
    <3> QED BY <1>12, <3>1, <3>2, <3>3, <3>4, <3>5 DEF TimelineInv, EchoInv
  <2> QED BY <2>1, <2>2
<1>13. EchoInv'
  BY <1>12 DEF EchoInv, InHand, Tells
<1> QED BY <1>7, <1>8, <1>9, <1>11, <1>13 DEF TimelineInv

LEMMA TransmitSafe == ASSUME TimelineInv, NEW s \in Sends, Transmit(s) PROVE TimelineInv'
<1>1. gen \in Generations /\ gen <= gen /\ "pending" \in SendStates
  BY TimelineNumbers DEF TimelineInv, TimelineTypeOK, SendStates
<1>2. attempts' \in 0..MaxAttempts
  BY TimelineAssumption DEF Transmit, TimelineInv, TimelineTypeOK
<1> QED BY <1>1, <1>2, EchoSafe DEF Transmit

LEMMA SendAnsweredSafe ==
    ASSUME TimelineInv, NEW s \in Sends, NEW state \in SendStates, SendAnswered(s, state)
    PROVE  TimelineInv'
<1>1. sends[s].gen \in Generations /\ sends[s].gen <= gen /\ attempts' \in 0..MaxAttempts
  BY DEF SendAnswered, TimelineInv, TimelineTypeOK, AgeInv
<1>2. sends' = [sends EXCEPT ![s] = [state |-> state, gen |-> sends[s].gen]]
  <2>1. sends[s] \in [state : SendStates \cup {Absent}, gen : Generations]
    BY DEF TimelineInv, TimelineTypeOK
  <2>2. [sends[s] EXCEPT !.state = state] = [state |-> state, gen |-> sends[s].gen]
    BY <2>1
  <2>3. sends' = [sends EXCEPT ![s] = [sends[s] EXCEPT !.state = state]]
    BY DEF SendAnswered
  <2> QED BY <2>2, <2>3
<1> QED BY <1>1, <1>2, EchoSafe DEF SendAnswered

LEMMA ReceiveSafe == ASSUME TimelineInv, Receive PROVE TimelineInv'
<1> DEFINE ids == publishing.lo..publishing.hi
           ignored == {id \in ids \cap readable : events[id].makes = "ignored"}
           nothing == {id \in ids \cap readable : events[id].makes = "nothing"}
           preJoin == {id \in ids \ readable : id < joinTs}
           told == ids \ (ignored \cup nothing \cup preJoin)
           entries == [id \in told |-> Projected(id)]
           job == [kind |-> "remote", gen |-> gen, window |-> publishing, ignored |-> ignored,
                   entries |-> entries]
<1>1. /\ TimelineTypeOK /\ publishing = window /\ publishing \in Windows
      /\ window.lo \in Nat \ {0} /\ window.hi \in Nat /\ window.lo <= window.hi
      /\ window.hi <= Len(events) /\ Len(events) \in Nat /\ Len(events) <= MaxEvents
      /\ MaxEvents \in Nat /\ gen \in Generations /\ gen \in Nat
  BY TimelineAssumption, TimelineNumbers
     DEF Receive, TimelineInv, TimelineTypeOK, EventInv, Windows
<1>2. ids \subseteq Ids /\ ids \subseteq DOMAIN events
  BY <1>1 DEF Ids, TimelineTypeOK
<1>3. \A id \in ids : events[id] \in [send : Sends \cup {Absent}, makes : Makes]
  <2>1. \A id \in DOMAIN events : events[id] \in [send : Sends \cup {Absent}, makes : Makes]
    BY <1>1, Elements DEF TimelineTypeOK
  <2> QED BY <1>2, <2>1
<1>4. \A id \in told : Projected(id) \in Entries
  BY <1>1, <1>3 DEF Projected, Entries, Kinds
<1>5. entries \in EntryMaps
  BY <1>2, <1>4, MapFacts
<1>6. job \in Jobs
  BY <1>1, <1>2, <1>5 DEF Jobs
<1>7. /\ job.kind = "remote" /\ job.gen = gen /\ job.ignored = ignored /\ job.window = window
      /\ DOMAIN job.entries = told
      /\ \A id \in told : job.entries[id] = Projected(id)
  BY <1>1
<1>8. \A id \in ignored : id \in DOMAIN events /\ events[id].makes # "row"
  BY <1>2
<1>9. ASSUME NEW id \in told PROVE Genuine(id, Projected(id), gen)
  <2>1. id \in ids /\ (id \in readable => events[id].makes = "row")
    BY <1>3, <1>9 DEF Makes
  <2> QED BY <1>2, <2>1 DEF Genuine, Projected
<1>10. told \cup ignored \subseteq window.lo..window.hi /\ window.hi <= window.hi
  BY <1>1
<1> HIDE DEF ids, ignored, nothing, preJoin, told, entries, job
<1>12. JobOK(job)
  BY <1>1, <1>7, <1>8, <1>9, <1>10 DEF JobOK, UpdateOK
<1>13. AgeInv'
  BY DEF Receive, TimelineInv, AgeInv
<1>14. EventInv' /\ ViewInv'
  BY DEF Receive, TimelineInv, EventInv, ViewInv, Genuine, EchoReplacesSend, Shows
<1>15. CASE queue' = queue
  <2>1. Grows
    BY <1>1 DEF Grows, PlaceOf, Receive, TimelineTypeOK
  <2>2. StandsStill /\ TimelineTypeOK'
    BY <1>1, <1>15, TypesStay DEF Receive, StandsStill, TimelineTypeOK
  <2> QED BY <1>13, <1>14, <2>1, <2>2, JobsStay, FrontStays, EchoesStay
          DEF TimelineInv, StandsStill, Receive
<1>16. CASE queue' = Append(queue, job)
  <2>1. JobInv' /\ FrontInv'
    BY <1>1, <1>6, <1>7, <1>12, <1>16, JobQueued DEF Receive
  <2>2. TimelineTypeOK'
    BY <1>1, <1>6, <1>16, OneMore DEF Receive, TimelineTypeOK
  <2>3. \A s \in Sends : ~Tells(job, s)
    BY <1>7 DEF Tells
  <2>4. \A s \in Sends : \A k \in DOMAIN queue' :
           Tells(queue'[k], s) => k \in DOMAIN queue /\ queue'[k] = queue[k]
    BY <1>1, <1>6, <1>16, <2>3, OneMore
  <2>5. \A k \in DOMAIN queue : k \in DOMAIN queue' /\ queue'[k] = queue[k]
    BY <1>1, <1>6, <1>16, OneMore
  <2>6. \A s \in Sends : (Pending(s)' <=> Pending(s)) /\ (Seen(s)' <=> Seen(s))
                         /\ (InHand(s)' <=> InHand(s))
    BY <2>4, <2>5 DEF Pending, Tells, Seen, Shows, PlaceOf, InHand, Receive
  <2>7. EchoInv'
    BY <2>4, <2>5, <2>6 DEF TimelineInv, EchoInv, Tells, Receive
  <2> QED BY <1>13, <1>14, <2>1, <2>2, <2>7 DEF TimelineInv
<1> QED
  BY <1>15, <1>16 DEF Receive, Enqueue, job, entries, told, preJoin, nothing, ignored, ids

-----------------------------------------------------------------------------
(* The queue *)

\* A projection of a lifecycle that shows nothing yet.
LEMMA Afresh ==
    ASSUME gen \in Generations, StartAfresh
    PROVE  /\ shown' \in Views /\ shown'.gen = gen /\ DOMAIN shown'.remote = {}
           /\ shown'.ignored = {} /\ shown'.before = {} /\ astray' = {}
           /\ \A s \in Sends : ~Shows(shown', s)
<1>1. Empty(gen).remote \in [{} -> Entries] /\ {} \in SUBSET Ids
  BY DEF Empty
<1>2. Empty(gen).remote \in EntryMaps
  BY <1>1, MapFacts
<1>3. Empty(gen) \in Views
  BY <1>2 DEF Empty, Views
<1> QED BY <1>3 DEF StartAfresh, Empty, Shows

LEMMA HistoryReadSafe == ASSUME TimelineInv, HistoryRead PROVE TimelineInv'
<1>1. gen \in Generations /\ gen \in Nat /\ shown.gen \in Nat
  BY TimelineNumbers DEF TimelineInv, TimelineTypeOK, Views
<1>2. /\ shown' \in Views /\ shown'.gen = gen /\ DOMAIN shown'.remote = {}
      /\ shown'.ignored = {} /\ shown'.before = {} /\ astray' = {}
      /\ \A s \in Sends : ~Shows(shown', s)
  BY <1>1, Afresh DEF HistoryRead
<1>3. UNCHANGED <<events, window, readable, joinTs, publishing, gen, queue, applying, sends,
                  attempts, published>>
  BY DEF HistoryRead
<1>4. TimelineTypeOK'
  BY <1>1, <1>2, <1>3 DEF TimelineInv, TimelineTypeOK
<1>5. EventInv'
  BY <1>3 DEF TimelineInv, EventInv
<1>6. Grows
  BY <1>1, <1>3, TimelineNumbers DEF Grows, PlaceOf, TimelineInv, TimelineTypeOK
<1>7. JobInv'
  BY <1>3, <1>6, JobsStay DEF TimelineInv
<1>8. ViewInv'
  BY <1>2 DEF ViewInv, EchoReplacesSend
<1>9. AgeInv'
  <2>1. ASSUME applying # Absent PROVE applying.gen <= gen
    <3>1. applying.gen \in Generations
      BY <2>1 DEF TimelineInv, TimelineTypeOK
    <3>2. applying.gen <= shown.gen /\ shown.gen <= gen
      BY <2>1 DEF TimelineInv, AgeInv
    <3>3. applying.gen \in Nat
      BY <3>1, TimelineNumbers
    <3> QED BY <1>1, <3>2, <3>3
  <2> QED BY <1>1, <1>2, <1>3, <2>1 DEF TimelineInv, AgeInv
<1>10. FrontInv'
  BY <1>2, <1>3 DEF TimelineInv, FrontInv, RoomOrder, Reaches, Applies
<1>11. EchoInv'
  <2>1. \A s \in Sends : (Pending(s)' <=> Pending(s)) /\ (InHand(s)' <=> InHand(s))
    BY <1>3 DEF Pending, InHand, Tells
  <2> QED BY <1>3, <2>1 DEF TimelineInv, EchoInv, Tells, HistoryRead
<1> QED BY <1>4, <1>5, <1>7, <1>8, <1>9, <1>10, <1>11 DEF TimelineInv

\* What is left of a queue.
LEMMA OneLess ==
    ASSUME TimelineTypeOK, queue # <<>>, queue' = Tail(queue)
    PROVE  /\ queue' \in Seq(Jobs) /\ 1 \in DOMAIN queue
           /\ Head(queue) = queue[1] /\ queue[1] \in Jobs
           /\ DOMAIN queue \subseteq Nat
           /\ \A k \in DOMAIN queue' : k + 1 \in DOMAIN queue /\ queue'[k] = queue[k + 1]
           /\ \A k \in DOMAIN queue : k # 1 => k - 1 \in DOMAIN queue' /\ queue'[k - 1] = queue[k]
<1>1. queue \in Seq(Jobs)
  BY DEF TimelineTypeOK
<1>2. /\ Len(queue) \in Nat /\ Len(queue) # 0 /\ DOMAIN queue = 1..Len(queue)
      /\ Len(queue') = Len(queue) - 1 /\ queue' \in Seq(Jobs) /\ DOMAIN queue' = 1..Len(queue')
      /\ Head(queue) = queue[1]
      /\ \A k \in 1..Len(queue) - 1 : queue'[k] = queue[k + 1]
  BY <1>1
<1> QED BY <1>1, <1>2

\* A change is dropped or taken up, or a late listener has its turn.
LEMMA TurnSafe == ASSUME TimelineInv, Begin \/ Replay PROVE TimelineInv'
<1>1. /\ TimelineTypeOK /\ gen \in Generations /\ gen \in Nat /\ shown.gen \in Nat
      /\ applying = Absent
  BY TimelineNumbers DEF TimelineInv, TimelineTypeOK, Views, Begin, Replay
<1>2. /\ queue # <<>> /\ queue' = Tail(queue) /\ published' \in BOOLEAN
      /\ UNCHANGED <<events, window, readable, joinTs, publishing, gen, sends, attempts>>
  BY DEF Begin, Replay, TimelineInv, TimelineTypeOK
<1>3. /\ queue' \in Seq(Jobs) /\ 1 \in DOMAIN queue
      /\ Head(queue) = queue[1] /\ queue[1] \in Jobs
      /\ DOMAIN queue \subseteq Nat
      /\ \A k \in DOMAIN queue' : k + 1 \in DOMAIN queue /\ queue'[k] = queue[k + 1]
      /\ \A k \in DOMAIN queue : k # 1 => k - 1 \in DOMAIN queue' /\ queue'[k - 1] = queue[k]
  BY <1>1, <1>2, OneLess
<1>4. Grows
  BY <1>1, <1>2, TimelineNumbers DEF Grows, PlaceOf, TimelineTypeOK
<1>5. \A job \in Jobs : JobOK(job) => JobOK(job)'
  BY <1>1, <1>4, JobKept
<1>6. EventInv'
  BY <1>2 DEF TimelineInv, EventInv
<1>7. \A k \in DOMAIN queue : queue[k] \in Jobs /\ JobOK(queue[k])
  BY <1>1, Elements DEF TimelineTypeOK, TimelineInv, JobInv
<1>8. \A k, l \in DOMAIN queue' :
         k < l /\ queue'[k].kind = "remote" /\ queue'[l].kind = "remote"
               /\ queue'[k].gen = queue'[l].gen => queue'[k].window.hi <= queue'[l].window.hi
  <2> SUFFICES ASSUME NEW k \in DOMAIN queue', NEW l \in DOMAIN queue', k < l,
                      queue'[k].kind = "remote", queue'[l].kind = "remote",
                      queue'[k].gen = queue'[l].gen
               PROVE  queue'[k].window.hi <= queue'[l].window.hi
    OBVIOUS
  <2>1. k \in Nat /\ l \in Nat
    BY <1>3
  <2>2. /\ k + 1 \in DOMAIN queue /\ l + 1 \in DOMAIN queue /\ k + 1 < l + 1
        /\ queue'[k] = queue[k + 1] /\ queue'[l] = queue[l + 1]
    BY <1>3, <2>1
  <2> QED BY <2>2 DEF TimelineInv, FrontInv
<1>9. \A s \in Sends : \A k \in DOMAIN queue' :
         Tells(queue'[k], s) /\ (\A j \in DOMAIN queue' : j > k => ~Tells(queue'[j], s)) =>
            Tells(queue[k + 1], s) /\ (\A j \in DOMAIN queue : j > k + 1 => ~Tells(queue[j], s))
  <2> SUFFICES ASSUME NEW s \in Sends, NEW k \in DOMAIN queue', Tells(queue'[k], s),
                      \A j \in DOMAIN queue' : j > k => ~Tells(queue'[j], s),
                      NEW j \in DOMAIN queue, j > k + 1
               PROVE  ~Tells(queue[j], s)
    BY <1>3
  <2>1. k \in Nat /\ j \in Nat
    BY <1>3
  <2>2. j - 1 \in DOMAIN queue' /\ queue'[j - 1] = queue[j] /\ j - 1 > k
    BY <1>3, <2>1
  <2> QED BY <2>2
<1>10. /\ \A s \in Sends : Pending(s)' <=> \E k \in DOMAIN queue' : Tells(queue'[k], s)
       /\ \A s \in Sends : Pending(s) => Tells(queue[1], s) \/ Pending(s)'
  <2>1. \A s \in Sends : Pending(s)' <=> \E k \in DOMAIN queue' : Tells(queue'[k], s)
    BY <1>2 DEF Pending, Tells
  <2> QED BY <1>3, <2>1 DEF Pending
<1>11. CASE Replay \/ Outdated(Head(queue))
  <2>1. UNCHANGED <<applying, shown, astray>>
    BY <1>11 DEF Begin, Replay
  <2>2. TimelineTypeOK'
    BY <1>1, <1>2, <1>3, <2>1 DEF TimelineTypeOK
  <2>3. JobInv'
    BY <1>1, <1>3, <1>5, <1>7, <2>1 DEF JobInv
  <2>4. ViewInv'
    BY <1>4, <2>1, ViewStays DEF TimelineInv
  <2>5. AgeInv'
    BY <1>2, <2>1 DEF TimelineInv, AgeInv
  <2>6. RoomOrder' <=> RoomOrder
    BY <2>1 DEF RoomOrder
  <2>7. FrontInv'
    BY <1>1, <1>2, <1>3, <1>8, <2>1, <2>6 DEF TimelineInv, FrontInv, Reaches, Applies
  <2>8. \A s \in Sends : ~Tells(queue[1], s)
    BY <1>3, <1>11 DEF Outdated, Replay, Tells
  <2>9. \A s \in Sends : Seen(s)' <=> Seen(s)
    BY <1>2, <2>1 DEF Seen, Shows, PlaceOf
  <2>10. ASSUME NEW s \in Sends, sends[s].gen = gen, sends[s].state # Absent
         PROVE  /\ \A k \in DOMAIN queue' :
                      Tells(queue'[k], s)
                      /\ (\A j \in DOMAIN queue' : j > k => ~Tells(queue'[j], s)) =>
                         queue'[k].state = sends[s].state
                /\ ~Pending(s)' => shown.gen = gen /\ Seen(s)
    <3>1. \A k \in DOMAIN queue :
             Tells(queue[k], s) /\ (\A j \in DOMAIN queue : j > k => ~Tells(queue[j], s)) =>
                queue[k].state = sends[s].state
      BY <2>10 DEF TimelineInv, EchoInv
    <3>2. ~Pending(s)' => shown.gen = gen /\ Seen(s)
      BY <1>1, <1>10, <2>8, <2>10 DEF TimelineInv, EchoInv, InHand
    <3>3. ASSUME NEW k \in DOMAIN queue', Tells(queue'[k], s),
                 \A j \in DOMAIN queue' : j > k => ~Tells(queue'[j], s)
          PROVE  queue'[k].state = sends[s].state
      <4>1. k + 1 \in DOMAIN queue /\ queue'[k] = queue[k + 1]
        BY <1>3
      <4>2. Tells(queue[k + 1], s) /\ \A j \in DOMAIN queue : j > k + 1 => ~Tells(queue[j], s)
        BY <1>9, <3>3
      <4>3. queue[k + 1].state = sends[s].state
        BY <3>1, <4>1, <4>2
      <4> QED BY <4>1, <4>3
    <3> QED BY <3>2, <3>3
  <2>11. EchoInv'
    BY <1>1, <1>2, <2>1, <2>9, <2>10 DEF EchoInv, InHand, Tells
  <2> QED BY <1>6, <2>2, <2>3, <2>4, <2>5, <2>7, <2>11 DEF TimelineInv
<1>12. CASE Begin /\ ~Outdated(Head(queue))
  <2>1. /\ applying' = [job |-> queue[1], gen |-> gen] /\ queue[1].gen = gen
        /\ queue[1].kind # "replay"
    BY <1>3, <1>12 DEF Begin, Outdated
  <2>2. applying' # Absent /\ applying'.job = queue[1] /\ applying'.gen = gen
    <3>1. applying' \in [job : Jobs, gen : Generations]
      BY <1>1, <1>3, <2>1
    <3> QED BY <2>1, <3>1, NoJobAssumption
  <2>3. \/ shown.gen = gen /\ UNCHANGED <<shown, astray>>
        \/ shown.gen # gen /\ StartAfresh
    BY <1>12 DEF Begin
  <2>4. shown' \in Views /\ astray' \subseteq Ids /\ shown'.gen = gen
    BY <1>1, <2>3, Afresh DEF TimelineTypeOK
  <2>5. TimelineTypeOK'
    BY <1>1, <1>2, <1>3, <2>1, <2>4 DEF TimelineTypeOK
  <2>6. JobInv'
    BY <1>3, <1>5, <1>7, <2>1, <2>2 DEF JobInv
  <2>7. ViewInv'
    <3>1. CASE UNCHANGED shown
      BY <1>4, <3>1, ViewStays DEF TimelineInv
    <3>2. CASE StartAfresh
      BY <1>1, <3>2, Afresh DEF ViewInv, EchoReplacesSend
    <3> QED BY <2>3, <3>1, <3>2
  <2>8. AgeInv'
    BY <1>1, <1>2, <2>1, <2>2, <2>4 DEF TimelineInv, AgeInv
  <2>9. astray' = {} => /\ RoomOrder'
                       /\ Reaches(shown', window.hi)
                       /\ \A k \in DOMAIN queue :
                             queue[k].kind = "remote" /\ queue[k].gen = gen =>
                                Reaches(shown', queue[k].window.hi)
    <3>1. CASE shown.gen = gen /\ UNCHANGED <<shown, astray>>
      <4>1. RoomOrder' <=> RoomOrder
        BY <3>1 DEF RoomOrder
      <4> QED BY <3>1, <4>1 DEF TimelineInv, FrontInv
    <3>2. CASE StartAfresh
      BY <1>1, <3>2, Afresh DEF RoomOrder, Reaches
    <3> QED BY <2>3, <3>1, <3>2
  <2>10. \A k \in DOMAIN queue' : k + 1 > 1 /\ k + 1 \in DOMAIN queue
    BY <1>3
  <2>11. queue[1].kind = "remote" =>
           \A k \in DOMAIN queue' : queue'[k].kind = "remote" /\ queue'[k].gen = gen =>
              queue[1].window.hi <= queue'[k].window.hi
    BY <1>3, <2>1, <2>10 DEF TimelineInv, FrontInv
  <2>12. FrontInv'
    BY <1>2, <1>3, <1>8, <2>1, <2>2, <2>4, <2>9, <2>11 DEF FrontInv, Reaches, Applies
  <2>13. ASSUME NEW s \in Sends, sends[s].gen = gen, sends[s].state # Absent
         PROVE  /\ \A k \in DOMAIN queue' :
                      Tells(queue'[k], s)
                      /\ (\A j \in DOMAIN queue' : j > k => ~Tells(queue'[j], s)) =>
                         queue'[k].state = sends[s].state
                /\ ~Pending(s)' /\ Tells(queue[1], s) => queue[1].state = sends[s].state
                /\ ~Pending(s)' /\ ~Tells(queue[1], s) => Seen(s)'
    <3>1. \A k \in DOMAIN queue :
             Tells(queue[k], s) /\ (\A j \in DOMAIN queue : j > k => ~Tells(queue[j], s)) =>
                queue[k].state = sends[s].state
      BY <2>13 DEF TimelineInv, EchoInv
    <3>2. ASSUME ~Pending(s)', Tells(queue[1], s) PROVE queue[1].state = sends[s].state
      <4>1. \A j \in DOMAIN queue : j > 1 => ~Tells(queue[j], s)
        BY <1>3, <1>10, <3>2
      <4> QED BY <1>3, <3>1, <3>2, <4>1
    <3>3. ASSUME ~Pending(s)', ~Tells(queue[1], s) PROVE Seen(s)'
      <4>1. shown.gen = gen /\ Seen(s)
        BY <1>1, <1>10, <2>13, <3>3 DEF TimelineInv, EchoInv, InHand
      <4>2. UNCHANGED shown
        BY <2>3, <4>1
      <4> QED BY <1>2, <4>1, <4>2 DEF Seen, Shows, PlaceOf
    <3>4. ASSUME NEW k \in DOMAIN queue', Tells(queue'[k], s),
                 \A j \in DOMAIN queue' : j > k => ~Tells(queue'[j], s)
          PROVE  queue'[k].state = sends[s].state
      <4>1. k + 1 \in DOMAIN queue /\ queue'[k] = queue[k + 1]
        BY <1>3
      <4>2. Tells(queue[k + 1], s) /\ \A j \in DOMAIN queue : j > k + 1 => ~Tells(queue[j], s)
        BY <1>9, <3>4
      <4>3. queue[k + 1].state = sends[s].state
        BY <3>1, <4>1, <4>2
      <4> QED BY <4>1, <4>3
    <3> QED BY <3>2, <3>3, <3>4
  <2>14. EchoInv'
    BY <1>2, <2>2, <2>4, <2>13 DEF EchoInv, InHand, Tells
  <2> QED BY <1>6, <2>5, <2>6, <2>7, <2>8, <2>12, <2>14 DEF TimelineInv
<1> QED BY <1>11, <1>12

\* A late listener waits behind what is queued, and what it waits for is as it was.
LEMMA ListenSafe == ASSUME TimelineInv, Listen PROVE TimelineInv'
<1> DEFINE job == [kind |-> "replay", gen |-> gen]
<1>1. TimelineTypeOK /\ gen \in Generations /\ gen \in Nat
  BY TimelineNumbers DEF TimelineInv, TimelineTypeOK
<1>2. /\ queue' = Append(queue, job) /\ published' = FALSE
      /\ UNCHANGED <<events, window, readable, joinTs, publishing, gen, applying, shown, sends,
                     attempts, astray>>
  BY DEF Listen, Enqueue
<1>3. job \in Jobs /\ job.kind = "replay" /\ job.gen = gen
  BY <1>1 DEF Jobs
<1> HIDE DEF job
<1>4. JobOK(job)
  BY <1>1, <1>3 DEF JobOK
<1>5. JobInv' /\ FrontInv'
  BY <1>2, <1>3, <1>4, JobQueued
<1>6. TimelineTypeOK'
  BY <1>1, <1>2, <1>3, OneMore DEF TimelineTypeOK
<1>7. EventInv' /\ ViewInv' /\ AgeInv'
  BY <1>2 DEF TimelineInv, EventInv, ViewInv, Genuine, EchoReplacesSend, Shows, AgeInv
<1>8. \A s \in Sends : \A k \in DOMAIN queue' :
         Tells(queue'[k], s) => k \in DOMAIN queue /\ queue'[k] = queue[k]
  BY <1>1, <1>2, <1>3, OneMore DEF Tells
<1>9. \A k \in DOMAIN queue : k \in DOMAIN queue' /\ queue'[k] = queue[k]
  BY <1>1, <1>2, <1>3, OneMore
<1>10. \A s \in Sends : (Pending(s)' <=> Pending(s)) /\ (Seen(s)' <=> Seen(s))
                         /\ (InHand(s)' <=> InHand(s))
  BY <1>2, <1>8, <1>9 DEF Pending, Tells, Seen, Shows, PlaceOf, InHand
<1>11. EchoInv'
  BY <1>2, <1>8, <1>9, <1>10 DEF TimelineInv, EchoInv, Tells
<1> QED BY <1>5, <1>6, <1>7, <1>11 DEF TimelineInv

-----------------------------------------------------------------------------
(* What a change makes of the projection *)

\* An update of ids, some of which are taken, goes with what is known: from what is new of
\* those taken to whatever is known after it, there is one that is known and in the update.
Merges(known, taken, ids) ==
    /\ known \subseteq Nat /\ ids \subseteq Nat /\ taken \subseteq ids
    /\ \A x \in taken \ known : \A y \in known :
          x < y => \E k \in ids \cap known : x < k /\ k <= y

\* The anchor of an event is the first of those that are known, from the event on.
LEMMA AnchorFacts ==
    ASSUME NEW known, NEW taken, NEW ids, Merges(known, taken, ids), NEW x \in known \cup taken,
           NEW a, a = Anchor(known, ids, x)
    PROVE  /\ x \in Nat
           /\ a = Absent => \A y \in known : y < x
           /\ a # Absent => a \in known /\ x <= a /\ \A y \in known : x <= y => a <= y
<1> DEFINE next == {k \in ids \cap known : x < k}
<1>1. x \in Nat /\ Absent \notin Nat /\ known \subseteq Nat
  BY TimelineAssumption DEF Merges
<1>2. CASE x \in known
  <2>1. a = x
    BY <1>2 DEF Anchor
  <2> QED BY <1>1, <1>2, <2>1
<1>3. CASE x \notin known
  <2>1. \A y \in known : x < y => \E k \in next : k <= y
    BY <1>3 DEF Merges
  <2>2. next \subseteq Nat /\ next \subseteq known /\ \A k \in next : x < k
    BY <1>1
  <2>3. a = IF next = {} THEN Absent ELSE CHOOSE k \in next : \A j \in next : k <= j
    BY <1>3 DEF Anchor
  <2> HIDE DEF next
  <2>4. CASE next = {}
    <3>1. ASSUME NEW y \in known PROVE y < x
      <4>1. ~(x < y) /\ y # x /\ y \in Nat
        BY <1>1, <1>3, <2>1, <2>4
      <4> QED BY <1>1, <4>1
    <3> QED BY <1>1, <2>3, <2>4, <3>1
  <2>5. CASE next # {}
    <3>1. \E k \in next : \A j \in next : k <= j
      BY <2>2, <2>5, LeastMember
    <3>2. a \in next /\ \A j \in next : a <= j
      BY <2>3, <2>5, <3>1
    <3>3. a \in known /\ a \in Nat /\ x < a
      BY <2>2, <3>2
    <3>4. ASSUME NEW y \in known, x <= y PROVE a <= y
      <4>1. y \in Nat /\ x < y
        BY <1>1, <1>3, <3>4
      <4>2. PICK k \in next : k <= y
        BY <2>1, <4>1
      <4> QED BY <2>2, <3>2, <3>3, <4>1, <4>2
    <3> QED BY <1>1, <3>3, <3>4
  <2> QED BY <2>4, <2>5
<1> QED BY <1>2, <1>3

\* What is placed among events in the order of the room is in that order.
LEMMA PlacedInOrder ==
    ASSUME NEW known, NEW taken, NEW ids, Merges(known, taken, ids),
           NEW before, before \subseteq Nat \X Nat,
           \A i, j \in known : <<i, j>> \in before <=> i < j,
           NEW i \in known \cup taken, NEW j \in known \cup taken
    PROVE  <<i, j>> \in Placed(before, known, taken, ids) <=> i < j
<1>2. PICK at : at = Anchor(known, ids, i)
  OBVIOUS
<1>3. PICK to : to = Anchor(known, ids, j)
  OBVIOUS
<1>4. /\ i \in Nat
      /\ at = Absent => \A y \in known : y < i
      /\ at # Absent => at \in known /\ i <= at /\ \A y \in known : i <= y => at <= y
  BY <1>2, AnchorFacts
<1>5. /\ j \in Nat
      /\ to = Absent => \A y \in known : y < j
      /\ to # Absent => to \in known /\ j <= to /\ \A y \in known : j <= y => to <= y
  BY <1>3, AnchorFacts
<1>6. <<i, j>> \in Placed(before, known, taken, ids) <=>
         IF at = to THEN i < j ELSE to = Absent \/ <<at, to>> \in before
  BY <1>2, <1>3 DEF Placed
<1>7. known \subseteq Nat /\ Absent \notin Nat
  BY TimelineAssumption DEF Merges
<1>8. CASE at = to
  BY <1>6, <1>8
<1>9. CASE at # to /\ to = Absent
  <2>1. at \in known /\ at \in Nat /\ i <= at
    BY <1>4, <1>7, <1>9
  <2>2. at < j
    BY <1>5, <1>9, <2>1
  <2> QED BY <1>4, <1>5, <1>6, <1>9, <2>1, <2>2
<1>10. CASE at = Absent /\ to # Absent
  <2>1. to \in known /\ to \in Nat /\ j <= to
    BY <1>5, <1>7, <1>10
  <2>2. to < i
    BY <1>4, <1>10, <2>1
  <2>3. <<at, to>> \notin before
    BY <1>7, <1>10
  <2> QED BY <1>4, <1>5, <1>6, <1>10, <2>1, <2>2, <2>3
<1>11. CASE at # to /\ at # Absent /\ to # Absent
  <2>1. at \in known /\ at \in Nat /\ i <= at
    BY <1>4, <1>7, <1>11
  <2>2. to \in known /\ to \in Nat /\ j <= to
    BY <1>5, <1>7, <1>11
  <2>3. <<i, j>> \in Placed(before, known, taken, ids) <=> at < to
    BY <1>6, <1>11, <2>1, <2>2
  <2>4. j <= at => to <= at
    BY <1>5, <1>11, <2>1
  <2>5. i <= to => at <= to
    BY <1>4, <1>11, <2>2
  <2> QED BY <1>4, <1>5, <1>11, <2>1, <2>2, <2>3, <2>4, <2>5
<1> QED BY <1>8, <1>9, <1>10, <1>11

\* What was shown already keeps its place.
LEMMA PlacedKeeps ==
    ASSUME NEW known, known \subseteq Nat, NEW ids, NEW before,
           \A i \in known : <<i, i>> \notin before, NEW taken,
           NEW i \in known, NEW j \in known
    PROVE  <<i, j>> \in Placed(before, known, taken, ids) <=> <<i, j>> \in before
<1>1. /\ Anchor(known, ids, i) = i /\ Anchor(known, ids, j) = j
      /\ i \in Nat /\ j \in Nat /\ j # Absent
  BY TimelineAssumption DEF Anchor
<1>2. <<i, j>> \in Placed(before, known, taken, ids) <=>
         IF i = j THEN i < j ELSE j = Absent \/ <<i, j>> \in before
  BY <1>1 DEF Placed
<1> QED BY <1>1, <1>2

\* What an update makes of a projection, field by field.
Known(view, job) ==
    {id \in DOMAIN view.remote : id \in job.ignored => view.remote[id].kind # "unavailable"}
Taken(view, job) ==
    {id \in DOMAIN job.entries \ (view.ignored \cup job.ignored) :
        id \in Known(view, job) => Supersedes(view.remote[id], job.entries[id])}

LEMMA RemoteFields ==
    ASSUME NEW view \in Views, NEW job \in Jobs, job.kind = "remote", NEW new,
           new = ApplyRemote(view, job)
    PROVE  /\ new \in Views /\ new.gen = view.gen /\ new.ignored = view.ignored \cup job.ignored
           /\ Known(view, job) \subseteq Ids /\ Taken(view, job) \subseteq DOMAIN job.entries
           /\ DOMAIN new.remote = Known(view, job) \cup Taken(view, job)
           /\ \A id \in Taken(view, job) : new.remote[id] = job.entries[id]
           /\ \A id \in Known(view, job) \ Taken(view, job) : new.remote[id] = view.remote[id]
           /\ new.before = Placed(view.before, Known(view, job), Taken(view, job),
                                  DOMAIN job.entries)
           /\ \A s \in Sends : new.local[s] =
                 IF s \in {job.entries[id].send : id \in Taken(view, job)} THEN Absent
                 ELSE view.local[s]
<1> DEFINE ignored == view.ignored \cup job.ignored
           known == Known(view, job)
           taken == Taken(view, job)
           echoed == {job.entries[id].send : id \in taken}
           remote == [id \in known \cup taken |->
                         IF id \in taken THEN job.entries[id] ELSE view.remote[id]]
           before == Placed(view.before, known, taken, DOMAIN job.entries)
           local == [s \in Sends |-> IF s \in echoed THEN Absent ELSE view.local[s]]
<1>1. new = [gen |-> view.gen, ignored |-> ignored, room |-> TRUE, remote |-> remote,
             before |-> before, local |-> local]
  BY DEF ApplyRemote, Known, Taken
<1>2. /\ view.remote \in EntryMaps /\ view.ignored \subseteq Ids /\ view.gen \in Generations
      /\ view.local \in [Sends -> SendStates \cup {Absent}]
  BY DEF Views
<1>3. job.entries \in EntryMaps /\ job.ignored \subseteq Ids
  BY JobFacts
<1>4. /\ known \subseteq DOMAIN view.remote /\ taken \subseteq DOMAIN job.entries
      /\ known \subseteq Ids /\ taken \subseteq Ids
      /\ \A id \in known : view.remote[id] \in Entries
      /\ \A id \in taken : job.entries[id] \in Entries
  BY <1>2, <1>3, MapFacts DEF Known, Taken
<1>5. remote \in [known \cup taken -> Entries] /\ known \cup taken \in SUBSET Ids
  BY <1>4
<1>6. remote \in EntryMaps
  BY <1>5, MapFacts
<1>7. before \subseteq Ids \X Ids
  BY <1>4 DEF Placed
<1>8. local \in [Sends -> SendStates \cup {Absent}]
  BY <1>2
<1>9. ignored \subseteq Ids
  BY <1>2, <1>3
<1> HIDE DEF before
<1>10. new \in Views
  BY <1>1, <1>2, <1>6, <1>7, <1>8, <1>9 DEF Views
<1>11. /\ DOMAIN new.remote = known \cup taken
       /\ \A id \in known \cup taken :
             new.remote[id] = IF id \in taken THEN job.entries[id] ELSE view.remote[id]
  BY <1>1
<1> QED BY <1>1, <1>4, <1>10, <1>11 DEF before

\* What the answer to a send makes of it.
LEMMA LocalFields ==
    ASSUME NEW view \in Views, NEW job \in Jobs, job.kind = "local", NEW new,
           new = ApplyLocal(view, job)
    PROVE  /\ new \in Views /\ new.gen = view.gen /\ new.ignored = view.ignored
           /\ \A s \in Sends \ {job.send} : new.local[s] = view.local[s]
           /\ DOMAIN new.remote = DOMAIN view.remote \cup job.id
           /\ \A id \in DOMAIN view.remote : new.remote[id] = view.remote[id]
           /\ \A id \in job.id \ DOMAIN view.remote :
                 new.remote[id] = [kind |-> "message", send |-> job.send, gen |-> job.gen]
           /\ \A i, j : <<i, j>> \in new.before <=>
                 \/ <<i, j>> \in view.before
                 \/ i \in DOMAIN view.remote /\ j \in job.id \ DOMAIN view.remote
           /\ job.id # {} => new.local[job.send] = Absent
           /\ job.id = {} => new.local[job.send] =
                                IF Shows(view, job.send) THEN view.local[job.send] ELSE job.state
<1>1. /\ job.send \in Sends /\ job.state \in SendStates /\ job.id \subseteq Ids
      /\ job.gen \in Generations
  BY JobFacts
<1>2. /\ view.remote \in EntryMaps /\ view.ignored \subseteq Ids /\ view.gen \in Generations
      /\ view.local \in [Sends -> SendStates \cup {Absent}] /\ view.before \subseteq Ids \X Ids
      /\ DOMAIN view = {"gen", "remote", "before", "local", "ignored", "room"} /\ view.room \in BOOLEAN
  BY DEF Views
<1>3. CASE job.id # {}
  <2> DEFINE known == DOMAIN view.remote
             entry == [kind |-> "message", send |-> job.send, gen |-> job.gen]
             remote == [id \in known \cup job.id |->
                           IF id \in known THEN view.remote[id] ELSE entry]
             before == view.before \cup known \X (job.id \ known)
             local == [view.local EXCEPT ![job.send] = Absent]
  <2>1. new = [view EXCEPT !.local[job.send] = Absent, !.remote = remote, !.before = before]
    BY <1>3 DEF ApplyLocal, Accepted
  <2>2. known \subseteq Ids /\ \A id \in known : view.remote[id] \in Entries
    BY <1>2, MapFacts
  <2>3. entry \in Entries
    BY <1>1 DEF Entries, Kinds
  <2> HIDE DEF entry
  <2>4. remote \in [known \cup job.id -> Entries] /\ known \cup job.id \in SUBSET Ids
    BY <1>1, <2>2, <2>3
  <2>5. remote \in EntryMaps
    BY <2>4, MapFacts
  <2>6. before \subseteq Ids \X Ids /\ local \in [Sends -> SendStates \cup {Absent}]
    BY <1>1, <1>2, <2>2
  <2>7. /\ new.gen = view.gen /\ new.ignored = view.ignored /\ new.remote = remote
        /\ new.before = before /\ new.local = local
        /\ new = [gen |-> view.gen, remote |-> remote, before |-> before, local |-> local,
                  ignored |-> view.ignored, room |-> view.room]
    BY <1>2, <2>1 DEF Views
  <2>8. new \in Views
    BY <1>2, <2>5, <2>6, <2>7 DEF Views
  <2>9. /\ DOMAIN new.remote = known \cup job.id
        /\ \A id \in known : new.remote[id] = view.remote[id]
        /\ \A id \in job.id \ known : new.remote[id] = entry
    BY <2>7
  <2>10. new.local[job.send] = Absent /\ \A s \in Sends \ {job.send} : new.local[s] = view.local[s]
    BY <1>1, <1>2, <2>7
  <2>11. /\ new.gen = view.gen /\ new.ignored = view.ignored
         /\ \A i, j : <<i, j>> \in new.before <=>
                \/ <<i, j>> \in view.before
                \/ i \in DOMAIN view.remote /\ j \in job.id \ DOMAIN view.remote
    BY <2>7
  <2>12. \A id \in job.id \ DOMAIN view.remote :
            new.remote[id] = [kind |-> "message", send |-> job.send, gen |-> job.gen]
    BY <2>9 DEF entry
  <2> HIDE DEF known, remote, before, local
  <2>13. /\ DOMAIN new.remote = DOMAIN view.remote \cup job.id
         /\ \A id \in DOMAIN view.remote : new.remote[id] = view.remote[id]
    BY <2>9 DEF known
  <2> QED BY <1>3, <2>8, <2>10, <2>11, <2>12, <2>13
<1>4. CASE job.id = {}
  <2>1. new = IF Shows(view, job.send) THEN view
              ELSE [view EXCEPT !.local[job.send] = job.state]
    BY <1>4 DEF ApplyLocal
  <2>2. CASE Shows(view, job.send)
    BY <1>4, <2>1, <2>2
  <2>3. CASE ~Shows(view, job.send)
    <3> DEFINE local == [view.local EXCEPT ![job.send] = job.state]
    <3>1. local \in [Sends -> SendStates \cup {Absent}]
      BY <1>1, <1>2
    <3>2. new = [gen |-> view.gen, remote |-> view.remote, before |-> view.before,
                 local |-> local, ignored |-> view.ignored, room |-> view.room]
      BY <1>2, <2>1, <2>3 DEF Views
    <3>3. new \in Views
      BY <1>2, <3>1, <3>2 DEF Views
    <3>4. new.local[job.send] = job.state /\ \A s \in Sends \ {job.send} : new.local[s] = view.local[s]
      BY <1>1, <1>2, <3>2
    <3> HIDE DEF local
    <3> QED BY <1>4, <2>3, <3>2, <3>3, <3>4
  <2> QED BY <2>2, <2>3
<1> QED BY <1>3, <1>4

\* What Finish leaves alone, and what the change was.
LEMMA FinishFacts ==
    ASSUME TimelineInv, Finish
    PROVE  /\ UNCHANGED <<events, window, readable, joinTs, publishing, gen, queue, sends, attempts>>
           /\ applying # Absent /\ applying' = Absent
           /\ applying.job \in Jobs /\ JobOK(applying.job) /\ applying.job.kind # "replay"
           /\ published' \in BOOLEAN
           /\ applying.job.gen = applying.gen /\ applying.gen <= shown.gen /\ shown.gen <= gen
           /\ applying.gen \in Nat /\ shown.gen \in Nat /\ gen \in Nat /\ shown \in Views
           /\ EventInv' /\ JobInv'
           /\ \A s \in Sends : Pending(s)' <=> Pending(s)
<1>1. /\ UNCHANGED <<events, window, readable, joinTs, publishing, gen, queue, sends, attempts>>
      /\ applying # Absent /\ applying' = Absent
  BY DEF Finish
<1>2. applying \in [job : Jobs, gen : Generations] /\ shown \in Views /\ gen \in Generations
  BY <1>1 DEF TimelineInv, TimelineTypeOK
<1>3. shown.gen \in Generations /\ applying.gen \in Generations
  BY <1>2 DEF Views
<1>4. Grows
  BY <1>1, <1>2, TimelineNumbers DEF Grows, PlaceOf, TimelineInv, TimelineTypeOK
<1>5. JobInv'
  <2>1. \A k \in DOMAIN queue : queue[k] \in Jobs /\ JobOK(queue[k])
    BY DEF TimelineInv, TimelineTypeOK, JobInv
  <2>2. \A job \in Jobs : JobOK(job) => JobOK(job)'
    BY <1>4, JobKept DEF TimelineInv
  <2> QED BY <1>1, <2>1, <2>2 DEF JobInv
<1>6. EventInv'
  BY <1>1 DEF TimelineInv, EventInv
<1>7. \A s \in Sends : Pending(s)' <=> Pending(s)
  BY <1>1 DEF Pending, Tells
<1>8. /\ applying.job \in Jobs /\ JobOK(applying.job) /\ applying.job.kind # "replay"
      /\ applying.job.gen = applying.gen /\ applying.gen <= shown.gen /\ shown.gen <= gen
  BY <1>1, <1>2 DEF TimelineInv, JobInv, AgeInv
<1>9. published' \in BOOLEAN
  BY DEF Finish
<1> QED BY <1>1, <1>2, <1>3, <1>5, <1>6, <1>7, <1>8, <1>9, TimelineNumbers

\* The projection is a later one than the change was meant for.
LEMMA FinishTooLate ==
    ASSUME TimelineInv, Finish, shown.gen # applying.gen
    PROVE  TimelineInv' /\ UNCHANGED shown
<1>1. shown' = shown /\ astray' = astray
  BY DEF Finish
<1>2. TimelineTypeOK'
  BY <1>1, FinishFacts DEF TimelineInv, TimelineTypeOK
<1>3. Grows
  BY FinishFacts, TimelineNumbers DEF Grows, PlaceOf, TimelineInv, TimelineTypeOK
<1>4. ViewInv' /\ AgeInv'
  BY <1>1, <1>3, FinishFacts, ViewStays DEF TimelineInv, AgeInv
<1>5. RoomOrder' <=> RoomOrder
  BY <1>1 DEF RoomOrder
<1>6. FrontInv'
  BY <1>1, <1>5, FinishFacts DEF TimelineInv, FrontInv, Reaches, Applies
<1>7. \A s \in Sends : ~InHand(s)
  <2>1. applying.gen # gen
    BY FinishFacts
  <2> QED BY <2>1, FinishFacts DEF InHand, Tells
<1>8. \A s \in Sends : ~InHand(s)' /\ (Seen(s)' <=> Seen(s))
  BY <1>1, FinishFacts DEF InHand, Seen, Shows, PlaceOf
<1>9. EchoInv'
  BY <1>1, <1>7, <1>8, FinishFacts DEF TimelineInv, EchoInv, Tells
<1> QED BY <1>1, <1>2, <1>4, <1>6, <1>9, FinishFacts DEF TimelineInv

\* What stays in the queue, and who is told, once the projection has changed.
LEMMA FinishEchoes ==
    ASSUME TimelineInv, Finish, shown.gen = applying.gen, shown'.gen = shown.gen,
           \A s \in Sends : sends[s].gen = gen /\ sends[s].state # Absent /\ ~Pending(s)
                            /\ shown.gen = gen
                            /\ (InHand(s) => applying.job.state = sends[s].state)
                            /\ (~InHand(s) => Seen(s)) => Seen(s)'
    PROVE  EchoInv'
<1>1. \A s \in Sends : ~InHand(s)'
  BY FinishFacts DEF InHand
<1>2. \A s \in Sends : InHand(s) => shown.gen = gen
  BY FinishFacts DEF InHand, Tells
<1>3. ASSUME NEW s \in Sends, sends[s].gen = gen, sends[s].state # Absent, ~Pending(s)
      PROVE  shown'.gen = gen /\ Seen(s)'
  <2>1. InHand(s) => applying.job.state = sends[s].state
    BY <1>3 DEF TimelineInv, EchoInv
  <2>2. ~InHand(s) => shown.gen = gen /\ Seen(s)
    BY <1>3 DEF TimelineInv, EchoInv
  <2> QED BY <1>2, <1>3, <2>1, <2>2
<1>4. \A s \in Sends : sends[s].gen = gen /\ sends[s].state # Absent =>
         \A k \in DOMAIN queue :
            Tells(queue[k], s) /\ (\A j \in DOMAIN queue : j > k => ~Tells(queue[j], s)) =>
               queue[k].state = sends[s].state
  BY DEF TimelineInv, EchoInv
<1> QED BY <1>1, <1>3, <1>4, FinishFacts DEF EchoInv, Tells

\* A change of the projection in its lifecycle moves nothing.
Moved ==
    /\ \A id \in DOMAIN shown.remote : shown.remote[id].kind = "message" =>
          id \in DOMAIN shown'.remote /\ shown'.remote[id] = shown.remote[id]
    /\ \A i, j \in DOMAIN shown.remote \cap DOMAIN shown'.remote :
          <<i, j>> \in shown'.before <=> <<i, j>> \in shown.before

LEMMA FinishLocal ==
    ASSUME TimelineInv, Finish, shown.gen = applying.gen, applying.job.kind = "local"
    PROVE  TimelineInv' /\ Moved
<1> DEFINE job == applying.job
<1>1. job \in Jobs /\ EchoOK(job) /\ job.gen = shown.gen
  BY FinishFacts DEF JobOK
<1>2. /\ job.send \in Sends /\ job.state \in SendStates /\ job.id \subseteq Ids
  BY <1>1, JobFacts
<1>3. /\ shown' = ApplyLocal(shown, job)
      /\ astray' = astray \cup {id \in job.id \ DOMAIN shown.remote : ~ComesNext(shown, id)}
  BY DEF Finish, Strays
<1>4. /\ shown' \in Views /\ shown'.gen = shown.gen /\ shown'.ignored = shown.ignored
      /\ \A s \in Sends \ {job.send} : shown'.local[s] = shown.local[s]
      /\ DOMAIN shown'.remote = DOMAIN shown.remote \cup job.id
      /\ \A id \in DOMAIN shown.remote : shown'.remote[id] = shown.remote[id]
      /\ \A id \in job.id \ DOMAIN shown.remote :
            shown'.remote[id] = [kind |-> "message", send |-> job.send, gen |-> job.gen]
      /\ \A i, j : <<i, j>> \in shown'.before <=>
            \/ <<i, j>> \in shown.before
            \/ i \in DOMAIN shown.remote /\ j \in job.id \ DOMAIN shown.remote
      /\ job.id # {} => shown'.local[job.send] = Absent
      /\ job.id = {} => shown'.local[job.send] =
            IF Shows(shown, job.send) THEN shown.local[job.send] ELSE job.state
  BY <1>1, <1>3, FinishFacts, LocalFields
<1>5. job.id = {} \/ (job.id = PlaceOf(job.send) /\ job.state = "accepted")
  BY <1>1 DEF EchoOK
<1>6. \A id \in job.id : id \in DOMAIN events /\ events[id].send = job.send /\ events[id].makes = "row"
  BY <1>2, <1>5, TimelineAssumption DEF PlaceOf, TimelineInv, TimelineTypeOK, EventInv
<1>7. UNCHANGED <<events, window, readable, joinTs, publishing, gen, queue, sends, attempts>>
      /\ applying' = Absent /\ applying # Absent /\ published' \in BOOLEAN
  BY FinishFacts
<1> HIDE DEF job
<1>8. TimelineTypeOK'
  BY <1>2, <1>3, <1>4, <1>7 DEF TimelineInv, TimelineTypeOK
<1>9. \A s \in Sends : Shows(shown', s) =>
         Shows(shown, s) \/ (job.id # {} /\ s = job.send)
  BY <1>4 DEF Shows
<1>10. ViewInv'
  <2>1. \A id \in DOMAIN shown'.remote : Genuine(id, shown.remote[id], shown.gen)'
    <3>1. ASSUME NEW id \in DOMAIN shown.remote PROVE Genuine(id, shown.remote[id], shown.gen)'
      BY <1>4, <1>7, <3>1 DEF TimelineInv, ViewInv, Genuine
    <3>2. ASSUME NEW id \in job.id \ DOMAIN shown.remote
          PROVE  Genuine(id, shown.remote[id], shown.gen)'
      BY <1>1, <1>4, <1>6, <1>7, <3>2 DEF Genuine
    <3> QED BY <1>4, <3>1, <3>2
  <2>2. DOMAIN shown'.remote \cap shown'.ignored = {}
    BY <1>4, <1>6 DEF TimelineInv, ViewInv
  <2>3. \A s \in Sends : Shows(shown', s) => shown'.local[s] = Absent
    BY <1>2, <1>4, <1>9 DEF TimelineInv, ViewInv, EchoReplacesSend
  <2>4. \A id \in Ids : <<id, id>> \notin shown'.before
    BY <1>4 DEF TimelineInv, ViewInv
  <2>5. \A i, j : <<i, j>> \in shown'.before =>
                   i \in DOMAIN shown'.remote /\ j \in DOMAIN shown'.remote
    BY <1>4 DEF TimelineInv, ViewInv
  <2> QED
    BY <1>4, <1>7, <2>1, <2>2, <2>3, <2>4, <2>5 DEF TimelineInv, ViewInv, EchoReplacesSend, Shows
<1>11. AgeInv'
  BY <1>4, <1>7 DEF TimelineInv, AgeInv
<1>12. ASSUME astray' = {}
       PROVE  astray = {} /\ \A id \in job.id \ DOMAIN shown.remote : ComesNext(shown, id)
  BY <1>3, <1>12
<1>13. ASSUME astray' = {} PROVE RoomOrder'
  <2> SUFFICES ASSUME astray' = {},
                      NEW i \in DOMAIN shown'.remote, NEW j \in DOMAIN shown'.remote
               PROVE  <<i, j>> \in shown'.before <=> i < j
    BY DEF RoomOrder
  <2>1. /\ \A x, y \in DOMAIN shown.remote : <<x, y>> \in shown.before <=> x < y
        /\ \A x, y : <<x, y>> \in shown.before =>
                      x \in DOMAIN shown.remote /\ y \in DOMAIN shown.remote
    <3>1. RoomOrder /\ ViewInv
      BY <1>12, <1>13 DEF TimelineInv, FrontInv
    <3> QED BY <1>12, <1>13, <3>1 DEF RoomOrder, ViewInv
  <2>2. i \in Nat /\ j \in Nat
    BY <1>2, <1>4, ViewFacts, TimelineNumbers DEF TimelineInv
  <2>3. CASE j \in DOMAIN shown.remote /\ i \in DOMAIN shown.remote
    BY <1>4, <2>1, <2>3
  <2>4. CASE j \in DOMAIN shown.remote /\ i \notin DOMAIN shown.remote
    <3>1. i \in job.id \ DOMAIN shown.remote
      BY <1>4, <2>4
    <3>2. j < i
      BY <1>12, <1>13, <2>4, <3>1 DEF ComesNext
    <3>3. <<i, j>> \notin shown'.before
      BY <1>4, <2>1, <2>4
    <3> QED BY <2>2, <3>2, <3>3
  <2>5. CASE j \notin DOMAIN shown.remote /\ i \in DOMAIN shown.remote
    <3>1. j \in job.id \ DOMAIN shown.remote
      BY <1>4, <2>5
    <3>2. i < j
      BY <1>12, <1>13, <2>5, <3>1 DEF ComesNext
    <3> QED BY <1>4, <2>5, <3>1, <3>2
  <2>6. CASE j \notin DOMAIN shown.remote /\ i \notin DOMAIN shown.remote
    <3>1. i \in job.id /\ j \in job.id
      BY <1>4, <2>6
    <3>2. i = j
      BY <1>2, <1>6, <3>1, TimelineAssumption DEF TimelineInv, EventInv
    <3>3. <<i, j>> \notin shown'.before
      BY <1>4, <2>1, <2>6
    <3> QED BY <2>2, <3>2, <3>3
  <2> QED BY <2>3, <2>4, <2>5, <2>6
<1>14. ASSUME astray' = {}, NEW hi \in Nat, Reaches(shown, hi) PROVE Reaches(shown', hi)
  <2> SUFFICES ASSUME NEW y \in DOMAIN shown'.remote, NEW z \in Ids, hi < y, z < y,
                      z \notin DOMAIN shown'.remote, z \notin shown'.ignored
               PROVE  \E p \in DOMAIN shown'.remote :
                         shown'.remote[p].kind = "message" /\ z < p /\ p <= hi
    BY DEF Reaches
  <2>1. z \notin DOMAIN shown.remote /\ z \notin shown.ignored /\ z \in Nat \ {0}
    BY <1>4, TimelineNumbers DEF Ids
  <2>2. SUFFICES \E p \in DOMAIN shown.remote :
                    shown.remote[p].kind = "message" /\ z < p /\ p <= hi
    BY <1>4
  <2>3. CASE y \in DOMAIN shown.remote
    BY <1>14, <2>1, <2>3 DEF Reaches
  <2>4. CASE y \notin DOMAIN shown.remote
    <3>1. y \in job.id \ DOMAIN shown.remote /\ y \in Nat
      BY <1>2, <1>4, <2>4, TimelineNumbers
    <3>2. ComesNext(shown, y) /\ z \in 1..y - 1
      BY <1>12, <1>14, <2>1, <3>1
    <3>3. PICK p \in z..y - 1 : p \in DOMAIN shown.remote /\ shown.remote[p].kind = "message"
      BY <2>1, <3>2 DEF ComesNext
    <3>4. p \in Nat /\ z < p /\ p < y
      BY <2>1, <3>1, <3>3
    <3>5. CASE p <= hi
      BY <3>3, <3>4, <3>5
    <3>6. CASE ~(p <= hi)
      <4>1. hi < p
        BY <3>4, <3>6
      <4> QED BY <1>14, <2>1, <3>3, <3>4, <4>1 DEF Reaches
    <3> QED BY <3>5, <3>6
  <2> QED BY <2>3, <2>4
<1>18. FrontInv'
  <2>1. window.hi \in Nat
    BY ViewFacts DEF TimelineInv
  <2>2. \A k \in DOMAIN queue : queue[k].kind = "remote" => queue[k].window.hi \in Nat
    BY Elements, JobFacts, TimelineNumbers DEF TimelineInv, TimelineTypeOK
  <2>3. astray' = {} => /\ shown.gen = gen => Reaches(shown', window.hi)
                       /\ \A k \in DOMAIN queue :
                             queue[k].kind = "remote" /\ queue[k].gen = shown.gen =>
                                Reaches(shown', queue[k].window.hi)
    BY <1>12, <1>14, <2>1, <2>2 DEF TimelineInv, FrontInv
  <2> QED BY <1>4, <1>7, <1>13, <2>3 DEF TimelineInv, FrontInv, Reaches, Applies
<1>15. ASSUME NEW s \in Sends, sends[s].gen = gen, sends[s].state # Absent, ~Pending(s),
              shown.gen = gen, InHand(s) => job.state = sends[s].state, ~InHand(s) => Seen(s)
       PROVE  Seen(s)'
  <2>1. Shows(shown, s) => Shows(shown', s)
    BY <1>4 DEF Shows
  <2>2. PlaceOf(s)' = PlaceOf(s) /\ sends' = sends
    BY <1>7 DEF PlaceOf
  <2>3. CASE s = job.send
    <3>1. job.kind = "local"
      BY DEF job
    <3>2. job.state = sends[s].state
      BY <1>1, <1>7, <1>15, <2>3, <3>1 DEF InHand, Tells, job
    <3>3. CASE job.id = {}
      BY <1>4, <1>15, <2>1, <2>2, <2>3, <3>2, <3>3 DEF Seen
    <3>4. CASE job.id # {}
      BY <1>4, <1>5, <2>2, <2>3, <3>4 DEF Seen
    <3> QED BY <3>3, <3>4
  <2>4. CASE s # job.send
    <3>1. Seen(s)
      BY <1>15, <2>4 DEF InHand, Tells, job
    <3> QED BY <1>4, <2>1, <2>2, <2>4, <3>1 DEF Seen
  <2> QED BY <2>3, <2>4
<1>16. EchoInv'
  BY <1>4, <1>15, FinishEchoes DEF job
<1>17. Moved
  BY <1>4 DEF Moved
<1> QED BY <1>8, <1>10, <1>11, <1>16, <1>17, <1>18, FinishFacts DEF TimelineInv

LEMMA FinishRemote ==
    ASSUME TimelineInv, Finish, shown.gen = applying.gen, applying.job.kind = "remote"
    PROVE  TimelineInv' /\ Moved
<1> DEFINE job == applying.job
           known == Known(shown, job)
           taken == Taken(shown, job)
<1>1. job \in Jobs /\ UpdateOK(job) /\ job.gen = shown.gen /\ job.kind = "remote"
  BY FinishFacts DEF JobOK
<1>2. /\ job.entries \in EntryMaps /\ job.ignored \subseteq Ids
      /\ job.window.lo \in Nat /\ job.window.hi \in Nat /\ DOMAIN job.entries \subseteq Nat
  BY <1>1, JobFacts, MapFacts, TimelineNumbers
<1>3. /\ shown' = ApplyRemote(shown, job)
      /\ astray' = astray \cup ((DOMAIN shown.remote \cap job.window.lo..job.window.hi)
                               \ (DOMAIN job.entries \cup job.ignored))
  BY <1>1 DEF Finish, Strays
<1>4. /\ shown' \in Views /\ shown'.gen = shown.gen /\ shown'.ignored = shown.ignored \cup job.ignored
      /\ known \subseteq Ids /\ taken \subseteq DOMAIN job.entries
      /\ DOMAIN shown'.remote = known \cup taken
      /\ \A id \in taken : shown'.remote[id] = job.entries[id]
      /\ \A id \in known \ taken : shown'.remote[id] = shown.remote[id]
      /\ shown'.before = Placed(shown.before, known, taken, DOMAIN job.entries)
      /\ \A s \in Sends : shown'.local[s] =
            IF s \in {job.entries[id].send : id \in taken} THEN Absent ELSE shown.local[s]
  <2>1. shown \in Views
    BY FinishFacts
  <2>2. job \in Jobs /\ job.kind = "remote" /\ job.gen = shown.gen
    BY <1>1
  <2> HIDE DEF job
  <2> QED BY <1>3, <2>1, <2>2, RemoteFields
<1>5. UNCHANGED <<events, window, readable, joinTs, publishing, gen, queue, sends, attempts>>
      /\ applying' = Absent /\ applying # Absent /\ published' \in BOOLEAN
  BY FinishFacts
<1>6. /\ known \subseteq DOMAIN shown.remote
      /\ \A id \in DOMAIN shown.remote :
            shown.remote[id].kind # "unavailable" \/ id \notin job.ignored => id \in known
      /\ \A id \in known : id \in job.ignored => shown.remote[id].kind # "unavailable"
      /\ \A id \in taken : id \notin shown.ignored \cup job.ignored
      /\ \A id \in taken \cap known : shown.remote[id].kind = "unavailable"
  BY DEF Known, Taken, Supersedes
<1> HIDE DEF job, known, taken
<1>7. \A id \in DOMAIN shown.remote :
         /\ shown.remote[id].kind \in {"message", "unavailable"}
         /\ id \in DOMAIN events
         /\ shown.remote[id].kind = "message" =>
               events[id].makes = "row" /\ shown.remote[id].send = events[id].send
         /\ shown.remote[id].kind = "unavailable" => shown.remote[id].send = Absent
  <2>1. \A id \in DOMAIN shown.remote : shown.remote[id] \in Entries
    BY MapFacts, FinishFacts DEF Views
  <2> QED BY <2>1 DEF TimelineInv, ViewInv, Genuine, Entries, Kinds
<1>8. \A id \in known : id \notin shown'.ignored /\ id \notin job.ignored
  <2>1. \A id \in job.ignored : events[id].makes # "row"
    BY <1>1 DEF UpdateOK
  <2>2. \A id \in known : id \notin shown.ignored
    BY <1>6 DEF TimelineInv, ViewInv
  <2>3. \A id \in known : id \notin job.ignored
    BY <1>6, <1>7, <2>1
  <2> QED BY <1>4, <2>2, <2>3
<1>9. TimelineTypeOK'
  <2>1. astray \subseteq Ids /\ DOMAIN shown.remote \subseteq Ids
    BY ViewFacts DEF TimelineInv, TimelineTypeOK
  <2>2. astray' \subseteq Ids
    BY <1>3, <2>1
  <2> QED BY <1>4, <1>5, <2>2 DEF TimelineInv, TimelineTypeOK
<1>10. ViewInv'
  <2>1. \A id \in DOMAIN shown'.remote : Genuine(id, shown.remote[id], shown.gen)'
    <3>1. ASSUME NEW id \in known \ taken PROVE Genuine(id, shown.remote[id], shown.gen)'
      BY <1>4, <1>5, <1>6, <3>1 DEF TimelineInv, ViewInv, Genuine
    <3>2. ASSUME NEW id \in taken PROVE Genuine(id, shown.remote[id], shown.gen)'
      <4>1. Genuine(id, job.entries[id], job.gen)
        BY <1>1, <1>4 DEF UpdateOK
      <4> QED BY <1>1, <1>4, <1>5, <4>1 DEF Genuine
    <3> QED BY <1>4, <3>1, <3>2
  <2>2. \A id \in shown'.ignored : id \in DOMAIN events /\ events[id].makes # "row"
    BY <1>1, <1>4 DEF UpdateOK, TimelineInv, ViewInv
  <2>3. DOMAIN shown'.remote \cap shown'.ignored = {}
    BY <1>4, <1>6, <1>8
  <2>4. \A id \in Ids : <<id, id>> \notin shown'.before
    BY <1>4, TimelineNumbers DEF Placed
  <2>5. ASSUME NEW s \in Sends, NEW id \in DOMAIN shown'.remote, shown'.remote[id].send = s
        PROVE  shown'.local[s] = Absent
    <3>1. CASE id \in taken
      BY <1>4, <2>5, <3>1
    <3>2. CASE id \notin taken
      <4>1. id \in DOMAIN shown.remote /\ shown.remote[id].send = s
        BY <1>4, <1>6, <2>5, <3>2
      <4>2. shown.local[s] = Absent
        BY <4>1 DEF TimelineInv, ViewInv, EchoReplacesSend, Shows
      <4> QED BY <1>4, <4>2
    <3> QED BY <3>1, <3>2
  <2>6. \A i, j : <<i, j>> \in shown'.before =>
                   i \in DOMAIN shown'.remote /\ j \in DOMAIN shown'.remote
    BY <1>4 DEF Placed
  <2> QED BY <1>5, <2>1, <2>2, <2>3, <2>4, <2>5, <2>6 DEF ViewInv, EchoReplacesSend, Shows
<1>11. AgeInv'
  BY <1>4, <1>5 DEF TimelineInv, AgeInv
<1>12. ASSUME astray' = {}
       PROVE  /\ astray = {}
              /\ \A y \in known : y \in job.window.lo..job.window.hi => y \in DOMAIN job.entries
  BY <1>3, <1>6, <1>8, <1>12
<1>13. ASSUME astray' = {} PROVE RoomOrder'
  <2>1. Reaches(shown, job.window.hi)
    BY <1>1, <1>5, <1>12, <1>13 DEF TimelineInv, FrontInv, Applies, job
  <2>2. ASSUME NEW x \in taken \ known, NEW y \in known, x < y
        PROVE  \E k \in DOMAIN job.entries \cap known : x < k /\ k <= y
    <3>1. /\ x \in job.window.lo..job.window.hi /\ x \in Ids /\ x \in Nat /\ y \in Nat
          /\ x \notin DOMAIN shown.remote /\ x \notin shown.ignored
      <4>1. x \in DOMAIN job.entries /\ x \in job.window.lo..job.window.hi
        BY <1>1, <1>4, <2>2 DEF UpdateOK
      <4>2. DOMAIN job.entries \subseteq Ids
        BY <1>2, MapFacts
      <4>3. x \notin DOMAIN shown.remote /\ x \notin shown.ignored
        BY <1>6, <2>2
      <4> QED BY <1>4, <2>2, <4>1, <4>2, <4>3, TimelineNumbers
    <3>2. CASE y <= job.window.hi
      <4>1. y \in job.window.lo..job.window.hi
        BY <1>2, <2>2, <3>1, <3>2
      <4>2. y \in DOMAIN job.entries
        BY <1>12, <1>13, <4>1
      <4> QED BY <2>2, <3>1, <4>2
    <3>3. CASE ~(y <= job.window.hi)
      <4>1. job.window.hi < y /\ y \in DOMAIN shown.remote
        BY <1>2, <1>6, <3>1, <3>3
      <4>2. PICK p \in DOMAIN shown.remote :
               shown.remote[p].kind = "message" /\ x < p /\ p <= job.window.hi
        BY <2>1, <2>2, <3>1, <4>1 DEF Reaches
      <4>3. p \in known /\ p \in Nat
        BY <1>4, <1>6, <4>2, TimelineNumbers
      <4>4. p \in job.window.lo..job.window.hi /\ p <= y
        BY <1>2, <3>1, <4>1, <4>2, <4>3
      <4>5. p \in DOMAIN job.entries
        BY <1>12, <1>13, <4>3, <4>4
      <4> QED BY <4>2, <4>3, <4>4, <4>5
    <3> QED BY <3>2, <3>3
  <2>3. Merges(known, taken, DOMAIN job.entries)
    BY <1>2, <1>4, <2>2, TimelineNumbers DEF Merges
  <2>4. shown.before \subseteq Nat \X Nat
    <3>1. shown.before \subseteq Ids \X Ids
      BY FinishFacts DEF Views
    <3> QED BY <3>1, TimelineNumbers
  <2>5. \A x, y \in known : <<x, y>> \in shown.before <=> x < y
    <3>1. RoomOrder
      BY <1>12, <1>13 DEF TimelineInv, FrontInv
    <3> QED BY <1>6, <1>12, <1>13, <3>1 DEF RoomOrder
  <2> SUFFICES ASSUME astray' = {},
                      NEW i \in DOMAIN shown'.remote, NEW j \in DOMAIN shown'.remote
               PROVE  <<i, j>> \in shown'.before <=> i < j
    BY DEF RoomOrder
  <2> QED BY <1>4, <2>3, <2>4, <2>5, PlacedInOrder
<1>14. ASSUME NEW hi \in Nat, job.window.hi <= hi, Reaches(shown, hi) PROVE Reaches(shown', hi)
  <2> SUFFICES ASSUME NEW y \in DOMAIN shown'.remote, NEW z \in Ids, hi < y, z < y,
                      z \notin DOMAIN shown'.remote, z \notin shown'.ignored
               PROVE  \E p \in DOMAIN shown'.remote :
                         shown'.remote[p].kind = "message" /\ z < p /\ p <= hi
    BY DEF Reaches
  <2>1. y \in known
    <3>1. ASSUME y \in taken PROVE FALSE
      <4>1. y \in Nat /\ y <= job.window.hi
        BY <1>1, <1>2, <1>4, <3>1 DEF UpdateOK
      <4> QED BY <1>2, <1>14, <4>1
    <3> QED BY <1>4, <3>1
  <2>2. y \in DOMAIN shown.remote /\ z \notin DOMAIN shown.remote /\ z \notin shown.ignored
    BY <1>4, <1>6, <2>1
  <2>3. PICK p \in DOMAIN shown.remote : shown.remote[p].kind = "message" /\ z < p /\ p <= hi
    BY <1>14, <2>2 DEF Reaches
  <2>4. p \in known \ taken
    BY <1>6, <2>3
  <2> QED BY <1>4, <2>3, <2>4
<1>15. FrontInv'
  <2>1. window.hi \in Nat
    BY ViewFacts DEF TimelineInv
  <2>2. \A k \in DOMAIN queue : queue[k].kind = "remote" => queue[k].window.hi \in Nat
    BY Elements, JobFacts, TimelineNumbers DEF TimelineInv, TimelineTypeOK
  <2>3. \A k \in DOMAIN queue : queue[k].kind = "remote" /\ queue[k].gen = shown.gen =>
           job.window.hi <= queue[k].window.hi
    BY <1>1, <1>5, FinishFacts DEF TimelineInv, FrontInv, Applies, job
  <2>4. shown.gen = gen => job.window.hi <= window.hi
    BY <1>1 DEF UpdateOK
  <2>5. astray' = {} => /\ shown.gen = gen => Reaches(shown', window.hi)
                       /\ \A k \in DOMAIN queue :
                             queue[k].kind = "remote" /\ queue[k].gen = shown.gen =>
                                Reaches(shown', queue[k].window.hi)
    BY <1>12, <1>14, <2>1, <2>2, <2>3, <2>4 DEF TimelineInv, FrontInv
  <2> QED BY <1>4, <1>5, <1>13, <2>5 DEF TimelineInv, FrontInv, Reaches, Applies
<1>16. ASSUME NEW s \in Sends, Seen(s) PROVE Seen(s)'
  <2>1. Shows(shown, s) => Shows(shown', s)
    <3> SUFFICES ASSUME NEW id \in DOMAIN shown.remote, shown.remote[id].send = s
                 PROVE  Shows(shown', s)
      BY DEF Shows
    <3>1. shown.remote[id].kind = "message"
      BY <1>7, TimelineAssumption
    <3> QED BY <1>4, <1>6, <3>1 DEF Shows
  <2>2. \A id \in taken : job.entries[id].send = s => Shows(shown', s)
    BY <1>4 DEF Shows
  <2>3. \A id \in PlaceOf(s) : id \in DOMAIN shown.remote => id \in DOMAIN shown'.remote
    <3>1. \A id \in PlaceOf(s) : events[id].makes = "row"
      BY TimelineAssumption DEF PlaceOf, TimelineInv, TimelineTypeOK, EventInv
    <3>2. \A id \in PlaceOf(s) : id \notin job.ignored
      BY <1>1, <3>1 DEF UpdateOK
    <3> QED BY <1>4, <1>6, <3>2
  <2>4. PlaceOf(s)' = PlaceOf(s) /\ sends' = sends
    BY <1>5 DEF PlaceOf
  <2> QED BY <1>4, <1>16, <2>1, <2>2, <2>3, <2>4 DEF Seen
<1>17. EchoInv'
  <2>1. \A s \in Sends : ~InHand(s)
    BY <1>1 DEF InHand, Tells, job
  <2> QED BY <1>4, <1>16, <2>1, FinishEchoes
<1>18. Moved
  <2>1. ASSUME NEW id \in DOMAIN shown.remote, shown.remote[id].kind = "message"
        PROVE  id \in DOMAIN shown'.remote /\ shown'.remote[id] = shown.remote[id]
    BY <1>4, <1>6, <2>1
  <2>2. ASSUME NEW i \in DOMAIN shown.remote \cap DOMAIN shown'.remote,
               NEW j \in DOMAIN shown.remote \cap DOMAIN shown'.remote
        PROVE  <<i, j>> \in shown'.before <=> <<i, j>> \in shown.before
    <3>1. \A id \in DOMAIN shown.remote \cap DOMAIN shown'.remote : id \in known
      BY <1>4, <1>6
    <3>2. i \in known /\ j \in known /\ known \subseteq Nat
      BY <1>4, <3>1, TimelineNumbers
    <3>3. \A x \in known : <<x, x>> \notin shown.before
      BY <1>4 DEF TimelineInv, ViewInv
    <3>4. <<i, j>> \in Placed(shown.before, known, taken, DOMAIN job.entries) <=>
             <<i, j>> \in shown.before
      BY <3>2, <3>3, PlacedKeeps
    <3> QED BY <1>4, <3>4
  <2> QED BY <2>1, <2>2 DEF Moved
<1> QED BY <1>9, <1>10, <1>11, <1>15, <1>17, <1>18, FinishFacts DEF TimelineInv

LEMMA FinishSafe == ASSUME TimelineInv, Finish PROVE TimelineInv' /\ (Moved \/ UNCHANGED shown)
<1>1. applying.job.kind \in {"local", "remote"}
  BY FinishFacts, JobFacts
<1> QED BY <1>1, FinishTooLate, FinishLocal, FinishRemote

-----------------------------------------------------------------------------
(* The timeline as a whole *)

LEMMA TimelineInitInv == ASSUME TimelineInit PROVE TimelineInv
<1>1. 1 \in Generations /\ gen = 1 /\ shown = Empty(1)
  BY TimelineAssumption DEF Generations, TimelineInit
<1>2. Empty(1).remote \in [{} -> Entries] /\ {} \in SUBSET Ids
  BY DEF Empty
<1>3. Empty(1).remote \in EntryMaps
  BY <1>2, MapFacts
<1>4. /\ shown \in Views /\ shown.gen = 1 /\ DOMAIN shown.remote = {} /\ shown.ignored = {}
      /\ shown.before = {}
  BY <1>1, <1>3 DEF Empty, Views
<1>5. window \in Windows /\ window.lo = 1 /\ window.hi = 0
  BY TimelineAssumption DEF TimelineInit, Unloaded, Windows
<1>6. TimelineTypeOK
  <2>1. /\ events = <<>> /\ queue = <<>> /\ joinTs = 1 /\ attempts = 0 /\ MaxEvents \in Nat
        /\ MaxAttempts \in Nat
    BY TimelineAssumption DEF TimelineInit
  <2>2. /\ events \in Seq([send : Sends \cup {Absent}, makes : Makes]) /\ Len(events) <= MaxEvents
        /\ joinTs \in 1..MaxEvents + 1 /\ attempts \in 0..MaxAttempts
    BY <2>1
  <2>3. queue \in Seq(Jobs)
    BY <2>1
  <2>4. sends \in [Sends -> [state : SendStates \cup {Absent}, gen : Generations]]
    BY <1>1 DEF TimelineInit
  <2> QED BY <1>1, <1>4, <1>5, <2>2, <2>3, <2>4 DEF TimelineInit, TimelineTypeOK
<1>7. EventInv
  BY <1>5 DEF TimelineInit, EventInv
<1>8. JobInv /\ FrontInv
  BY <1>4 DEF TimelineInit, JobInv, FrontInv, RoomOrder, Reaches, Applies
<1>9. ViewInv /\ AgeInv
  BY <1>1, <1>4 DEF TimelineInit, ViewInv, AgeInv, EchoReplacesSend, Shows
<1>10. EchoInv
  BY DEF TimelineInit, EchoInv
<1> QED BY <1>6, <1>7, <1>8, <1>9, <1>10 DEF TimelineInv

LEMMA TimelineStutters == ASSUME TimelineInv, UNCHANGED timelineVars PROVE TimelineInv'
<1>1. Grows
  BY TimelineNumbers DEF timelineVars, Grows, PlaceOf, TimelineInv, TimelineTypeOK
<1>2. TimelineTypeOK' /\ EventInv' /\ AgeInv' /\ StandsStill
  BY DEF timelineVars, TimelineInv, TimelineTypeOK, EventInv, AgeInv, StandsStill
<1> QED
  BY <1>1, <1>2, JobsStay, ViewStays, FrontStays, EchoesStay
     DEF TimelineInv, timelineVars, StandsStill

LEMMA TimelineInductive ==
    ASSUME TimelineInv, [TimelineNext]_timelineVars
    PROVE  TimelineInv'
<1>1. ASSUME NEW makes \in Makes, OtherEvent(makes) PROVE TimelineInv'
  BY <1>1, OtherEventSafe
<1>2. ASSUME NEW s \in Sends,
             \/ Transmit(s) \/ SendLands(s)
             \/ \E state \in SendStates \ {"pending"} : SendAnswered(s, state)
      PROVE  TimelineInv'
  BY <1>2, TransmitSafe, SendLandsSafe, SendAnsweredSafe
<1>3. ASSUME NEW id \in Ids, Decrypt(id) PROVE TimelineInv'
  BY <1>3, DecryptSafe
<1>4. CASE Sync \/ Paginate \/ MemberChanges \/ Receive \/ NewGeneration
  BY <1>4, SyncSafe, PaginateSafe, MemberChangesSafe, ReceiveSafe, NewGenerationSafe
<1>5. CASE Begin \/ Finish \/ Listen \/ Replay \/ HistoryRead
  BY <1>5, TurnSafe, FinishSafe, ListenSafe, HistoryReadSafe
<1>6. CASE UNCHANGED timelineVars
  BY <1>6, TimelineStutters
<1> QED BY <1>1, <1>2, <1>3, <1>4, <1>5, <1>6 DEF TimelineNext

LEMMA TimelineInvAlways == TimelineSpec => []TimelineInv
BY TimelineInitInv, TimelineInductive, PTL DEF TimelineSpec

\* The variables of the timeline stay in their types (channels/timeline.ts:113-128).
THEOREM TimelineTypeCorrect == TimelineSpec => []TimelineTypeOK
<1>1. TimelineInv => TimelineTypeOK
  BY DEF TimelineInv
<1> QED BY <1>1, TimelineInvAlways, PTL

\* However its answer, its echo, its late decryption and its retries meet, a send has no row of
\* its own next to a message known to be it (channels/timeline.ts:136-185).
THEOREM EchoReplacesSendAlways == TimelineSpec => []EchoReplacesSend
<1>1. TimelineInv => EchoReplacesSend
  BY DEF TimelineInv, ViewInv
<1> QED BY <1>1, TimelineInvAlways, PTL

\* The projection places pages of history, jumps of the window, late decryptions and own sends
\* in the order of the room (channels/timeline.ts:149-185), while nothing has gone astray: no
\* answer brought an own event ahead of unknown ones, no update left out what was shown.
THEOREM RoomOrderAlways == TimelineSpec => []RoomOrder
<1>1. ASSUME TimelineInv PROVE RoomOrder
  <2>1. astray = {} => RoomOrder
    BY <1>1 DEF TimelineInv, FrontInv
  <2>2. astray # {} => RoomOrder
    BY DEF RoomOrder
  <2> QED BY <2>1, <2>2
<1> QED BY <1>1, TimelineInvAlways, PTL

\* No change that was queued in one lifecycle of the device is applied, or published, in the
\* next (channels/index.ts:86-107).
THEOREM OwnLifecycleAlways == TimelineSpec => []OwnLifecycle
<1>1. ASSUME TimelineInv PROVE OwnLifecycle
  <2>1. \A id \in DOMAIN shown.remote : shown.remote[id].gen = shown.gen
    BY <1>1 DEF TimelineInv, ViewInv, Genuine
  <2>2. applying # Absent /\ applying.gen = gen => shown.gen = gen
    BY <1>1, ViewFacts DEF TimelineInv, AgeInv
  <2> QED BY <2>1, <2>2 DEF OwnLifecycle
<1> QED BY <1>1, TimelineInvAlways, PTL

\* Once the queue is empty, what was answered about a send can be seen
\* (channels/index.ts:129-132 and send.ts:26-53).
THEOREM SendsShownAlways == TimelineSpec => []SendsShown
<1>1. ASSUME TimelineInv PROVE SendsShown
  <2> SUFFICES ASSUME applying = Absent, queue = <<>>, NEW s \in Sends,
                      sends[s].gen = gen, shown.gen = gen, sends[s].state # Absent
               PROVE  Seen(s)
    BY DEF SendsShown, Seen
  <2>1. ~Pending(s) /\ ~InHand(s)
    BY DEF Pending, InHand
  <2> QED BY <1>1, <2>1 DEF TimelineInv, EchoInv
<1> QED BY <1>1, TimelineInvAlways, PTL

\* A message on the screen stays, and no two events change places, however updates and
\* answers follow one another (channels/timeline.ts:149-185).
THEOREM NothingMovesAlways == TimelineSpec => NothingMoves
<1> DEFINE Stays == shown'.gen = shown.gen => Moved
<1>1. ASSUME TimelineInv, TimelineNext PROVE Stays \/ UNCHANGED shown
  <2>1. CASE Finish
    BY <1>1, <2>1, FinishSafe
  <2>2. CASE HistoryRead
    BY <1>1, <2>2, Afresh DEF HistoryRead, TimelineInv, TimelineTypeOK
  <2>3. CASE Begin
    BY <1>1, <2>3, Afresh DEF Begin, TimelineInv, TimelineTypeOK
  <2>4. CASE ~(Finish \/ HistoryRead \/ Begin)
    BY <1>1, <2>4 DEF TimelineNext, OtherEvent, Transmit, SendLands, SendAnswered, Sync, Paginate,
       Load, Decrypt, MemberChanges, Receive, NewGeneration, Listen, Replay
  <2> QED BY <2>1, <2>2, <2>3, <2>4
<1>2. ASSUME UNCHANGED shown PROVE Stays
  BY <1>2 DEF Moved
<1>3. ASSUME TimelineInv, [TimelineNext]_timelineVars PROVE [Stays]_timelineVars
  BY <1>1, <1>2, <1>3 DEF timelineVars
<1>4. TimelineSpec => [][Stays]_timelineVars
  BY <1>3, TimelineInvAlways, PTL DEF TimelineSpec
<1> QED
  BY <1>4 DEF NothingMoves, Stays, Moved

=============================================================================
