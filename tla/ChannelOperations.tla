-------------------------- MODULE ChannelOperations --------------------------
(***************************************************************************)
(* The operations of the browser's channel service that have effects:       *)
(* create, send and intro (packages/messaging/src/channels), over the       *)
(* journal that the tabs of one browser share                               *)
(* (apps/web/.../room-journal.ts) and the Matrix adapter                    *)
(* (apps/web/.../matrix-browser.ts).                                        *)
(*                                                                         *)
(* Every operation ID has a record of its own in the journal, so that a     *)
(* behaviour is about one operation, op, and about the calls for it: the    *)
(* first one, its retries, and the same in other tabs.  A send is a batch   *)
(* of one item.                                                             *)
(***************************************************************************)
EXTENDS Naturals, Sequences

CONSTANTS
    Calls,
    Operations,  \* of "create", "send" and "intro"
    Items,       \* how many items an intro has
    Devices,     \* the devices of the account; a call may begin on any
    MaxFaults,   \* bound: changes of the device, and journals and lists of rooms out of reach
    None

ASSUME ConstantsAssumption ==
    /\ Operations \subseteq {"create", "send", "intro"}
    /\ Items \in Nat \ {0}
    /\ Devices \subseteq Nat
    /\ None \notin Calls

VARIABLES
    op,        \* the operation the calls are for
    proves,    \* the adapter can prove that a room was never created (Matrix cannot)
    journal,   \* the record of the operation, or None
    revision,  \* of the record
    calls,
    rooms,     \* how many rooms carry the operation ID
    timeline,  \* the items in the room, in the order in which they landed
    flying,    \* requests without an answer that may land yet
    joined,    \* the participant is a member of the room
    device,    \* the device of the active client
    faults,
    history    \* whether an attempt outlived its lease, or a call its device

vars == <<op, proves, journal, revision, calls, rooms, timeline, flying, joined, device, faults,
          history>>
env == <<op, proves, joined, device>>

Batch == 1..IF op = "intro" THEN Items ELSE 1
ItemStates == {"pending", "accepted", "failed", "outcome_unknown"}
Creations == [state : {"attempting", "unknown", "not_applied", "created"}, live : BOOLEAN]
Messages == [ids : Calls, device : Devices, items : Seq(ItemStates)]
Answers == {None, "ok", "rejected", "unavailable", "unknown"}

ASSUME NoRecordAssumption == None \notin Creations \cup Messages

Idle == [pc |-> "idle", device |-> 0, rev |-> 0, record |-> None, index |-> 0,
         result |-> None, answer |-> None]

Init ==
    /\ op \in Operations
    /\ proves \in BOOLEAN /\ (proves => op = "create")
    /\ journal = None /\ revision = 0
    /\ calls = [c \in Calls |-> Idle]
    /\ rooms = 0 /\ timeline = <<>> /\ flying = {}
    /\ joined = TRUE
    /\ device \in Devices
    /\ faults = 0
    /\ history = [outlived |-> FALSE, strayed |-> FALSE]

Fault == faults < MaxFaults /\ faults' = faults + 1

Answer(c, a) == calls' = [calls EXCEPT ![c].pc = "done", ![c].answer = a]

-----------------------------------------------------------------------------
\* The journal: one record under a lock of its own, written by compare-and-set.

\* Mutant: what is there is written over.
Replace_Unconditional(c, value) ==
    \/ /\ journal' = value /\ revision' = revision + 1
       /\ UNCHANGED faults
    \/ /\ Fault
       /\ UNCHANGED <<journal, revision>>

\* Stored, in conflict, or out of reach.
Replace(c, value) ==
    \/ /\ calls[c].rev = revision
       /\ journal' = value /\ revision' = revision + 1
       /\ UNCHANGED faults
    \/ /\ calls[c].rev # revision
       /\ UNCHANGED <<journal, revision, faults>>
    \/ /\ Fault
       /\ UNCHANGED <<journal, revision>>

Stores(c) == revision' # revision

-----------------------------------------------------------------------------
\* create.ts

Attempt == [state |-> "attempting", live |-> TRUE]

Claims(c, value) ==
    /\ journal = None
    /\ journal' = value /\ revision' = revision + 1
    /\ UNCHANGED faults

JournalAway(c) ==
    /\ Fault
    /\ Answer(c, "unavailable")
    /\ UNCHANGED <<journal, revision>>

\* Mutant: the lease of another caller's attempt is not respected.
Found_NoLease(c) ==
    CASE journal.state = "created" -> "created"
      [] journal.state = "not_applied" -> "take"
      [] OTHER -> "reconcile"

\* What a call makes of the record that is there.
Found(c) ==
    CASE journal.state = "created" -> "created"
      [] journal.state = "attempting" /\ journal.live -> "outstanding"
      [] journal.state = "not_applied" -> "take"
      [] OTHER -> "reconcile"

Create(c) ==
    /\ op = "create" /\ calls[c].pc = "idle"
    /\ \/ /\ Claims(c, Attempt)
          /\ calls' = [calls EXCEPT ![c].pc = "creating", ![c].rev = revision']
       \/ /\ journal # None
          /\ \/ Found(c) = "created" /\ Answer(c, "ok")
             \/ Found(c) = "outstanding" /\ Answer(c, "unknown")
             \/ /\ Found(c) \in {"take", "reconcile"}
                /\ calls' = [calls EXCEPT ![c].pc = Found(c), ![c].rev = revision]
          /\ UNCHANGED <<journal, revision, faults>>
       \/ JournalAway(c)
    /\ UNCHANGED <<env, rooms, timeline, flying, history>>

\* reconcile: a room found is recorded; absence is a proof, and not knowing is an answer.
Reconcile(c) ==
    /\ calls[c].pc = "reconcile"
    /\ \/ /\ rooms > 0
          /\ Replace(c, [state |-> "created", live |-> FALSE])
          /\ Answer(c, "ok")
       \/ /\ proves /\ rooms = 0 /\ flying = {}
          /\ calls' = [calls EXCEPT ![c].pc = "take"]
          /\ UNCHANGED <<journal, revision, faults>>
       \/ /\ Answer(c, "unknown")
          /\ UNCHANGED <<journal, revision, faults>>
    /\ UNCHANGED <<env, rooms, timeline, flying, history>>

\* Taking the lease is a compare-and-set: of two retries one creates.
TakeLease(c) ==
    /\ calls[c].pc = "take"
    /\ Replace(c, Attempt)
    /\ calls' = IF Stores(c) THEN [calls EXCEPT ![c].pc = "creating", ![c].rev = revision']
                ELSE [calls EXCEPT ![c].pc = "done",
                                   ![c].answer = IF faults' = faults THEN "unknown" ELSE "unavailable"]
    /\ UNCHANGED <<env, rooms, timeline, flying, history>>

\* The room is created, refused, or nobody knows: now, later or never.
CreateRoom(c) ==
    /\ calls[c].pc = "creating"
    /\ \E result \in {"done", "rejected", "unknown"}, lands \in {"now", "later", "never"} :
          /\ result = "done" => lands = "now"
          /\ result = "rejected" => lands = "never"
          /\ rooms' = IF lands = "now" THEN rooms + 1 ELSE rooms
          /\ flying' = IF lands = "later" THEN flying \cup {<<c>>} ELSE flying
          /\ calls' = [calls EXCEPT ![c].pc = "settling", ![c].result = result]
    /\ UNCHANGED <<env, journal, revision, timeline, faults, history>>

Settled(r) ==
    [state |-> CASE r = "done" -> "created" [] r = "rejected" -> "not_applied" [] OTHER -> "unknown",
     live |-> FALSE]

SettleCreate(c) ==
    /\ calls[c].pc = "settling"
    /\ Replace(c, Settled(calls[c].result))
    /\ Answer(c, IF calls[c].result = "done" THEN "ok" ELSE calls[c].result)
    /\ UNCHANGED <<env, rooms, timeline, flying, history>>

\* Two minutes are over, for an attempt that may be under way yet.
LeaseExpires ==
    /\ op = "create" /\ journal # None
    /\ journal.state = "attempting" /\ journal.live
    /\ journal' = [journal EXCEPT !.live = FALSE]
    /\ history' = [history EXCEPT !.outlived =
                      @ \/ \E c \in Calls : calls[c].pc = "creating" /\ calls[c].rev = revision]
    /\ UNCHANGED <<env, revision, calls, rooms, timeline, flying, faults>>

-----------------------------------------------------------------------------
\* send.ts and intro.ts

Intent(c) == [ids |-> c, device |-> device, items |-> [i \in Batch |-> "pending"]]
AllAccepted(record) == \A i \in DOMAIN record.items : record.items[i] = "accepted"

\* Mutant: an outstanding batch is taken over by whatever device is at hand.
Resumes_AnyDevice(c, found) ==
    IF AllAccepted(found) THEN Answer(c, "ok")
    ELSE calls' = [calls EXCEPT ![c].pc = "gate", ![c].rev = revision, ![c].record = found,
                                ![c].device = device]

\* The record as it was left: done, another device's, or to be gone on with.
Resumes(c, found) ==
    IF AllAccepted(found) THEN Answer(c, "ok")
    ELSE IF found.device # device THEN Answer(c, "rejected")
    ELSE calls' = [calls EXCEPT ![c].pc = "gate", ![c].rev = revision, ![c].record = found,
                                ![c].device = device]

\* The batch, its author and its transaction IDs are those of the first call.
Prepare(c) ==
    /\ op \in {"send", "intro"} /\ calls[c].pc = "idle"
    /\ \/ /\ Claims(c, Intent(c))
          /\ calls' = [calls EXCEPT ![c].pc = "gate", ![c].rev = revision', ![c].device = device,
                                    ![c].record = Intent(c)]
       \/ /\ journal # None
          /\ Resumes(c, journal)
          /\ UNCHANGED <<journal, revision, faults>>
       \/ JournalAway(c)
    /\ UNCHANGED <<env, rooms, timeline, flying, history>>

ResumeIntro(c) ==
    /\ op = "intro" /\ calls[c].pc = "idle"
    /\ \/ /\ journal = None
          /\ Answer(c, "rejected")
          /\ UNCHANGED <<journal, revision, faults>>
       \/ /\ journal # None
          /\ Resumes(c, journal)
          /\ UNCHANGED <<journal, revision, faults>>
       \/ JournalAway(c)
    /\ UNCHANGED <<env, rooms, timeline, flying, history>>

Unsent(record) == {i \in DOMAIN record.items : record.items[i] # "accepted"}
First(record) == CHOOSE i \in Unsent(record) : \A j \in Unsent(record) : i <= j

MembershipGate(c) ==
    /\ calls[c].pc = "gate"
    /\ \/ /\ joined
          /\ calls' = [calls EXCEPT ![c].pc = "transmit", ![c].index = First(calls[c].record)]
          /\ UNCHANGED faults
       \/ /\ ~joined
          /\ Answer(c, "rejected")
          /\ UNCHANGED faults
       \/ /\ Fault
          /\ Answer(c, "unavailable")
    /\ UNCHANGED <<env, journal, revision, rooms, timeline, flying, history>>

\* The transport takes an event once per device and transaction ID.
Event(c) == [item |-> calls[c].index, ids |-> calls[c].record.ids, device |-> device]
Landed(event) == \E k \in DOMAIN timeline : timeline[k] = event
Lands(event) == timeline' = IF Landed(event) THEN timeline ELSE Append(timeline, event)

SendEvent(c) ==
    /\ calls[c].pc = "transmit"
    /\ \E result \in ItemStates \ {"pending"}, lands \in {"now", "later", "never"} :
          /\ result = "accepted" => lands = "now"
          /\ result = "failed" => lands = "never"
          /\ lands = "now" => joined
          /\ IF lands = "now" THEN Lands(Event(c)) ELSE UNCHANGED timeline
          /\ flying' = IF lands = "later" THEN flying \cup {Event(c)} ELSE flying
          /\ calls' = [calls EXCEPT ![c].pc = "record", ![c].record.items[calls[c].index] = result]
    /\ history' = [history EXCEPT !.strayed = @ \/ calls[c].device # device]
    /\ UNCHANGED <<env, journal, revision, rooms, faults>>

State(c) == calls[c].record.items[calls[c].index]
Later(c) == {i \in Unsent(calls[c].record) : i > calls[c].index}

\* Later items wait for this one, and for the record of it.
GoesOn(c) == State(c) = "accepted" /\ Later(c) # {} /\ Stores(c)

\* A refusal of the transport is passed on; otherwise an intro tells of every item.
ItemAnswers(c) ==
    CASE State(c) = "accepted" -> {"ok"}
      [] State(c) = "failed" -> {"rejected", IF op = "intro" THEN "ok" ELSE "unavailable"}
      [] OTHER -> {IF op = "intro" THEN "ok" ELSE "unknown"}

RecordItem(c) ==
    /\ calls[c].pc = "record"
    /\ Replace(c, calls[c].record)
    /\ IF GoesOn(c)
       THEN calls' = [calls EXCEPT ![c].pc = "transmit", ![c].rev = revision',
                                   ![c].index = CHOOSE i \in Later(c) : \A j \in Later(c) : i <= j]
       ELSE \E a \in ItemAnswers(c) : Answer(c, a)
    /\ UNCHANGED <<env, rooms, timeline, flying, history>>

-----------------------------------------------------------------------------
\* The network, the room and the tabs.

Arrives ==
    /\ \E request \in flying :
          /\ flying' = flying \ {request}
          /\ IF op = "create" THEN rooms' = rooms + 1 /\ UNCHANGED timeline
                              ELSE Lands(request) /\ UNCHANGED rooms
    /\ joined
    /\ UNCHANGED <<env, journal, revision, calls, faults, history>>

\* The tab is closed, or the membership ends, or the device is replaced by another.
Die(c) ==
    /\ calls[c].pc \notin {"idle", "done", "dead"}
    /\ calls' = [calls EXCEPT ![c].pc = "dead"]
    /\ UNCHANGED <<env, journal, revision, rooms, timeline, flying, faults, history>>

Revoke ==
    /\ op # "create" /\ joined /\ Fault
    /\ joined' = FALSE
    /\ UNCHANGED <<op, proves, device, journal, revision, calls, rooms, timeline, flying, history>>

ReplaceDevice(d) ==
    /\ op # "create" /\ d # device /\ Fault
    /\ device' = d
    /\ UNCHANGED <<op, proves, joined, journal, revision, calls, rooms, timeline, flying, history>>

Next ==
    \/ \E c \in Calls :
          \/ Create(c) \/ Reconcile(c) \/ TakeLease(c) \/ CreateRoom(c) \/ SettleCreate(c)
          \/ Prepare(c) \/ ResumeIntro(c) \/ MembershipGate(c) \/ SendEvent(c) \/ RecordItem(c)
          \/ Die(c)
    \/ LeaseExpires \/ Arrives \/ Revoke
    \/ \E d \in Devices : ReplaceDevice(d)

Spec == Init /\ [][Next]_vars

-----------------------------------------------------------------------------
\* Properties.

\* Every variable holds a value of its kind.
TypeOK ==
    /\ journal \in {None} \cup Creations \cup Messages
    /\ revision \in Nat /\ rooms \in Nat /\ faults \in Nat
    /\ \A c \in Calls :
          /\ calls[c].record \in {None} \cup Messages
          /\ calls[c].answer \in Answers
    /\ joined \in BOOLEAN /\ device \in Devices

\* One operation makes one room, whatever answers are lost, tabs closed and retries
\* made: always where absence cannot be proved, as with Matrix, and otherwise as long as
\* no attempt is still to ask for its room when its lease is over.
OneRoom == rooms <= 1 \/ (proves /\ history.outlived)

\* The items of an intro land in order and once, although calls overlap, die, lose answers and
\* are made again on other devices: the items before one are in the room before it, always, and
\* none is there twice unless the device changes under a call that is past its gate.
OnceInOrder ==
    \A k \in DOMAIN timeline :
        /\ \A i \in 1..timeline[k].item - 1 : \E j \in 1..k - 1 : timeline[j].item = i
        /\ ~history.strayed => \A j \in 1..k - 1 : timeline[j].item # timeline[k].item

\* What the code does not keep.  "A changed account or device must not retarget it or resend
\* outside transport dedupe" (intro.ts:60-61): no item of an intro is in the room twice.
NeverResent == \A j, k \in DOMAIN timeline : timeline[j].item = timeline[k].item => j = k

\* No call, however late, takes back what another has recorded as accepted or created.
ProgressIsKept ==
    [][journal # None =>
          IF op = "create" THEN journal.state = "created" => journal'.state = "created"
          ELSE \A i \in Batch : journal.items[i] = "accepted" => journal'.items[i] = "accepted"]_vars

=============================================================================
