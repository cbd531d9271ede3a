--------------------------- MODULE ChannelTimeline ---------------------------
(***************************************************************************)
(* What a person sees of one channel: the Matrix adapter's updates          *)
(* (apps/web/.../matrix-browser.ts subscribe) and the echoes of the         *)
(* person's own sends reach one projection through a queue                  *)
(* (packages/messaging/src/channels/index.ts and timeline.ts).              *)
(*                                                                         *)
(* An event is its place in the room.  An update holds the whole window of  *)
(* the room that the client has loaded; the window grows at both ends, and  *)
(* jumps where a sync was limited.                                          *)
(***************************************************************************)
EXTENDS Naturals, FiniteSets, Sequences

CONSTANTS
    Sends,           \* the person's messages
    MaxEvents,       \* bound: events in the room
    MaxGenerations,  \* bound: device lifecycles
    MaxQueue,        \* bound: changes of the projection that wait
    MaxAttempts,     \* bound: attempts to send
    MaxJunk,         \* bound: events that decrypt to no row of the channel
    MaxWork,         \* bound: events, further lifecycles and attempts together
    Absent

ASSUME TimelineAssumption ==
    /\ MaxEvents \in Nat /\ MaxGenerations \in Nat \ {0} /\ MaxQueue \in Nat /\ MaxAttempts \in Nat
    /\ MaxWork \in Nat /\ MaxJunk \in Nat
    /\ Absent \notin Sends /\ Absent \notin Nat
    /\ Absent \notin {"pending", "accepted", "failed", "outcome_unknown"}

VARIABLES
    events,      \* the room
    window,      \* the part of it the client has loaded
    readable,    \* the events the client has decrypted
    joinTs,      \* the first event after the person's own member event, as the client knows it
    publishing,  \* the window whose update is being prepared, or Absent
    gen,         \* the device lifecycle
    queue,       \* observation.queue
    applying,    \* the change being applied and the lifecycle of its projection, or Absent
    shown,       \* observation.projection, with its lifecycle
    sends,       \* each send: its attempt
    attempts,
    published,   \* a snapshot went out since the late listener that waits came
    astray       \* history: own events shown ahead of ones before them, and events that were
                 \* shown and that an update left out

timelineVars == <<events, window, readable, joinTs, publishing, gen, queue, applying, shown,
                  sends, attempts, astray, published>>

Kinds == {"message", "unavailable"}
Makes == {"row", "ignored", "nothing"}
SendStates == {"pending", "accepted", "failed", "outcome_unknown"}
Ids == 1..MaxEvents
Generations == 1..MaxGenerations
Windows == [lo : 1..MaxEvents + 1, hi : 0..MaxEvents]

\* What an update or the projection has of some events.
Entries == [kind : Kinds, send : Sends \cup {Absent}, gen : Generations]
EntryMaps == UNION {[ids -> Entries] : ids \in SUBSET Ids}

Jobs == [kind : {"local"}, gen : Generations, send : Sends, state : SendStates, id : SUBSET Ids]
        \cup [kind : {"remote"}, gen : Generations, entries : EntryMaps, ignored : SUBSET Ids,
              window : Windows]
        \cup [kind : {"replay"}, gen : Generations]

ASSUME NoJobAssumption == Absent \notin [job : Jobs, gen : Generations]

\* The projection: remote is a Map, whose keys are in the order before.
Views == [gen : Generations, remote : EntryMaps, before : SUBSET (Ids \X Ids),
          local : [Sends -> SendStates \cup {Absent}], ignored : SUBSET Ids, room : BOOLEAN]

Empty(g) == [gen |-> g, remote |-> [id \in {} |-> Absent], before |-> {},
             local |-> [s \in Sends |-> Absent], ignored |-> {}, room |-> FALSE]
Unloaded == [lo |-> 1, hi |-> 0]

TimelineInit ==
    /\ events = <<>> /\ window = Unloaded /\ readable = {} /\ joinTs = 1
    /\ publishing = Absent
    /\ gen = 1
    /\ queue = <<>> /\ applying = Absent
    /\ shown = Empty(1)
    /\ sends = [s \in Sends |-> [state |-> Absent, gen |-> 1]]
    /\ attempts = 0
    /\ astray = {}
    /\ published = FALSE

Room == Len(events) + gen - 1 + attempts + (IF joinTs = 1 THEN 0 ELSE 1) < MaxWork

PlaceOf(s) == {i \in 1..Len(events) : events[i].send = s}

-----------------------------------------------------------------------------
\* The room, and send.ts transmit.

\* Decrypted, it makes a row; or it is a channel event that is malformed, which an update
\* names as ignored; or anything else that has no row, which an update says nothing of.
OtherEvent(makes) ==
    /\ Len(events) < MaxEvents /\ Room
    /\ makes # "row" => Cardinality({i \in DOMAIN events : events[i].makes # "row"}) < MaxJunk
    /\ events' = Append(events, [send |-> Absent, makes |-> makes])
    /\ UNCHANGED <<window, readable, joinTs, publishing, gen, queue, applying, shown, sends,
                   attempts, astray, published>>

Enqueue(job) ==
    /\ Len(queue) < MaxQueue
    /\ queue' = Append(queue, job)

Echo(s, state, madeIn) ==
    Enqueue([kind |-> "local", gen |-> madeIn, send |-> s, state |-> state,
             id |-> IF state = "accepted" THEN PlaceOf(s) ELSE {}])

Transmit(s) ==
    /\ sends[s].state \in {Absent, "failed", "outcome_unknown"}
    /\ attempts < MaxAttempts /\ Room /\ attempts' = attempts + 1
    /\ sends' = [sends EXCEPT ![s] = [state |-> "pending", gen |-> gen]]
    /\ Echo(s, "pending", gen)
    /\ UNCHANGED <<events, window, readable, joinTs, publishing, gen, applying, shown, astray,
                   published>>

SendLands(s) ==
    /\ sends[s].state \in {"pending", "outcome_unknown"}
    /\ PlaceOf(s) = {} /\ Len(events) < MaxEvents /\ Room
    /\ events' = Append(events, [send |-> s, makes |-> "row"])
    /\ UNCHANGED <<window, readable, joinTs, publishing, gen, queue, applying, shown, sends,
                   attempts, astray, published>>

SendAnswered(s, state) ==
    /\ sends[s].state = "pending"
    /\ state = "accepted" => PlaceOf(s) # {}
    /\ state = "failed" => PlaceOf(s) = {}
    /\ sends' = [sends EXCEPT ![s].state = state]
    /\ Echo(s, state, sends[s].gen)
    /\ UNCHANGED <<events, window, readable, joinTs, publishing, gen, applying, shown, attempts,
                   astray, published>>

-----------------------------------------------------------------------------
\* The Matrix client and the adapter's subscription.

\* publish: the latest one counts.
Load(lo, hi) ==
    /\ window' = [lo |-> lo, hi |-> hi]
    /\ publishing' = window'
    /\ UNCHANGED <<events, readable, joinTs, gen, queue, applying, shown, sends, attempts,
                   astray, published>>

Sync ==
    /\ window.hi < Len(events)
    /\ \/ Load(window.lo, window.hi + 1)
       \/ window.hi + 1 < Len(events) /\ Load(Len(events), Len(events))

Paginate ==
    /\ window.lo > 1
    /\ Load(window.lo - 1, window.hi)

Decrypt(id) ==
    /\ id \in window.lo..window.hi /\ id \notin readable
    /\ readable' = readable \cup {id}
    /\ publishing' = window
    /\ UNCHANGED <<events, window, joinTs, gen, queue, applying, shown, sends, attempts, astray,
                   published>>

Projected(id) ==
    [kind |-> IF id \in readable THEN "message" ELSE "unavailable",
     send |-> IF id \in readable THEN events[id].send ELSE Absent, gen |-> gen]

\* The person's own member event changes: their join, or a new name or colour since.
MemberChanges ==
    /\ window.hi \in {0, Len(events)} /\ joinTs <= Len(events) /\ Room
    /\ joinTs' = Len(events) + 1
    /\ publishing' = IF window.hi = 0 THEN Absent ELSE window
    /\ UNCHANGED <<events, window, readable, gen, queue, applying, shown, sends, attempts,
                   astray, published>>

\* The update reaches the service, or its attribution failed and there is none.  It leaves out
\* what makes no row, and what cannot be decrypted of before the person's member event.
Receive ==
    /\ publishing # Absent
    /\ LET ids == publishing.lo..publishing.hi
           ignored == {id \in ids \cap readable : events[id].makes = "ignored"}
           nothing == {id \in ids \cap readable : events[id].makes = "nothing"}
           preJoin == {id \in ids \ readable : id < joinTs}
       IN  \/ Enqueue([kind |-> "remote", gen |-> gen, window |-> publishing, ignored |-> ignored,
                       entries |-> [id \in ids \ (ignored \cup nothing \cup preJoin) |->
                                       Projected(id)]])
           \/ UNCHANGED queue
    /\ publishing' = Absent
    /\ UNCHANGED <<events, window, readable, joinTs, gen, applying, shown, sends, attempts,
                   astray, published>>

\* Another device, or another session of it: a new client, and updates of its own.
NewGeneration ==
    /\ gen < MaxGenerations /\ Room
    /\ gen' = gen + 1
    /\ window' = Unloaded /\ readable' = {} /\ publishing' = Absent
    /\ UNCHANGED <<events, joinTs, queue, applying, shown, sends, attempts, astray, published>>

-----------------------------------------------------------------------------
\* timeline.ts: ChannelProjection.

\* Mutant: whatever comes last is shown.
Supersedes_Always(old, entry) == TRUE

\* Only a late decryption replaces what is shown.
Supersedes(old, entry) == old.kind = "unavailable" /\ entry.kind # "unavailable"

\* Mutant: what is new goes to the end.
Anchor_AtTheEnd(known, ids, id) == IF id \in known THEN id ELSE Absent

\* The next event of the update, from id on, that was shown already.
Anchor(known, ids, id) ==
    LET next == {k \in ids \cap known : id < k}
    IN  IF id \in known THEN id
        ELSE IF next = {} THEN Absent ELSE CHOOSE k \in next : \A j \in next : k <= j

\* What is new goes before its anchor, or to the end, in the order of the update.
Placed(before, known, taken, ids) ==
    {p \in (known \cup taken) \X (known \cup taken) :
        LET at == Anchor(known, ids, p[1])
            to == Anchor(known, ids, p[2])
        IN  IF at = to THEN p[1] < p[2] ELSE to = Absent \/ <<at, to>> \in before}

ApplyRemote(view, job) ==
    LET ignored == view.ignored \cup job.ignored
        known == {id \in DOMAIN view.remote :
                     id \in job.ignored => view.remote[id].kind # "unavailable"}
        taken == {id \in DOMAIN job.entries \ ignored :
                     id \in known => Supersedes(view.remote[id], job.entries[id])}
        echoed == {job.entries[id].send : id \in taken}
    IN  [gen |-> view.gen, ignored |-> ignored, room |-> TRUE,
         remote |-> [id \in known \cup taken |->
                        IF id \in taken THEN job.entries[id] ELSE view.remote[id]],
         before |-> Placed(view.before, known, taken, DOMAIN job.entries),
         local |-> [s \in Sends |-> IF s \in echoed THEN Absent ELSE view.local[s]]]

Shows(view, s) == \E id \in DOMAIN view.remote : view.remote[id].send = s

\* An accepted send takes its event's place, at the end unless the event is shown.
Accepted(view, job) ==
    LET known == DOMAIN view.remote
        new == [kind |-> "message", send |-> job.send, gen |-> job.gen]
    IN  [view EXCEPT
            !.local[job.send] = Absent,
            !.remote = [id \in known \cup job.id |->
                           IF id \in known THEN view.remote[id] ELSE new],
            !.before = view.before \cup known \X (job.id \ known)]

\* Mutant: the state of a send is shown whatever the room has shown of it.
ApplyLocal_Always(view, job) ==
    IF job.id # {} THEN Accepted(view, job)
    ELSE [view EXCEPT !.local[job.send] = job.state]

\* Mutant: the send is shown as it was first.
ApplyLocal_First(view, job) ==
    IF job.id # {} THEN Accepted(view, job)
    ELSE IF Shows(view, job.send) \/ view.local[job.send] # Absent THEN view
    ELSE [view EXCEPT !.local[job.send] = job.state]

\* Before it is accepted it has a place of its own, unless the room has shown it.
ApplyLocal(view, job) ==
    IF job.id # {} THEN Accepted(view, job)
    ELSE IF Shows(view, job.send) THEN view
    ELSE [view EXCEPT !.local[job.send] = job.state]

-----------------------------------------------------------------------------
\* index.ts: enqueue.

\* Mutant: whatever was queued is applied.
Outdated_Never(job) == FALSE

Outdated(job) == job.gen # gen

StartAfresh == shown' = Empty(gen) /\ astray' = {}

\* A change of an earlier lifecycle is dropped; the first of a new one starts afresh.
Begin ==
    /\ applying = Absent /\ queue # <<>> /\ Head(queue).kind # "replay"
    /\ queue' = Tail(queue)
    /\ IF Outdated(Head(queue)) THEN UNCHANGED <<applying, shown, astray>>
       ELSE /\ applying' = [job |-> Head(queue), gen |-> gen]
            /\ IF shown.gen = gen THEN UNCHANGED <<shown, astray>> ELSE StartAfresh
    /\ UNCHANGED <<events, window, readable, joinTs, publishing, gen, sends, attempts, published>>

\* An event comes after all that is shown, and nothing that may still be shown comes between
\* the last message that is and the event.
ComesNext(view, id) ==
    /\ \A shownId \in DOMAIN view.remote : shownId < id
    /\ \A z \in 1..id - 1 :
          \/ z \in view.ignored
          \/ \E p \in z..id - 1 : p \in DOMAIN view.remote /\ view.remote[p].kind = "message"

\* What a change makes stray: see astray.
Strays(view, job) ==
    IF job.kind = "local" THEN {id \in job.id \ DOMAIN view.remote : ~ComesNext(view, id)}
    ELSE (DOMAIN view.remote \cap job.window.lo..job.window.hi)
         \ (DOMAIN job.entries \cup job.ignored)

Waits == \E k \in DOMAIN queue : queue[k].kind = "replay"

\* The projection it was meant for may have been replaced while it was digested.  A change of
\* the lifecycle that is on is published.
Finish ==
    /\ applying # Absent
    /\ LET job == applying.job
           apply == IF job.kind = "remote" THEN ApplyRemote(shown, job) ELSE ApplyLocal(shown, job)
       IN  IF shown.gen = applying.gen
           THEN shown' = apply /\ astray' = astray \cup Strays(shown, job)
           ELSE UNCHANGED <<shown, astray>>
    /\ published' = (Waits /\ (published \/ (applying.gen = gen /\ shown'.room)))
    /\ applying' = Absent
    /\ UNCHANGED <<events, window, readable, joinTs, publishing, gen, queue, sends, attempts>>

\* register: a further listener of the channel waits behind what is queued.
Listen ==
    /\ ~Waits
    /\ Enqueue([kind |-> "replay", gen |-> gen])
    /\ published' = FALSE
    /\ UNCHANGED <<events, window, readable, joinTs, publishing, gen, applying, shown, sends,
                   attempts, astray>>

Replay ==
    /\ applying = Absent /\ queue # <<>> /\ Head(queue).kind = "replay"
    /\ queue' = Tail(queue)
    /\ published' = FALSE
    /\ UNCHANGED <<events, window, readable, joinTs, publishing, gen, applying, shown, sends,
                   attempts, astray>>

\* It is handed the snapshot, unless the lifecycle changed or one went out meanwhile.
HandsOver == Replay /\ ~Outdated(Head(queue)) /\ ~published /\ shown.room

\* A page of history read in a new lifecycle replaces the projection, too.
HistoryRead ==
    /\ shown.gen # gen
    /\ StartAfresh
    /\ UNCHANGED <<events, window, readable, joinTs, publishing, gen, queue, applying, sends,
                   attempts, published>>

TimelineNext ==
    \/ \E makes \in Makes : OtherEvent(makes)
    \/ \E s \in Sends :
          \/ Transmit(s) \/ SendLands(s)
          \/ \E state \in SendStates \ {"pending"} : SendAnswered(s, state)
    \/ Sync \/ Paginate
    \/ \E id \in Ids : Decrypt(id)
    \/ MemberChanges \/ Receive \/ NewGeneration
    \/ Begin \/ Finish \/ Listen \/ Replay \/ HistoryRead

TimelineSpec == TimelineInit /\ [][TimelineNext]_timelineVars

-----------------------------------------------------------------------------
\* Properties.

\* Every variable holds a value of its kind.
TimelineTypeOK ==
    /\ events \in Seq([send : Sends \cup {Absent}, makes : Makes]) /\ Len(events) <= MaxEvents
    /\ window \in Windows /\ publishing \in Windows \cup {Absent}
    /\ readable \subseteq Ids /\ joinTs \in 1..MaxEvents + 1
    /\ astray \subseteq Ids /\ published \in BOOLEAN
    /\ gen \in Generations
    /\ queue \in Seq(Jobs)
    /\ applying \in [job : Jobs, gen : Generations] \cup {Absent}
    /\ shown \in Views
    /\ sends \in [Sends -> [state : SendStates \cup {Absent}, gen : Generations]]
    /\ attempts \in 0..MaxAttempts

\* A send has no row of its own next to a message that is known to be it, however the answer
\* to it, the room's echo of it, its late decryption, retries and replays of the window
\* interleave.  (Before its echo is decrypted, it is shown twice: see SendHasOneRow.)
EchoReplacesSend == \A s \in Sends : Shows(shown, s) => shown.local[s] = Absent

\* Events are shown in the order of the room, through pages of history, limited syncs, late
\* decryptions, events that come to be ignored and own sends that are answered before their
\* echo; unless an answer brought an own event while events before it were still unknown, or
\* an update left out an event that was shown.
RoomOrder ==
    astray = {} =>
        \A i, j \in DOMAIN shown.remote : <<i, j>> \in shown.before <=> i < j

\* What the projection holds was projected in the lifecycle that it is of, though the digests
\* of an update take their time and a page of history may replace the projection meanwhile;
\* and what is published after a change is of the lifecycle that is on.  (What a late listener
\* is handed is not: see ReplaysItsLifecycle.)
OwnLifecycle ==
    /\ \A id \in DOMAIN shown.remote : shown.remote[id].gen = shown.gen
    /\ applying # Absent /\ applying.gen = gen => shown.gen = gen

\* What was answered about a send of this lifecycle can be seen once the queue is empty.
SendsShown ==
    applying = Absent /\ queue = <<>> =>
        \A s \in Sends :
            sends[s].gen = gen /\ shown.gen = gen /\ sends[s].state # Absent =>
                \/ shown.local[s] = sends[s].state
                \/ Shows(shown, s)
                \/ PlaceOf(s) # {} /\ PlaceOf(s) \subseteq DOMAIN shown.remote

\* A message on the screen stays there, and no two change places, in one lifecycle.
NothingMoves ==
    [][shown'.gen = shown.gen =>
          /\ \A id \in DOMAIN shown.remote : shown.remote[id].kind = "message" =>
                id \in DOMAIN shown'.remote /\ shown'.remote[id] = shown.remote[id]
          /\ \A i, j \in DOMAIN shown.remote \cap DOMAIN shown'.remote :
                <<i, j>> \in shown'.before <=> <<i, j>> \in shown.before]_timelineVars

\* What the code does not keep.  An own send that has a row of its own is one "the channel has
\* not yet echoed" (channels/timeline.ts:16-17): no row shows its event, decrypted or not.
SendHasOneRow ==
    \A s \in Sends : shown.local[s] # Absent => PlaceOf(s) \cap DOMAIN shown.remote = {}

\* Nor this: a new lifecycle "never republishes the previous lifecycle's history"
\* (channels/README.md:48-49), to a listener that comes late either.
ReplaysItsLifecycle ==
    [][HandsOver => \A id \in DOMAIN shown.remote :
                        shown.remote[id].kind = "message" => shown.remote[id].gen = gen]_timelineVars

=============================================================================
