----------------------------- MODULE AgentClient -----------------------------
(***************************************************************************)
(* The client process of an agent (packages/agent/src/client-impl.ts): the  *)
(* attempts to join channels, the sessions they open, and join, rejoin,     *)
(* leave and close, which all wait for one another.                         *)
(*                                                                         *)
(* One process, but every await lets the others in.  join is serialised per *)
(* link, claims and leaves per room; an attempt's background task runs on   *)
(* its own, gives up its waits when it is aborted, and is waited for by     *)
(* whoever cancels it.  What a session delivers, its mode and the status    *)
(* files belong to InboxDelivery and ListeningMode.  Left out: the second   *)
(* start after a corrupt store, and calls that come after close.            *)
(***************************************************************************)
EXTENDS Naturals, Sequences, FiniteSets

CONSTANTS
    Links,        \* the links the agent is given
    Rooms,        \* channels
    RoomOf,       \* the channel behind each link
    Saved,        \* the links an earlier process may have saved for a rejoin
    MaxSlots,     \* how many channels one session may keep (16)
    MaxAttempts,  \* bound: attempts begun
    MaxLeaves,    \* bound: calls of leave
    MaxMishaps,    \* bound: requests, tasks, sessions and claims that fail or end by themselves
    None

ASSUME ClientAssumption ==
    /\ RoomOf \in [Links -> Rooms] /\ Saved \subseteq Links
    /\ MaxSlots \in Nat \ {0} /\ MaxLeaves \in Nat /\ MaxMishaps \in Nat /\ MaxAttempts \in Nat
    /\ None \notin Rooms \cup Links \cup Nat

VARIABLES
    att,       \* the attempts: objects that live on after they are forgotten
    attempts,  \* link -> its attempt
    channels,  \* room -> the attempt that has it
    stored,    \* rooms with a directory on disk
    slots,     \* roomSlots: rooms counted against the limit
    queue,     \* roomChanges: claims and leaves of a room; the first one is under way
    joining,   \* the join under way on each link
    cleaning,  \* cancels and cleanups under way
    disk,      \* per room: whose credentials session.json holds, whose link resume.json
    closing,   \* how far close has come
    leaves, mishaps

clientVars == <<att, attempts, channels, stored, slots, queue, joining, cleaning, disk,
                closing, leaves, mishaps>>

Attempts == 1..MaxAttempts

Closed == closing # "open"

\* where an attempt may be; before "poll" its task is a resolved promise
Steps == {"unused", "request", "poll", "claim", "write", "start", "ready", "sync",
          "failing", "ended"}

Unused == [pc |-> "unused", link |-> None, files |-> FALSE, aborted |-> FALSE, claim |-> "none",
           opening |-> FALSE, session |-> "none", dead |-> FALSE,
           displaced |-> FALSE]

Resting == [pc |-> "idle", restore |-> FALSE, att |-> None]

Room(a) == RoomOf[att[a].link]

\* a file of the attempt can be written: its directory has not been removed by a leave
Writable(a) == att[a].files => Room(a) \in stored

\* current
Current(a) == attempts[att[a].link] = a /\ ~Closed /\ ~att[a].aborted

\* the task returns; what only the task used is forgotten
TaskEnds(x) == [x EXCEPT !.pc = "ended", !.claim = "none"]

ClientInit ==
    /\ att = [a \in Attempts |-> Unused]
    /\ attempts = [l \in Links |-> None]
    /\ channels = [r \in Rooms |-> None]
    /\ stored \in SUBSET Rooms /\ Cardinality(stored) <= MaxSlots
    /\ slots = stored
    /\ queue = [r \in Rooms |-> <<>>]
    /\ joining = [l \in Links |-> Resting]
    /\ cleaning = {}
    /\ \E saved \in [Rooms -> Saved \cup {None}] :
          /\ \A r \in Rooms : saved[r] # None => r \in stored /\ RoomOf[saved[r]] = r
          /\ disk = [r \in Rooms |-> [session |-> None, resume |-> saved[r]]]
    /\ closing = "open"
    /\ leaves = 0 /\ mishaps = 0

Mishap == mishaps < MaxMishaps /\ mishaps' = mishaps + 1

-----------------------------------------------------------------------------
(* cancel and cleanup                                                       *)

\* who cleans up: a join of the link, a change of the room, close, or the attempt itself
\* when its session has ended or its task has failed
Cleaners == ({"join"} \X Links) \cup ({"room"} \X Rooms)
            \cup ({"close", "ended", "failed"} \X Attempts)

Busy(by) == \E c \in cleaning : c.by = by

Aborted(S) == [a \in Attempts |-> IF a \in S THEN [att[a] EXCEPT !.aborted = TRUE] ELSE att[a]]

Cancel(by, a) == [by |-> by, of |-> a, step |-> "task"]

\* cancel is called: abort, then wait
Cancels(S) ==
    /\ att' = Aborted({c.of : c \in S})
    /\ cleaning' = cleaning \cup S

\* attempt.task
TaskDone(a) == att[a].pc \in {"request", "ended"}

\* cleanup begins: the first to come takes the session and stops it, the next does not wait
Taken(x) == [x EXCEPT !.session = IF @ = "live" THEN "stopping" ELSE @]

Cleanup(by, a) == [by |-> by, of |-> a,
                   step |-> IF att[a].session = "live" THEN "stopping" ELSE "files"]

\* cancel waits for the task and for the intake queue, where the end of a session is handled
CleanAwaits(c) ==
    /\ c.step = "task" /\ TaskDone(c.of) /\ ~Busy(<<"ended", c.of>>)
    /\ cleaning' = (cleaning \ {c}) \cup {Cleanup(c.by, c.of)}
    /\ att' = [att EXCEPT ![c.of] = Taken(@)]

CleanStopped(c) ==
    /\ c.step = "stopping"
    /\ cleaning' = (cleaning \ {c}) \cup {[c EXCEPT !.step = "files"]}
    /\ att' = [att EXCEPT ![c.of].session = "none"]

\* the files of the room, whoever wrote them; a cancelled attempt is forgotten.  close then
\* writes a status, and throws if it cannot
CleanFiles(c) ==
    LET a == c.of
        r == Room(a)
    IN  /\ c.step = "files"
        /\ cleaning' = cleaning \ {c}
        /\ disk' = IF ~att[a].files THEN disk
                   ELSE [disk EXCEPT ![r] = [session |-> None,
                                             resume |-> IF att[a].dead THEN None ELSE @.resume]]
        /\ attempts' = IF c.by[1] \notin {"ended", "failed"} /\ attempts[att[a].link] = a
                       THEN [attempts EXCEPT ![att[a].link] = None] ELSE attempts
        /\ closing' = IF c.by[1] = "close" /\ ~Writable(a) THEN "failed" ELSE closing
        /\ UNCHANGED att

CleanStep ==
    \E c \in cleaning :
       /\ \/ (CleanAwaits(c) \/ CleanStopped(c)) /\ UNCHANGED <<disk, attempts, closing>>
          \/ CleanFiles(c)
       /\ UNCHANGED <<channels, stored, slots, queue, joining, leaves, mishaps>>

-----------------------------------------------------------------------------
(* join, rejoin and resume                                                  *)

To(l, pc) == joining' = [joining EXCEPT ![l].pc = pc]

Returns(l) == joining' = [joining EXCEPT ![l] = Resting]

\* the attempt is registered; a restore takes the room at once, from whoever has it
Registered(l, a, restore, pc) ==
    LET r == RoomOf[l]
        new == [Unused EXCEPT !.pc = pc, !.link = l, !.files = restore]
    IN  /\ attempts' = [attempts EXCEPT ![l] = a]
        /\ channels' = IF restore THEN [channels EXCEPT ![r] = a] ELSE channels
        /\ att' = [b \in Attempts |-> IF b = a THEN new
                                      ELSE IF restore /\ channels[r] = b /\ Current(b)
                                      THEN [att[b] EXCEPT !.displaced = TRUE] ELSE att[b]]

Free(a) == att[a].pc = "unused" /\ \A l \in Links : joining[l].att # a

\* an attempt is made; a restore reads its status file before it registers
Creates(l, restore) ==
    \E a \in Attempts :
       /\ Free(a) /\ \A b \in 1..(a - 1) : ~Free(b)
       /\ joining' = [joining EXCEPT ![l] = [pc |-> IF restore THEN "register" ELSE "request",
                                             restore |-> restore, att |-> a]]
       /\ IF restore THEN UNCHANGED <<att, attempts, channels>>
          ELSE Registered(l, a, FALSE, "request")

\* a join saved for the link has expired
Expired(l) == Returns(l) /\ UNCHANGED <<att, attempts, channels>>

\* the turn of a call on its link: an attempt that is current answers it, one that is not is
\* cancelled first
Turn(l, restore) ==
    LET existing == attempts[l]
    IN  \/ /\ Closed \/ (existing # None /\ Current(existing))
           /\ Returns(l)
           /\ UNCHANGED <<att, attempts, channels, cleaning>>
        \/ /\ ~Closed /\ existing # None /\ ~Current(existing)
           /\ joining' = [joining EXCEPT ![l] = [pc |-> "cancel", restore |-> restore,
                                                 att |-> None]]
           /\ Cancels({Cancel(<<"join", l>>, existing)})
           /\ UNCHANGED <<attempts, channels>>
        \/ /\ ~Closed /\ existing = None
           /\ Creates(l, restore) \/ Expired(l)
           /\ UNCHANGED cleaning

\* join(link)
JoinBegin(l) ==
    /\ joining[l].pc = "idle" /\ ~(attempts[l] # None /\ Current(attempts[l]))
    /\ ~Closed /\ Turn(l, FALSE)
    /\ UNCHANGED <<stored, slots, queue, disk, closing, leaves, mishaps>>

\* rejoin and resume read the authorization, and then call join with it
RejoinBegin(l) ==
    /\ joining[l].pc = "idle" /\ ~Closed
    /\ RoomOf[l] \in stored /\ disk[RoomOf[l]].resume = l
    /\ joining' = [joining EXCEPT ![l].pc = "turn"]
    /\ UNCHANGED <<att, attempts, channels, stored, slots, queue, cleaning, disk, closing,
                   leaves, mishaps>>

RejoinTurn(l) ==
    /\ joining[l].pc = "turn"
    /\ Turn(l, TRUE)
    /\ UNCHANGED <<stored, slots, queue, disk, closing, leaves, mishaps>>

\* the old attempt is gone; a closed client ends the call as an expired join does
JoinCreate(l) ==
    /\ joining[l].pc = "cancel" /\ ~Busy(<<"join", l>>)
    /\ \/ Expired(l)
       \/ ~Closed /\ Creates(l, joining[l].restore)
    /\ UNCHANGED <<stored, slots, queue, cleaning, disk, closing, leaves, mishaps>>

\* the status of a restore cannot be written in a directory that is gone: the call fails, and
\* the attempt stays registered without a task
JoinRegister(l) ==
    LET a == joining[l].att
    IN  /\ joining[l].pc = "register"
        /\ IF RoomOf[l] \in stored
           THEN Registered(l, a, TRUE, "request") /\ To(l, "request")
           ELSE Registered(l, a, TRUE, "ended") /\ Returns(l)
        /\ UNCHANGED <<stored, slots, queue, cleaning, disk, closing, leaves, mishaps>>

\* the join is requested and the task begins.  settleAutoConfirmed, which gives a confirmed one
\* up to 15 seconds to connect, may as well give it none
JoinRequested(l) ==
    LET a == joining[l].att
    IN  /\ joining[l].pc = "request" /\ ~Closed /\ ~att[a].aborted
        /\ att' = [att EXCEPT ![a].pc = "poll"]
        /\ Returns(l)
        /\ UNCHANGED <<attempts, channels, stored, slots, queue, cleaning, disk, closing,
                       leaves, mishaps>>

\* the request fails, is aborted, or comes back to a closed client; here too a status that
\* cannot be written leaves the attempt registered
JoinThrows(l) ==
    LET a == joining[l].att
        r == RoomOf[l]
        restore == joining[l].restore
        unwritten == restore /\ ~Closed /\ ~att[a].aborted /\ r \notin stored
    IN  /\ joining[l].pc = "request"
        /\ IF Closed \/ att[a].aborted THEN UNCHANGED mishaps ELSE Mishap
        /\ Returns(l)
        /\ att' = [att EXCEPT ![a] = TaskEnds(@)]
        /\ attempts' = IF unwritten THEN attempts ELSE [attempts EXCEPT ![l] = None]
        /\ \E terminal \in BOOLEAN :
              disk' = IF restore /\ terminal THEN [disk EXCEPT ![r].resume = None] ELSE disk
        /\ UNCHANGED <<channels, stored, slots, queue, cleaning, closing, leaves>>

-----------------------------------------------------------------------------
(* background: what an attempt does until it is connected                   *)


\* the catch of a task that is current: clean up first, abort last
Failing(a) ==
    /\ \E terminal \in BOOLEAN :
          att' = [att EXCEPT ![a] = [Taken(@) EXCEPT !.pc = "failing", !.opening = FALSE,
                                                     !.claim = "none",
                                                     !.dead = terminal /\ att[a].files]]
    /\ cleaning' = cleaning \cup {Cleanup(<<"failed", a>>, a)}

\* confirmed: the credentials name the room, and the claim queues behind its other changes
PollAnswered(a) ==
    LET r == Room(a)
    IN  /\ att[a].pc = "poll" /\ Current(a)
        /\ att' = [att EXCEPT ![a].pc = "claim", ![a].claim = "queued"]
        /\ queue' = [queue EXCEPT ![r] = Append(@, [kind |-> "claim", att |-> a, begun |-> FALSE])]
        /\ UNCHANGED <<attempts, channels, stored, slots, joining, cleaning, disk, closing,
                       leaves, mishaps>>

\* mutant: the slot of a claim that came to nothing is kept
Unslotted_Kept(a) == slots

\* the slot taken by a claim that came to nothing
Unslotted(a) == IF Room(a) \in stored THEN slots ELSE slots \ {Room(a)}

\* the claim has resolved
ClaimSeen(a) ==
    /\ att[a].pc = "claim" /\ att[a].claim = "done"
    /\ att' = [att EXCEPT ![a] = IF Current(a) THEN [@ EXCEPT !.pc = "write", !.claim = "none"]
                                 ELSE TaskEnds(@)]
    /\ UNCHANGED <<attempts, channels, stored, slots, queue, joining, cleaning, disk,
                   closing, leaves, mishaps>>

\* the claim was refused, or its files could not be written
ClaimRefused(a) ==
    /\ att[a].pc = "claim" /\ att[a].claim = "refused"
    /\ IF Current(a) THEN Failing(a)
       ELSE att' = [att EXCEPT ![a] = TaskEnds(@)] /\ UNCHANGED cleaning
    /\ UNCHANGED <<attempts, channels, stored, slots, queue, joining, disk, closing,
                   leaves, mishaps>>

\* session.json, and startSession if the attempt is still current
WriteSession(a) ==
    /\ att[a].pc = "write" /\ Writable(a)
    /\ disk' = [disk EXCEPT ![Room(a)].session = a]
    /\ att' = [att EXCEPT ![a] = IF Current(a) THEN [@ EXCEPT !.pc = "start", !.opening = TRUE]
                                 ELSE TaskEnds(@)]
    /\ UNCHANGED <<attempts, channels, stored, slots, queue, joining, cleaning, closing,
                   leaves, mishaps>>

\* mutant: a session that opens too late is kept
SessionOpens_Late(a) ==
    /\ att[a].opening
    /\ att' = [att EXCEPT ![a] = [@ EXCEPT !.opening = FALSE, !.session = "live",
                                           !.pc = IF Current(a) THEN "ready" ELSE @]]
    /\ UNCHANGED <<attempts, channels, stored, slots, queue, joining, cleaning, disk, closing,
                   leaves, mishaps>>

\* startSession does not hear the abort: a session that opens too late stops itself, and one
\* that fails to is not missed
SessionOpens(a) ==
    /\ att[a].opening
    /\ att' = IF Current(a)
              THEN [att EXCEPT ![a] = [@ EXCEPT !.opening = FALSE, !.session = "live",
                                                !.pc = "ready"]]
              ELSE [att EXCEPT ![a].opening = FALSE]
    /\ UNCHANGED <<attempts, channels, stored, slots, queue, joining, cleaning, disk,
                   closing, leaves, mishaps>>

\* reported ready, invited and in the room
Invited(a) ==
    /\ att[a].pc = "ready" /\ Current(a)
    /\ att' = [att EXCEPT ![a].pc = "sync"]
    /\ UNCHANGED <<attempts, channels, stored, slots, queue, joining, cleaning, disk, closing,
                   leaves, mishaps>>

\* the mode is written, the gap is read; then, if the attempt is still current, it is connected
\* and its link is saved for a rejoin
Joined(a) ==
    /\ att[a].pc = "sync" /\ Writable(a)
    /\ att' = [att EXCEPT ![a] = TaskEnds(@)]
    /\ disk' = IF Current(a) THEN [disk EXCEPT ![Room(a)].resume = att[a].link] ELSE disk
    /\ UNCHANGED <<attempts, channels, stored, slots, queue, joining, cleaning, closing,
                   leaves, mishaps>>

\* the poll ends, the start is refused, no invite arrives, something cannot be written
TaskFails(a) ==
    /\ att[a].pc \in {"poll", "write", "start", "ready", "sync"} /\ Current(a) /\ Mishap
    /\ Failing(a)
    /\ UNCHANGED <<attempts, channels, stored, slots, queue, joining, disk, closing, leaves>>

\* the files of a room that has been left
Unwritable(a) ==
    /\ att[a].pc \in {"write", "sync"} /\ ~Writable(a)
    /\ IF Current(a) THEN Failing(a)
       ELSE att' = [att EXCEPT ![a] = TaskEnds(@)] /\ UNCHANGED cleaning
    /\ UNCHANGED <<attempts, channels, stored, slots, queue, joining, disk, closing,
                   leaves, mishaps>>

\* the abort comes last, and not at all if the status cannot be written
FailureHandled(a) ==
    /\ att[a].pc = "failing" /\ ~Busy(<<"failed", a>>)
    /\ att' = [att EXCEPT ![a] = [TaskEnds(@) EXCEPT !.aborted = att[a].aborted \/ Writable(a)]]
    /\ UNCHANGED <<attempts, channels, stored, slots, queue, joining, cleaning, disk,
                   closing, leaves, mishaps>>

\* mutant: the claim is awaited without looking for an abort
Interruptible_NotClaim == {"poll", "start", "ready"}

\* wait: what an abort interrupts, the claim in the queue of its room among it
Interruptible == {"poll", "claim", "start", "ready"}

AbortSeen(a) ==
    /\ att[a].aborted /\ att[a].pc \in Interruptible
    /\ att' = [att EXCEPT ![a] = TaskEnds(@)]
    /\ slots' = IF att[a].pc = "claim" THEN Unslotted(a) ELSE slots
    /\ UNCHANGED <<attempts, channels, stored, queue, joining, cleaning, disk, closing,
                   leaves, mishaps>>

\* onEnded: the homeserver ends the session; a terminal end is cleaned up in the intake queue
SessionEnds(a) ==
    /\ att[a].session = "live" /\ Current(a) /\ Mishap
    /\ \E terminal \in BOOLEAN :
          /\ att' = [att EXCEPT ![a] = [IF terminal THEN Taken(@) ELSE @
                                        EXCEPT !.aborted = TRUE, !.dead = terminal]]
          /\ cleaning' = IF terminal THEN cleaning \cup {Cleanup(<<"ended", a>>, a)} ELSE cleaning
    /\ UNCHANGED <<attempts, channels, stored, slots, queue, joining, disk, closing, leaves>>

-----------------------------------------------------------------------------
(* The changes of a room: claims and leaves, one at a time                  *)

FirstChange(r) == queue[r][1]

IsFirst(r, kind, begun) ==
    /\ queue[r] # <<>> /\ FirstChange(r).kind = kind /\ FirstChange(r).begun = begun
    /\ ~Busy(<<"room", r>>)

Begun(r) == queue' = [queue EXCEPT ![r][1].begun = TRUE]

Finished(r) == queue' = [queue EXCEPT ![r] = Tail(@)]

\* mutant: the attempt that has the room is left alone
CancelFirst_Nobody(r, previous) == UNCHANGED <<att, cleaning>>

\* what the first change of r cancels before it goes on
CancelFirst(r, previous) == Cancels({Cancel(<<"room", r>>, a) : a \in {previous} \ {None}})

\* the promise of the claim; an attempt that was aborted no longer looks at it
Resolved(a, how) == att' = [att EXCEPT ![a].claim = IF att[a].pc = "claim" THEN how ELSE @]

\* the claim's turn: a slot, then the attempt that has the room is cancelled
ClaimTurn(r) ==
    LET a == FirstChange(r).att
        previous == IF channels[r] = a THEN None ELSE channels[r]
    IN  /\ IsFirst(r, "claim", FALSE)
        /\ IF ~Current(a)
           THEN Finished(r) /\ Resolved(a, "done") /\ UNCHANGED <<slots, cleaning>>
           ELSE IF r \notin slots /\ Cardinality(slots) >= MaxSlots
           THEN Finished(r) /\ Resolved(a, "refused") /\ UNCHANGED <<slots, cleaning>>
           ELSE Begun(r) /\ slots' = slots \cup {r} /\ CancelFirst(r, previous)
        /\ UNCHANGED <<attempts, channels, stored, joining, disk, closing, leaves, mishaps>>

\* the attempt has the room, and is refused all the same if channel.json cannot be written;
\* or the directory cannot be made, and the slot is given back
ClaimFinish(r) ==
    LET a == FirstChange(r).att
    IN  /\ IsFirst(r, "claim", TRUE)
        /\ Finished(r)
        /\ \/ ~Current(a) /\ Resolved(a, "done") /\ UNCHANGED <<channels, stored, slots, mishaps>>
           \/ /\ Current(a)
              /\ \E how \in {"done", "refused"} :
                    /\ att' = [att EXCEPT ![a].claim = how, ![a].files = TRUE]
                    /\ IF how = "done" THEN UNCHANGED mishaps ELSE Mishap
              /\ channels' = [channels EXCEPT ![r] = a]
              /\ stored' = stored \cup {r}
              /\ UNCHANGED slots
           \/ /\ Current(a) /\ Mishap
              /\ att' = [att EXCEPT ![a].claim = "refused", ![a].files = TRUE]
              /\ slots' = Unslotted(a)
              /\ UNCHANGED <<channels, stored>>
        /\ UNCHANGED <<attempts, joining, cleaning, disk, closing, leaves>>

LeaveBegin(r) ==
    /\ ~Closed /\ leaves < MaxLeaves /\ r \in stored
    /\ leaves' = leaves + 1
    /\ queue' = [queue EXCEPT ![r] = Append(@, [kind |-> "leave", att |-> None, begun |-> FALSE])]
    /\ UNCHANGED <<att, attempts, channels, stored, slots, joining, cleaning, disk,
                   closing, mishaps>>

LeaveTurn(r) ==
    /\ IsFirst(r, "leave", FALSE)
    /\ IF r \notin stored THEN Finished(r) /\ UNCHANGED <<att, cleaning>>
       ELSE Begun(r) /\ CancelFirst(r, channels[r])
    /\ UNCHANGED <<attempts, channels, stored, slots, joining, disk, closing, leaves, mishaps>>

\* the directory goes, and the room with it
LeaveFinish(r) ==
    /\ IsFirst(r, "leave", TRUE)
    /\ Finished(r)
    /\ disk' = [disk EXCEPT ![r] = [session |-> None, resume |-> None]]
    /\ channels' = [channels EXCEPT ![r] = None]
    /\ stored' = stored \ {r}
    /\ slots' = slots \ {r}
    /\ UNCHANGED <<att, attempts, joining, cleaning, closing, leaves, mishaps>>

-----------------------------------------------------------------------------
(* close                                                                    *)

\* the attempts of all links
Registry == {attempts[l] : l \in Links} \ {None}

CloseBegin ==
    /\ closing = "open"
    /\ closing' = "waiting"
    /\ att' = Aborted(Registry)
    /\ UNCHANGED <<attempts, channels, stored, slots, queue, joining, cleaning, disk,
                   leaves, mishaps>>

\* the joins have ended, then the changes of rooms; no new one begins, for nothing is current
CloseCancels ==
    /\ closing = "waiting"
    /\ \A l \in Links : joining[l].pc = "idle"
    /\ \A r \in Rooms : queue[r] = <<>>
    /\ closing' = "attempts"
    /\ Cancels({Cancel(<<"close", a>>, a) : a \in Registry})
    /\ UNCHANGED <<attempts, channels, stored, slots, queue, joining, disk, leaves, mishaps>>

CloseDone ==
    /\ closing = "attempts" /\ \A a \in Attempts : ~Busy(<<"close", a>>)
    /\ closing' = "done"
    /\ UNCHANGED <<att, attempts, channels, stored, slots, queue, joining, cleaning, disk,
                   leaves, mishaps>>

-----------------------------------------------------------------------------

Join == \E l \in Links :
    JoinBegin(l) \/ RejoinBegin(l) \/ RejoinTurn(l) \/ JoinCreate(l) \/ JoinRegister(l)
    \/ JoinRequested(l) \/ JoinThrows(l)

Background == \E a \in Attempts :
    PollAnswered(a) \/ ClaimSeen(a) \/ ClaimRefused(a) \/ WriteSession(a) \/ SessionOpens(a)
    \/ Invited(a) \/ Joined(a)
    \/ TaskFails(a) \/ Unwritable(a) \/ FailureHandled(a) \/ AbortSeen(a) \/ SessionEnds(a)

RoomChange == \E r \in Rooms :
    ClaimTurn(r) \/ ClaimFinish(r) \/ LeaveBegin(r) \/ LeaveTurn(r) \/ LeaveFinish(r)

Close == CloseBegin \/ CloseCancels \/ CloseDone

ClientNext == Join \/ Background \/ RoomChange \/ CleanStep \/ Close

ClientSpec == ClientInit /\ [][ClientNext]_clientVars

\* The steps of the process itself: files, stops and timers.  Answers of the network are not
\* among them, except that a join that is aborted, or finds the client closed, is not waited for.
OwnStep ==
    \/ CleanStep
    \/ \E l \in Links :
          \/ JoinCreate(l) \/ JoinRegister(l)
          \/ /\ joining[l].pc = "request" /\ (Closed \/ att[joining[l].att].aborted)
             /\ JoinThrows(l)
    \/ \E a \in Attempts :
          ClaimSeen(a) \/ ClaimRefused(a) \/ WriteSession(a) \/ Joined(a) \/ Unwritable(a)
          \/ FailureHandled(a) \/ AbortSeen(a)
    \/ \E r \in Rooms : ClaimTurn(r) \/ ClaimFinish(r) \/ LeaveTurn(r) \/ LeaveFinish(r)
    \/ CloseCancels \/ CloseDone

\* The process goes on, and the turn of a rejoin comes.
FairClientSpec ==
    ClientSpec /\ WF_clientVars(OwnStep) /\ WF_clientVars(\E l \in Links : RejoinTurn(l))

-----------------------------------------------------------------------------
(* Properties                                                               *)

AttemptStates ==
    [pc : Steps, link : Links \cup {None}, files : BOOLEAN, aborted : BOOLEAN,
     claim : {"none", "queued", "done", "refused"}, opening : BOOLEAN,
     session : {"none", "live", "stopping"}, dead : BOOLEAN, displaced : BOOLEAN]

JoinStates == [pc : {"idle", "turn", "cancel", "register", "request"},
               restore : BOOLEAN, att : Attempts \cup {None}]

Cleanups == [by : Cleaners, of : Attempts, step : {"task", "stopping", "files"}]

Changes == [kind : {"claim", "leave"}, att : Attempts \cup {None}, begun : BOOLEAN]

\* The values of the variables.
ClientTypeOK ==
    /\ att \in [Attempts -> AttemptStates]
    /\ attempts \in [Links -> Attempts \cup {None}]
    /\ channels \in [Rooms -> Attempts \cup {None}]
    /\ stored \subseteq Rooms /\ slots \subseteq Rooms
    /\ queue \in [Rooms -> Seq(Changes)]
    /\ joining \in [Links -> JoinStates]
    /\ cleaning \subseteq Cleanups
    /\ disk \in [Rooms -> [session : Attempts \cup {None}, resume : Links \cup {None}]]
    /\ closing \in {"open", "waiting", "attempts", "done", "failed"}
    /\ leaves \in 0..MaxLeaves /\ mishaps \in 0..MaxMishaps

\* Once close has answered, no session is live, no task runs and no credentials are on disk,
\* and none comes back: not from a join that was under way, not from a session that was still
\* starting (client-impl.ts:444).
ClosedLeavesNothing ==
    closing = "done" =>
       /\ \A a \in Attempts : att[a].session # "live" /\ att[a].pc \in {"unused", "ended"}
       /\ \A r \in Rooms : disk[r].session = None

\* A live session that has not ended is the one its room names, so read, send, leave and the
\* next claim find it; unless a restore took the room from it without a claim.
ChannelNamesItsSession ==
    \A a \in Attempts :
       att[a].session = "live" /\ Current(a) /\ ~att[a].displaced => channels[Room(a)] = a

\* When nothing is under way, a slot is taken for each room with a directory and for no other.
SlotsMatch ==
    /\ ~Closed /\ cleaning = {}
    /\ \A r \in Rooms : queue[r] = <<>>
    /\ \A a \in Attempts : att[a].pc \in {"unused", "ended"}
    => slots = stored

\* Somebody waits: for its turn in the queue of a room, for an attempt it cancels, or for close.
Waiting ==
    \/ Closed /\ closing \notin {"done", "failed"}
    \/ \E r \in Rooms : queue[r] # <<>>

\* The waits end: every claim and leave of a room gets its turn and finishes, and close answers,
\* although a change waits for the attempt it cancels, whose own claim may wait behind it.
EverythingAnswers == Waiting ~> ~Waiting
=============================================================================
