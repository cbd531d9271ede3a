--------------------------- MODULE InboxDelivery ----------------------------
(***************************************************************************)
(* How an agent is handed what arrives in one of its channels: the inbox,   *)
(* the delivery cursor and the listening mode are three files of the        *)
(* channel's state directory (packages/agent/src/inbox.ts, mode.ts).  The   *)
(* client process appends to the inbox and changes the mode, one task after *)
(* another (client-impl.ts, attempt.appends).  Hook processes, which the    *)
(* harness starts and may overlap, deliver from the cursor on               *)
(* (harness/deliver-core.ts), and so does a background agent that waits in  *)
(* `read` (client-impl.ts).  No lock is held: advanceCursor and markNudged  *)
(* read the cursor, compare, and write it later.                            *)
(*                                                                         *)
(* A step is one access to a file.  An entry is its place in the inbox.     *)
(* The inbox only grows, so the cursor's lastDeliveredEventId is that of    *)
(* entry deliveredCount, and the slice that advanceCursor reads again is    *)
(* the one it was given.                                                    *)
(***************************************************************************)
EXTENDS Naturals, Sequences, FiniteSets

CONSTANTS
    Hooks,      \* hook processes
    Readers,    \* calls of read with `wait`
    client,     \* the client process
    HookEvents, \* what hooks are run for, see HookEvent
    Kinds,      \* the kinds of entries that arrive
    Modes,      \* the listening modes that are used
    FrameSize,  \* MAX_FRAME_MESSAGES
    PageLimit,  \* the limit of a read
    PageCap,    \* the largest page of a read
    MaxInbox,   \* bound: how many entries arrive
    MaxChanges, \* bound: how often the mode or the archive flag is changed
    MaxFaults,  \* bound: how many processes die or requests fail
    None

Procs == Hooks \cup Readers \cup {client}

(* prompt: a busy Claude is only steered.  tool: steered only.  stop: what   *)
(* wakes the agent re-opens the turn, as context or as a fixed nudge.        *)
HookEvent == [steerOnly : BOOLEAN, requireWake : BOOLEAN, quiet : BOOLEAN, shown : BOOLEAN]

ASSUME ProcsAssumption ==
    /\ Hooks \cap Readers = {} /\ client \notin Hooks \cup Readers
    /\ HookEvents \subseteq HookEvent
    /\ Kinds \subseteq {"ping", "human", "agent", "event"}
    /\ Modes \subseteq {"steer", "sync", "async", "mute"}
    /\ "sync" \in Modes
ASSUME BoundsAssumption ==
    /\ FrameSize \in Nat \ {0} /\ PageLimit \in Nat \ {0} /\ PageCap \in Nat \ {0}
    /\ MaxInbox \in Nat /\ MaxChanges \in Nat /\ MaxFaults \in Nat

VARIABLES
    inbox,     \* inbox.jsonl
    cursor,    \* cursor.json
    mode,      \* mode.json: the mode and the owner's archive flag
    delegate,  \* delegate.json: a background agent's lease is running
    run,       \* the processes: where each is, and its local variables
    changes, faults,
    fate       \* history: what became of each entry

vars == <<inbox, cursor, mode, delegate, run, changes, faults, fate>>

Entries == 1..MaxInbox
Cursor == [count : 0..MaxInbox,      \* deliveredCount
           nudged : 0..MaxInbox,     \* nudgedCount, 0 when absent
           shown : 0..MaxInbox]      \* the entry of shownEventId, 0 when absent
Fates == {"shown", "nudged", "skipped", "unseen", "lost"}
ModeFile == [mode : Modes, archived : BOOLEAN]

NoCursor == [count |-> 0, nudged |-> 0, shown |-> 0]
Idle == [pc |-> "idle", event |-> None, mode |-> None, next |-> None, need |-> {},
         cur |-> 0, start |-> 0, old |-> NoCursor, size |-> 0, upto |-> 0, tries |-> 0]

Init ==
    /\ inbox = <<>>
    /\ cursor = NoCursor
    /\ mode \in [mode : Modes, archived : {FALSE}]
    /\ delegate = FALSE
    /\ run = [p \in Procs |-> Idle]
    /\ changes = 0 /\ faults = 0
    /\ fate = [i \in Entries |-> {}]

-----------------------------------------------------------------------------
(* What wakes an agent *)

Quiet == {"async", "mute"}

\* wakesOn, for what wakesAgent lets through
Wakes(m, kind) ==
    CASE m = "mute" -> FALSE
      [] m = "async" -> kind = "ping"
      [] m = "sync" -> kind \in {"ping", "human"}
      [] m = "steer" -> kind # "event"

IsWakeEntry(kind) == kind # "event"

\* wakeStart
WakeStart(c) == IF c.nudged > c.count THEN c.nudged ELSE c.count

\* readListeningMode: an archived channel, or one a background agent owns, is mute.
EffectiveMode(m) == IF m.archived THEN "mute" ELSE m.mode

-----------------------------------------------------------------------------
(* The processes *)

Go(p, r) == run' = [run EXCEPT ![p] = r]
To(p, step) == Go(p, [run[p] EXCEPT !.pc = step])
Files == <<inbox, cursor, mode, delegate, changes, faults, fate>>

\* Mutant: deliveries start where wakes do, past what was only nudged for.
ReadCursor_PastNudges(p) ==
    /\ run[p].pc = "cursor"
    /\ Go(p, [run[p] EXCEPT !.pc = "entries", !.cur = WakeStart(cursor)])
    /\ UNCHANGED Files

\* unread: the cursor first, the entries after it.
ReadCursor(p) ==
    /\ run[p].pc = "cursor"
    /\ Go(p, [run[p] EXCEPT !.pc = "entries", !.cur = cursor.count])
    /\ UNCHANGED Files

\* The entries of the inbox that `from` has not passed.
Pending(from) == (from + 1)..Len(inbox)

\* advanceCursor: the cursor is compared with the expected one ...
Unmoved(p) == cursor.count = run[p].cur

\* ... and written, in a step of its own.  A delivery past the nudges drops them.
NextCursor(p, shown) ==
    LET r == run[p] IN
    [count |-> r.upto,
     shown |-> IF shown THEN r.upto ELSE r.old.shown,
     nudged |-> IF WakeStart(r.old) > r.upto THEN r.old.nudged ELSE 0]

\* Mutant: the cursor is moved to the end of the inbox, past what was taken.
Write_ToTheEnd(p, shown, r) ==
    /\ run[p].pc = "write"
    /\ cursor' = [NextCursor(p, shown) EXCEPT !.count = Len(inbox)]
    /\ Go(p, r)

Write(p, shown, r) ==
    /\ run[p].pc = "write"
    /\ cursor' = NextCursor(p, shown)
    /\ Go(p, r)

\* The cursor is written: what was taken is still to be handed over.
Holding(p) == [Idle EXCEPT !.pc = "emit", !.event = run[p].event, !.cur = run[p].cur, !.upto = run[p].upto]

\* What a process took and has not handed over yet.
Batch(p) == (run[p].cur + 1)..run[p].upto
Mark(batch, what) == fate' = [i \in Entries |-> IF i \in batch THEN fate[i] \cup {what} ELSE fate[i]]

\* markNudged: compare, and write later what was read, with the nudges noted.
NudgeCheck(p, after) ==
    /\ run[p].pc = "nudgeCheck"
    /\ IF Unmoved(p) THEN Go(p, [run[p] EXCEPT !.pc = "nudgeWrite", !.old = cursor])
                     ELSE Go(p, [Idle EXCEPT !.pc = after, !.next = run[p].next])
    /\ UNCHANGED Files

NudgeWrite(p, after) ==
    /\ run[p].pc = "nudgeWrite"
    /\ cursor' = [run[p].old EXCEPT !.nudged = run[p].size]
    /\ Go(p, [Idle EXCEPT !.pc = after, !.next = run[p].next])
    /\ UNCHANGED <<inbox, mode, delegate, changes, faults, fate>>

-----------------------------------------------------------------------------
(* A hook: channelFrames and deliverCore *)

\* readModeState, the first half of readListeningMode
HookBegin(h, e) ==
    /\ run[h].pc = "idle"
    /\ Go(h, [Idle EXCEPT !.pc = "lease", !.event = e, !.mode = EffectiveMode(mode)])
    /\ UNCHANGED Files

\* isDelegated, and where the mode leads
HookLease(h) ==
    LET r == run[h] IN
    /\ run[h].pc = "lease"
    /\ IF delegate \/ r.mode = "mute" \/ (r.event.steerOnly /\ r.mode # "steer") THEN Go(h, Idle)
       ELSE IF r.mode = "async" THEN Go(h, [r EXCEPT !.pc = "nudge", !.need = {"cursor", "entries"}])
       ELSE To(h, "cursor")
    /\ UNCHANGED Files

\* Asynchronous: the cursor and the entries are read, in either order; a direct
\* ping that was not nudged for yet earns one nudge, and the backlog stays.
HookNudge(h) ==
    /\ run[h].pc = "nudge"
    /\ \E what \in run[h].need :
          LET read == IF what = "cursor"
                      THEN [run[h] EXCEPT !.cur = cursor.count, !.start = WakeStart(cursor)]
                      ELSE [run[h] EXCEPT !.size = Len(inbox)]
              r == [read EXCEPT !.need = @ \ {what}]
              pinged == \E i \in (r.start + 1)..r.size : Wakes("async", inbox[i])
          IN Go(h, IF r.need # {} THEN r
                   ELSE IF pinged THEN [Idle EXCEPT !.pc = "nudgeCheck", !.cur = r.cur, !.size = r.size]
                   ELSE Idle)
    /\ UNCHANGED Files

\* Whether a batch gives a hook a reason to speak.
WorthIt(h, batch) ==
    \/ ~run[h].event.requireWake
    \/ \E i \in batch : IF run[h].event.quiet THEN Wakes(run[h].mode, inbox[i]) ELSE IsWakeEntry(inbox[i])

\* selectFrame: as many of the pending entries as a frame holds.
HookEntries(h) ==
    /\ run[h].pc = "entries"
    /\ LET from == run[h].cur
           upto == IF from + FrameSize < Len(inbox) THEN from + FrameSize ELSE Len(inbox)
       IN IF Pending(from) # {} /\ WorthIt(h, (from + 1)..upto)
          THEN Go(h, [run[h] EXCEPT !.pc = "check", !.upto = upto])
          ELSE Go(h, Idle)
    /\ UNCHANGED Files

\* A conflict is met with one fresh look at what is unread.
HookCheck(h) ==
    /\ run[h].pc = "check"
    /\ Go(h, IF Unmoved(h) THEN [run[h] EXCEPT !.pc = "write", !.old = cursor]
             ELSE IF run[h].tries = 0 THEN [run[h] EXCEPT !.pc = "cursor", !.tries = 1]
             ELSE Idle)
    /\ UNCHANGED Files

\* Mutant: every delivery earns a read receipt, a fixed nudge too.
HookWrite_AlwaysShown(h) ==
    /\ Write(h, TRUE, Holding(h))
    /\ UNCHANGED <<inbox, mode, delegate, changes, faults, fate>>

HookWrite(h) ==
    /\ Write(h, run[h].event.shown, Holding(h))
    /\ UNCHANGED <<inbox, mode, delegate, changes, faults, fate>>

\* The frame, or the nudge that stands for it, is written to standard output.
HookEmit(h) ==
    /\ run[h].pc \in {"emit", "emitNudge"}
    /\ IF run[h].pc = "emit" THEN Mark(Batch(h), IF run[h].event.shown THEN "shown" ELSE "nudged")
                             ELSE UNCHANGED fate
    /\ Go(h, Idle)
    /\ UNCHANGED <<inbox, cursor, mode, delegate, changes, faults>>

HookStep(h) ==
    \/ HookLease(h) \/ HookNudge(h) \/ NudgeCheck(h, "emitNudge") \/ NudgeWrite(h, "emitNudge")
    \/ ReadCursor(h) \/ HookEntries(h) \/ HookCheck(h) \/ HookWrite(h) \/ HookEmit(h)

-----------------------------------------------------------------------------
(* read with `wait`, by a background agent *)

\* delegateChannel
WaitBegin(g) ==
    /\ run[g].pc = "idle"
    /\ delegate' = TRUE
    /\ To(g, "mode")
    /\ UNCHANGED <<inbox, cursor, mode, changes, faults, fate>>

WaitMode(g) ==
    /\ run[g].pc = "mode"
    /\ Go(g, [run[g] EXCEPT !.pc = "cursor", !.mode = EffectiveMode(mode)])
    /\ UNCHANGED Files

\* Nothing to wake for, or a conflict: look again, until the deadline.
WaitAgain(g) == Go(g, [Idle EXCEPT !.pc = "mode"]) \/ Go(g, Idle)

WaitEntries(g) ==
    /\ run[g].pc = "entries"
    /\ IF \E i \in Pending(run[g].cur) : Wakes(run[g].mode, inbox[i])
       THEN Go(g, [run[g] EXCEPT !.pc = "check", !.upto = Len(inbox)])
       ELSE WaitAgain(g)
    /\ UNCHANGED Files

WaitCheck(g) ==
    /\ run[g].pc = "check"
    /\ \/ Unmoved(g) /\ Go(g, [run[g] EXCEPT !.pc = "write", !.old = cursor])
       \/ ~Unmoved(g) /\ WaitAgain(g)
    /\ UNCHANGED Files

WaitWrite(g) ==
    /\ Write(g, TRUE, Holding(g))
    /\ UNCHANGED <<inbox, mode, delegate, changes, faults, fate>>

\* readOne: a page of the newest messages, as long as what was consumed.
WaitPage(g) ==
    /\ run[g].pc = "emit"
    /\ LET taken == run[g].upto - run[g].cur
           wanted == IF taken > PageLimit THEN taken ELSE PageLimit
           size == IF wanted > PageCap THEN PageCap ELSE wanted
           page == {i \in 1..Len(inbox) : i + size > Len(inbox)}
       IN fate' = [i \in Entries |->
             IF i \in page THEN fate[i] \cup {"shown"}
             ELSE IF i \in Batch(g) THEN fate[i] \cup {"unseen"} ELSE fate[i]]
    /\ Go(g, Idle)
    /\ UNCHANGED <<inbox, cursor, mode, delegate, changes, faults>>

\* The lease runs out.
LeaseEnds ==
    /\ delegate /\ delegate' = FALSE
    /\ UNCHANGED <<inbox, cursor, mode, run, changes, faults, fate>>

WaitStep(g) ==
    \/ WaitMode(g) \/ ReadCursor(g) \/ WaitEntries(g) \/ WaitCheck(g) \/ WaitWrite(g) \/ WaitPage(g)

-----------------------------------------------------------------------------
(* The client: intake and mode changes, one at a time *)

\* appendInbox
Append1(kind) ==
    /\ run[client].pc = "idle" /\ Len(inbox) < MaxInbox
    /\ inbox' = Append(inbox, kind)
    /\ UNCHANGED <<cursor, mode, delegate, run, changes, faults, fate>>

\* skipBacklog when a quiet channel becomes loud, skipPings when a muted one
\* becomes async.
Change(next, step) ==
    /\ run[client].pc = "idle"
    /\ changes < MaxChanges /\ changes' = changes + 1
    /\ Go(client, [Idle EXCEPT !.pc = step, !.next = next])
    /\ UNCHANGED <<inbox, cursor, mode, delegate, faults, fate>>

\* applyListeningMode, for the owner or, with keepBacklog perhaps, for the agent,
\* who may not change the mode of an archived channel.
ApplyListeningMode(m, keepBacklog) ==
    /\ keepBacklog => ~mode.archived /\ m # mode.mode
    /\ Change([mode EXCEPT !.mode = m],
              IF mode.mode \in Quiet /\ m \notin Quiet /\ ~keepBacklog THEN "cursor"
              ELSE IF mode.mode = "mute" /\ m = "async" THEN "pingCursor" ELSE "set")

\* applyArchived
ApplyArchived(archived) ==
    /\ mode.archived # archived
    /\ Change([mode EXCEPT !.archived = archived],
              IF ~archived /\ mode.mode \notin Quiet THEN "cursor"
              ELSE IF ~archived /\ mode.mode = "async" THEN "pingCursor" ELSE "set")

\* skipBacklog: all that is unread is passed over.
SkipEntries ==
    /\ run[client].pc = "entries"
    /\ Go(client, [run[client] EXCEPT !.pc = "check", !.upto = Len(inbox)])
    /\ UNCHANGED Files

\* A second conflict ends the task: the mode stays as it was.
SkipCheck ==
    /\ run[client].pc = "check"
    /\ Go(client, IF Unmoved(client)
                  THEN [run[client] EXCEPT !.pc = IF Batch(client) = {} THEN "set" ELSE "write", !.old = cursor]
                  ELSE IF run[client].tries = 0 THEN [run[client] EXCEPT !.pc = "cursor", !.tries = 1]
                  ELSE Idle)
    /\ UNCHANGED Files

SkipWrite ==
    /\ Write(client, FALSE, [Idle EXCEPT !.pc = "set", !.next = run[client].next])
    /\ Mark(Batch(client), "skipped")
    /\ UNCHANGED <<inbox, mode, delegate, changes, faults>>

\* skipPings: what was ignored while muted must not nudge later.
PingCursor ==
    /\ run[client].pc = "pingCursor"
    /\ Go(client, [run[client] EXCEPT !.pc = "pingEntries", !.cur = cursor.count])
    /\ UNCHANGED Files

PingEntries ==
    /\ run[client].pc = "pingEntries"
    /\ Go(client, [run[client] EXCEPT !.pc = "nudgeCheck", !.size = Len(inbox)])
    /\ UNCHANGED Files

SetMode ==
    /\ run[client].pc = "set"
    /\ mode' = run[client].next
    /\ Go(client, Idle)
    /\ UNCHANGED <<inbox, cursor, delegate, changes, faults, fate>>

ClientStep ==
    \/ ReadCursor(client) \/ SkipEntries \/ SkipCheck \/ SkipWrite
    \/ PingCursor \/ PingEntries \/ NudgeCheck(client, "set") \/ NudgeWrite(client, "set")
    \/ SetMode

-----------------------------------------------------------------------------
(* A process dies, or a request fails: what it had taken is lost.            *)
Dies(p) ==
    /\ run[p].pc # "idle"
    /\ faults < MaxFaults /\ faults' = faults + 1
    /\ IF run[p].pc = "emit" THEN Mark(Batch(p), "lost") ELSE UNCHANGED fate
    /\ Go(p, Idle)
    /\ UNCHANGED <<inbox, cursor, mode, delegate, changes>>

Next ==
    \/ \E h \in Hooks : HookStep(h) \/ \E e \in HookEvents : HookBegin(h, e)
    \/ \E g \in Readers : WaitBegin(g) \/ WaitStep(g)
    \/ \E k \in Kinds : Append1(k)
    \/ \E m \in Modes, keep \in BOOLEAN : ApplyListeningMode(m, keep)
    \/ \E flag \in BOOLEAN : ApplyArchived(flag)
    \/ ClientStep
    \/ \E p \in Procs : Dies(p)
    \/ LeaseEnds

Spec == Init /\ [][Next]_vars

(* A process that has started goes on; the agent is prompted again and       *)
(* again, by a harness whose prompts deliver without a wake                  *)
(* (promptDeliversWithoutWake); a lease runs out.                            *)
FairSpec ==
    /\ Spec
    /\ \A h \in Hooks : WF_vars(HookStep(h))
    /\ \A h \in Hooks, e \in {e \in HookEvents : ~e.requireWake} : SF_vars(HookBegin(h, e))
    /\ \A g \in Readers : WF_vars(WaitStep(g))
    /\ WF_vars(ClientStep)
    /\ WF_vars(LeaseEnds)

-----------------------------------------------------------------------------
(* Correctness *)

(* The files and the processes' copies of them stay well formed; the cursor *)
(* never points past the inbox.                                             *)
TypeOK ==
    /\ inbox \in Seq(Kinds) /\ Len(inbox) <= MaxInbox
    /\ cursor \in Cursor
    /\ cursor.count <= Len(inbox) /\ cursor.nudged <= Len(inbox) /\ cursor.shown <= Len(inbox)
    /\ mode \in ModeFile
    /\ delegate \in BOOLEAN
    /\ DOMAIN run = Procs
    /\ \A p \in Procs : /\ run[p].cur \in 0..MaxInbox /\ run[p].old \in Cursor
                        /\ {run[p].upto, run[p].size, run[p].start} \subseteq 0..Len(inbox)
    /\ fate \in [Entries -> SUBSET Fates]

\* An entry that some process has taken and is about to hand over.
InFlight(i) == \E p \in Hooks \cup Readers : run[p].pc = "emit" /\ i \in Batch(p)

(* No entry is passed over in silence: what lies behind the cursor was put   *)
(* before the agent, skipped because the owner left a quiet mode, or is in   *)
(* the hands of a process that is about to hand it over or has died.  This   *)
(* survives overlapping hooks, appends and mode changes in the middle of a   *)
(* delivery, and the cursor's lost updates.                                  *)
NothingPassedOver ==
    \A i \in 1..cursor.count : fate[i] # {} \/ InFlight(i)

(* A read receipt is never earned by a fixed nudge or by a skipped backlog:  *)
(* the entry it follows was taken by a delivery of contents.                 *)
ReceiptsFollowContent ==
    cursor.shown > 0 =>
        \/ fate[cursor.shown] \cap {"shown", "unseen", "lost"} # {}
        \/ InFlight(cursor.shown)

\* The channel is listened to, and no mode change is under way.
Loud == EffectiveMode(mode) \notin Quiet /\ ~delegate /\ run[client].pc = "idle"

(* Overlapping hooks lose each other's cursor updates, a turn's end passes    *)
(* over a frame in which nothing wakes the agent, and the mode changes in the *)
(* middle of all that.  Yet in a channel that stays loud, of an agent that is *)
(* prompted again and again, every message that should wake it is put before  *)
(* it, skipped or lost with a process, in the end.                            *)
WakesAreDelivered ==
    <>[]Loud => \A i \in Entries :
        (i <= Len(inbox) /\ inbox[i] \in {"human", "ping"}) ~> fate[i] # {}

(* "Busy agents receive those when their turn ends" (docs/settings.md): the   *)
(* hook of a turn's end that finds nothing to hand over leaves no message     *)
(* unread that wakes the agent.  The code looks for one in the first frame    *)
(* only, so as many quiet messages as a frame holds hide it.                  *)
TurnEndsDeliver ==
    [][\A h \in Hooks :
          HookEntries(h) /\ run'[h].pc = "idle" /\ run[h].event.quiet =>
              ~\E i \in Pending(run[h].cur) : Wakes(run[h].mode, inbox[i])]_vars
=============================================================================
