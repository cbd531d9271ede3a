---------------------------- MODULE ListeningMode ----------------------------
(***************************************************************************)
(* How closely one agent listens to a channel: the owner's commands         *)
(* (packages/agent/src/client-impl.ts intakeMode), the agent's own changes  *)
(* (setMode, idleMute), the owner's archive flag (intakeArchived), and the  *)
(* mode the agent publishes in its member state, which the owner sees and   *)
(* a rejoin adopts.  mode.json is written by mode.ts.                       *)
(*                                                                         *)
(* Commands carry the server's time.  A late decryption, a limited sync or  *)
(* a restart hands them over late, twice or out of order.  The backlog that *)
(* a change of mode skips is InboxDelivery's; here the skip can only fail.  *)
(***************************************************************************)
EXTENDS Naturals, Sequences

CONSTANTS
    Modes,        \* of "mute", "async", "sync" and "steer"
    Locks,        \* of "keep", "on" and "off": what a command says of the lock
    MaxCommands,  \* bound: commands the owner sends
    MaxChanges,   \* bound: changes of its own the agent attempts, and archive notices
    MaxRestarts,  \* bound: processes of the agent that die
    MaxFaults     \* bound: publishes that fail or time out, changes that cannot be written

ASSUME ValuesAssumption ==
    /\ {"mute", "async", "sync"} \subseteq Modes
    /\ Modes \subseteq {"mute", "async", "sync", "steer"}
    /\ Locks \subseteq {"keep", "on", "off"}
    /\ MaxCommands \in Nat

VARIABLES
    asyncOnly,  \* the harness listens no closer than async
    commands,   \* the owner's commands; the place of one is its time
    emitted,    \* the commands this session has handed over
    archived,   \* the owner's archive flag
    running,    \* the agent has joined
    chain,      \* attempt.appends: the changes waiting; the first one is under way
    stage,      \* of the first one: not begun, publishing, published or not
    file,       \* mode.json
    member,     \* the mode in the agent's member state
    flying,     \* publishes that timed out here and may land yet
    changes, restarts, faults,
    told        \* history: what the owner's say amounts to, and what has come in its way

vars == <<asyncOnly, commands, emitted, archived, running, chain, stage, file, member, flying,
          changes, restarts, faults, told>>

\* ATTENTION
Attention == [m \in {"mute", "async", "sync", "steer"} |->
                 CASE m = "mute" -> 0 [] m = "async" -> 1 [] m = "sync" -> 2 [] OTHER -> 3]

Louder(m, n) == IF Attention[m] > Attention[n] THEN m ELSE n

Commands == [mode : Modes, lock : Locks]
Tasks == [kind : {"owner"}, at : 1..MaxCommands]
         \cup [kind : {"agent"}, mode : Modes, self : BOOLEAN]
         \cup [kind : {"archive"}, on : BOOLEAN]
Files == [mode : Modes, by : {"nobody", "owner", "agent"}, at : 0..MaxCommands, pending : BOOLEAN,
          locked : BOOLEAN, archived : BOOLEAN]

\* The closest mode the owner has asked for, the lock and the archive flag as last applied;
\* whether the member state is out of step with the file, since a publish given up on has
\* landed or since the file could not be written; whether the agent has listened closer than
\* asked since then; the commands that could not be written; the commands handed over in
\* earlier sessions, and those of them that are older than the agent's last change.
Tellings == [ceiling : Modes, lock : BOOLEAN, archived : BOOLEAN,
             astray : {"no", "landed", "failed"}, loose : BOOLEAN,
             failed : SUBSET (1..MaxCommands), heard : SUBSET (1..MaxCommands),
             older : SUBSET (1..MaxCommands)]

Fresh(m) == [mode |-> m, by |-> "nobody", at |-> 0, pending |-> FALSE,
             locked |-> FALSE, archived |-> FALSE]

Init ==
    /\ asyncOnly \in BOOLEAN
    /\ commands = <<>> /\ emitted = {}
    /\ archived = FALSE
    /\ running = FALSE
    /\ chain = <<>> /\ stage = "queued"
    /\ file = Fresh("sync")
    /\ member = "sync"
    /\ flying = {}
    /\ changes = 0 /\ restarts = 0 /\ faults = 0
    /\ told = [ceiling |-> "sync", lock |-> FALSE, archived |-> FALSE, astray |-> "no",
               loose |-> FALSE, failed |-> {}, heard |-> {}, older |-> {}]

Fault == faults < MaxFaults /\ faults' = faults + 1
Change == changes < MaxChanges /\ changes' = changes + 1

-----------------------------------------------------------------------------
\* The owner, and what the session hands over.

\* sendListeningMode: the lock is sent only when the owner changes it.
SendCommand(c) ==
    /\ Len(commands) < MaxCommands
    /\ commands' = Append(commands, c)
    /\ UNCHANGED <<asyncOnly, emitted, archived, running, chain, stage, file, member, flying,
                   changes, restarts, faults, told>>

\* A session emits an event once, whenever it is decrypted; a restart begins anew.
IntakeMode(at) ==
    /\ running
    /\ at \in 1..Len(commands) /\ at \notin emitted
    /\ emitted' = emitted \cup {at}
    /\ chain' = Append(chain, [kind |-> "owner", at |-> at])
    /\ UNCHANGED <<asyncOnly, commands, archived, running, stage, file, member, flying,
                   changes, restarts, faults, told>>

\* The notice is sent to the agent's device; without a session it waits there.
Archive ==
    /\ Change
    /\ archived' = ~archived
    /\ IF running THEN chain' = Append(chain, [kind |-> "archive", on |-> archived'])
                  ELSE UNCHANGED chain
    /\ UNCHANGED <<asyncOnly, commands, emitted, running, stage, file, member, flying,
                   restarts, faults, told>>

\* setMode, called for the agent itself or because its owner asked for it.
SetMode(mode, self) ==
    /\ running /\ Change
    /\ chain' = Append(chain, [kind |-> "agent", mode |-> mode, self |-> self])
    /\ UNCHANGED <<asyncOnly, commands, emitted, archived, running, stage, file, member, flying,
                   restarts, faults, told>>

\* The listener timeout, when it is due.
IdleMute ==
    /\ file.mode # "mute" /\ ~file.archived /\ ~file.locked
    /\ SetMode("mute", TRUE)

-----------------------------------------------------------------------------
\* The chain.

First == Head(chain)

Ended == chain' = Tail(chain) /\ stage' = "queued"

\* Mutant: a command that was applied is not published again.
Stale_Applied(at) == at <= file.at

\* The command is the last one applied, and published, or an older one.
Stale(at) == (file.at = at /\ ~file.pending) \/ at < file.at

\* The owner's archive and lock win, and by itself the agent moves down only.
Refused(t) ==
    \/ file.archived \/ file.locked
    \/ asyncOnly /\ t.mode \notin {"async", "mute"}
    \/ t.self /\ Attention[t.mode] > Attention[file.mode]

\* What the task makes of the mode.
Target(t) ==
    IF t.kind = "agent" THEN t.mode
    ELSE LET asked == commands[t.at].mode
         IN  IF asyncOnly /\ asked # "mute" THEN "async" ELSE asked

Dropped(t) ==
    \/ t.kind = "owner" /\ Stale(t.at)
    \/ t.kind = "agent" /\ (Refused(t) \/ t.mode = file.mode)

Drop ==
    /\ chain # <<>> /\ stage = "queued"
    /\ First.kind # "archive" /\ Dropped(First)
    /\ Ended
    /\ UNCHANGED <<asyncOnly, commands, emitted, archived, running, file, member, flying,
                   changes, restarts, faults, told>>

\* publishMode begins; from here on the owner has asked for as much as the task does.
Publish ==
    /\ chain # <<>> /\ stage = "queued"
    /\ First.kind # "archive" /\ ~Dropped(First)
    /\ stage' = "publishing"
    /\ told' = IF First.kind = "agent" /\ First.self THEN told
               ELSE [told EXCEPT !.ceiling = Louder(@, Target(First))]
    /\ UNCHANGED <<asyncOnly, commands, emitted, archived, running, chain, file, member, flying,
                   changes, restarts, faults>>

Published ==
    /\ stage = "publishing"
    /\ member' = Target(First)
    /\ stage' = "published"
    /\ told' = [told EXCEPT !.astray = "no"]
    /\ UNCHANGED <<asyncOnly, commands, emitted, archived, running, chain, file, flying,
                   changes, restarts, faults>>

\* Refused, or given up on after five seconds.  The agent's own change ends with the
\* previous mode published again, outside the chain; the owner's goes on.
PublishFails ==
    /\ stage = "publishing" /\ Fault
    /\ \E lost \in {{}, {Target(First)}} :
          IF First.kind = "agent"
          THEN flying' = flying \cup lost \cup {file.mode} /\ Ended
          ELSE flying' = flying \cup lost /\ stage' = "unpublished" /\ UNCHANGED chain
    /\ UNCHANGED <<asyncOnly, commands, emitted, archived, running, file, member,
                   changes, restarts, told>>

\* The mode the member state should show.
Expected == IF stage = "published" THEN Target(First) ELSE file.mode

\* A publish given up on lands after all, or never.
Land(m) ==
    /\ m \in flying
    /\ flying' = flying \ {m}
    /\ \/ /\ member' = m
          /\ told' = [told EXCEPT !.astray = IF m = Expected THEN "no" ELSE "landed"]
       \/ UNCHANGED <<member, told>>
    /\ UNCHANGED <<asyncOnly, commands, emitted, archived, running, chain, stage, file,
                   changes, restarts, faults>>

\* Mutant: the lock is forgotten with the mode it came with.
ApplyListeningMode_DropsLock(t) ==
    [mode |-> Target(t), by |-> t.kind, archived |-> file.archived,
     at |-> IF t.kind = "owner" THEN t.at ELSE file.at,
     pending |-> stage = "unpublished",
     locked |-> t.kind = "owner" /\ commands[t.at].lock = "on"]

\* Mutant: a command that was not published counts as done.
ApplyListeningMode_NotPending(t) ==
    [mode |-> Target(t), by |-> t.kind, archived |-> file.archived,
     at |-> IF t.kind = "owner" THEN t.at ELSE file.at,
     pending |-> FALSE,
     locked |-> IF t.kind = "agent" \/ commands[t.at].lock = "keep" THEN file.locked
                ELSE commands[t.at].lock = "on"]

\* The record written: the owner's lock and archive flag stay, and an agent's change
\* keeps the last command's identity and time.
ApplyListeningMode(t) ==
    [mode |-> Target(t), by |-> t.kind, archived |-> file.archived,
     at |-> IF t.kind = "owner" THEN t.at ELSE file.at,
     pending |-> stage = "unpublished",
     locked |-> IF t.kind = "agent" \/ commands[t.at].lock = "keep" THEN file.locked
                ELSE commands[t.at].lock = "on"]

Apply ==
    /\ stage \in {"published", "unpublished"}
    /\ file' = ApplyListeningMode(First)
    /\ told' = IF First.kind = "agent"
               THEN [told EXCEPT !.loose = First.self /\ (@ \/ file.pending),
                                 !.older = told.heard]
               ELSE LET lock == commands[First.at].lock
                    IN  [told EXCEPT !.ceiling = Target(First), !.loose = FALSE,
                                     !.lock = IF lock = "keep" THEN @ ELSE lock = "on"]
    /\ Ended
    /\ UNCHANGED <<asyncOnly, commands, emitted, archived, running, member, flying,
                   changes, restarts, faults>>

\* The backlog cannot be skipped or the file not written: the mode stays published.
ApplyFails ==
    /\ stage \in {"published", "unpublished"} /\ Fault
    /\ told' = [told EXCEPT !.astray = IF @ = "no" /\ stage = "published" THEN "failed" ELSE @,
                            !.failed = IF First.kind = "owner" THEN @ \cup {First.at} ELSE @]
    /\ Ended
    /\ UNCHANGED <<asyncOnly, commands, emitted, archived, running, file, member, flying,
                   changes, restarts>>

\* Here too the file may fail to be written.
ApplyArchived ==
    /\ chain # <<>> /\ First.kind = "archive"
    /\ \/ /\ file' = [file EXCEPT !.archived = First.on]
          /\ told' = [told EXCEPT !.archived = First.on]
          /\ UNCHANGED faults
       \/ /\ Fault
          /\ UNCHANGED <<file, told>>
    /\ Ended
    /\ UNCHANGED <<asyncOnly, commands, emitted, archived, running, member, flying,
                   changes, restarts>>

-----------------------------------------------------------------------------
\* The process dies, and joins again.

Die ==
    /\ running /\ restarts < MaxRestarts
    /\ restarts' = restarts + 1
    /\ running' = FALSE
    /\ chain' = <<>> /\ stage' = "queued" /\ emitted' = {}
    /\ flying' = flying \cup (IF stage = "publishing" THEN {Target(First)} ELSE {})
    /\ told' = [told EXCEPT !.failed = {}, !.heard = @ \cup emitted]
    /\ UNCHANGED <<asyncOnly, commands, archived, file, member, changes, faults>>

\* The mode of the member state is adopted, and the archive flag if a notice came.
Rejoin ==
    /\ ~running /\ ~asyncOnly
    /\ running' = TRUE
    /\ \E flag \in {file.archived, archived} :
          /\ file' = [file EXCEPT !.mode = member, !.archived = flag]
          /\ told' = [told EXCEPT !.archived = flag, !.astray = "no",
                                  !.loose = @ \/ told.astray = "landed"]
    /\ UNCHANGED <<asyncOnly, commands, emitted, archived, chain, stage, member, flying,
                   changes, restarts, faults>>

\* An async-only harness writes the record anew, without lock and archive flag, and
\* publishes it.
RejoinAsyncOnly ==
    LET mode == IF file.mode = "mute" THEN "mute" ELSE "async"
    IN  /\ ~running /\ asyncOnly
        /\ running' = TRUE
        /\ file' = Fresh(mode)
        /\ \E astray \in {"no", "failed"} :
              /\ told' = [told EXCEPT !.lock = FALSE, !.archived = FALSE, !.astray = astray]
              /\ \/ /\ astray = "no" /\ member' = mode
                    /\ UNCHANGED <<faults, flying>>
                 \/ /\ astray = "failed" /\ Fault
                    /\ flying' \in {flying, flying \cup {mode}}
                    /\ UNCHANGED member
        /\ UNCHANGED <<asyncOnly, commands, emitted, archived, chain, stage, changes, restarts>>

Next ==
    \/ \E c \in Commands : SendCommand(c)
    \/ \E at \in 1..MaxCommands : IntakeMode(at)
    \/ Archive \/ IdleMute
    \/ \E m \in Modes, self \in BOOLEAN : SetMode(m, self)
    \/ Drop \/ Publish \/ Published \/ PublishFails \/ Apply \/ ApplyFails \/ ApplyArchived
    \/ \E m \in Modes : Land(m)
    \/ Die \/ Rejoin \/ RejoinAsyncOnly

Spec == Init /\ [][Next]_vars

-----------------------------------------------------------------------------
\* Properties.

\* Every variable holds a value of its kind.
TypeOK ==
    /\ asyncOnly \in BOOLEAN /\ archived \in BOOLEAN /\ running \in BOOLEAN
    /\ commands \in Seq(Commands) /\ Len(commands) <= MaxCommands
    /\ emitted \subseteq 1..MaxCommands
    /\ chain \in Seq(Tasks)
    /\ stage \in {"queued", "publishing", "published", "unpublished"}
    /\ file \in Files
    /\ member \in Modes /\ flying \subseteq Modes
    /\ told \in Tellings

Idle == running /\ chain = <<>>

\* However late, often and in whatever order the commands arrive, across restarts and an
\* agent's own changes in between: once the newest one has been handed over, and its
\* application has not failed, it is the one that counts; and the agent listens no closer
\* than the owner has asked.  The second part is lost, until the owner's next say, when a
\* rejoin adopts what a publish given up on has left in the member state, or when the agent
\* changes its mode by itself while a command waits to be published again.
NewestCommandCounts ==
    LET newest == Len(commands)
    IN  Idle /\ newest \in emitted \ told.failed =>
            /\ file.at = newest
            /\ ~told.loose => Attention[file.mode] <= Attention[told.ceiling]

\* The owner sees the mode the agent is in, once nothing is under way here: deaths between
\* the publish and the write, rejoins, failed publishes and those that land late included.
\* Excluded are a command waiting to be published again, and a member state put out of step
\* and not mended since by a publish or a rejoin: by a publish given up on that has landed
\* on top, by a file that could not be written after the publish, or by the failed publish of
\* an async-only rejoin.
RosterFollows ==
    Idle /\ ~file.pending /\ told.astray = "no" => member = file.mode

\* An agent to which its owner's lock or archive flag has been applied does not change its
\* own mode, whatever commands and restarts come in between, until they are taken back.  An
\* async-only harness forgets both when it joins again (LockHolds), and a lock that an
\* overtaken command brings is never applied (LockCounts).
BarredAgentStays ==
    [][running /\ running' /\ (told.lock \/ told.archived) =>
          ~(file'.by = "agent" /\ file'.mode # file.mode)]_vars

-----------------------------------------------------------------------------
\* What the documentation and the comments promise beyond that, and the code does not keep.

\* "Only the owner can lock or unlock it" (docs/settings.md): the lock goes off with a
\* command that says so and in no other way.
LockHolds ==
    [][file.locked /\ ~file'.locked =>
          /\ chain # <<>> /\ First.kind = "owner"
          /\ commands[First.at].lock = "off"]_vars

\* "Lock mode stops that agent changing its own mode" (docs/settings.md): once every command
\* has been handed over and nothing failed, the lock is as the last command that names it says.
LockCounts ==
    LET naming == {at \in 1..Len(commands) : commands[at].lock # "keep"}
        last == CHOOSE at \in naming : \A other \in naming : other <= at
    IN  Idle /\ 1..Len(commands) \subseteq emitted /\ told.failed = {} /\ naming # {} =>
            file.locked = (commands[last].lock = "on")

\* "A replayed older owner command cannot undo" an agent change (mode.ts): a command that had
\* been handed over in a session before the change does not take the mode away from the agent.
AgentChangeStands ==
    [][file.by = "agent" /\ file'.by = "owner" => file'.at \notin told.older]_vars

\* "Restore the previous member state so the roster matches" (client-impl.ts): it does, once
\* the publishes given up on have landed or been lost.
RosterRestored ==
    Idle /\ flying = {} /\ ~file.pending /\ told.astray # "failed" => member = file.mode
=============================================================================
