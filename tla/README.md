# Verification of Khala

Khala is an end-to-end encrypted channel chat for people and the AI agents they
already run.  This directory holds TLA+ specifications of the parts of it where
processes race, requests are lost and runs die half-way; TLC configurations that
check them on small instances; and TLAPS proofs of the safety properties of eight of
these modules, for every instance.  `PROJECT.json` lists the components, the runs, the source lines behind
every definition and the hazards each property is aimed at.

Paths below are relative to the repository.

## 1. Inventory

### The control plane (`apps/control`, serverless functions)

Each request runs in an instance of its own.  Instances share nothing but the
control store and the Matrix homeserver, so every `await` is a point where
another request's steps come in between, and an instance may be gone after any of
them.

| Part | State | Operations | What is hard | What makes it correct |
| --- | --- | --- | --- | --- |
| Control store adapter (`runtime/control-store.ts`, `invitations/internal.ts`) | a record per key, a ledger entry per operation ID, both conditional blobs | `read`, `compareAndSet`, `resolve`, `writeAndResolve` | no transaction over two keys; an answer may be lost and the write land late; the SDK reports success on HTTP errors; records expire | a register per key; an operation ID names one write; an answer is never a guess |
| Agent join (`agent-join/store.ts`, `human-routes.ts`, `agent-routes.ts`) | the join record: pending, confirmed, claimed, ready, expired | create, confirm, poll, ready, expiry at read | two owners confirm; two polls claim; the clock passes in the middle; ambiguous writes | forward only; the credentials belong to the owner on record and leave once |
| Member removal (`composition/human/matrix.ts`, `invitations/removals.ts`, `membership-lock.ts`, `agent-join/session-status.ts`) | removal generations per room, a lease per human, bindings of agents, homeserver memberships and sessions | `removeHuman`, `removeAgent`, `admit`, confirm, status | many requests, any of which fails; a lease that can be outlived; confirmation takes no lease | no old link readmits; the human's agents go too; a retry finishes |
| Admission (`invitations/admit.ts`, `journal.ts`, `personal.ts`) | a journal per operation, the link's last authorized operation | `admitInvite`, resume, reconcile | crash between journal and membership; retries of one operation | one admission per operation, no admission on a dead invite |
| Sharing (`invitations/share.ts`, `policy.ts`, `inspect.ts`, `approve-joins.ts`) | invites and their expiry | create, revoke, inspect | revocation racing use | a revoked or expired link admits nobody |
| Rename (`agent-join/rename.ts`) | a lease and the agent's name in several records | rename, cascade | the cascade outlives the lease | all records agree in the end |
| Auth (`auth/*`), profiles (`profile/routes.ts`) | sessions, usernames | sign-in, callback, rotate, sign-out | replayed callbacks | one session per callback |

### The agent (`packages/agent`, `packages/listener`)

A long-lived client process (the MCP server) per session keeps one state directory per channel.
Hook processes, started by the harness at prompts, tool calls and turn ends, read and
write the same files, without a lock.

| Part | State | Operations | What is hard | What makes it correct |
| --- | --- | --- | --- | --- |
| Inbox delivery (`inbox.ts`, `mode.ts`, `harness/deliver-core.ts`, `packages/listener`) | `inbox.jsonl`, `cursor.json`, `mode.json`, `delegate.json` | append, deliver, nudge, skip a backlog, wait | compare and write of the cursor are two steps; hooks overlap and are killed | no entry is passed over in silence; a receipt follows contents; wakes arrive in the end |
| Client (`client-impl.ts`) | attempts per link, sessions per channel, a queue of changes per channel, slots | join, rejoin, send, read, set mode, leave, close | everything waits for everything: a claim for the attempt it cancels, close for all of them; starting a session does not hear an abort; directories go while tasks write | close leaves nothing behind; a channel names its live session; nobody waits for ever |
| Listening mode (`mode.ts`, `client-impl.ts`, `matrix/session.ts`, `packages/contracts/src/m1/listening-mode.ts`) | the mode, who set it, the last owner command's time, lock and archive flags; the mode in the member state | owner command, own change, archive, publish, rejoin | commands come late, twice and out of order; publishes time out and land later; the process dies between publish and write | the newest owner command counts; the roster agrees; a barred agent stays |
| Joining (`join.ts`, `state.ts`) | the poll secret, then the credentials | poll, report ready | the credentials exist once, and requests are lost | polling stops only when nothing is left to get |
| Wakers (`watch.ts`, `wake/*`, `hooks/claude-wake.ts`) | monitor ownership | evaluate, notify | two monitors of one session | one waker speaks |
| Local channels (`local/*`) | a local store and server | start, serve, stop | two servers | one server per directory |

### The browser (`apps/web`, `packages/messaging`)

Several tabs of one browser share its storage, its Web Locks and one Matrix device.
A tab is a single thread, but each `await` lets the others' and its own callbacks in,
and the browser may close it or clear its storage at any time.

| Part | State | Operations | What is hard | What makes it correct |
| --- | --- | --- | --- | --- |
| Device service (`packages/messaging/src/browser-device`) | per tab a view and a live generation (lease, crypto store, engine); shared: lock, keys, identity marker | `ensureReady`, `use`, `stop`, `acceptLoss` | every setup step may time out and finish later; a second owner or a stop supersedes it; engines end by themselves; the store is cleared | one engine writes a store; an identity is never replaced in silence; nobody is left waiting |
| Application lifecycle (`apps/web/src/composition/human/application.ts`, `device-session.ts`, `tab-handoff.ts`) | a snapshot and an epoch per tab | synchronize, navigate, hand over on focus, sign out, retry | a tab loses the device while it builds a route on it; two tabs wait for each other | a route has its device; the tab in use settles |
| Channel operations (`packages/messaging/src/channels/create.ts`, `send.ts`, `intro.ts`; `room-journal.ts`) | a journal record per operation | create, send, introduce, resume | lost answers, tabs that die, overlapping retries, another device | one room, every item once and in order |
| Timeline (`channels/timeline.ts`, `index.ts`) | a projection and a queue per channel | updates, decryption, history, echo, new lifecycle | answers and echoes in any order, late decryption, limited syncs | a send and its echo become one row; order and place are kept |
| Views (`apps/web/src/features`) | controllers over the above | | | |

### How the parts meet

Every control-plane component writes through `writeAndResolve`; the guarantees of
`CasStore` are what `AgentJoin`, `MemberRemoval` and `AdmissionJournal` assume of one compare-and-set,
including that an answer may be unknown and the write land later.  Confirmation
of a join and removal of its owner meet in the removal generations, and so do removal
and admission; what `AdmissionJournal` takes as one step, `gateway.admit`, is request by request in `MemberRemoval`.  A confirmed
and ready agent gets a Matrix session (`AgentClient`); what arrives through it enters the inbox
that `InboxDelivery` models, and the owner's commands among it go to `ListeningMode`.
The polls and reports of `AgentJoin` are requests of the agent's own loop, which is
part of that module.  `HumanApplication` uses the device port that `BrowserDevice`
implements, reduced to waiting, opening, ready, failing and closing; `ChannelOperations` and
`ChannelTimeline` are what runs over a ready device.

## 2. Plan

| Order | Module | Contents | Status |
| --- | --- | --- | --- |
| 1 | `CasStore`, `ControlStore`, `ControlStoreProofs` | the store everything rests on | checked and proved, the refinement too |
| 2 | `AgentJoin`, `AgentJoinProofs` | the join record and the agent that polls it | checked and proved |
| 3 | `MemberRemoval`, `MemberRemovalProofs` | removal, admission, confirmation | checked and proved |
| 4 | `InboxDelivery`, `InboxDeliveryProofs` | delivery to an agent | checked; safety proved |
| 5 | `AdmissionJournal`, `AdmissionJournalProofs` | `admitInvite`, its resumption, and `revokeInvite` | checked and proved; issuing of links and personal links to do |
| 6 | `BrowserDevice`, `BrowserDeviceProofs` | the device service in several tabs | checked and proved, `NothingHangs` in part |
| 7 | `HumanApplication` | the lifecycle of a tab and the hand-over of the device | checked; safety proved |
| 8 | `ListeningMode`, `ListeningModeProofs` | owner commands, replay, own changes, locks, publication | checked and proved |
| 9 | `ChannelOperations`, `ChannelOperationsProofs` | what a person does in a channel | checked and proved |
| 10 | `ChannelTimeline` | what a person sees of a channel | checked and proved |
| 11 | `AgentClient` | attempts, join, rejoin, leave and close | checked; safety proved |
| 12 | `WakeMonitor`, `RenameLease`, `LocalServer` | one each | planned |

The abstract specifications worth stating are `CasStore` (done), an "at most once
hand-over" for the join, and an "admitted once" for the admission journal.

## 3. The modules

### CasStore - what the port promises

`packages/contracts/src/messaging/control-store.ts` as a specification: `records`,
`ledger`, the contents that have expired, and `landed`, the log of the writes that took effect with the
revision each caller expected.  `Bind` gives an operation ID its one meaning, `Write`
replaces exactly the expected revision, `Expire` lets time pass.

### ControlStore - the adapter

One action per round trip of `writeAndResolve`:

| Step (`pc`) | Action | Code |
| --- | --- | --- |
| `idle` | `Begin` | a caller reads the key and calls `writeAndResolve` |
| `claim`, `claimConfirm`, `claimRead` | `Claim`, `ClaimConfirm`, `ClaimRead` | `claimOperation` |
| `before` | `ReadBefore` | the first read of `compareAndSet` |
| `write`, `confirm`, `readBack` | `Write`, `Confirm`, `ReadBack` | the conditional write and what follows it |
| `resolve` | `Resolve` | `resolve`, and the second attempt |

The provider is external: `ClaimLands` and `WriteLands` are conditional puts,
`LateClaimLands` and `LateWriteLands` commit a request whose sender has stopped
waiting.  A round trip fails definitely, ambiguously, or with a false success;
`MaxFaults` bounds how often.  A content stands for value and expiry
together; `digestOf` is injective on those.  Corrupt blobs and legacy keys
that contain `#` are left out.

### AgentJoin - one join record

Runs of `confirm`, `poll` and `ready`, one action per `await`.  The record carries
its revision, state, owner, name and whose provisioning the sealed credentials
come from.  `Read` includes the retirement of a staged join whose time is up, because
`createJoinStore.read` does it before it answers.  Who sends a confirmation is chosen
initially, so one owner may send both.  `ReplaceApplied`,
`ReplaceConflict` and `ReplaceFails` are the three answers of `replace`; a failed one may be
in `stray` and land later.  A join is never renewed, so a `late` flag stands for
the clock.

The agent itself (`packages/agent/src/join.ts`) is the caller: `SendPoll` starts a run
of `poll`, and its answer, its loss or the deadline (`PollAnswered`, `PollLost`, `PollStopped`)
decides whether to ask again; then the same for `ready`.  A lost request goes on being served beside the next one, which is
how two polls or two readies overlap.  `AfterPoll` and `AfterReady` are the decisions on
the status codes.

### MemberRemoval - removal against admission and confirmation

One human, one channel, several agents.  `Remove*` follow `removeHuman` request by
request, `Admit*` follow `gateway.admit`, `Confirm*` the part of `confirm` that meets a
removal.  The lease is a holder or nobody; it expires when its holder is dead
(`LeaseExpires`) or too slow (`LeaseOutlived`, counted as a fault).  An update loop of
the store is one step, since its compare-and-set takes effect at one instant.
The renewal before a request and the request are one step: the renewed lease
lasts longer than the request may.  Reads made under the lease, one after the
other, are one step where nothing that can change in between is used.

### AdmissionJournal - admission through one link

| Step (`pc`) | Action | Code |
| --- | --- | --- |
| `journal` | `ReadJournal` | `admitInvite`: a journal of this operation, of this human, closed or to resume |
| `eligible`, `authorize` | `CheckEligible`, `Authorize` | `authorizeInvite`: read the link, then replace it by itself with this operation's digest |
| `claim` | `Claim` | `journal.claim` |
| `lookup`, `recheck` | `Lookup`, `Recheck` | `resumeAdmission` of an operation begun before |
| `admit` | `Admit` | `gateway.admit` |
| `ambiguous`, `note` | `Reconcile`, `Note` | `reconcileAmbiguous`, `setState(outcome_unknown)` |
| `complete` | `Complete` | `complete`, `setState(joined)` |

`RevokeRead` and `RevokeWrite` are `revokeInvite`; its issuer asks until it is
answered `ok` or the link has expired.  Three abstractions matter.  A call of `writeAndResolve` is
one step whose answers are those of `ControlStore`: the operation ID is bound for
ever, a retry of a landed write is `applied`, a retry that finds something else is
`outcome_unknown`; a failed call may leave the ID bound, and its write lost or in
`stray`.  A journal's state stands for its revision, because a journal never returns
to a state.  Every answer that is neither `joined` nor `already_joined` ends the run
without a trace, and the human may ask again.  The third round of `authorizeInvite` and the
decoding of a conflict in `claim` are not modelled: with this adapter the ID is bound by then,
and the answer is not `conflict`.  The room stored with a closed journal is reduced
to whether its title could be read.

### InboxDelivery - one channel of an agent

Processes are hooks, waiting readers and the client; a step is one access to a
file.  An entry is its place in the inbox and its kind (`ping`, `human`, `agent`,
`event`), which is all that `wakesAgent` looks at.  `HookEvent` is what
`decideDelivery` and the harness codecs make of a hook: steering only, a wake
required, the quiet rule of Stop, contents shown or only a nudge.  The frame's size in
messages is kept, its size in bytes is not.  `fate` is a history variable: for each
entry, whether it was shown, nudged for, skipped, left off a page or lost with a
process.

### BrowserDevice - the device service in every tab

A call is one `ensureReady`, `use` or `acceptLoss`; an `ensureReady` opens at most one
generation, named after the call.  `pc` follows the setup of `service.ts` step by step (`creds`, `store`,
`engine`, `ident`, `put`, `start`), and `gen` holds what a generation owns and how far its
close has come (`transitions.ts`).  A step that timed out goes on as a straggler: it settles
later and adopts or closes what it opened, and the lock is kept for it.  `lock`, `keys`, `marker`, `published` are
what tabs share: Web Lock, crypto store, identity marker and what the server knows.
The settling of a step and the adoption of its result are one action although microtasks
lie in between, and the identity port answers with any identity at all.
`NothingHangs` says that a call which has not returned has a timer, an answer or another
call in front of it; with finite chains of calls this gives termination, given that timers
fire.  An engine signals from the moment it is being opened until it is closed, also after its generation was replaced;
`EngineSignal` is the guarded callback, which only a live generation gets through.  Four awaits have no timer in the code (the identity, closing the store, the operation itself,
clearing the marker) and are taken to answer.

### HumanApplication - tabs that hand the device over

One `synchronize` per tab counts at a time, because the epoch ends the others at their next
check; `app.sync` says at which await it is.  `session` is `device-session.ts`, `requested` the
broadcast messages on their way, `tabDevice` the port, `focused` the tab the person looks at.
`Settle` is the end of a `synchronize`, with the route that is mounted.  `Leave` is its end when nobody is signed in:
it and `SignOutAnswered` wait for the device to stop only if the session holds one or asks for one (`Held`).
An activation that was asked for begins in a step of its own (`DeviceBegins`): the listener to the device takes a tab that
navigates meanwhile for one that lost its device, and ends it as unavailable.

### ListeningMode - how closely an agent listens

`chain` is `attempt.appends`, the queue in which owner commands, archive notices and the
agent's own changes wait; `stage` is how far the first has come (publish, then write).
`commands` are in the order of the server's time, `emitted` those the session has handed over since it started;
`IntakeMode` may hand over any of them, in any order and again.  `member` is the mode in the member state,
`flying` are publishes that timed out here and may land yet.  A publish may fail, land late or be lost, and writing the file may fail,
for a command, a change or an archive notice.  `told` is a history variable, with one field for each thing the properties
make an exception of:

| Field | What it holds | Exception of |
| --- | --- | --- |
| `ceiling`, `lock`, `archived` | the closest mode asked for; lock and archive flag as last applied | |
| `astray` | the member state was put out of step by a publish given up on that landed on top (`landed`), by a file not written after its publish or an async-only rejoin's failed publish (`failed`); reset by the next publish that lands as it should | `RosterFollows` |
| `loose` | since the owner's last say a rejoin adopted what a late publish left, or the agent changed its own mode over a command still to be published | the second half of `NewestCommandCounts` |
| `failed` | commands that could not be written in this session | the first half of `NewestCommandCounts` |
| `heard`, `older` | commands handed over in earlier sessions; those of them before the agent's last change | used by `AgentChangeStands` |

### ChannelOperations - create, send and intro

A behaviour is about one operation ID and the calls for it.  `journal` is its record
in `room-journal.ts` with its `revision`; `calls` are the overlapping calls of any tabs, `flying` the requests without an answer.
`proves` chooses between an adapter that can prove that a room was never made
and one, like the Matrix adapter, that cannot.  `history` notes that an attempt outlived its lease or a call its device.
Left out: early returns on invalid input, `operation_mismatch`
and the refusal of a device that is not ready.

### ChannelTimeline - what is shown of a channel

An event is its place in the room.  `Sync`, `Paginate` and `Decrypt` change what the client has
loaded; `Load` publishes the window; `Enqueue`, `Begin` and `Finish` are the queue of `index.ts`, whose
changes are applied to the projection of the lifecycle they belong to; `ApplyRemote` and `ApplyLocal` are `timeline.ts`.
The projection's `remote` is a JavaScript Map: a function from event IDs to entries, and the order of its keys, which is a
relation (`before`) because `applyRemote` builds it again from anchors: what is new goes before the next event of
the update that was shown already (`Anchor`), or to the end.  An entry has the lifecycle it was made in (`gen`), a history variable.

An update has gaps: an event may decrypt to nothing the channel shows, or to a malformed channel event, which the update
names as ignored (`makes`); and what cannot be decrypted and is older than the person's own member event is left out
(`joinTs`).  That member event changes with a new name or colour, too (`MemberChanges`), so an event that was shown as a placeholder may be
left out later.  A sender that cannot be attributed (`matrix-browser.ts:656`) makes no gap: the participants service answers
for all senders or for none, and then the update is lost, as `Receive` may lose it.  `astray` is a history variable: own events that an answer showed
ahead of events still unknown, and shown events that an update has left out.  `Listen` and `Replay` are a further listener of a channel that is
observed already, which waits in the queue and is handed the snapshot (`HandsOver`) unless one was `published` meanwhile.
A send that has landed is not taken again by the homeserver, since its transaction ID is the same on the same device;
that another device takes it again is part of `ChannelOperations`.

### AgentClient - the attempts of an agent

| Code (`client-impl.ts`) | Actions |
| --- | --- |
| `join`, `rejoin`, `resume`, serialised per link | `JoinBegin`, `RejoinBegin`, `RejoinTurn`, `JoinCreate`, `JoinRegister`, `JoinRequested`, `JoinThrows` |
| `background`, an attempt's task | `PollAnswered`, `ClaimSeen`, `ClaimRefused`, `WriteSession`, `SessionOpens`, `Invited`, `Joined`, `TaskFails`, `Unwritable`, `FailureHandled`, `AbortSeen`, `SessionEnds` |
| `roomChanges`, claims and leaves of a channel one after the other | `ClaimTurn`, `ClaimFinish`, `LeaveBegin`, `LeaveTurn`, `LeaveFinish` |
| `cancel` and `cleanup` | `CleanAwaits`, `CleanStopped`, `CleanFiles` |
| `close` | `CloseBegin`, `CloseCancels`, `CloseDone` |

An attempt is an object that lives on after it is forgotten, as in the code.  `joining`, `queue` and
`cleaning` are the promises somebody waits for.  `stored` are the channels with a directory, `disk` whose credentials and whose
link are in it; a file in a directory that is gone cannot be written.  A claim that writes its directory's files and
fails half-way (`ClaimFinish`) leaves the directory and the slot behind, like one that is through, and ends as refused.  `displaced` marks an attempt whose
channel a restore has taken without a claim.  `settleAutoConfirmed` is merged into the end
of `join`, the awaits between joining the room and `connected` are one step, and the second start after a
corrupt crypto store and calls made after `close` are left out.

## 4. The runs

All constants, bounds included, are in the `.cfg` files; the MC modules only name
requests, hook events, the links' channels and symmetry sets.  Deadlock is not checked: a run of any of
these systems ends when its calls are answered and the bounds are used up.
Symmetry is used with invariants and safety properties only.  Every module has a type invariant, `TypeOK`
(`AppTypeOK`, `ClientTypeOK` and `TimelineTypeOK` in `HumanApplication`, `AgentClient` and `ChannelTimeline`).  All but
that of `CasStore` are proved, so no run lists them.

| Run | Instance | What it shows |
| --- | --- | --- |
| `control_store` | 3 callers, 2 keys, 2 operation IDs, one expiring content, 1 fault | `AppliedIsLanded`, `OneWritePerOperation`, `DefiniteRefusalWroteNothing`, and `Implements`: the adapter is a `CasStore` |
| `agent_join` | 2 confirms by either of 2 owners under 2 names, an agent with 2 polls and 2 ready reports, 2 faults | `ForwardOnly`, `ConfirmedAnswerHolds`, `CredentialsLeaveOnce`, `ReadyWasInvited`, `GivesUpForGood` |
| `member_removal` | 2 removers, 1 admission, 2 agents, 2 removals, 1 fault | `OldLinksStayDead`, `AgentsLeaveWithHuman`, `ListedSessionsEnd` |
| `admission` | 2 runs, 2 humans, 2 operation IDs one of which both humans use, a revocation, an expiry, a removal, 3 revisions of the link, 1 fault | `AdmissionIsJournaled`, `DeadLinkAdmitsNobody`, `RevokeAnswerHolds`, `JoinedAnswerHolds` |
| `inbox_wait` | a hook and a waiting reader, 4 modes, a death | `NothingPassedOver`, `ReceiptsFollowContent` |
| `inbox_live` | 2 hooks, prompts and turn ends, frames of 1, 2 entries that wake or not, a mode change, fairness | `WakesAreDelivered`, although overlapping hooks lose each other's cursor updates |
| `device_tabs` | 2 tabs, 1 owner of 2 people, 3 calls of 3 kinds, 2 device IDs, 1 event | `SingleWriter`, `DeviceKeepsIdentity`, `NoOrphanView`, `NothingHangs` |
| `human_tabs` | 2 tabs, 2 events, 1 fault, fairness | `RouteHasDevice`, `FocusedTabSettles` |
| `listening_mode` | 3 modes, 2 commands that lock or not, 1 change, 1 restart, 1 fault | `NewestCommandCounts`, `RosterFollows`, `BarredAgentStays` |
| `channel_operations` | 3 calls, 3 operations, intros of 2 items, 2 devices, 1 fault | `OneRoom`, `OnceInOrder`, `ProgressIsKept` |
| `channel_timeline` | 1 send with 2 attempts, 3 events of which 1 makes no row, 2 lifecycles, 4 events, attempts, lifecycles and member changes together | `EchoReplacesSend`, `RoomOrder`, `OwnLifecycle`, `SendsShown`, `NothingMoves` |
| `agent_client` | 2 links to one channel, a second channel on disk, 1 slot, 2 attempts, 1 leave, 1 fault, close, fairness | `ClosedLeavesNothing`, `ChannelNamesItsSession`, `SlotsMatch`, `EverythingAnswers` |

Nine further configurations are kept for their counterexamples: each checks one sentence of the documentation or of a comment
that the code does not keep, and TLC finds the property violated.  They are not among the runs of `PROJECT.json`, all of which pass.

| Configuration | Property | What is said, and what happens |
| --- | --- | --- |
| `MCListeningModeLock` | `LockHolds` | only the owner unlocks (`docs/settings.md:41`); an async-only rejoin writes a file without the lock |
| `MCListeningModeOvertaken` | `LockCounts` | locking stops the agent's changes (`docs/settings.md:41`); a lock in a command that a newer one overtakes is dropped |
| `MCListeningModeChange` | `AgentChangeStands` | a replayed older command cannot undo an agent's change (`mode.ts:62`); the change keeps the time of the last command applied, so it can |
| `MCListeningModeRoster` | `RosterRestored` | a publish that timed out is made good (`client-impl.ts:981`); it lands after the one that restores |
| `MCInboxDeliveryTurnEnd` | `TurnEndsDeliver` | a busy agent gets its messages when its turn ends (`docs/settings.md:33`); a frame of quiet entries before them hides them |
| `MCChannelTimelineReplay` | `ReplaysItsLifecycle` | a new lifecycle never shows the history of the last (`channels/README.md:48-49`); a late listener is handed it |
| `MCChannelTimelineEcho` | `SendHasOneRow` | each event appears once (`timeline.ts:1-2`, `16-17`); an echo that is not decrypted stands beside the send's local row |
| `MCAgentJoinOutage` | `OutageIsTolerated` | polling tolerates transient failures (`docs/build/m1/tickets/KM-142.md:130`); a failed read of the record is answered 404 and ends it |
| `MCChannelOperationsRetarget` | `NeverResent` | an intro is not sent again by another device (`channels/intro.ts:60-61`); the device is compared before the first item only |

Why these bounds are enough for the interesting cases: three callers are a
caller, its retry's rival and a reuser of its ID; the requests of `MCControlStore` contain
one write asked for twice, its ID on another key and with other bytes, and a
rival.  Two runs of `admitInvite` are a run and its own retry, two operations through one
link, or two humans on one ID; three revisions of the link let it be
authorized twice, or authorized and then revoked.
Two removals are needed for a link to be new after one and old after the next.
Two confirms by any owners are
one owner asking twice as well as two owners at once.  Two hooks and a mode change are needed for a lost update of the cursor;
two entries and frames of one for a quiet entry that fills the frame before a message that wakes, and for a nudge that
writes back an older cursor over a delivery.  One fault puts a death or a
lost answer at every place; two let a failure meet the recovery of another.

Three calls in two tabs are a device in use, a rival that supersedes it and a use that is caught
in between; the event makes any one step throw, a tab close, an engine end, the store vanish or the server
re-enrol.  One owner in `device_tabs` is enough for a supersession because the other person signs in
between; two owners in one tab with three calls and no event were checked as well.  Two tabs and two
events are a hand-over and one that comes back.  Two commands and a restart are a command that is
replayed after a newer one, one fault a publish or a file that fails, and every run has harnesses that are async-only and that are not; the third call of a channel operation retries beside a call that is
still under way; three events leave room for one on each side of the person's own, and a placeholder, a gap and an own event in one window.  Two links to one channel are needed for a claim that waits for the
other attempt, one slot and a second channel for a refused claim, and two attempts for a link to be joined again
after a failure.  Larger instances of `AgentClient` (4 attempts, 3 faults, 2 leaves) were explored by
simulation only.  The largest runs, `channel_timeline`, `inbox_wait`, `member_removal`, `listening_mode` and `admission`, have
2.2 to 3.7 million distinct states each; the others up to 1.3 million.

### What the models showed of the code

Where a property holds only with a condition, or modelling met something a reader of the code may
want to know:

*Control plane*

- A retry's refusal answered `unavailable` can hide a first attempt that lands later, although
  `unavailable` is documented as nothing written.
- An agent that was bound but never registered fails every retry of a removal.
- The closing write of an admission is bound to the room title; if the title could not be read the first time, every
  retry is refused instead of yielding `already_joined`.
- A store read that fails makes `poll` answer 404, which ends the agent's polling (`MCAgentJoinOutage`); a network failure
  during `reportReady` ends the attempt.
- `resolve` compares only the operation ID, so an ID that is reused for other bytes may
  be answered `applied` for the write it was first used for.
- An admission whose last check cannot be read refuses, and refusing bans, although nobody
  removed the human.
- An agent whose confirmation dies after provisioning keeps a session that no binding lists.
- The revision of the link is part of what an admission claims.  When the claim was lost
  and another human was authorized since, the retry claims other bytes under the same ID and
  is refused, although `agent-join/human-routes.ts:62` means "a retried click" to
  resume.

*Agent*

- The cursor and the receipt are on disk before a frame is written out, so a hook killed in
  between leaves a receipt for contents nobody saw; and a hook that read the lease before a background
  agent took it delivers what that agent delivers.
- `markNudged` writes back an older cursor over a concurrent delivery, which is then
  delivered again; a message that arrives between the read and the page can push a consumed one off the
  page; and fifty quiet entries hide a wake behind them from a turn's end (`MCInboxDeliveryTurnEnd`), until the next prompt.
- `setMode` (`client-impl.ts:988`) keeps the time of the last owner command it has applied, so a command sent before the change and
  handed over after it undoes it (`MCListeningModeChange`); and it forgets that a command waits to be published again.
- A publish that timed out may land over a later one (`client-impl.ts:982`, `MCListeningModeRoster`), and a rejoin then adopts what it left.  A lock in a command
  older than the newest is dropped with it (`MCListeningModeOvertaken`).  A rejoin of an async-only harness writes a mode file without lock, archive flag and time
  (`client-impl.ts:525`, `MCListeningModeLock`).  When the backlog cannot be skipped, the mode is published and not written.
- A restore takes its channel without cancelling the attempt that has it (`client-impl.ts:639`).  The displaced
  attempt stays connected, but `read`, `send` and `leave` no longer find it; `ChannelNamesItsSession`
  leaves it out.
- Two cancels of one ended attempt may overlap (a join of its link, a claim through another), and the slower one removes
  `session.json` after the replacement has written its own; the comment at `client-impl.ts:463` says that
  the claim waits for all writes of the old attempt.
- A status that cannot be written because the channel was left meanwhile makes the
  call fail before its `try`, or the task end before its abort: the attempt stays current without a
  task, and `join` answers `awaiting_confirmation` for it from then on.  `close` rejects for the same
  reason.
- A session that starts late is stopped, but may overlap the session of the next attempt for a moment; the
  lock file of the crypto store is what keeps them apart.

*Browser*

- A tab without the focus that navigates while its own device opens takes the lock it holds for
  another tab's and shows itself inactive, although `application.ts:243` means "only while
  another tab really holds the device"; `FocusedTabSettles` assumes `InactiveLetsGo` for this reason.  A focus that arrives between the check and the answer leaves a focused
  tab inactive until it is focused or retried again.
- A device that fails between the result of `ensureReady` and its continuation stays cached as ready, and the tab
  is unavailable until it is reloaded.  `signOut` shows `signed_out` after its release without looking at the epoch.
- The Matrix adapter never proves that a room is absent, so a create whose tab died stays `outcome_unknown`;
  with an adapter that does, an attempt that outlives its lease could make a second room.  A device that is replaced
  between the gate and the request sends outside the server's deduplication (`MCChannelOperationsRetarget`).
- The answer to a send may place the person's own event before older ones are loaded, and these stay
  behind it for the lifecycle; an event that was a placeholder and falls out of a later update no longer anchors the history before it
  (both are what `astray` excludes).  A late listener is given the old projection under the new lifecycle's number (`MCChannelTimelineReplay`), and a
  send whose echo is not decrypted has two rows (`MCChannelTimelineEcho`).

### Fairness

`InboxDelivery!FairSpec`: a started process goes on (weak fairness of its steps), a
lease runs out, and the agent is prompted again and again (strong fairness of the start of prompt hooks), because an agent that is
used is.  Turn ends happen or not: one may come at any time, and none is needed.  Appends, mode changes and deaths have no fairness.
`WakesAreDelivered` is about a channel that stays loud: no mode or lease says otherwise from some time on.

`HumanApplication!AppSpec`: answers arrive, the timer of a request fires, messages between tabs are
delivered, the browser hands a free lock over and devices close (weak fairness, tab by tab); and the person
whose tab offers "Try again in this tab" presses it.  Navigation, focus, sign-out and failures have no fairness.

`AgentClient!FairClientSpec`: the process goes on (weak fairness of its own steps: files, queues, stops, aborts that
are noticed) and the turn of a rejoin comes.  Answers of the network and sessions that open
have none: `EverythingAnswers` must hold although a poll, a start or an invite never comes, because
an abort ends the wait for them.

## 5. What is proved

Eight `*Proofs` modules extend the components and prove, without bounds, that each specification implies the safety
properties its run checks, and its type invariant.  Three of them cover two components each: the device service and
the application over it, the listening mode and the client it belongs to, what a person does in a channel and what they see.

| Module | Theorems | Property |
| --- | --- | --- |
| `ControlStoreProofs` | `OperationNamesOneWrite`, `AppliedCorrect`, `RefusalCorrect`, `Refinement` | `OneWritePerOperation`, `AppliedIsLanded`, `DefiniteRefusalWroteNothing`, `Implements` (that is, `CasStore!Spec`) |
| `AgentJoinProofs` | `CredentialsOnce`, `ConfirmedHolds`, `ReadyInvited`, `GivesUp`, `MovesForward` | `CredentialsLeaveOnce`, `ConfirmedAnswerHolds`, `ReadyWasInvited`, `GivesUpForGood`, `ForwardOnly` |
| `AdmissionJournalProofs` | `Journaling`, `DeadLink`, `RevokeHolds`, `JoinedHolds` | `AdmissionIsJournaled`, `DeadLinkAdmitsNobody`, `RevokeAnswerHolds`, `JoinedAnswerHolds` |
| `MemberRemovalProofs` | `LinksStayDead`, `AgentsLeave`, `SessionsEnd` | `OldLinksStayDead`, `AgentsLeaveWithHuman`, `ListedSessionsEnd` |
| `InboxDeliveryProofs` | `NothingPassed`, `ReceiptsEarned` | `NothingPassedOver`, `ReceiptsFollowContent` |
| `BrowserDeviceProofs`: `BrowserDevice` | `OneWriter`, `NoOrphans`, `IdentityKept`, `WaitsEndAlways` | `SingleWriter`, `NoOrphanView`, `DeviceKeepsIdentity`; the part of `NothingHangs` about waiting |
| and `HumanApplication` | `RouteHasDeviceAlways` | `RouteHasDevice` |
| `ListeningModeProofs`: `ListeningMode` | `NewestCounts`, `RosterCorrect`, `BarredStays` | `NewestCommandCounts`, `RosterFollows`, `BarredAgentStays` |
| and `AgentClient` | `ClosedLeavesNothingAlways`, `ChannelNamesItsSessionAlways`, `SlotsMatchAlways` | `ClosedLeavesNothing`, `ChannelNamesItsSession`, `SlotsMatch` |
| `ChannelOperationsProofs`: `ChannelOperations` | `OneRoomOnly`, `InOrder`, `ProgressKept` | `OneRoom`, `OnceInOrder`, `ProgressIsKept` |
| and `ChannelTimeline` | `EchoReplacesSendAlways`, `RoomOrderAlways`, `OwnLifecycleAlways`, `SendsShownAlways`, `NothingMovesAlways` | `EchoReplacesSend`, `RoomOrder`, `OwnLifecycle`, `SendsShown`, `NothingMoves` |

Some of the properties hold with a condition, and so do the theorems; the comment at each property states it, and the counterexamples of
section 4 show what happens without it: `GivesUpForGood` (`MCAgentJoinOutage`), `OnceInOrder` (`MCChannelOperationsRetarget`),
`NewestCommandCounts`, `RosterFollows` and `BarredAgentStays` (the four of `MCListeningMode`), `EchoReplacesSend`
(`MCChannelTimelineEcho`), `OwnLifecycle` (`MCChannelTimelineReplay`).  `RoomOrder` holds while nothing is `astray`, and `ChannelNamesItsSession` for attempts
that were not displaced; these two exceptions contradict nothing the repository says.

The type invariants are `TypeCorrect`, `AppTypeCorrect`, `ClientTypeCorrect` and `TimelineTypeCorrect`.  TLC has checked the
inductive invariants on the instances of the runs, or on smaller ones where these take too long.

### Assumptions

The proofs rest on the assumptions about constants in the components' modules, which TLC evaluates in every run:

- `None` is none of the values it stands beside: of the store's contents, of names and owners, of calls and tabs, of
  the journal's records (`NoRecordAssumption`), of the names of the setup's steps (`StepsAssumption`).  `Nobody` is no tab
  (`NobodyAssumption`), and `Absent` no send, no state of one and no change that is applied (`TimelineAssumption`, `NoJobAssumption`).
- Bounds are natural numbers, and positive where the code needs one of something (a revision, a device ID, an item, a frame).
- Requests, modes, operations and events are of the kinds the code knows; expiring contents are contents; the welcome
  and the removable are people.
- Hooks, readers and the client are different processes, and so are removals and admissions (`RunsAssumption`).

Every write that takes effect gets an ETag of its own, as in `runtime/local-blob-store.ts`; that the deployed
provider does the same is built into `ControlStore` and not proved.

### The arguments

None of the properties is inductive alone.  What each proof adds, and why it is needed:

**ControlStore** is built in layers, each an invariant on top of the ones before.

1. `LedgerInv`: whatever a caller past its claim is about to write, whatever is in
   flight and whatever has landed is bound by the ledger to that key and content.  The
   ledger is write-once (`LedgerWriteOnce`), so a binding lasts (`BindsForEver`).
   One write per operation ID follows.
2. `EtagInv`: every ETag in a record, a condition or an expectation is smaller
   than the next one the provider hands out, so an ETag never comes back.
3. `PendingInv`: every conditional write in flight is `Justified`.  If the record still has the
   ETag of the condition, then it is the one its caller expected, or
   the caller expected nothing and what is there has expired, which stays so.
   This is what makes a write that lands late replace only what its caller meant:
   `StepRefines` maps each action to a step of `CasStore` or to a stutter, with
   the identity on the shared variables (`Abstract == INSTANCE CasStore WITH ...`).
4. `StoredInv`: what is stored has landed; with what the confirming read saw, an `applied`
   answer is about a landed write.
5. `RefusalInv`: a caller that is not a retry and has not yet written is
   `Untouched`, nothing of it landed or in flight.  The ledger entry tells a first claim
   from a retry, and only the first may be answered `conflict`.

**AgentJoin.**  Every write carries the revision its handler read.  While that is still the record's, the handler's copy
is the record (`Copy`), or, once a confirm has locked the join to its human, the record is pending and still that human's (`Owned`).
The same is required of a write that is still on its way (`StrayOK`): were its revision current, it
would be a legal move (`Moves`).  What is true for good - settled for a human, claimed, expired - is then true
whoever writes next.

**AdmissionJournal.**  Three things go one way.  A link once revoked stays revoked, because everyone who may still
write its record read it active, and at a revision that is no longer the record's once it is revoked (`ReadActive`, `RevokerOK`).  A journal keeps its human and, once joined,
stays joined (`Journaled`, `JournalOK`).  Who was joined is a member until removed.  `RunOK` says of each
await what the run knows by then, `WriteOK` the same of the writes under way.

**MemberRemoval.**  A run takes the membership lease at most once, so one that has it now has had it since it began; what
it read since and only holders of the lease change still stands (`RemoverOK`, `AdmitterOK`).  Confirmation takes no lease.
That no token survives a removal rests on the generation that `confirm` compares after it minted one: a confirm that
got past the comparison (`Escaped`) is one the removal has still to revoke, and none is left once it is complete.

**InboxDelivery.**  The cursor is written without a lock and goes back, so nothing can be said of where it is.
The fates of an entry only grow, and an entry in flight gets one when it is handed over or its process dies.
So accountedness is for ever, and any copy of the cursor that a process carries (`Carries`), however old,
may be written back.

**BrowserDevice.**  A generation that may write its owner's store has its lease, and the call that has the lease is
the holder of the lock (`GenerationOK`); one writer follows.  Whoever else could upload keys would hold the same
lock, so what the server had when the credentials were read is what it has until this generation uploads
(`KnowsKeys`).  `TabOK` ties each view to the live generation, or to the request that ended it and will publish.

What a call waits for ends (`WaitInv`): a call opens a generation only before it has got past the drain loop, and nobody
waits for a generation whose call has not, so one that was ended stays ended.  An `ensureReady` in flight never
becomes a `use`, so uses do not wait for one another.

**HumanApplication.**  A route is a claim about the device, and both change in steps of different actors.  `Fits` ties the session to
its device: a device that opens, is ready or fails holds the lock, a ready one is cached by the session and has answered, and the session
sees it as ready only while it is.  `Follows` says what a tab may rely on: it shows `ready` only over a ready device, with no `synchronize` or
sign-out under way that would let it go; and one that comes back from asking for the device finds an answer, or a request that is still on its way.

**ListeningMode.**  The changes of a channel run one after another, so what was decided of the first when its publish began
holds until it is applied (`ChainOK`).  A command that was handed over is in the chain or behind the time in the
file (`Handed`); the member state is that of the file, or of the change under way (`Follows`); and the agent listens no
closer than asked (`Obeys`), except after a rejoin that adopts what a command could not publish, whose command is then still
to be handed over again or waits.  Each is stated with its own exceptions, the fields of `told` in section 3, and the proof shows of every step
that it keeps the invariant or sets the field, and of the steps that mend that they may clear it.

**AgentClient.**  Everything somebody waits for is tied to what will end the wait.  Of the changes of a channel only the
first may have begun, and it is a claim exactly while its attempt is at it (`QueueInv`); an attempt that still
works, or has a live session, is registered under its link, and one whose request is out has a join that waits for the answer
(`RegInv`).  What a join, a room's change or `close` cancels is aborted, and once the cleanup is past waiting for the task it
has stopped and has no live session (`CleanInv`).  So `close`, which has a cleanup for everything registered and ends when
nothing is, leaves nothing live behind (`CloseInv`).  The directories, the slots and the claims under
way account for one another (`SlotInv`): a slot without a directory has a claim whose attempt is current.  A connected
attempt is named by its channel until a claim of the same channel, which is then first in the queue, takes it (`NameInv`).

**ChannelOperations.**  A call whose revision is the journal's (`Held`) knows what the record says, for nobody has
written it since.  Of the creates, no two have the lease of one revision (`Alone`), and while an attempt is to be made there
is no room and none on its way (`AttemptOK`).  An intro that records an item writes the batch it read with that one item changed, and
an item recorded as accepted is in the room (`Knows`, `SendOK`, `RoomOK`).

**ChannelTimeline.**  An update leaves out events, but what it leaves out of its window is either known to make no row or not yet
decrypted and from before the member event, and the latter may be shown later.  So the order rests on `Reaches`: where
something is shown beyond the end of an update, everything that may still be shown before it has a message after it that is shown and lies in the
update's reach, so that this message, or a nearer one, is the anchor; and updates reach no less far than those before them (`FrontInv`).
An own send that is answered early and a placeholder that an update leaves out break just this, and are recorded in `astray`.
No entry says anything of an event but what the room says (`JobInv`, `ViewInv`), and the order relates only what is shown.
A change that brings a message of a send removes its local row, and none is added while such a message is
shown.  The last change in the queue about a send is its present state; without one, it is being applied or the projection
shows it (`EchoInv`).  Nothing that is applied is of a later lifecycle than the projection, and the projection is of none later
than the present one (`AgeInv`).

### Only model-checked

- Liveness (`WakesAreDelivered`, `FocusedTabSettles`, `EverythingAnswers`) needs fairness, and `NothingHangs` uses
  `ENABLED`; both are outside the prover's reach.  `WaitsEnd` is what can be said of the latter without it: TLC checks that
  a call with an answer or a timer of its own can use it, the proof covers the calls that wait for others.
- That the abstraction of `gateway.admit` in `AdmissionJournal` and that of the device port in `HumanApplication` are implemented
  by `MemberRemoval` and `BrowserDevice` is argued in section 1 and neither checked nor proved.

## 6. Not modelled, and why

Listed with reasons in `PROJECT.json`.  In short: the Matrix client and its encryption belong
to a library; views, codecs, installers, decoders and deployment scripts hold no state that
properties could be about, and they are most of the repository's lines.  Profiles are one compare-and-set each.
Issuing of links and personal links, sign-in and sessions, wakers, renames and the local server are planned.
Of modelled parts, these are left out: sending, images and channel events of the agent's client, `removeAgent`,
the create handler's rate limits, membership lists and search in the browser, and leases without Web Locks.

## 7. Running it

    tlc -workers 2 -config MCControlStore.cfg MCControlStore
    tlc -workers 2 -config MCAgentJoin.cfg MCAgentJoin
    tlc -workers 2 -config MCMemberRemoval.cfg MCMemberRemoval
    tlc -workers 2 -config MCAdmissionJournal.cfg MCAdmissionJournal
    tlc -workers 2 -config MCInboxDeliveryWait.cfg MCInboxDelivery
    tlc -workers 2 -config MCInboxDeliveryLive.cfg MCInboxDelivery
    tlc -workers 2 -config MCBrowserDevice.cfg MCBrowserDevice
    tlc -workers 2 -config MCHumanApplication.cfg MCHumanApplication
    tlc -workers 2 -config MCListeningMode.cfg MCListeningMode
    tlc -workers 2 -config MCChannelOperations.cfg MCChannelOperations
    tlc -workers 2 -config MCChannelTimeline.cfg MCChannelTimeline
    tlc -workers 2 -config MCAgentClient.cfg MCAgentClient

The counterexamples (TLC reports a violation in each):

    for run in ListeningModeLock ListeningModeOvertaken ListeningModeChange ListeningModeRoster; do
        tlc -workers 2 -config MC$run.cfg MCListeningMode
    done
    tlc -workers 2 -config MCInboxDeliveryTurnEnd.cfg MCInboxDelivery
    tlc -workers 2 -config MCChannelTimelineReplay.cfg MCChannelTimeline
    tlc -workers 2 -config MCChannelTimelineEcho.cfg MCChannelTimeline
    tlc -workers 2 -config MCAgentJoinOutage.cfg MCAgentJoin
    tlc -workers 2 -config MCChannelOperationsRetarget.cfg MCChannelOperations

The proofs:

    tlapm ControlStoreProofs.tla
    tlapm AgentJoinProofs.tla
    tlapm AdmissionJournalProofs.tla
    tlapm MemberRemovalProofs.tla
    tlapm InboxDeliveryProofs.tla
    tlapm BrowserDeviceProofs.tla
    tlapm ListeningModeProofs.tla
    tlapm ChannelOperationsProofs.tla
