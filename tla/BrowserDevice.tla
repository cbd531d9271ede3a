---------------------------- MODULE BrowserDevice ----------------------------
(***************************************************************************)
(* The browser's device (packages/messaging/src/browser-device): every tab  *)
(* runs a service that owns at most one live generation - one Web Lock      *)
(* lease, one crypto store, one SDK engine - for one owner.                 *)
(*                                                                         *)
(* A call is one ensureReady, use or acceptLoss of one tab; an ensureReady  *)
(* opens at most one generation, which is named after the call.  An action  *)
(* is what a tab runs between two awaits; closing a generation goes on      *)
(* beside the call that ended it.  What the identity port answers is any    *)
(* identity at all: the person signs in and out, in any tab, between any    *)
(* two reads.  The settling of a setup step and the adoption of what it     *)
(* opened are one action, although a few microtasks lie between them.       *)
(***************************************************************************)
EXTENDS Naturals

CONSTANTS
    Tabs,
    Owners,       \* the people whose device is asked for
    People,       \* everyone who may be signed in, the owners among them
    Calls,        \* bound: calls of ensureReady, use and acceptLoss
    Operations,   \* which of these are called
    MaxDevices,   \* bound: device IDs the server gives one owner, in order
    MaxEvents,    \* bound: stops, closed tabs, cleared stores, re-enrolments,
                  \* signals of an engine, setup steps that throw or are refused
    None

ASSUME BoundsAssumption == MaxDevices \in Nat \ {0} /\ MaxEvents \in Nat
ASSUME OperationsAssumption == Operations \subseteq {"ensureReady", "use", "acceptLoss"}
ASSUME NoneAssumption == None \notin Calls \cup Owners \cup Tabs \cup Nat
ASSUME PeopleAssumption == Owners \subseteq People

Devices == 1 .. MaxDevices

VARIABLES
    view,         \* the DeviceView of each tab, and viewOwner
    live,         \* the live generation of each tab
    inflight,     \* the ensureReady a second one for the same owner joins
    epoch,        \* of each tab
    pc, tab, owner, req, target,  \* each call: where it is, its arguments, the
                                  \* epoch it was given, the generation or call it waits for
    gen,          \* the generation each call opened
    lock,         \* the holder of each owner's Web Lock
    keys,         \* the identity keys in the crypto store of each owner and device
    marker,       \* the identity marker of each owner
    device,       \* the device ID the server hands each owner
    published,    \* the keys the server holds for each owner and device
    minted, events

tabVars == <<view, live, inflight, epoch>>
callVars == <<pc, tab, owner, req, target>>
worldVars == <<keys, marker, device, published, minted>>
vars == <<tabVars, callVars, gen, lock, worldVars, events>>

SetupSteps == {"creds", "store", "engine", "ident", "put"}
ASSUME StepsAssumption == None \notin SetupSteps
Setup == SetupSteps \cup {"locking", "granted", "afterLock", "start", "beforeReady"}
Ended == {"done", "ok"}
ViewStates == {"new", "initializing", "ready", "locked", "lost", "revoked", "failed"}
Fingerprints == Nat \ {0}

View == [state : ViewStates, gen : Nat, dev : Devices \cup {None}, owner : Owners \cup {None}]
Generation == [num : Nat, dev : Devices \cup {None}, alive : BOOLEAN, lease : BOOLEAN,
               store : BOOLEAN, engine : BOOLEAN, step : SetupSteps \cup {None},
               fp : Fingerprints \cup {None}, created : BOOLEAN, pub : Fingerprints \cup {None},
               started : BOOLEAN,
               end : {"open", "closing", "stuck", "straggling", "finishing", "gone"}]

NoGeneration == [num |-> 0, dev |-> None, alive |-> FALSE, lease |-> FALSE, store |-> FALSE,
                 engine |-> FALSE, step |-> None, fp |-> None, created |-> FALSE,
                 pub |-> None, started |-> FALSE, end |-> "gone"]

NewView == [state |-> "new", gen |-> 0, dev |-> None, owner |-> None]

Init ==
    /\ view = [t \in Tabs |-> NewView]
    /\ live = [t \in Tabs |-> None]
    /\ inflight = [t \in Tabs |-> None]
    /\ epoch = [t \in Tabs |-> 0]
    /\ pc = [c \in Calls |-> "idle"]
    /\ tab = [c \in Calls |-> None]
    /\ owner = [c \in Calls |-> None]
    /\ req = [c \in Calls |-> 0]
    /\ target = [c \in Calls |-> None]
    /\ gen = [c \in Calls |-> NoGeneration]
    /\ lock = [o \in Owners |-> None]
    /\ keys = [o \in Owners |-> [d \in Devices |-> None]]
    /\ marker = [o \in Owners |-> None]
    /\ device = [o \in Owners |-> 1]
    /\ published = [o \in Owners |-> [d \in Devices |-> None]]
    /\ minted = 0
    /\ events = 0

-----------------------------------------------------------------------------
\* The parts of a step.

Event == events < MaxEvents /\ events' = events + 1

ViewOf(s, n, d, o) == [state |-> s, gen |-> n, dev |-> d, owner |-> o]
Publish(t, v) == view' = [view EXCEPT ![t] = v]
Cleared(n) == ViewOf("new", n + 1, None, None)
Locked(n, d, o) == ViewOf(IF d = None THEN "failed" ELSE "locked", n, d, o)
Failed(g) == ViewOf("failed", gen[g].num, gen[g].dev, owner[g])

\* Mutant: a setup step that still runs does not keep the lease.
AfterEngine_ForgetsStragglers(r) == "finishing"

\* What remains to be closed once the engine is: a setup step that still runs
\* keeps the store and the lease.
AfterEngine(r) == IF r.step # None THEN "straggling" ELSE "finishing"

\* endGeneration: invalidated first, then closed in the background.
End(r) == [r EXCEPT !.alive = FALSE, !.end = IF r.engine THEN "closing" ELSE AfterEngine(r)]

EndGeneration(g) == gen' = [gen EXCEPT ![g] = End(@)]

Waited(g) == gen[g].end \in {"stuck", "straggling", "gone"}

GoTo(c, at) == pc' = [pc EXCEPT ![c] = at] /\ UNCHANGED <<tab, owner, req, target, inflight>>
WaitFor(c, at, g) ==
    /\ pc' = [pc EXCEPT ![c] = at]
    /\ target' = [target EXCEPT ![c] = g]
    /\ UNCHANGED <<tab, owner, req, inflight>>

ReturnAs(c, answer) ==
    /\ pc' = [pc EXCEPT ![c] = answer]
    /\ inflight' = [inflight EXCEPT ![tab[c]] = IF @ = c THEN None ELSE @]
    /\ req' = [req EXCEPT ![c] = 0]
    /\ target' = [target EXCEPT ![c] = None]
    /\ UNCHANGED <<tab, owner>>
Return(c) == ReturnAs(c, "done")

\* finish(g, v): only the live generation, which ends before anyone sees v.  The
\* call goes on when the generation is closed.
Finish(c, g, v) ==
    /\ live' = [live EXCEPT ![tab[g]] = None]
    /\ EndGeneration(g)
    /\ Publish(tab[g], v)
    /\ WaitFor(c, "finishing", g)
    /\ UNCHANGED <<epoch, lock, worldVars, events>>

Identities == People \cup {"signed_out", "unavailable"}

-----------------------------------------------------------------------------
\* ensureReady.

\* A call is placed: it gets its tab, its owner and the epoch it requests.
Place(c, t, o, at, n, waits) ==
    /\ pc[c] = "idle"
    /\ pc' = [pc EXCEPT ![c] = at]
    /\ tab' = [tab EXCEPT ![c] = t]
    /\ owner' = [owner EXCEPT ![c] = o]
    /\ epoch' = [epoch EXCEPT ![t] = n]
    /\ req' = [req EXCEPT ![c] = n]
    /\ target' = [target EXCEPT ![c] = waits]
    /\ UNCHANGED <<view, live, gen, lock, worldVars, events>>

InflightFor(t, o) == inflight[t] # None /\ owner[inflight[t]] = o

EnsureReady(c, t, o) ==
    /\ ~InflightFor(t, o)
    /\ Place(c, t, o, "identity", epoch[t] + 1, None)
    /\ inflight' = [inflight EXCEPT ![t] = c]

\* settleOrphan: no `ready` or `initializing` view without a live generation.
SettleOrphan(t) ==
    IF view[t].state \in {"ready", "initializing"}
    THEN Publish(t, ViewOf("new", view[t].gen + 1, None, None))
    ELSE UNCHANGED view

\* A new generation begins: the view the loop began with is still there, for
\* whoever changes it advances the epoch first.
OpenGeneration(c) ==
    LET t == tab[c]
        n == view[t].gen + 1
        d == IF view[t].owner = owner[c] THEN view[t].dev ELSE None
    IN  /\ gen' = [gen EXCEPT ![c] = [NoGeneration EXCEPT !.num = n, !.dev = d,
                                      !.alive = TRUE, !.end = "open"]]
        /\ live' = [live EXCEPT ![t] = c]
        /\ Publish(t, ViewOf("initializing", n, d, owner[c]))
        /\ GoTo(c, "locking")

\* The person is signed out: keys stay where they are, and so do lost and revoked.
LockView(c) ==
    LET v == view[tab[c]]
    IN  /\ IF v.state \in {"lost", "revoked"}
           THEN UNCHANGED view
           ELSE Publish(tab[c], Locked(v.gen, v.dev, v.owner))
        /\ Return(c)
        /\ UNCHANGED <<live, gen>>

\* The loop with which signedOut and initialise begin: only the newest request
\* ends a generation, and nothing is opened before the last one is closed.
Drain(c, at) ==
    LET t == tab[c]
        newest == req[c] = epoch[t]
    IN  /\ \/ /\ live[t] # None /\ newest
              /\ EndGeneration(live[t])
              /\ live' = [live EXCEPT ![t] = None]
              /\ WaitFor(c, at, live[t])
              /\ UNCHANGED view
           \/ /\ live[t] # None /\ ~newest
              /\ Return(c)
              /\ UNCHANGED <<view, live, gen>>
           \/ /\ live[t] = None /\ ~newest
              /\ SettleOrphan(t)
              /\ Return(c)
              /\ UNCHANGED <<live, gen>>
           \/ /\ live[t] = None /\ newest
              /\ IF at = "draining" THEN OpenGeneration(c) ELSE LockView(c)
        /\ UNCHANGED <<epoch, lock, worldVars, events>>

\* dropOthers: what belongs to somebody else than the signed-in person goes.
DropOthers(c, signedIn) ==
    LET t == tab[c]
        g == live[t]
    IN  \/ /\ g # None /\ owner[g] # signedIn
           /\ Finish(c, g, Cleared(gen[g].num))
        \/ /\ g = None /\ view[t].owner \notin {None, signedIn}
           /\ Publish(t, Cleared(view[t].gen))
           /\ Return(c)
           /\ UNCHANGED <<live, gen, epoch, lock, worldVars, events>>
        \/ /\ IF g = None THEN view[t].owner \in {None, signedIn} ELSE owner[g] = signedIn
           /\ Return(c)
           /\ UNCHANGED <<view, live, gen, epoch, lock, worldVars, events>>

\* ensure: the identity it asked for arrives.
EnsureIdentity(c, i) ==
    LET v == view[tab[c]]
        same == v.owner = owner[c]
        settled == \/ req[c] # epoch[tab[c]]
                   \/ i = "unavailable"
                   \/ /\ i = owner[c] /\ same
                      /\ \/ live[tab[c]] # None /\ v.state = "ready"
                         \/ v.state \in {"lost", "revoked"}
    IN  /\ pc[c] = "identity"
        /\ \/ settled /\ Return(c) /\ UNCHANGED <<view, live, gen, epoch, lock, worldVars, events>>
           \/ ~settled /\ i = "signed_out" /\ Drain(c, "signingOut")
           \/ ~settled /\ i = owner[c] /\ Drain(c, "draining")
           \/ ~settled /\ i \in People \ {owner[c]} /\ DropOthers(c, i)

\* The generation the loop ended is closed.
Drained(c) ==
    /\ pc[c] \in {"draining", "signingOut"}
    /\ Waited(target[c])
    /\ Drain(c, pc[c])

Finished(c) ==
    /\ pc[c] = "finishing"
    /\ Waited(target[c])
    /\ Return(c)
    /\ UNCHANGED <<view, live, epoch, gen, lock, worldVars, events>>

-----------------------------------------------------------------------------
\* initialise: the lease, the setup steps, the start.

Alive(c) == gen[c].alive

\* The browser hands the lock over; the tab learns of it later.
LockGranted(c) ==
    /\ pc[c] = "locking"
    /\ lock[owner[c]] = None
    /\ lock' = [lock EXCEPT ![owner[c]] = c]
    /\ GoTo(c, "granted")
    /\ UNCHANGED <<view, live, epoch, gen, worldVars, events>>

AdoptLease(c) ==
    /\ pc[c] = "granted" /\ Alive(c)
    /\ gen' = [gen EXCEPT ![c].lease = TRUE]
    /\ GoTo(c, "afterLock")
    /\ UNCHANGED <<view, live, epoch, lock, worldVars, events>>

\* Another tab kept the lock for the whole wait, or there are no Web Locks.
LockRefused(c) ==
    /\ pc[c] = "locking" /\ Alive(c)
    /\ Finish(c, c, Failed(c))

\* The step s begins: it counts as a straggler until it settles.
Begin(c, r, s) ==
    /\ gen' = [gen EXCEPT ![c] = [r EXCEPT !.step = s]]
    /\ GoTo(c, s)

Start(c, r) ==
    /\ gen' = [gen EXCEPT ![c] = [r EXCEPT !.step = None, !.started = TRUE]]
    /\ GoTo(c, "start")

\* confirmIdentity, after the lock and before ready is published.
ConfirmIdentity(c, i) ==
    /\ pc[c] \in {"afterLock", "beforeReady"} /\ Alive(c)
    /\ \/ /\ i = owner[c] /\ pc[c] = "afterLock"
          /\ Begin(c, gen[c], "creds")
          /\ UNCHANGED <<view, live, epoch, lock, worldVars, events>>
       \/ /\ i = owner[c] /\ pc[c] = "beforeReady"
          /\ Publish(tab[c], ViewOf("ready", gen[c].num, gen[c].dev, owner[c]))
          /\ Return(c)
          /\ UNCHANGED <<live, epoch, gen, lock, worldVars, events>>
       \/ i = "signed_out" /\ Finish(c, c, Locked(gen[c].num, gen[c].dev, owner[c]))
       \/ i = "unavailable" /\ Finish(c, c, Failed(c))
       \/ i \in People \ {owner[c]} /\ Finish(c, c, Cleared(gen[c].num))

\* The engine opens the store, with the keys it holds or with keys it makes.
OpenKeys(c) ==
    LET o == owner[c]
        d == gen[c].dev
        fresh == keys[o][d] = None
    IN  /\ keys' = IF fresh THEN [keys EXCEPT ![o][d] = minted + 1] ELSE keys
        /\ minted' = IF fresh THEN minted + 1 ELSE minted

PutMarker(c) ==
    marker' = [marker EXCEPT ![owner[c]] = [dev |-> gen[c].dev, fp |-> gen[c].fp]]

\* checkIdentity: the keys must be those the marker and the server know.
CheckIdentity(c) ==
    LET m == marker[owner[c]]
        enrolled == m # None /\ m.dev = gen[c].dev
        lost == \/ enrolled /\ (m.fp # gen[c].fp \/ gen[c].created)
                \/ gen[c].pub \notin {None, gen[c].fp}
    IN  IF lost THEN "lost" ELSE IF enrolled THEN "resume" ELSE "enrol"

Running(c, s) == pc[c] = s /\ Alive(c)

CredentialsResolved(c) ==
    LET d == device[owner[c]]
        r == [gen[c] EXCEPT !.dev = d, !.pub = published[owner[c]][d]]
    IN  /\ Running(c, "creds")
        /\ Begin(c, r, "store")
        /\ UNCHANGED <<view, live, epoch, lock, worldVars, events>>

\* Ends the generation in the step that settled.
FinishStep(c, v) ==
    /\ live' = [live EXCEPT ![tab[c]] = None]
    /\ gen' = [gen EXCEPT ![c] = End([@ EXCEPT !.step = None])]
    /\ Publish(tab[c], v)
    /\ WaitFor(c, "finishing", c)
    /\ UNCHANGED <<epoch, lock>>

CredentialsRefused(c) ==
    /\ Running(c, "creds")
    /\ \/ FinishStep(c, Locked(gen[c].num, gen[c].dev, owner[c]))
       \/ FinishStep(c, ViewOf("revoked", gen[c].num + 1, device[owner[c]], owner[c]))
       \/ FinishStep(c, Failed(c))
    /\ Event
    /\ UNCHANGED worldVars

StoreOpened(c) ==
    /\ Running(c, "store")
    /\ Begin(c, [gen[c] EXCEPT !.store = TRUE], "engine")
    /\ UNCHANGED <<view, live, epoch, lock, worldVars, events>>

\* Mutant: the engine starts as it opens, before its identity is checked.
EngineOpened_Starts(c) ==
    LET k == keys[owner[c]][gen[c].dev]
    IN  /\ Running(c, "engine")
        /\ OpenKeys(c)
        /\ Begin(c, [gen[c] EXCEPT !.engine = TRUE, !.created = k = None, !.started = TRUE,
                                   !.fp = IF k = None THEN minted + 1 ELSE k], "ident")
        /\ UNCHANGED <<view, live, epoch, lock, marker, device, published, events>>

EngineOpened(c) ==
    LET k == keys[owner[c]][gen[c].dev]
    IN  /\ Running(c, "engine")
        /\ OpenKeys(c)
        /\ Begin(c, [gen[c] EXCEPT !.engine = TRUE, !.created = k = None,
                                   !.fp = IF k = None THEN minted + 1 ELSE k], "ident")
        /\ UNCHANGED <<view, live, epoch, lock, marker, device, published, events>>

IdentityChecked(c) ==
    /\ Running(c, "ident")
    /\ \/ /\ CheckIdentity(c) = "lost"
          /\ FinishStep(c, ViewOf("lost", gen[c].num, gen[c].dev, owner[c]))
          /\ UNCHANGED events
       \/ /\ CheckIdentity(c) = "enrol"
          /\ Begin(c, gen[c], "put")
          /\ UNCHANGED <<view, live, epoch, lock, events>>
       \/ /\ CheckIdentity(c) = "resume"
          /\ Start(c, gen[c])
          /\ UNCHANGED <<view, live, epoch, lock, events>>
    /\ UNCHANGED worldVars

MarkerPut(c) ==
    /\ Running(c, "put")
    /\ PutMarker(c)
    /\ Start(c, gen[c])
    /\ UNCHANGED <<view, live, epoch, lock, keys, device, published, minted, events>>

StepThrows(c) ==
    /\ \E s \in SetupSteps : Running(c, s)
    /\ FinishStep(c, Failed(c))
    /\ Event
    /\ UNCHANGED worldVars

\* Mutant: a step has no time limit.
StepTimeout_Never(c) == FALSE /\ UNCHANGED vars

\* The step is given up on and goes on running.
StepTimeout(c) ==
    /\ \E s \in SetupSteps : Running(c, s)
    /\ Finish(c, c, Failed(c))

\* engine.start uploads the keys; an upload may also be all that a start that
\* fails or is given up on has done.
KeysUploaded(c) ==
    /\ gen[c].started /\ gen[c].engine
    /\ published' = [published EXCEPT ![owner[c]][gen[c].dev] = gen[c].fp]
    /\ published' # published
    /\ UNCHANGED <<tabVars, callVars, gen, lock, keys, marker, device, minted, events>>

Started(c) ==
    /\ Running(c, "start")
    /\ published[owner[c]][gen[c].dev] = gen[c].fp
    /\ GoTo(c, "beforeReady")
    /\ UNCHANGED <<view, live, epoch, gen, lock, worldVars, events>>

StartTimeout(c) ==
    /\ Running(c, "start")
    /\ Finish(c, c, Failed(c))

\* The generation ended while its call waited; a lease that arrives is given back.
Superseded(c) ==
    /\ pc[c] \in Setup /\ ~Alive(c)
    /\ Return(c)
    /\ lock' = IF pc[c] = "granted" THEN [lock EXCEPT ![owner[c]] = None] ELSE lock
    /\ UNCHANGED <<view, live, epoch, gen, worldVars, events>>

-----------------------------------------------------------------------------
\* closeResources, beside the calls.

EngineCloses(g) ==
    /\ gen[g].end = "closing"
    /\ gen' = [gen EXCEPT ![g].engine = FALSE, ![g].end = AfterEngine(gen[g])]
    /\ UNCHANGED <<tabVars, callVars, lock, worldVars, events>>

\* An engine that will not close may still write: store and lease stay held.
EngineCloseTimeout(g) ==
    /\ gen[g].end = "closing"
    /\ gen' = [gen EXCEPT ![g].end = "stuck"]
    /\ UNCHANGED <<tabVars, callVars, lock, worldVars, events>>

\* A step of a generation that ended settles: with what it was to do, and then
\* what it opened is closed, or with nothing.
StragglerSettles(g) ==
    /\ ~Alive(g) /\ gen[g].step # None
    /\ gen' = [gen EXCEPT ![g].step = None,
                          ![g].end = IF @ = "straggling" THEN "finishing" ELSE @]
    /\ \/ UNCHANGED worldVars
       \/ gen[g].step = "engine" /\ OpenKeys(g) /\ UNCHANGED <<marker, device, published>>
       \/ gen[g].step = "put" /\ PutMarker(g) /\ UNCHANGED <<keys, device, published, minted>>
    /\ UNCHANGED <<tabVars, callVars, lock, events>>

StoreCloses(g) ==
    /\ gen[g].end = "finishing"
    /\ gen' = [gen EXCEPT ![g] = IF @.step = None THEN NoGeneration
                                 ELSE [@ EXCEPT !.lease = FALSE, !.end = "gone"]]
    /\ lock' = IF gen[g].lease THEN [lock EXCEPT ![owner[g]] = None] ELSE lock
    /\ UNCHANGED <<tabVars, callVars, worldVars, events>>

Close(g) == EngineCloses(g) \/ EngineCloseTimeout(g) \/ StragglerSettles(g) \/ StoreCloses(g)

\* Signals come from the moment the engine is being opened until it is closed, also
\* after the generation ended and another one took its place.
Signals(g) == gen[g].engine \/ gen[g].step = "engine"

SignalEnds(g) ==
    /\ live' = [live EXCEPT ![tab[g]] = None]
    /\ EndGeneration(g)
    /\ \/ Publish(tab[g], ViewOf("revoked", gen[g].num + 1, gen[g].dev, owner[g]))
       \/ Publish(tab[g], Locked(gen[g].num, gen[g].dev, owner[g]))
       \/ Publish(tab[g], Failed(g))

\* Mutant: the callback is not guarded, and ends whatever the tab has by then.
EngineSignal_Unguarded(g) ==
    /\ Event
    /\ Signals(g)
    /\ SignalEnds(g)
    /\ UNCHANGED <<inflight, epoch, callVars, lock, worldVars>>

\* The signal goes through guard: only that of the live generation is heard.
EngineSignal(g) ==
    /\ Event
    /\ Signals(g)
    /\ IF Alive(g) THEN SignalEnds(g) ELSE UNCHANGED <<view, live, gen>>
    /\ UNCHANGED <<inflight, epoch, callVars, lock, worldVars>>

-----------------------------------------------------------------------------
\* stop, use and acceptLoss.

Stop(t) ==
    /\ Event
    /\ epoch' = [epoch EXCEPT ![t] = @ + 1]
    /\ inflight' = [inflight EXCEPT ![t] = None]
    /\ live' = [live EXCEPT ![t] = None]
    /\ IF live[t] = None THEN UNCHANGED gen ELSE EndGeneration(live[t])
    /\ Publish(t, ViewOf("new", view[t].gen + 1, None, None))
    /\ UNCHANGED <<callVars, lock, worldVars>>

\* use waits for the ensureReady of its owner, if one is under way.
Use(c, t, o) ==
    /\ Place(c, t, o, "useWait", epoch[t], IF InflightFor(t, o) THEN inflight[t] ELSE None)
    /\ UNCHANGED inflight

UseCheck(c) ==
    LET g == live[tab[c]]
    IN  /\ pc[c] = "useWait"
        /\ target[c] # None => pc[target[c]] \in Ended
        /\ IF g # None /\ view[tab[c]].state = "ready" /\ owner[g] = owner[c]
           THEN WaitFor(c, "useBefore", g)
           ELSE Return(c)
        /\ UNCHANGED <<view, live, epoch, gen, lock, worldVars, events>>

\* confirmHolder, before the operation and after it.
ConfirmHolder(c, i) ==
    LET g == target[c]
    IN  /\ pc[c] \in {"useBefore", "useAfter"}
        /\ \/ /\ ~Alive(g) \/ i \in {owner[g], "unavailable"}
              /\ IF Alive(g) /\ i = owner[g]
                 THEN IF pc[c] = "useBefore" THEN GoTo(c, "useRuns") ELSE ReturnAs(c, "ok")
                 ELSE Return(c)
              /\ UNCHANGED <<view, live, epoch, gen, lock, worldVars, events>>
           \/ /\ Alive(g) /\ i = "signed_out"
              /\ Finish(c, g, Locked(gen[g].num, gen[g].dev, owner[g]))
           \/ /\ Alive(g) /\ i \in People \ {owner[g]}
              /\ Finish(c, g, Cleared(gen[g].num))

UseRuns(c) ==
    /\ pc[c] = "useRuns"
    /\ GoTo(c, "useAfter") \/ Return(c)
    /\ UNCHANGED <<view, live, epoch, gen, lock, worldVars, events>>

AcceptLoss(c, t, o) ==
    /\ view[t].owner = o /\ view[t].state = "lost"
    /\ Place(c, t, o, "clearing", epoch[t] + 1, None)
    /\ UNCHANGED inflight

LossAccepted(c) ==
    LET t == tab[c]
        current == req[c] = epoch[t] /\ view[t].owner = owner[c] /\ view[t].state = "lost"
    IN  /\ pc[c] = "clearing"
        /\ \/ /\ marker' = [marker EXCEPT ![owner[c]] = None]
              /\ IF current THEN Publish(t, ViewOf("new", view[t].gen, None, owner[c]))
                            ELSE UNCHANGED view
           \/ UNCHANGED <<marker, view>>
        /\ Return(c)
        /\ UNCHANGED <<live, epoch, gen, lock, keys, device, published, minted, events>>

-----------------------------------------------------------------------------
\* The browser and the server around the services.

\* The tab is closed or crashes: the browser frees its locks, its calls are gone.
TabCloses(t) ==
    LET ofTab == {c \in Calls : tab[c] = t}
    IN  /\ Event
        /\ ofTab # {}
        /\ view' = [view EXCEPT ![t] = NewView]
        /\ live' = [live EXCEPT ![t] = None]
        /\ inflight' = [inflight EXCEPT ![t] = None]
        /\ epoch' = [epoch EXCEPT ![t] = 0]
        /\ pc' = [c \in Calls |-> IF c \in ofTab /\ pc[c] # "ok" THEN "done" ELSE pc[c]]
        /\ gen' = [c \in Calls |-> IF c \in ofTab THEN NoGeneration ELSE gen[c]]
        /\ lock' = [o \in Owners |-> IF lock[o] \in ofTab THEN None ELSE lock[o]]
        /\ req' = [c \in Calls |-> IF c \in ofTab THEN 0 ELSE req[c]]
        /\ target' = [c \in Calls |-> IF c \in ofTab THEN None ELSE target[c]]
        /\ UNCHANGED <<tab, owner, worldVars>>

\* The crypto store is cleared, or everything this origin stored.
StorageCleared(o) ==
    /\ Event
    /\ keys' = [keys EXCEPT ![o] = [d \in Devices |-> None]]
    /\ keys' # keys
    /\ marker' = [marker EXCEPT ![o] = None] \/ UNCHANGED marker
    /\ UNCHANGED <<tabVars, callVars, gen, lock, device, published, minted>>

\* The server gives the owner a new device.
Reenrolled(o) ==
    /\ Event
    /\ device[o] + 1 \in Devices
    /\ device' = [device EXCEPT ![o] = @ + 1]
    /\ UNCHANGED <<tabVars, callVars, gen, lock, keys, marker, published, minted>>

Begins(c) ==
    \E t \in Tabs, o \in Owners :
        \/ "ensureReady" \in Operations /\ EnsureReady(c, t, o)
        \/ "use" \in Operations /\ Use(c, t, o)
        \/ "acceptLoss" \in Operations /\ AcceptLoss(c, t, o)

\* What carries a call on even when everything it asked for hangs: an identity that
\* arrives, a timer, the end of a generation.
Answered(c) ==
    \/ \E i \in Identities : EnsureIdentity(c, i) \/ ConfirmIdentity(c, i) \/ ConfirmHolder(c, i)
    \/ LockRefused(c) \/ StepTimeout(c) \/ StartTimeout(c)
    \/ AdoptLease(c) \/ Superseded(c) \/ Drained(c) \/ Finished(c)
    \/ UseCheck(c) \/ UseRuns(c) \/ LossAccepted(c)

Progress(c) ==
    \/ LockGranted(c) \/ CredentialsResolved(c) \/ CredentialsRefused(c) \/ StoreOpened(c)
    \/ EngineOpened(c) \/ IdentityChecked(c) \/ MarkerPut(c) \/ StepThrows(c)
    \/ KeysUploaded(c) \/ Started(c)

Next ==
    \/ \E c \in Calls : Begins(c) \/ Answered(c) \/ Progress(c) \/ Close(c) \/ EngineSignal(c)
    \/ \E t \in Tabs : Stop(t) \/ TabCloses(t)
    \/ \E o \in Owners : StorageCleared(o) \/ Reenrolled(o)

Spec == Init /\ [][Next]_vars

-----------------------------------------------------------------------------
\* Properties.

\* Every variable holds a value of its kind.
TypeOK ==
    /\ view \in [Tabs -> View]
    /\ live \in [Tabs -> Calls \cup {None}]
    /\ inflight \in [Tabs -> Calls \cup {None}]
    /\ epoch \in [Tabs -> Nat]
    /\ pc \in [Calls -> Setup \cup Ended \cup {"idle", "identity", "draining", "signingOut",
                   "finishing", "useWait", "useBefore", "useRuns", "useAfter", "clearing"}]
    /\ tab \in [Calls -> Tabs \cup {None}]
    /\ owner \in [Calls -> Owners \cup {None}]
    /\ req \in [Calls -> Nat]
    /\ target \in [Calls -> Calls \cup {None}]
    /\ gen \in [Calls -> Generation]
    /\ lock \in [Owners -> Calls \cup {None}]
    /\ keys \in [Owners -> [Devices -> Fingerprints \cup {None}]]
    /\ marker \in [Owners -> [dev : Devices, fp : Fingerprints] \cup {None}]
    /\ device \in [Owners -> Devices]
    /\ published \in [Owners -> [Devices -> Fingerprints \cup {None}]]
    /\ minted \in Nat
    /\ events \in Nat

\* A generation writes the store while its engine is being opened, is open or will
\* not close.
Writes(g) == Signals(g)

\* transitions.ts holds the lock for whoever may still write the crypto store - also
\* for a step that was given up on and an engine that will not close - so no two
\* generations, of one tab or of two, ever write one owner's store.
SingleWriter ==
    \A g, h \in Calls : Writes(g) /\ Writes(h) /\ owner[g] = owner[h] => g = h

\* lifecycle.ts: keys are uploaded for a device only if the server had none or these,
\* whatever was cleared, accepted as lost, restarted or retried before: a device
\* never gets a second identity.
DeviceKeepsIdentity ==
    [][\A o \in Owners, d \in Devices :
          published[o][d] # None => published'[o][d] = published[o][d]]_vars

\* A tab that shows `ready` or `initializing` has a live generation of that owner and
\* number behind it, or the request that ended it has yet to publish what follows.
NoOrphanView ==
    \A t \in Tabs :
        view[t].state \in {"ready", "initializing"} =>
            \/ /\ live[t] # None
               /\ owner[live[t]] = view[t].owner /\ gen[live[t]].num = view[t].gen
               /\ view[t].state = "ready" => gen[live[t]].engine /\ gen[live[t]].started
            \/ /\ live[t] = None
               /\ \E c \in Calls : tab[c] = t /\ pc[c] \in {"draining", "signingOut"}

\* Whatever hangs - a lock, an open, a start, a close - nobody is left on "Getting
\* this device ready": a call that has not returned is carried on by an identity
\* that arrives or by a timer, or it waits for a generation that is being closed
\* or for a call of which this is true.
NothingHangs ==
    \A c \in Calls :
        pc[c] \notin Ended \cup {"idle"} =>
            \/ ENABLED Answered(c)
            \/ pc[c] = "useWait" /\ pc[target[c]] # "useWait"
            \/ /\ pc[c] \in {"draining", "signingOut", "finishing"}
               /\ gen[target[c]].end \in {"closing", "finishing"}

=============================================================================
