------------------------ MODULE BrowserDeviceProofs -------------------------
(***************************************************************************)
(* Proofs about BrowserDevice, for any number of tabs, owners, calls and     *)
(* devices, and any number of stops, closed tabs, cleared stores and signals; *)
(* then about HumanApplication, the application that keeps that service.     *)
(*                                                                         *)
(* The argument goes over the lease: a generation that may write its owner's *)
(* store still has the lease, and the holder of the lock is the one that has *)
(* it (`GenerationOK`).  What the server had for a device when the            *)
(* credentials were read is then what it has until this generation uploads   *)
(* its keys: whoever else could upload some would hold the same lock.        *)
(***************************************************************************)
EXTENDS BrowserDevice, HumanApplication, TLAPS

-----------------------------------------------------------------------------
(* The inductive invariant *)

\* The steps of the setup from which on the credentials are known.
WithDevice == {"store", "engine", "ident", "put"}
Unleased == {"idle", "locking", "granted"}

\* What is true of a generation r whose call is at `at`, whoever else there is.
Sound(at, r) ==
    /\ r.alive <=> r.end = "open"
    /\ r.end \in {"straggling", "finishing", "gone"} => ~r.engine
    /\ r.end \in {"finishing", "gone"} => r.step = None
    /\ r.end = "gone" => ~r.lease
    /\ r.engine \/ r.step # None => r.lease
    /\ at \in Unleased => ~r.lease
    /\ at \in Unleased \cup {"afterLock"} => ~r.started
    /\ r.alive /\ at \notin Unleased => r.lease
    /\ r.alive /\ at \in SetupSteps => r.step = at
    /\ r.alive /\ at \in {"start", "beforeReady"} => r.engine /\ r.started
    /\ r.step # None => ~r.started
    /\ r.step \in WithDevice \/ r.started => r.dev \in Devices
    /\ r.step \in {"ident", "put"} \/ r.started => r.fp \in Fingerprints
    /\ r.alive /\ r.step \in {"ident", "put"} => r.engine
    /\ r.alive /\ r.step = "put" => r.pub \in {None, r.fp}

\* What a generation knows of the server's keys for its device.
KnowsKeys(r, onServer) ==
    /\ r.alive /\ r.step \in WithDevice => onServer[r.dev] = r.pub
    /\ r.started /\ r.engine => onServer[r.dev] \in {None, r.fp}

GenerationOK(c) ==
    /\ pc[c] = "idle" => ~gen[c].alive
    /\ pc[c] # "idle" => tab[c] \in Tabs /\ owner[c] \in Owners
    /\ tab[c] \in Tabs => owner[c] \in Owners
    /\ Sound(pc[c], gen[c])
    /\ gen[c].alive => live[tab[c]] = c
    /\ pc[c] = "granted" \/ gen[c].lease => lock[owner[c]] = c
    /\ KnowsKeys(gen[c], published[owner[c]])

Draining == {"draining", "signingOut"}

\* The part of NoOrphanView that is about one tab.
Orphaned(t) ==
    /\ live[t] = None
    /\ ~\E c \in Calls : tab[c] = t /\ pc[c] \in Draining

Behind(t) ==
    /\ owner[live[t]] = view[t].owner /\ gen[live[t]].num = view[t].gen
    /\ view[t].state = "ready" => gen[live[t]].engine /\ gen[live[t]].started

TabOK(t) ==
    /\ live[t] # None => gen[live[t]].alive /\ tab[live[t]] = t
    /\ view[t].state \in {"ready", "initializing"} =>
          ~Orphaned(t) /\ (live[t] # None => Behind(t))

Places == Setup \cup Ended \cup {"idle", "identity", "draining", "signingOut", "finishing",
                                 "useWait", "useBefore", "useRuns", "useAfter", "clearing"}
InSetup == Setup \cup {"idle"}

\* A use that goes on has a generation.
UsePlaces == {"useBefore", "useRuns", "useAfter"}

CallTypes ==
    /\ pc \in [Calls -> Places]
    /\ tab \in [Calls -> Tabs \cup {None}]
    /\ owner \in [Calls -> Owners \cup {None}]
    /\ req \in [Calls -> Nat]
    /\ target \in [Calls -> Calls \cup {None}]
    /\ inflight \in [Tabs -> Calls \cup {None}]
    /\ \A c \in Calls : pc[c] \in UsePlaces => target[c] \in Calls

WorldTypes ==
    /\ keys \in [Owners -> [Devices -> Fingerprints \cup {None}]]
    /\ marker \in [Owners -> [dev : Devices, fp : Fingerprints] \cup {None}]
    /\ device \in [Owners -> Devices]
    /\ published \in [Owners -> [Devices -> Fingerprints \cup {None}]]
    /\ minted \in Nat
    /\ events \in Nat

\* The rest: what the tabs show and own, and the locks.
OwnTypes ==
    /\ view \in [Tabs -> View]
    /\ live \in [Tabs -> Calls \cup {None}]
    /\ epoch \in [Tabs -> Nat]
    /\ gen \in [Calls -> Generation]
    /\ lock \in [Owners -> Calls \cup {None}]

Typing == CallTypes /\ WorldTypes /\ OwnTypes

Inv ==
    /\ Typing
    /\ \A c \in Calls : GenerationOK(c)
    /\ \A t \in Tabs : TabOK(t)

-----------------------------------------------------------------------------
(* Types *)

LEMMA TypesNext == CallTypes' /\ WorldTypes' /\ OwnTypes' => Typing'
  BY DEF Typing

LEMMA Typed ==
    ASSUME Inv
    PROVE  CallTypes /\ WorldTypes /\ OwnTypes
  BY DEF Inv, Typing

\* A call moves to another place; tabs and owners stay.
Moves(c, at) ==
    /\ pc' = [pc EXCEPT ![c] = at]
    /\ UNCHANGED <<tab, owner>>
    /\ CallTypes'

LEMMA GoToMoves ==
    ASSUME Inv, NEW c \in Calls, NEW at \in Places, GoTo(c, at),
           at \in UsePlaces => pc[c] \in UsePlaces
    PROVE  Moves(c, at)
  BY Typed DEF GoTo, Moves, CallTypes

LEMMA WaitForMoves ==
    ASSUME Inv, NEW c \in Calls, NEW at \in Places, NEW g \in Calls, WaitFor(c, at, g)
    PROVE  Moves(c, at)
  BY Typed DEF WaitFor, Moves, CallTypes

LEMMA ReturnMoves ==
    ASSUME Inv, NEW c \in Calls, NEW at \in Ended, ReturnAs(c, at)
    PROVE  Moves(c, at)
<1>1. at \in Places /\ at \notin UsePlaces
  BY DEF Places, Ended, UsePlaces
<1>2. inflight' \in [Tabs -> Calls \cup {None}]
  BY Typed DEF ReturnAs, CallTypes
<1> QED
  BY <1>1, <1>2, Typed DEF ReturnAs, Moves, CallTypes

LEMMA Returns ==
    ASSUME Inv, NEW c \in Calls, Return(c)
    PROVE  Moves(c, "done")
  BY ReturnMoves DEF Return, Ended

-----------------------------------------------------------------------------
(* What a step leaves as it was *)

\* A generation that a step does not touch; its call may move about outside the setup.
LEMMA GenerationKept ==
    ASSUME Inv, NEW g \in Calls,
           gen'[g] = gen[g], tab'[g] = tab[g], owner'[g] = owner[g],
           pc'[g] = pc[g] \/ (pc[g] \notin InSetup /\ pc'[g] \notin InSetup),
           gen[g].alive => live'[tab[g]] = live[tab[g]],
           pc[g] = "granted" \/ gen[g].lease =>
               lock'[owner[g]] = g /\ published'[owner[g]] = published[owner[g]]
    PROVE  GenerationOK(g)'
<1>1. GenerationOK(g)
  BY DEF Inv
<1>2. Sound(pc[g], gen[g]) => Sound(pc'[g], gen[g])
  BY DEF Sound, InSetup, Setup, SetupSteps, Unleased
<1>3. KnowsKeys(gen[g], published[owner[g]]) => KnowsKeys(gen[g], published'[owner[g]])
  <2>1. ~gen[g].lease => ~gen[g].engine /\ gen[g].step = None
    BY <1>1 DEF GenerationOK, Sound
  <2>2. None \notin WithDevice
    BY StepsAssumption DEF WithDevice, SetupSteps
  <2> QED
    BY <2>1, <2>2 DEF KnowsKeys
<1>4. pc'[g] = "granted" => pc[g] = "granted"
  BY DEF InSetup, Setup
<1>5. (pc'[g] = "idle") <=> (pc[g] = "idle")
  BY DEF InSetup
<1> HIDE DEF Sound, KnowsKeys
<1> QED
  BY <1>1, <1>2, <1>3, <1>4, <1>5 DEF GenerationOK

\* A tab whose live generation goes on, or whose view asks for none.
LEMMA TabKept ==
    ASSUME Inv, NEW t \in Tabs,
           view'[t] = view[t] \/ view'[t].state \notin {"ready", "initializing"},
           live'[t] = live[t],
           live[t] # None =>
               /\ gen'[live[t]].alive /\ gen'[live[t]].num = gen[live[t]].num
               /\ gen[live[t]].engine => gen'[live[t]].engine
               /\ gen[live[t]].started => gen'[live[t]].started
               /\ tab'[live[t]] = tab[live[t]] /\ owner'[live[t]] = owner[live[t]],
           live[t] = None /\ view'[t].state \in {"ready", "initializing"} =>
               \A c \in Calls : tab[c] = t /\ pc[c] \in Draining =>
                                    tab'[c] = t /\ pc'[c] \in Draining
    PROVE  TabOK(t)'
<1>1. TabOK(t)
  BY DEF Inv
<1> QED
  BY <1>1 DEF TabOK, Orphaned, Behind

\* A generation that is alive is the live one of its tab, and its call was placed.
LEMMA AliveFacts ==
    ASSUME Inv, NEW g \in Calls, gen[g].alive
    PROVE  /\ pc[g] # "idle" /\ tab[g] \in Tabs /\ owner[g] \in Owners
           /\ live[tab[g]] = g /\ Sound(pc[g], gen[g])
           /\ gen[g] \in Generation
  BY Typed DEF Inv, GenerationOK, OwnTypes

\* And the live generation of a tab is alive.
LEMMA LiveFacts ==
    ASSUME Inv, NEW t \in Tabs, live[t] # None
    PROVE  live[t] \in Calls /\ gen[live[t]].alive /\ tab[live[t]] = t
  BY Typed DEF Inv, TabOK, OwnTypes

\* A call that was placed has its tab and its owner.
LEMMA PlacedFacts ==
    ASSUME Inv, NEW c \in Calls, pc[c] # "idle"
    PROVE  tab[c] \in Tabs /\ owner[c] \in Owners
  BY DEF Inv, GenerationOK

\* A step of a call outside the setup that touches no generation.
LEMMA CallQuiet ==
    ASSUME Inv, NEW c \in Calls, NEW at \in Places \ InSetup, pc[c] \notin InSetup,
           Moves(c, at), UNCHANGED <<live, epoch, gen, lock, published>>, WorldTypes',
           view' \in [Tabs -> View],
           \A t \in Tabs : view'[t] = view[t] \/ view'[t].state \notin {"ready", "initializing"},
           pc[c] \in Draining =>
               \/ at \in Draining \/ live[tab[c]] # None
               \/ view'[tab[c]].state \notin {"ready", "initializing"}
    PROVE  Inv'
<1>1. /\ pc'[c] = at /\ (\A h \in Calls \ {c} : pc'[h] = pc[h])
      /\ tab' = tab /\ owner' = owner /\ CallTypes'
  BY Typed DEF Moves, CallTypes
<1>2. Typing'
  BY <1>1, TypesNext, Typed DEF OwnTypes
<1>3. \A h \in Calls : GenerationOK(h)'
  <2> SUFFICES ASSUME NEW h \in Calls
               PROVE  GenerationOK(h)'
    OBVIOUS
  <2>1. pc[h] = "granted" \/ gen[h].lease => lock'[owner[h]] = h
    BY DEF Inv, GenerationOK
  <2> QED
    BY <1>1, <2>1, GenerationKept
<1>4. \A t \in Tabs : TabOK(t)'
  <2> SUFFICES ASSUME NEW t \in Tabs
               PROVE  TabOK(t)'
    OBVIOUS
  <2>1. live[t] # None => gen'[live[t]].alive
    BY LiveFacts
  <2>2. live[t] = None /\ view'[t].state \in {"ready", "initializing"} =>
          \A h \in Calls : tab[h] = t /\ pc[h] \in Draining => tab'[h] = t /\ pc'[h] \in Draining
    BY <1>1
  <2> QED
    BY <1>1, <2>1, <2>2, TabKept
<1> QED
  BY <1>2, <1>3, <1>4 DEF Inv

\* A generation g ends: x is what is left of it.
Ends(g, x) ==
    /\ gen' = [gen EXCEPT ![g] = x]
    /\ live' = [live EXCEPT ![tab[g]] = None]
    /\ x \in Generation
    /\ ~x.alive
    /\ Sound(pc'[g], x)
    /\ x.lease => gen[g].lease
    /\ x.started /\ x.engine => gen[g].started /\ gen[g].engine /\ x.dev = gen[g].dev /\ x.fp = gen[g].fp

LEMMA GenerationEnds ==
    ASSUME Inv, NEW g \in Calls, gen[g].alive, NEW x, Ends(g, x),
           UNCHANGED <<tab, owner, lock, published>>, CallTypes', WorldTypes',
           epoch' \in [Tabs -> Nat], view' \in [Tabs -> View],
           \A h \in Calls : \/ pc'[h] = pc[h]
                            \/ pc'[h] \notin InSetup /\ (pc[h] \notin InSetup \/ h = g),
           \A h \in Calls : pc[h] \in Draining => pc'[h] \in Draining,
           \A t \in Tabs \ {tab[g]} : view'[t] = view[t],
           \/ view'[tab[g]].state \notin {"ready", "initializing"}
           \/ \E h \in Calls : tab[h] = tab[g] /\ pc'[h] \in Draining
    PROVE  Inv'
<1>1. /\ pc[g] # "idle" /\ tab[g] \in Tabs /\ owner[g] \in Owners
      /\ live[tab[g]] = g /\ gen[g] \in Generation
  BY AliveFacts
<1>2. /\ gen'[g] = x /\ (\A h \in Calls \ {g} : gen'[h] = gen[h])
      /\ gen' \in [Calls -> Generation]
  BY Typed DEF Ends, OwnTypes
<1>3. /\ live'[tab[g]] = None /\ (\A t \in Tabs \ {tab[g]} : live'[t] = live[t])
      /\ live' \in [Tabs -> Calls \cup {None}]
  BY <1>1, Typed DEF Ends, OwnTypes
<1>4. Typing'
  BY <1>2, <1>3, TypesNext, Typed DEF OwnTypes
<1>5. GenerationOK(g)'
  <2>1. KnowsKeys(gen[g], published[owner[g]]) /\ (gen[g].lease => lock[owner[g]] = g)
        /\ (pc[g] = "granted" => lock[owner[g]] = g)
    BY DEF Inv, GenerationOK
  <2>2. KnowsKeys(x, published[owner[g]])
    BY <2>1 DEF KnowsKeys, Ends
  <2>3. pc'[g] = "granted" => pc[g] = "granted"
    BY DEF InSetup, Setup
  <2>4. pc'[g] # "idle"
    BY <1>1 DEF InSetup
  <2> HIDE DEF Sound, KnowsKeys
  <2> QED
    BY <1>1, <1>2, <2>1, <2>2, <2>3, <2>4 DEF GenerationOK, Ends
<1>6. ASSUME NEW h \in Calls, h # g
      PROVE  GenerationOK(h)'
  <2>1. pc[h] = "granted" \/ gen[h].lease => lock'[owner[h]] = h
    BY DEF Inv, GenerationOK
  <2>2. gen[h].alive => tab[h] \in Tabs /\ live[tab[h]] = h
    BY AliveFacts
  <2>3. gen[h].alive => live'[tab[h]] = live[tab[h]]
    BY <1>1, <1>3, <1>6, <2>2
  <2> QED
    BY <1>2, <1>6, <2>1, <2>3, GenerationKept
<1>7. TabOK(tab[g])'
  <2>1. \A h \in Calls : tab'[h] = tab[h]
    OBVIOUS
  <2> QED
    BY <1>3, <2>1 DEF TabOK, Orphaned
<1>8. ASSUME NEW t \in Tabs, t # tab[g]
      PROVE  TabOK(t)'
  <2>1. live[t] # None => live[t] \in Calls /\ gen[live[t]].alive /\ tab[live[t]] = t
    BY LiveFacts
  <2>2. live[t] # None => gen'[live[t]] = gen[live[t]]
    BY <1>2, <1>8, <2>1
  <2>3. live[t] # None => tab'[live[t]] = tab[live[t]] /\ owner'[live[t]] = owner[live[t]]
    OBVIOUS
  <2> QED
    BY <1>3, <1>8, <2>1, <2>2, <2>3, TabKept
<1> QED
  BY <1>4, <1>5, <1>6, <1>7, <1>8 DEF Inv

\* A setup step: the generation of a call goes on as x.
LEMMA SetupStep ==
    ASSUME Inv, NEW c \in Calls, gen[c].alive, pc[c] \in Setup,
           NEW at \in Setup, Moves(c, at),
           NEW x \in Generation, gen' = [gen EXCEPT ![c] = x],
           x.alive, x.num = gen[c].num, gen[c].engine => x.engine, gen[c].started => x.started,
           Sound(at, x), KnowsKeys(x, published[owner[c]]),
           at = "granted" \/ x.lease => lock[owner[c]] = c,
           UNCHANGED <<view, live, epoch, lock, published>>, WorldTypes'
    PROVE  Inv'
<1>1. /\ pc'[c] = at /\ (\A h \in Calls \ {c} : pc'[h] = pc[h])
      /\ tab' = tab /\ owner' = owner /\ CallTypes'
  BY Typed DEF Moves, CallTypes
<1>2. /\ gen'[c] = x /\ (\A h \in Calls \ {c} : gen'[h] = gen[h])
      /\ gen' \in [Calls -> Generation]
  BY Typed DEF OwnTypes
<1>3. Typing'
  BY <1>1, <1>2, TypesNext, Typed DEF OwnTypes
<1>4. at # "idle" /\ pc[c] \notin Draining /\ at \notin Draining
  BY DEF Setup, SetupSteps, Draining
<1>5. GenerationOK(c)'
  <2>1. tab[c] \in Tabs /\ owner[c] \in Owners /\ live[tab[c]] = c
    BY AliveFacts
  <2> HIDE DEF Sound, KnowsKeys
  <2> QED
    BY <1>1, <1>2, <1>4, <2>1 DEF GenerationOK
<1>6. ASSUME NEW h \in Calls, h # c
      PROVE  GenerationOK(h)'
  <2>1. pc[h] = "granted" \/ gen[h].lease => lock'[owner[h]] = h
    BY DEF Inv, GenerationOK
  <2> QED
    BY <1>1, <1>2, <1>6, <2>1, GenerationKept
<1>7. ASSUME NEW t \in Tabs
      PROVE  TabOK(t)'
  <2>1. live[t] # None => live[t] \in Calls /\ gen[live[t]].alive /\ tab[live[t]] = t
    BY LiveFacts
  <2>2. live[t] # None =>
          /\ gen'[live[t]].alive /\ gen'[live[t]].num = gen[live[t]].num
          /\ gen[live[t]].engine => gen'[live[t]].engine
          /\ gen[live[t]].started => gen'[live[t]].started
    BY <1>2, <2>1
  <2>3. \A h \in Calls : tab[h] = t /\ pc[h] \in Draining => tab'[h] = t /\ pc'[h] \in Draining
    BY <1>1, <1>4
  <2> QED
    BY <1>1, <2>2, <2>3, TabKept
<1> QED
  BY <1>3, <1>5, <1>6, <1>7 DEF Inv

-----------------------------------------------------------------------------
(* A generation ends *)

\* What is left of a generation that ends keeps its lease, and is closed in order.
LEMMA EndSound ==
    ASSUME NEW r \in Generation, NEW at, Sound(at, r), r.alive,
           NEW next, next = at \/ next \notin InSetup
    PROVE  /\ End(r) \in Generation /\ ~End(r).alive /\ Sound(next, End(r))
           /\ End(r).lease = r.lease /\ End(r).started = r.started /\ End(r).engine = r.engine
           /\ End(r).dev = r.dev /\ End(r).fp = r.fp
<1> DEFINE e == IF r.engine THEN "closing" ELSE AfterEngine(r)
<1>1. e \in {"closing", "straggling", "finishing"}
      /\ (e \in {"straggling", "finishing"} => ~r.engine) /\ (e = "finishing" => r.step = None)
  BY DEF AfterEngine, Generation
<1>2. End(r) = [r EXCEPT !.alive = FALSE, !.end = e]
  BY DEF End
<1> HIDE DEF e
<1>3. /\ End(r) \in Generation /\ End(r).alive = FALSE /\ End(r).end = e
      /\ End(r).lease = r.lease /\ End(r).started = r.started /\ End(r).engine = r.engine
      /\ End(r).dev = r.dev /\ End(r).fp = r.fp /\ End(r).step = r.step /\ End(r).pub = r.pub
  BY <1>1, <1>2, ZenonT(60) DEF Generation
<1>4. next \in Unleased \cup {"afterLock"} => next = at
  BY DEF Unleased, InSetup, Setup
<1>5. Sound(next, End(r))
  BY <1>1, <1>3, <1>4 DEF Sound, Unleased
<1> QED
  BY <1>3, <1>5

\* A setup step that settles: nothing of the generation is under way any more.
LEMMA SettledSound ==
    ASSUME NEW r \in Generation, NEW at \in SetupSteps, Sound(at, r), r.alive
    PROVE  LET x == [r EXCEPT !.step = None] IN
           /\ x \in Generation /\ x.alive /\ Sound("done", x)
           /\ x.lease = r.lease /\ x.started = r.started /\ x.engine = r.engine
           /\ x.dev = r.dev /\ x.fp = r.fp
<1> DEFINE x == [r EXCEPT !.step = None]
<1>1. /\ x \in Generation /\ x.alive = TRUE /\ x.step = None /\ x.end = r.end /\ x.pub = r.pub
      /\ x.lease = r.lease /\ x.started = r.started /\ x.engine = r.engine
      /\ x.dev = r.dev /\ x.fp = r.fp
  BY DEF Generation
<1>2. None \notin WithDevice /\ None \notin {"ident", "put"}
  BY StepsAssumption DEF WithDevice, SetupSteps
<1>3. at \notin Unleased /\ "done" \notin Unleased \cup {"afterLock"} \cup SetupSteps \cup {"start", "beforeReady"}
  BY DEF Unleased, SetupSteps
<1> HIDE DEF x
<1>4. Sound("done", x)
  BY <1>1, <1>2, <1>3 DEF Sound
<1>5. /\ x \in Generation /\ x.alive /\ Sound("done", x)
      /\ x.lease = r.lease /\ x.started = r.started /\ x.engine = r.engine
      /\ x.dev = r.dev /\ x.fp = r.fp
  BY <1>1, <1>4
<1> QED
  BY <1>5 DEF x

LEMMA ViewTypes ==
    ASSUME NEW s \in ViewStates, NEW n \in Nat, NEW d \in Devices \cup {None},
           NEW o \in Owners \cup {None}
    PROVE  ViewOf(s, n, d, o) \in View /\ ViewOf(s, n, d, o).state = s
  BY DEF ViewOf, View

\* The views that a generation may end with.
Parting(v) == v \in View /\ v.state \notin {"ready", "initializing"}

LEMMA PartingViews ==
    ASSUME Inv, NEW g \in Calls, pc[g] # "idle"
    PROVE  /\ Parting(Failed(g))
           /\ Parting(Locked(gen[g].num, gen[g].dev, owner[g]))
           /\ Parting(Cleared(gen[g].num))
           /\ \A d \in Devices \cup {None} : Parting(ViewOf("revoked", gen[g].num + 1, d, owner[g]))
           /\ Parting(ViewOf("lost", gen[g].num, gen[g].dev, owner[g]))
<1>1. gen[g].num \in Nat /\ gen[g].num + 1 \in Nat /\ gen[g].dev \in Devices \cup {None}
      /\ owner[g] \in Owners \cup {None}
  BY Typed DEF OwnTypes, Generation, CallTypes
<1>2. {"new", "locked", "lost", "revoked", "failed"} \subseteq ViewStates
  BY DEF ViewStates
<1>3. \A s \in {"new", "locked", "lost", "revoked", "failed"}, n \in Nat, d \in Devices \cup {None},
         o \in Owners \cup {None} : Parting(ViewOf(s, n, d, o))
  BY <1>2, ViewTypes DEF Parting
<1> QED
  BY <1>1, <1>3 DEF Failed, Locked, Cleared

LEMMA PublishTypes ==
    ASSUME Inv, NEW t \in Tabs, NEW v, Parting(v), Publish(t, v)
    PROVE  /\ view' \in [Tabs -> View]
           /\ view'[t].state \notin {"ready", "initializing"}
           /\ \A u \in Tabs \ {t} : view'[u] = view[u]
  BY Typed DEF Publish, Parting, OwnTypes

\* finish, called outside the setup or by the generation's own call.
LEMMA FinishInv ==
    ASSUME Inv, NEW c \in Calls, NEW g \in Calls, gen[g].alive, NEW v, Parting(v),
           c = g \/ pc[c] \notin InSetup, pc[c] \notin Draining,
           Finish(c, g, v)
    PROVE  Inv'
<1>1. /\ pc[g] # "idle" /\ tab[g] \in Tabs /\ owner[g] \in Owners
      /\ Sound(pc[g], gen[g]) /\ gen[g] \in Generation
  BY AliveFacts
<1>2. "finishing" \in Places \ InSetup
  BY DEF Places, InSetup, Setup, SetupSteps
<1>3. Moves(c, "finishing")
  BY <1>2, WaitForMoves DEF Finish
<1>4. pc'[c] = "finishing" /\ (\A h \in Calls \ {c} : pc'[h] = pc[h])
  BY <1>3, Typed DEF Moves, CallTypes
<1> DEFINE x == End(gen[g])
<1>5. pc'[g] = pc[g] \/ pc'[g] \notin InSetup
  BY <1>2, <1>4
<1>6. /\ x \in Generation /\ ~x.alive /\ Sound(pc'[g], x)
      /\ x.lease = gen[g].lease /\ x.started = gen[g].started /\ x.engine = gen[g].engine
      /\ x.dev = gen[g].dev /\ x.fp = gen[g].fp
  BY <1>1, <1>5, EndSound
<1>7. Ends(g, x)
  <2>1. gen' = [gen EXCEPT ![g] = x] /\ live' = [live EXCEPT ![tab[g]] = None]
    BY DEF Finish, EndGeneration
  <2> HIDE DEF x, Sound
  <2> QED
    BY <1>6, <2>1 DEF Ends
<1>8. /\ view' \in [Tabs -> View]
      /\ view'[tab[g]].state \notin {"ready", "initializing"}
      /\ \A u \in Tabs \ {tab[g]} : view'[u] = view[u]
  BY <1>1, PublishTypes DEF Finish
<1>9. UNCHANGED <<tab, owner, lock, published>> /\ CallTypes' /\ WorldTypes'
      /\ epoch' \in [Tabs -> Nat]
  BY <1>3, Typed DEF Finish, Moves, WorldTypes, OwnTypes, worldVars
<1>10. \A h \in Calls : \/ pc'[h] = pc[h]
                        \/ pc'[h] \notin InSetup /\ (pc[h] \notin InSetup \/ h = g)
  BY <1>2, <1>4
<1>11. \A h \in Calls : pc[h] \in Draining => pc'[h] \in Draining
  BY <1>4
<1> HIDE DEF x
<1> QED
  BY <1>7, <1>8, <1>9, <1>10, <1>11, GenerationEnds

\* The same, for the step that settled.
LEMMA FinishStepInv ==
    ASSUME Inv, NEW c \in Calls, NEW s \in SetupSteps, Running(c, s), NEW v, Parting(v),
           FinishStep(c, v), UNCHANGED worldVars, events' \in Nat
    PROVE  Inv'
<1>1. /\ gen[c].alive /\ pc[c] = s /\ tab[c] \in Tabs /\ owner[c] \in Owners
      /\ Sound(s, gen[c]) /\ gen[c] \in Generation
  BY AliveFacts DEF Running, Alive
<1>2. "finishing" \in Places \ InSetup
  BY DEF Places, InSetup, Setup, SetupSteps
<1>3. Moves(c, "finishing")
  BY <1>2, WaitForMoves DEF FinishStep
<1>4. pc'[c] = "finishing" /\ (\A h \in Calls \ {c} : pc'[h] = pc[h])
  BY <1>3, Typed DEF Moves, CallTypes
<1> DEFINE r == [gen[c] EXCEPT !.step = None]
           x == End(r)
<1>5. /\ r \in Generation /\ r.alive /\ Sound("done", r)
      /\ r.lease = gen[c].lease /\ r.started = gen[c].started /\ r.engine = gen[c].engine
      /\ r.dev = gen[c].dev /\ r.fp = gen[c].fp
  BY <1>1, SettledSound
<1> HIDE DEF r
<1>6. /\ x \in Generation /\ ~x.alive /\ Sound("finishing", x)
      /\ x.lease = r.lease /\ x.started = r.started /\ x.engine = r.engine
      /\ x.dev = r.dev /\ x.fp = r.fp
  BY <1>2, <1>5, EndSound
<1>7. Ends(c, x)
  <2>1. gen' = [gen EXCEPT ![c] = x] /\ live' = [live EXCEPT ![tab[c]] = None]
    BY DEF FinishStep, r
  <2> HIDE DEF x, Sound
  <2> QED
    BY <1>4, <1>5, <1>6, <2>1 DEF Ends
<1>8. /\ view' \in [Tabs -> View]
      /\ view'[tab[c]].state \notin {"ready", "initializing"}
      /\ \A u \in Tabs \ {tab[c]} : view'[u] = view[u]
  BY <1>1, PublishTypes DEF FinishStep
<1>9. UNCHANGED <<tab, owner, lock, published>> /\ CallTypes' /\ WorldTypes'
      /\ epoch' \in [Tabs -> Nat]
  BY <1>3, Typed DEF FinishStep, Moves, WorldTypes, OwnTypes, worldVars
<1>10. \A h \in Calls : \/ pc'[h] = pc[h]
                        \/ pc'[h] \notin InSetup /\ (pc[h] \notin InSetup \/ h = c)
  BY <1>2, <1>4
<1>11. \A h \in Calls : pc[h] \in Draining => pc'[h] \in Draining
  BY <1>1, <1>4 DEF Draining, SetupSteps
<1> HIDE DEF x
<1> QED
  BY <1>1, <1>7, <1>8, <1>9, <1>10, <1>11, GenerationEnds

-----------------------------------------------------------------------------
(* initialise *)

\* What a call in its setup knows of its own generation.
LEMMA OwnFacts ==
    ASSUME Inv, NEW c \in Calls, gen[c].alive
    PROVE  /\ GenerationOK(c) /\ Sound(pc[c], gen[c])
           /\ KnowsKeys(gen[c], published[owner[c]]) /\ gen[c] \in Generation
           /\ owner[c] \in Owners /\ tab[c] \in Tabs
           /\ gen[c].lease => lock[owner[c]] = c
  BY AliveFacts DEF Inv, GenerationOK

LEMMA SetupPlaces == Setup \subseteq Places /\ SetupSteps \subseteq Setup
                     /\ Setup \cap UsePlaces = {}
  BY DEF Places, Setup, SetupSteps, UsePlaces

\* The lock goes to a call that waits for it; nobody had it.
LEMMA LockGrantedInv ==
    ASSUME Inv, NEW c \in Calls, LockGranted(c)
    PROVE  Inv'
<1>1. pc[c] = "locking" /\ tab[c] \in Tabs /\ owner[c] \in Owners
  BY PlacedFacts DEF LockGranted
<1>2. Moves(c, "granted")
  BY GoToMoves, SetupPlaces DEF LockGranted, Setup
<1>3. /\ pc'[c] = "granted" /\ (\A h \in Calls \ {c} : pc'[h] = pc[h])
      /\ tab' = tab /\ owner' = owner /\ CallTypes'
  BY <1>2, Typed DEF Moves, CallTypes
<1>4. /\ lock' \in [Owners -> Calls \cup {None}] /\ lock'[owner[c]] = c
      /\ \A o \in Owners : lock[o] # None => lock'[o] = lock[o]
  BY <1>1, Typed DEF LockGranted, OwnTypes
<1>5. UNCHANGED <<view, live, epoch, gen, worldVars, events>> /\ published' = published
  BY DEF LockGranted, worldVars
<1>6. Typing'
  BY <1>3, <1>4, <1>5, TypesNext, Typed DEF OwnTypes, WorldTypes, worldVars
<1>7. GenerationOK(c)'
  <2>1. GenerationOK(c)
    BY DEF Inv
  <2>2. Sound(pc[c], gen[c]) => Sound("granted", gen[c])
    BY <1>1 DEF Sound, Unleased, SetupSteps
  <2> HIDE DEF Sound, KnowsKeys
  <2> QED
    BY <1>1, <1>3, <1>4, <1>5, <2>1, <2>2 DEF GenerationOK
<1>8. ASSUME NEW h \in Calls, h # c
      PROVE  GenerationOK(h)'
  <2>1. GenerationOK(h)
    BY DEF Inv
  <2>2. pc[h] = "granted" \/ gen[h].lease => owner[h] \in Owners /\ lock[owner[h]] = h
    BY <2>1 DEF GenerationOK, Sound, Unleased
  <2>3. pc[h] = "granted" \/ gen[h].lease => lock'[owner[h]] = h
    BY <1>4, <2>2, NoneAssumption
  <2> QED
    BY <1>3, <1>5, <1>8, <2>3, GenerationKept
<1>9. ASSUME NEW t \in Tabs
      PROVE  TabOK(t)'
  <2>1. live[t] # None => gen'[live[t]].alive
    BY <1>5, LiveFacts
  <2>2. \A h \in Calls : tab[h] = t /\ pc[h] \in Draining => tab'[h] = t /\ pc'[h] \in Draining
    BY <1>1, <1>3 DEF Draining
  <2> QED
    BY <1>3, <1>5, <2>1, <2>2, TabKept
<1> QED
  BY <1>6, <1>7, <1>8, <1>9 DEF Inv

LEMMA AdoptLeaseInv ==
    ASSUME Inv, NEW c \in Calls, AdoptLease(c)
    PROVE  Inv'
<1> DEFINE x == [gen[c] EXCEPT !.lease = TRUE]
<1>1. /\ GenerationOK(c) /\ Sound("granted", gen[c]) /\ KnowsKeys(gen[c], published[owner[c]])
      /\ gen[c] \in Generation /\ gen[c].alive
  BY OwnFacts DEF AdoptLease, Alive
<1>2. gen' = [gen EXCEPT ![c] = x]
  BY DEF AdoptLease
<1>3. /\ x \in Generation /\ x.lease = TRUE /\ x.alive = gen[c].alive /\ x.num = gen[c].num
      /\ x.engine = gen[c].engine /\ x.started = gen[c].started /\ x.end = gen[c].end
      /\ x.step = gen[c].step /\ x.dev = gen[c].dev /\ x.fp = gen[c].fp /\ x.pub = gen[c].pub
  BY <1>1 DEF Generation
<1> HIDE DEF x
<1>4. Sound("afterLock", x)
  BY <1>1, <1>3 DEF Sound, Unleased, SetupSteps
<1>5. KnowsKeys(x, published[owner[c]])
  BY <1>1, <1>3 DEF KnowsKeys
<1>6. Moves(c, "afterLock") /\ "afterLock" \in Setup /\ pc[c] = "granted" /\ pc[c] \in Setup
  BY GoToMoves, SetupPlaces DEF AdoptLease, Setup
<1>7. lock[owner[c]] = c
  BY <1>1, <1>6 DEF GenerationOK
<1>8. UNCHANGED <<view, live, epoch, lock, published>> /\ WorldTypes'
  BY Typed DEF AdoptLease, worldVars, WorldTypes
<1> HIDE DEF Sound, KnowsKeys
<1> QED
  BY <1>1, <1>2, <1>3, <1>4, <1>5, <1>6, <1>7, <1>8, SetupStep

LEMMA TimeoutInv ==
    ASSUME Inv, NEW c \in Calls, LockRefused(c) \/ StepTimeout(c) \/ StartTimeout(c)
    PROVE  Inv'
<1>1. gen[c].alive /\ Finish(c, c, Failed(c)) /\ pc[c] \in Setup
  BY DEF LockRefused, StepTimeout, StartTimeout, Running, Alive, Setup
<1>2. pc[c] \notin Draining /\ pc[c] # "idle"
  BY <1>1 DEF Setup, SetupSteps, Draining
<1>3. Parting(Failed(c))
  BY <1>2, PartingViews
<1> QED
  BY <1>1, <1>2, <1>3, FinishInv

\* The next step begins, with the generation r: what has to be true of r.
LEMMA BeginInv ==
    ASSUME Inv, NEW c \in Calls, gen[c].alive, pc[c] \in Setup,
           NEW r \in Generation, NEW s \in SetupSteps, Begin(c, r, s),
           r.alive, r.end = "open", r.num = gen[c].num, gen[c].engine => r.engine,
           ~r.started, ~gen[c].started, r.lease, gen[c].lease,
           s \in WithDevice => r.dev \in Devices /\ published[owner[c]][r.dev] = r.pub,
           s \in {"ident", "put"} => r.fp \in Fingerprints /\ r.engine,
           s = "put" => r.pub \in {None, r.fp},
           UNCHANGED <<view, live, epoch, lock, published>>, WorldTypes'
    PROVE  Inv'
<1> DEFINE x == [r EXCEPT !.step = s]
<1>1. gen' = [gen EXCEPT ![c] = x]
  BY DEF Begin
<1>2. /\ x \in Generation /\ x.lease = r.lease /\ x.alive = r.alive /\ x.num = r.num
      /\ x.engine = r.engine /\ x.started = r.started /\ x.end = r.end
      /\ x.step = s /\ x.dev = r.dev /\ x.fp = r.fp /\ x.pub = r.pub
  BY DEF Generation
<1> HIDE DEF x
<1>3. s \notin Unleased \cup {"afterLock", "start", "beforeReady"}
  BY DEF Unleased, SetupSteps
<1>4. Sound(s, x)
  BY <1>2, <1>3 DEF Sound
<1>5. KnowsKeys(x, published[owner[c]])
  BY <1>2 DEF KnowsKeys
<1>6. Moves(c, s) /\ s \in Setup
  BY GoToMoves, SetupPlaces DEF Begin
<1>7. lock[owner[c]] = c
  BY OwnFacts
<1> HIDE DEF Sound, KnowsKeys
<1> QED
  BY <1>1, <1>2, <1>4, <1>5, <1>6, <1>7, SetupStep

\* The engine starts: the keys are those the server has, or it has none.
LEMMA StartInv ==
    ASSUME Inv, NEW c \in Calls, NEW s \in {"ident", "put"}, Running(c, s), Start(c, gen[c]),
           gen[c].pub \in {None, gen[c].fp},
           UNCHANGED <<view, live, epoch, lock, published>>, WorldTypes'
    PROVE  Inv'
<1> DEFINE x == [gen[c] EXCEPT !.step = None, !.started = TRUE]
<1>1. gen' = [gen EXCEPT ![c] = x]
  BY DEF Start
<1>2. /\ gen[c].alive /\ pc[c] = s /\ GenerationOK(c) /\ Sound(s, gen[c]) /\ gen[c] \in Generation
      /\ KnowsKeys(gen[c], published[owner[c]])
      /\ owner[c] \in Owners /\ (gen[c].lease => lock[owner[c]] = c)
  BY OwnFacts DEF Running, Alive
<1>3. /\ x \in Generation /\ x.lease = gen[c].lease /\ x.alive = gen[c].alive /\ x.num = gen[c].num
      /\ x.engine = gen[c].engine /\ x.started = TRUE /\ x.end = gen[c].end
      /\ x.step = None /\ x.dev = gen[c].dev /\ x.fp = gen[c].fp /\ x.pub = gen[c].pub
  BY <1>2 DEF Generation
<1> HIDE DEF x
<1>4. /\ gen[c].step = s /\ gen[c].engine /\ gen[c].lease /\ gen[c].dev \in Devices
      /\ gen[c].fp \in Fingerprints
      /\ published[owner[c]][gen[c].dev] = gen[c].pub
  BY <1>2 DEF Sound, KnowsKeys, SetupSteps, WithDevice, Unleased
<1>5. None \notin WithDevice /\ None \notin {"ident", "put"}
  BY StepsAssumption DEF WithDevice, SetupSteps
<1>6. gen[c].end = "open"
  BY <1>2 DEF Sound
<1>7. Sound("start", x)
  BY <1>2, <1>3, <1>4, <1>5, <1>6 DEF Sound, Unleased, SetupSteps
<1>8. KnowsKeys(x, published[owner[c]])
  BY <1>3, <1>4, <1>5 DEF KnowsKeys
<1>9. Moves(c, "start") /\ "start" \in Setup /\ pc[c] \in Setup
  BY <1>2, GoToMoves, SetupPlaces DEF Start, Setup, SetupSteps
<1> HIDE DEF Sound, KnowsKeys
<1> QED
  BY <1>1, <1>2, <1>3, <1>4, <1>7, <1>8, <1>9, SetupStep

\* What is known of a generation whose step runs.
LEMMA RunningFacts ==
    ASSUME Inv, NEW c \in Calls, NEW s \in SetupSteps, Running(c, s)
    PROVE  /\ gen[c].alive /\ pc[c] = s /\ gen[c].step = s /\ gen[c].lease /\ ~gen[c].started
           /\ gen[c].end = "open" /\ gen[c] \in Generation
           /\ pc[c] \in Setup /\ owner[c] \in Owners /\ tab[c] \in Tabs
           /\ s \in WithDevice =>
                 gen[c].dev \in Devices /\ published[owner[c]][gen[c].dev] = gen[c].pub
           /\ s \in {"ident", "put"} => gen[c].fp \in Fingerprints /\ gen[c].engine
           /\ s = "put" => gen[c].pub \in {None, gen[c].fp}
<1>1. /\ gen[c].alive /\ pc[c] = s /\ Sound(s, gen[c]) /\ gen[c] \in Generation
      /\ KnowsKeys(gen[c], published[owner[c]])
      /\ owner[c] \in Owners /\ tab[c] \in Tabs
  BY OwnFacts DEF Running, Alive
<1>2. s \notin Unleased /\ s # None
  BY StepsAssumption DEF SetupSteps, Unleased
<1> QED
  BY <1>1, <1>2, SetupPlaces DEF Sound, KnowsKeys

LEMMA CredentialsResolvedInv ==
    ASSUME Inv, NEW c \in Calls, CredentialsResolved(c)
    PROVE  Inv'
<1> DEFINE d == device[owner[c]]
           r == [gen[c] EXCEPT !.dev = d, !.pub = published[owner[c]][d]]
<1>1. /\ gen[c].alive /\ pc[c] \in Setup /\ gen[c].lease /\ ~gen[c].started
      /\ gen[c].end = "open" /\ gen[c] \in Generation /\ owner[c] \in Owners
  BY RunningFacts DEF CredentialsResolved, SetupSteps
<1>2. d \in Devices /\ published[owner[c]][d] \in Fingerprints \cup {None}
  BY <1>1, Typed DEF WorldTypes
<1> HIDE DEF d
<1>3. /\ r \in Generation /\ r.lease = gen[c].lease /\ r.alive = gen[c].alive /\ r.num = gen[c].num
      /\ r.engine = gen[c].engine /\ r.started = gen[c].started /\ r.end = gen[c].end
      /\ r.dev = d /\ r.pub = published[owner[c]][d]
  BY <1>1, <1>2 DEF Generation
<1>4. Begin(c, r, "store")
  BY DEF CredentialsResolved, d
<1> HIDE DEF r
<1>5. UNCHANGED <<view, live, epoch, lock, published>> /\ WorldTypes'
  BY Typed DEF CredentialsResolved, worldVars, WorldTypes
<1>6. "store" \in SetupSteps /\ "store" \notin {"ident", "put"} /\ "store" # "put"
  BY DEF SetupSteps
<1> QED
  BY <1>1, <1>2, <1>3, <1>4, <1>5, <1>6, BeginInv

LEMMA StoreOpenedInv ==
    ASSUME Inv, NEW c \in Calls, StoreOpened(c)
    PROVE  Inv'
<1> DEFINE r == [gen[c] EXCEPT !.store = TRUE]
<1>1. /\ gen[c].alive /\ pc[c] \in Setup /\ gen[c].lease /\ ~gen[c].started
      /\ gen[c].end = "open" /\ gen[c] \in Generation /\ owner[c] \in Owners
      /\ gen[c].dev \in Devices /\ published[owner[c]][gen[c].dev] = gen[c].pub
  BY RunningFacts DEF StoreOpened, SetupSteps, WithDevice
<1>2. /\ r \in Generation /\ r.lease = gen[c].lease /\ r.alive = gen[c].alive /\ r.num = gen[c].num
      /\ r.engine = gen[c].engine /\ r.started = gen[c].started /\ r.end = gen[c].end
      /\ r.dev = gen[c].dev /\ r.pub = gen[c].pub
  BY <1>1 DEF Generation
<1>3. Begin(c, r, "engine")
  BY DEF StoreOpened
<1> HIDE DEF r
<1>4. UNCHANGED <<view, live, epoch, lock, published>> /\ WorldTypes'
  BY Typed DEF StoreOpened, worldVars, WorldTypes
<1>5. "engine" \in SetupSteps /\ "engine" \notin {"ident", "put"} /\ "engine" # "put"
  BY DEF SetupSteps
<1> QED
  BY <1>1, <1>2, <1>3, <1>4, <1>5, BeginInv

\* Keys that are made are fingerprints, and the keys of a store are found again.
LEMMA OpenKeysTypes ==
    ASSUME Inv, NEW c \in Calls, owner[c] \in Owners, gen[c].dev \in Devices, OpenKeys(c)
    PROVE  /\ keys' \in [Owners -> [Devices -> Fingerprints \cup {None}]]
           /\ minted' \in Nat /\ minted + 1 \in Fingerprints
<1>1. /\ keys \in [Owners -> [Devices -> Fingerprints \cup {None}]] /\ minted \in Nat
  BY Typed DEF WorldTypes
<1>2. minted + 1 \in Fingerprints /\ minted + 1 \in Nat
  BY <1>1 DEF Fingerprints
<1>3. CASE keys[owner[c]][gen[c].dev] = None
  <2> DEFINE k == [keys[owner[c]] EXCEPT ![gen[c].dev] = minted + 1]
  <2>1. keys' = [keys EXCEPT ![owner[c]] = k]
    BY <1>3 DEF OpenKeys
  <2>2. k \in [Devices -> Fingerprints \cup {None}]
    BY <1>1, <1>2
  <2> HIDE DEF k
  <2> QED
    BY <1>1, <1>2, <1>3, <2>1, <2>2 DEF OpenKeys
<1>4. CASE keys[owner[c]][gen[c].dev] # None
  BY <1>1, <1>2, <1>4 DEF OpenKeys
<1> QED
  BY <1>3, <1>4

LEMMA PutMarkerTypes ==
    ASSUME Inv, NEW c \in Calls, owner[c] \in Owners, gen[c].dev \in Devices,
           gen[c].fp \in Fingerprints, PutMarker(c)
    PROVE  marker' \in [Owners -> [dev : Devices, fp : Fingerprints] \cup {None}]
  BY Typed DEF PutMarker, WorldTypes

LEMMA EngineOpenedInv ==
    ASSUME Inv, NEW c \in Calls, EngineOpened(c)
    PROVE  Inv'
<1> DEFINE k == keys[owner[c]][gen[c].dev]
           f == IF k = None THEN minted + 1 ELSE k
           r == [gen[c] EXCEPT !.engine = TRUE, !.created = k = None, !.fp = f]
<1>1. /\ gen[c].alive /\ pc[c] \in Setup /\ gen[c].lease /\ ~gen[c].started
      /\ gen[c].end = "open" /\ gen[c] \in Generation /\ owner[c] \in Owners
      /\ gen[c].dev \in Devices /\ published[owner[c]][gen[c].dev] = gen[c].pub
  BY RunningFacts DEF EngineOpened, SetupSteps, WithDevice
<1>2. OpenKeys(c) /\ Begin(c, r, "ident")
  BY DEF EngineOpened
<1>3. /\ keys' \in [Owners -> [Devices -> Fingerprints \cup {None}]]
      /\ minted' \in Nat /\ minted + 1 \in Fingerprints
  BY <1>1, <1>2, OpenKeysTypes
<1>4. f \in Fingerprints
  BY <1>1, <1>3, Typed DEF WorldTypes
<1> HIDE DEF f
<1>5. /\ r \in Generation /\ r.lease = gen[c].lease /\ r.alive = gen[c].alive /\ r.num = gen[c].num
      /\ r.engine = TRUE /\ r.started = gen[c].started /\ r.end = gen[c].end
      /\ r.dev = gen[c].dev /\ r.pub = gen[c].pub /\ r.fp = f
  BY <1>1, <1>4 DEF Generation
<1> HIDE DEF r
<1>6. UNCHANGED <<view, live, epoch, lock, published>> /\ WorldTypes'
  BY <1>3, Typed DEF EngineOpened, WorldTypes
<1>7. "ident" \in SetupSteps /\ "ident" # "put"
  BY DEF SetupSteps
<1> QED
  BY <1>1, <1>2, <1>4, <1>5, <1>6, <1>7, BeginInv

\* Only keys that the server may have pass the check.
LEMMA IdentityCheckedInv ==
    ASSUME Inv, NEW c \in Calls, IdentityChecked(c)
    PROVE  Inv'
<1>1. /\ gen[c].alive /\ pc[c] \in Setup /\ gen[c].lease /\ ~gen[c].started
      /\ gen[c].end = "open" /\ gen[c] \in Generation /\ owner[c] \in Owners
      /\ gen[c].dev \in Devices /\ published[owner[c]][gen[c].dev] = gen[c].pub
      /\ gen[c].fp \in Fingerprints /\ gen[c].engine /\ pc[c] = "ident"
  BY RunningFacts DEF IdentityChecked, SetupSteps, WithDevice
<1>2. WorldTypes' /\ published' = published
  <2>1. events' = events /\ UNCHANGED worldVars
    BY DEF IdentityChecked
  <2> QED
    BY <2>1, Typed DEF WorldTypes, worldVars
<1>3. CheckIdentity(c) # "lost" => gen[c].pub \in {None, gen[c].fp}
  BY DEF CheckIdentity
<1>4. "ident" \in SetupSteps /\ "put" \in SetupSteps /\ Running(c, "ident")
  BY DEF SetupSteps, IdentityChecked
<1>5. CASE CheckIdentity(c) = "lost"
  <2>1. /\ FinishStep(c, ViewOf("lost", gen[c].num, gen[c].dev, owner[c]))
        /\ events' = events /\ UNCHANGED worldVars
    BY <1>5 DEF IdentityChecked
  <2>2. Parting(ViewOf("lost", gen[c].num, gen[c].dev, owner[c]))
    BY <1>1, PartingViews
  <2>3. events' \in Nat
    BY <2>1, Typed DEF WorldTypes
  <2> QED
    BY <1>4, <2>1, <2>2, <2>3, FinishStepInv
<1>6. CASE CheckIdentity(c) = "enrol"
  <2>1. Begin(c, gen[c], "put") /\ UNCHANGED <<view, live, epoch, lock>>
    BY <1>6 DEF IdentityChecked
  <2>2. gen[c].pub \in {None, gen[c].fp}
    BY <1>3, <1>6
  <2> QED
    BY <1>1, <1>2, <1>4, <2>1, <2>2, BeginInv
<1>7. CASE CheckIdentity(c) = "resume"
  <2>1. Start(c, gen[c]) /\ UNCHANGED <<view, live, epoch, lock>>
    BY <1>7 DEF IdentityChecked
  <2>2. gen[c].pub \in {None, gen[c].fp}
    BY <1>3, <1>7
  <2> QED
    BY <1>2, <1>4, <2>1, <2>2, StartInv
<1> QED
  BY <1>5, <1>6, <1>7 DEF IdentityChecked

LEMMA MarkerPutInv ==
    ASSUME Inv, NEW c \in Calls, MarkerPut(c)
    PROVE  Inv'
<1>1. /\ owner[c] \in Owners /\ gen[c].dev \in Devices /\ gen[c].fp \in Fingerprints
      /\ gen[c].pub \in {None, gen[c].fp}
  BY RunningFacts DEF MarkerPut, SetupSteps, WithDevice
<1>2. marker' \in [Owners -> [dev : Devices, fp : Fingerprints] \cup {None}]
  BY <1>1, PutMarkerTypes DEF MarkerPut
<1>3. WorldTypes'
  BY <1>2, Typed DEF MarkerPut, WorldTypes
<1> QED
  BY <1>1, <1>3, StartInv DEF MarkerPut

LEMMA StepEndsInv ==
    ASSUME Inv, NEW c \in Calls, CredentialsRefused(c) \/ StepThrows(c)
    PROVE  Inv'
<1>1. events' \in Nat /\ UNCHANGED worldVars
  BY Typed DEF CredentialsRefused, StepThrows, Event, WorldTypes
<1>2. PICK s \in SetupSteps : Running(c, s)
  BY DEF CredentialsRefused, StepThrows, SetupSteps
<1>3. owner[c] \in Owners /\ pc[c] # "idle"
  BY <1>2, RunningFacts DEF Setup, SetupSteps
<1>4. device[owner[c]] \in Devices \cup {None}
  BY <1>3, Typed DEF WorldTypes
<1>5. PICK v : Parting(v) /\ FinishStep(c, v)
  BY <1>3, <1>4, PartingViews DEF CredentialsRefused, StepThrows
<1> QED
  BY <1>1, <1>2, <1>5, FinishStepInv

LEMMA StartedInv ==
    ASSUME Inv, NEW c \in Calls, Started(c)
    PROVE  Inv'
<1>1. /\ gen[c].alive /\ pc[c] = "start" /\ Sound("start", gen[c]) /\ gen[c] \in Generation
      /\ KnowsKeys(gen[c], published[owner[c]]) /\ (gen[c].lease => lock[owner[c]] = c)
  BY OwnFacts DEF Started, Running, Alive
<1>2. Moves(c, "beforeReady") /\ "beforeReady" \in Setup /\ pc[c] \in Setup
  BY <1>1, GoToMoves, SetupPlaces DEF Started, Setup
<1>3. Sound("beforeReady", gen[c])
  BY <1>1 DEF Sound, Unleased, SetupSteps
<1>4. gen' = [gen EXCEPT ![c] = gen[c]]
  BY Typed DEF Started, OwnTypes
<1>5. UNCHANGED <<view, live, epoch, lock, published>> /\ WorldTypes'
  BY Typed DEF Started, worldVars, WorldTypes
<1> HIDE DEF Sound, KnowsKeys
<1> QED
  BY <1>1, <1>2, <1>3, <1>4, <1>5, SetupStep

\* Who has an engine or a lease is the holder of the owner's lock.
LEMMA HolderFacts ==
    ASSUME Inv, NEW c \in Calls, gen[c].engine \/ gen[c].lease \/ pc[c] = "granted"
    PROVE  owner[c] \in Owners /\ lock[owner[c]] = c
  BY DEF Inv, GenerationOK, Sound, Unleased

\* The keys that are uploaded are the ones the server has, if it has any; and only
\* the holder of the owner's lock uploads.
LEMMA UploadFacts ==
    ASSUME Inv, NEW c \in Calls, KeysUploaded(c)
    PROVE  /\ owner[c] \in Owners /\ gen[c].dev \in Devices /\ gen[c].fp \in Fingerprints
           /\ lock[owner[c]] = c
           /\ published[owner[c]][gen[c].dev] \in {None, gen[c].fp}
           /\ published' \in [Owners -> [Devices -> Fingerprints \cup {None}]]
           /\ published'[owner[c]][gen[c].dev] = gen[c].fp
           /\ \A d \in Devices \ {gen[c].dev} : published'[owner[c]][d] = published[owner[c]][d]
           /\ \A o \in Owners \ {owner[c]} : published'[o] = published[o]
<1>1. gen[c].started /\ gen[c].engine /\ Sound(pc[c], gen[c])
      /\ KnowsKeys(gen[c], published[owner[c]])
  BY DEF KeysUploaded, Inv, GenerationOK
<1>2. owner[c] \in Owners /\ lock[owner[c]] = c
  BY <1>1, HolderFacts
<1>3. gen[c].dev \in Devices /\ gen[c].fp \in Fingerprints
  BY <1>1 DEF Sound
<1>4. published[owner[c]][gen[c].dev] \in {None, gen[c].fp}
  BY <1>1 DEF KnowsKeys
<1> DEFINE p == [published[owner[c]] EXCEPT ![gen[c].dev] = gen[c].fp]
<1>5. published' = [published EXCEPT ![owner[c]] = p]
  BY DEF KeysUploaded
<1>6. published \in [Owners -> [Devices -> Fingerprints \cup {None}]]
  BY Typed DEF WorldTypes
<1>7. /\ p \in [Devices -> Fingerprints \cup {None}] /\ p[gen[c].dev] = gen[c].fp
      /\ \A d \in Devices \ {gen[c].dev} : p[d] = published[owner[c]][d]
  BY <1>2, <1>3, <1>6
<1> HIDE DEF p
<1> QED
  BY <1>2, <1>3, <1>4, <1>5, <1>6, <1>7

LEMMA KeysUploadedInv ==
    ASSUME Inv, NEW c \in Calls, KeysUploaded(c)
    PROVE  Inv'
<1>1. UNCHANGED <<view, live, inflight, epoch, pc, tab, owner, req, target, gen, lock,
                  keys, marker, device, minted, events>>
  BY DEF KeysUploaded, tabVars, callVars
<1>2. /\ owner[c] \in Owners /\ gen[c].dev \in Devices /\ lock[owner[c]] = c
      /\ published' \in [Owners -> [Devices -> Fingerprints \cup {None}]]
      /\ published'[owner[c]][gen[c].dev] = gen[c].fp
      /\ \A o \in Owners \ {owner[c]} : published'[o] = published[o]
  BY UploadFacts
<1>3. Typing'
  BY <1>1, <1>2, TypesNext, Typed DEF CallTypes, WorldTypes, OwnTypes
<1>4. GenerationOK(c)'
  <2>1. GenerationOK(c) /\ gen[c].started
    BY DEF Inv, KeysUploaded
  <2>2. gen[c].step = None /\ None \notin WithDevice
    BY <2>1, StepsAssumption DEF GenerationOK, Sound, WithDevice, SetupSteps
  <2>3. KnowsKeys(gen[c], published'[owner[c]])
    BY <1>2, <2>2 DEF KnowsKeys
  <2> HIDE DEF Sound, KnowsKeys
  <2> QED
    BY <1>1, <2>1, <2>3 DEF GenerationOK
<1>5. ASSUME NEW h \in Calls, h # c
      PROVE  GenerationOK(h)'
  <2>1. pc[h] = "granted" \/ gen[h].lease => owner[h] \in Owners /\ lock[owner[h]] = h
    BY HolderFacts
  <2>2. pc[h] = "granted" \/ gen[h].lease =>
          lock'[owner[h]] = h /\ published'[owner[h]] = published[owner[h]]
    BY <1>1, <1>2, <1>5, <2>1
  <2> QED
    BY <1>1, <2>2, GenerationKept
<1>6. ASSUME NEW t \in Tabs
      PROVE  TabOK(t)'
  <2>1. live[t] # None => gen'[live[t]].alive
    BY <1>1, LiveFacts
  <2> QED
    BY <1>1, <2>1, TabKept
<1> QED
  BY <1>3, <1>4, <1>5, <1>6 DEF Inv

\* The generation ended while its call waited; a lease that arrives is given back.
LEMMA SupersededInv ==
    ASSUME Inv, NEW c \in Calls, Superseded(c)
    PROVE  Inv'
<1>1. pc[c] \in Setup /\ ~gen[c].alive /\ pc[c] # "idle" /\ pc[c] \notin Draining
      /\ tab[c] \in Tabs /\ owner[c] \in Owners
  BY PlacedFacts DEF Superseded, Alive, Setup, SetupSteps, Draining
<1>2. Moves(c, "done")
  BY Returns DEF Superseded
<1>3. /\ pc'[c] = "done" /\ (\A h \in Calls \ {c} : pc'[h] = pc[h])
      /\ tab' = tab /\ owner' = owner /\ CallTypes'
  BY <1>2, Typed DEF Moves, CallTypes
<1>4. UNCHANGED <<view, live, epoch, gen, worldVars, events>> /\ published' = published
  BY DEF Superseded, worldVars
<1>5. /\ lock' \in [Owners -> Calls \cup {None}]
      /\ \A o \in Owners : lock[o] # c => lock'[o] = lock[o]
      /\ pc[c] # "granted" => lock' = lock
  <2>1. CASE pc[c] = "granted"
    BY <1>1, <2>1, HolderFacts, Typed DEF Superseded, OwnTypes
  <2>2. CASE pc[c] # "granted"
    BY <2>2, Typed DEF Superseded, OwnTypes
  <2> QED
    BY <2>1, <2>2
<1>6. Typing'
  BY <1>3, <1>4, <1>5, TypesNext, Typed DEF OwnTypes, WorldTypes, worldVars
<1>7. GenerationOK(c)'
  <2>1. GenerationOK(c)
    BY DEF Inv
  <2>2. Sound("done", gen[c])
    BY <1>1, <2>1 DEF GenerationOK, Sound, Unleased, SetupSteps
  <2>3. gen[c].lease => pc[c] # "granted"
    BY <2>1 DEF GenerationOK, Sound, Unleased
  <2> HIDE DEF Sound, KnowsKeys
  <2> QED
    BY <1>1, <1>3, <1>4, <1>5, <2>1, <2>2, <2>3 DEF GenerationOK
<1>8. ASSUME NEW h \in Calls, h # c
      PROVE  GenerationOK(h)'
  <2>1. pc[h] = "granted" \/ gen[h].lease => owner[h] \in Owners /\ lock[owner[h]] = h
    BY HolderFacts
  <2>2. pc[h] = "granted" \/ gen[h].lease => lock'[owner[h]] = h
    BY <1>5, <1>8, <2>1
  <2> QED
    BY <1>3, <1>4, <1>8, <2>2, GenerationKept
<1>9. ASSUME NEW t \in Tabs
      PROVE  TabOK(t)'
  <2>1. live[t] # None => gen'[live[t]].alive
    BY <1>4, LiveFacts
  <2>2. \A h \in Calls : tab[h] = t /\ pc[h] \in Draining => tab'[h] = t /\ pc'[h] \in Draining
    BY <1>1, <1>3
  <2> QED
    BY <1>3, <1>4, <2>1, <2>2, TabKept
<1> QED
  BY <1>6, <1>7, <1>8, <1>9 DEF Inv

\* ready is published for a generation whose engine runs.
LEMMA ReadyInv ==
    ASSUME Inv, NEW c \in Calls, pc[c] = "beforeReady", gen[c].alive,
           Publish(tab[c], ViewOf("ready", gen[c].num, gen[c].dev, owner[c])),
           Return(c),
           UNCHANGED <<live, epoch, gen, lock, worldVars, events>>
    PROVE  Inv'
<1>1. /\ tab[c] \in Tabs /\ owner[c] \in Owners /\ live[tab[c]] = c
      /\ Sound("beforeReady", gen[c]) /\ gen[c] \in Generation
  BY AliveFacts
<1>2. gen[c].engine /\ gen[c].started /\ gen[c].lease
  BY <1>1 DEF Sound, Unleased
<1>3. Moves(c, "done")
  BY Returns
<1>4. /\ pc'[c] = "done" /\ (\A h \in Calls \ {c} : pc'[h] = pc[h])
      /\ tab' = tab /\ owner' = owner /\ CallTypes'
  BY <1>3, Typed DEF Moves, CallTypes
<1> DEFINE v == ViewOf("ready", gen[c].num, gen[c].dev, owner[c])
<1>5. v \in View /\ v.owner = owner[c] /\ v.gen = gen[c].num
  BY <1>1 DEF ViewOf, View, ViewStates, Generation
<1>6. view' = [view EXCEPT ![tab[c]] = v]
  BY DEF Publish
<1> HIDE DEF v
<1>7. /\ view' \in [Tabs -> View] /\ view'[tab[c]] = v
      /\ \A t \in Tabs \ {tab[c]} : view'[t] = view[t]
  BY <1>1, <1>5, <1>6, Typed DEF OwnTypes
<1>8. Typing'
  BY <1>4, <1>7, TypesNext, Typed DEF OwnTypes, WorldTypes, worldVars
<1>9. GenerationOK(c)'
  <2>1. GenerationOK(c)
    BY DEF Inv
  <2>2. Sound("done", gen[c])
    BY <1>1, <1>2 DEF Sound, Unleased, SetupSteps
  <2>3. published' = published
    BY DEF worldVars
  <2> HIDE DEF Sound, KnowsKeys
  <2> QED
    BY <1>1, <1>4, <2>1, <2>2, <2>3 DEF GenerationOK
<1>10. ASSUME NEW h \in Calls, h # c
       PROVE  GenerationOK(h)'
  <2>1. pc[h] = "granted" \/ gen[h].lease => lock'[owner[h]] = h
    BY HolderFacts
  <2>2. published' = published
    BY DEF worldVars
  <2> QED
    BY <1>4, <1>10, <2>1, <2>2, GenerationKept
<1>11. TabOK(tab[c])'
  BY <1>1, <1>2, <1>4, <1>5, <1>7, NoneAssumption DEF TabOK, Orphaned, Behind
<1>12. ASSUME NEW t \in Tabs, t # tab[c]
       PROVE  TabOK(t)'
  <2>1. live[t] # None => gen'[live[t]].alive
    BY LiveFacts
  <2>2. \A h \in Calls : tab[h] = t /\ pc[h] \in Draining => tab'[h] = t /\ pc'[h] \in Draining
    BY <1>4, <1>12
  <2> QED
    BY <1>4, <1>7, <1>12, <2>1, <2>2, TabKept
<1> QED
  BY <1>1, <1>4, <1>8, <1>9, <1>10, <1>11, <1>12 DEF Inv

LEMMA ConfirmIdentityInv ==
    ASSUME Inv, NEW c \in Calls, NEW i, ConfirmIdentity(c, i)
    PROVE  Inv'
<1>1. gen[c].alive /\ pc[c] \in {"afterLock", "beforeReady"} /\ pc[c] \in Setup
      /\ pc[c] \notin Draining /\ pc[c] # "idle"
  BY DEF ConfirmIdentity, Alive, Setup, Draining
<1>2. CASE \E v : Parting(v) /\ Finish(c, c, v)
  BY <1>1, <1>2, FinishInv
<1>3. CASE pc[c] = "beforeReady"
           /\ Publish(tab[c], ViewOf("ready", gen[c].num, gen[c].dev, owner[c]))
           /\ Return(c) /\ UNCHANGED <<live, epoch, gen, lock, worldVars, events>>
  BY <1>1, <1>3, ReadyInv
<1>4. CASE pc[c] = "afterLock" /\ Begin(c, gen[c], "creds")
           /\ UNCHANGED <<view, live, epoch, lock, worldVars, events>>
  <2>1. /\ Sound("afterLock", gen[c]) /\ gen[c] \in Generation
    BY <1>1, <1>4, OwnFacts
  <2>2. ~gen[c].started /\ gen[c].lease /\ gen[c].end = "open"
    BY <1>1, <2>1 DEF Sound, Unleased
  <2>3. published' = published /\ WorldTypes'
    BY <1>4, Typed DEF WorldTypes, worldVars
  <2>4. "creds" \in SetupSteps /\ "creds" \notin WithDevice /\ "creds" \notin {"ident", "put"}
        /\ "creds" # "put"
    BY DEF SetupSteps, WithDevice
  <2> QED
    BY <1>1, <1>4, <2>1, <2>2, <2>3, <2>4, BeginInv
<1> QED
  BY <1>1, <1>2, <1>3, <1>4, PartingViews DEF ConfirmIdentity

-----------------------------------------------------------------------------
(* closeResources *)

\* A generation that has ended goes on closing: x is what is left of it.
LEMMA DeadStep ==
    ASSUME Inv, NEW g \in Calls, ~gen[g].alive,
           NEW x \in Generation, gen' = [gen EXCEPT ![g] = x], ~x.alive,
           Sound(pc[g], x), KnowsKeys(x, published[owner[g]]), x.lease => gen[g].lease,
           UNCHANGED <<tabVars, callVars, published>>, WorldTypes',
           lock' \in [Owners -> Calls \cup {None}],
           \/ lock' = lock
           \/ /\ pc[g] # "granted" /\ ~x.lease
              /\ \A o \in Owners : lock[o] # g => lock'[o] = lock[o]
    PROVE  Inv'
<1>1. UNCHANGED <<view, live, inflight, epoch, pc, tab, owner, req, target>>
  BY DEF tabVars, callVars
<1>2. /\ gen'[g] = x /\ (\A h \in Calls \ {g} : gen'[h] = gen[h])
      /\ gen' \in [Calls -> Generation]
  BY Typed DEF OwnTypes
<1>3. CallTypes'
  BY <1>1, Typed DEF CallTypes
<1>4. Typing'
  BY <1>1, <1>2, <1>3, TypesNext, Typed DEF OwnTypes
<1>5. GenerationOK(g)'
  <2>1. GenerationOK(g)
    BY DEF Inv
  <2> HIDE DEF Sound, KnowsKeys
  <2> QED
    BY <1>1, <1>2, <2>1 DEF GenerationOK
<1>6. ASSUME NEW h \in Calls, h # g
      PROVE  GenerationOK(h)'
  <2>1. pc[h] = "granted" \/ gen[h].lease => owner[h] \in Owners /\ lock[owner[h]] = h
    BY HolderFacts
  <2>2. pc[h] = "granted" \/ gen[h].lease => lock'[owner[h]] = h
    BY <1>6, <2>1
  <2> QED
    BY <1>1, <1>2, <1>6, <2>2, GenerationKept
<1>7. ASSUME NEW t \in Tabs
      PROVE  TabOK(t)'
  <2>1. live[t] # None => live[t] \in Calls /\ gen[live[t]].alive
    BY LiveFacts
  <2>2. live[t] # None => gen'[live[t]] = gen[live[t]]
    BY <1>2, <2>1
  <2> QED
    BY <1>1, <2>1, <2>2, TabKept
<1> QED
  BY <1>4, <1>5, <1>6, <1>7 DEF Inv

LEMMA EngineCloseInv ==
    ASSUME Inv, NEW g \in Calls, EngineCloses(g) \/ EngineCloseTimeout(g)
    PROVE  Inv'
<1>1. /\ gen[g].end = "closing" /\ UNCHANGED <<tabVars, callVars, lock, worldVars, events>>
  BY DEF EngineCloses, EngineCloseTimeout
<1>2. /\ gen[g] \in Generation /\ Sound(pc[g], gen[g]) /\ KnowsKeys(gen[g], published[owner[g]])
  BY Typed DEF Inv, GenerationOK, OwnTypes
<1>3. ~gen[g].alive
  BY <1>1, <1>2 DEF Sound
<1>4. published' = published /\ WorldTypes' /\ lock' \in [Owners -> Calls \cup {None}]
  BY <1>1, Typed DEF worldVars, WorldTypes, OwnTypes
<1>5. \E x \in Generation :
         /\ gen' = [gen EXCEPT ![g] = x] /\ x.alive = gen[g].alive /\ x.lease = gen[g].lease
         /\ (x.engine => gen[g].engine) /\ x.started = gen[g].started /\ x.step = gen[g].step
         /\ x.dev = gen[g].dev /\ x.fp = gen[g].fp /\ x.pub = gen[g].pub
         /\ \/ x.end = "stuck"
            \/ ~x.engine /\ x.end = "straggling"
            \/ ~x.engine /\ x.end = "finishing" /\ x.step = None
  <2>1. CASE EngineCloses(g)
    <3> DEFINE e == AfterEngine(gen[g])
               x == [gen[g] EXCEPT !.engine = FALSE, !.end = e]
    <3>1. e = "straggling" \/ (e = "finishing" /\ gen[g].step = None)
      BY DEF AfterEngine
    <3>2. gen' = [gen EXCEPT ![g] = x]
      BY <2>1 DEF EngineCloses
    <3> HIDE DEF e
    <3>3. /\ x \in Generation /\ x.alive = gen[g].alive /\ x.lease = gen[g].lease
          /\ x.engine = FALSE /\ x.started = gen[g].started /\ x.step = gen[g].step
          /\ x.dev = gen[g].dev /\ x.fp = gen[g].fp /\ x.pub = gen[g].pub /\ x.end = e
      BY <1>2, <3>1 DEF Generation
    <3> HIDE DEF x
    <3> QED
      BY <3>1, <3>2, <3>3
  <2>2. CASE EngineCloseTimeout(g)
    <3> DEFINE x == [gen[g] EXCEPT !.end = "stuck"]
    <3>1. gen' = [gen EXCEPT ![g] = x]
      BY <2>2 DEF EngineCloseTimeout
    <3>2. /\ x \in Generation /\ x.alive = gen[g].alive /\ x.lease = gen[g].lease
          /\ x.engine = gen[g].engine /\ x.started = gen[g].started /\ x.step = gen[g].step
          /\ x.dev = gen[g].dev /\ x.fp = gen[g].fp /\ x.pub = gen[g].pub /\ x.end = "stuck"
      BY <1>2 DEF Generation
    <3> HIDE DEF x
    <3> QED
      BY <3>1, <3>2
  <2> QED
    BY <2>1, <2>2
<1>6. PICK x \in Generation :
         /\ gen' = [gen EXCEPT ![g] = x] /\ x.alive = gen[g].alive /\ x.lease = gen[g].lease
         /\ (x.engine => gen[g].engine) /\ x.started = gen[g].started /\ x.step = gen[g].step
         /\ x.dev = gen[g].dev /\ x.fp = gen[g].fp /\ x.pub = gen[g].pub
         /\ \/ x.end = "stuck"
            \/ ~x.engine /\ x.end = "straggling"
            \/ ~x.engine /\ x.end = "finishing" /\ x.step = None
  BY <1>5
<1>7. Sound(pc[g], x) /\ KnowsKeys(x, published[owner[g]])
  BY <1>2, <1>3, <1>6 DEF Sound, KnowsKeys
<1> HIDE DEF Sound, KnowsKeys
<1> QED
  BY <1>1, <1>3, <1>4, <1>6, <1>7, DeadStep

\* A straggler settles under the lease that was kept for it.
LEMMA StragglerSettlesInv ==
    ASSUME Inv, NEW g \in Calls, StragglerSettles(g)
    PROVE  Inv'
<1> DEFINE e == IF gen[g].end = "straggling" THEN "finishing" ELSE gen[g].end
           x == [gen[g] EXCEPT !.step = None, !.end = e]
<1>1. /\ ~gen[g].alive /\ gen[g].step # None /\ UNCHANGED <<tabVars, callVars, lock, events>>
      /\ gen' = [gen EXCEPT ![g] = x]
  BY DEF StragglerSettles, Alive
<1>2. /\ gen[g] \in Generation /\ Sound(pc[g], gen[g]) /\ KnowsKeys(gen[g], published[owner[g]])
      /\ gen[g].end \in {"open", "closing", "stuck", "straggling", "finishing", "gone"}
  BY Typed DEF Inv, GenerationOK, OwnTypes, Generation
<1>3. /\ e \in {"open", "closing", "stuck", "finishing", "gone"}
      /\ (e = "finishing" => gen[g].end \in {"straggling", "finishing"})
      /\ (e # "finishing" => e = gen[g].end)
  BY <1>2
<1> HIDE DEF e
<1>4. /\ x \in Generation /\ x.alive = gen[g].alive /\ x.lease = gen[g].lease
      /\ x.engine = gen[g].engine /\ x.started = gen[g].started /\ x.step = None
      /\ x.dev = gen[g].dev /\ x.fp = gen[g].fp /\ x.pub = gen[g].pub /\ x.end = e
  BY <1>2, <1>3 DEF Generation
<1> HIDE DEF x
<1>5. None \notin WithDevice /\ None \notin {"ident", "put"}
  BY StepsAssumption DEF WithDevice, SetupSteps
<1>6. Sound(pc[g], x) /\ KnowsKeys(x, published[owner[g]])
  BY <1>1, <1>2, <1>3, <1>4, <1>5 DEF Sound, KnowsKeys
<1>7. owner[g] \in Owners
  <2>1. gen[g].lease
    BY <1>1, <1>2 DEF Sound
  <2> QED
    BY <2>1, HolderFacts
<1>8. published' = published /\ WorldTypes'
  <2>1. CASE UNCHANGED worldVars
    BY <1>1, <2>1, Typed DEF worldVars, WorldTypes
  <2>2. CASE gen[g].step = "engine" /\ OpenKeys(g) /\ UNCHANGED <<marker, device, published>>
    <3>1. gen[g].dev \in Devices
      BY <1>2, <2>2 DEF Sound, WithDevice
    <3>2. keys' \in [Owners -> [Devices -> Fingerprints \cup {None}]] /\ minted' \in Nat
      BY <1>7, <2>2, <3>1, OpenKeysTypes
    <3> QED
      BY <1>1, <2>2, <3>2, Typed DEF WorldTypes
  <2>3. CASE gen[g].step = "put" /\ PutMarker(g) /\ UNCHANGED <<keys, device, published, minted>>
    <3>1. gen[g].dev \in Devices /\ gen[g].fp \in Fingerprints
      BY <1>2, <2>3 DEF Sound, WithDevice
    <3>2. marker' \in [Owners -> [dev : Devices, fp : Fingerprints] \cup {None}]
      BY <1>7, <2>3, <3>1, PutMarkerTypes
    <3> QED
      BY <1>1, <2>3, <3>2, Typed DEF WorldTypes
  <2> QED
    BY <2>1, <2>2, <2>3 DEF StragglerSettles
<1>9. lock' = lock /\ lock' \in [Owners -> Calls \cup {None}]
  BY <1>1, Typed DEF OwnTypes
<1> HIDE DEF Sound, KnowsKeys
<1> QED
  BY <1>1, <1>4, <1>6, <1>8, <1>9, DeadStep

LEMMA NoGenerationFacts ==
    /\ NoGeneration \in Generation /\ ~NoGeneration.alive /\ ~NoGeneration.lease
    /\ NoGeneration.step = None /\ ~NoGeneration.engine /\ ~NoGeneration.started
    /\ NoGeneration.end = "gone"
  BY DEF NoGeneration, Generation

LEMMA NoGenerationSound ==
    ASSUME NEW at, NEW onServer
    PROVE  Sound(at, NoGeneration) /\ KnowsKeys(NoGeneration, onServer)
<1>1. None \notin WithDevice /\ None \notin {"ident", "put"}
  BY StepsAssumption DEF WithDevice, SetupSteps
<1> QED
  BY <1>1, NoGenerationFacts DEF Sound, KnowsKeys

\* The lease is given back when nothing of the generation is left.
LEMMA StoreClosesInv ==
    ASSUME Inv, NEW g \in Calls, StoreCloses(g)
    PROVE  Inv'
<1>1. /\ gen[g].end = "finishing" /\ UNCHANGED <<tabVars, callVars, worldVars, events>>
      /\ gen[g] \in Generation /\ Sound(pc[g], gen[g])
  BY Typed DEF StoreCloses, Inv, GenerationOK, OwnTypes
<1>2. ~gen[g].alive /\ gen[g].step = None
  BY <1>1 DEF Sound
<1>3. gen' = [gen EXCEPT ![g] = NoGeneration]
  BY <1>2 DEF StoreCloses
<1>4. published' = published /\ WorldTypes'
  BY <1>1, Typed DEF worldVars, WorldTypes
<1>5. /\ lock' \in [Owners -> Calls \cup {None}]
      /\ \/ lock' = lock
         \/ /\ pc[g] # "granted"
            /\ \A o \in Owners : lock[o] # g => lock'[o] = lock[o]
  <2>1. CASE gen[g].lease
    <3>1. owner[g] \in Owners /\ lock[owner[g]] = g /\ pc[g] # "granted"
      BY <1>1, <2>1, HolderFacts DEF Sound, Unleased
    <3> QED
      BY <2>1, <3>1, Typed DEF StoreCloses, OwnTypes
  <2>2. CASE ~gen[g].lease
    BY <2>2, Typed DEF StoreCloses, OwnTypes
  <2> QED
    BY <2>1, <2>2
<1> HIDE DEF Sound, KnowsKeys
<1> QED
  BY <1>1, <1>2, <1>3, <1>4, <1>5, NoGenerationFacts, NoGenerationSound, DeadStep

LEMMA CloseInv ==
    ASSUME Inv, NEW g \in Calls, Close(g)
    PROVE  Inv'
  BY EngineCloseInv, StragglerSettlesInv, StoreClosesInv DEF Close

\* A generation ends although its call does not move.
LEMMA EndsBesideItsCall ==
    ASSUME Inv, NEW g \in Calls, gen[g].alive, EndGeneration(g),
           live' = [live EXCEPT ![tab[g]] = None], NEW v, Parting(v), Publish(tab[g], v),
           UNCHANGED <<callVars, lock, worldVars>>, epoch' \in [Tabs -> Nat],
           inflight' \in [Tabs -> Calls \cup {None}], events' \in Nat
    PROVE  Inv'
<1>1. tab[g] \in Tabs /\ Sound(pc[g], gen[g]) /\ gen[g] \in Generation
  BY AliveFacts
<1>2. UNCHANGED <<pc, tab, owner, req, target, lock, published>>
  BY DEF callVars, worldVars
<1> DEFINE x == End(gen[g])
<1>3. /\ x \in Generation /\ ~x.alive /\ Sound(pc[g], x)
      /\ x.lease = gen[g].lease /\ x.started = gen[g].started /\ x.engine = gen[g].engine
      /\ x.dev = gen[g].dev /\ x.fp = gen[g].fp
  BY <1>1, EndSound
<1>4. gen' = [gen EXCEPT ![g] = x]
  BY DEF EndGeneration
<1> HIDE DEF x, Sound
<1>5. Ends(g, x)
  BY <1>2, <1>3, <1>4 DEF Ends
<1>6. CallTypes' /\ WorldTypes'
  BY <1>2, Typed DEF CallTypes, WorldTypes, worldVars
<1>7. /\ view' \in [Tabs -> View]
      /\ view'[tab[g]].state \notin {"ready", "initializing"}
      /\ \A u \in Tabs \ {tab[g]} : view'[u] = view[u]
  BY <1>1, PublishTypes
<1> QED
  BY <1>2, <1>5, <1>6, <1>7, GenerationEnds

-----------------------------------------------------------------------------
(* stop, and the calls that begin *)

LEMMA FreshView ==
    ASSUME Inv, NEW t \in Tabs
    PROVE  Parting(ViewOf("new", view[t].gen + 1, None, None))
<1>1. view[t].gen + 1 \in Nat
  BY Typed DEF OwnTypes, View
<1> QED
  BY <1>1, ViewTypes DEF Parting, ViewStates

LEMMA StopInv ==
    ASSUME Inv, NEW t \in Tabs, Stop(t)
    PROVE  Inv'
<1> DEFINE v == ViewOf("new", view[t].gen + 1, None, None)
<1>1. Parting(v) /\ Publish(t, v)
  BY FreshView DEF Stop
<1> HIDE DEF v
<1>2. /\ epoch' \in [Tabs -> Nat] /\ inflight' \in [Tabs -> Calls \cup {None}] /\ events' \in Nat
      /\ UNCHANGED <<callVars, lock, worldVars>> /\ live' = [live EXCEPT ![t] = None]
  BY Typed DEF Stop, Event, OwnTypes, CallTypes, WorldTypes
<1>3. CASE live[t] # None
  <2>1. live[t] \in Calls /\ gen[live[t]].alive /\ tab[live[t]] = t /\ EndGeneration(live[t])
    BY <1>3, LiveFacts DEF Stop
  <2> QED
    BY <1>1, <1>2, <2>1, EndsBesideItsCall
<1>4. CASE live[t] = None
  <2>1. /\ gen' = gen /\ live' = live /\ UNCHANGED <<pc, tab, owner, req, target, published>>
    BY <1>2, <1>4, Typed DEF Stop, callVars, worldVars, OwnTypes
  <2>2. /\ view' \in [Tabs -> View]
        /\ \A u \in Tabs : view'[u] = view[u] \/ view'[u].state \notin {"ready", "initializing"}
    BY <1>1, PublishTypes
  <2>3. CallTypes' /\ WorldTypes' /\ OwnTypes'
    BY <1>2, <2>1, <2>2, Typed DEF CallTypes, WorldTypes, OwnTypes, worldVars
  <2>4. ASSUME NEW h \in Calls
        PROVE  GenerationOK(h)'
    <3>1. pc[h] = "granted" \/ gen[h].lease => lock'[owner[h]] = h
      BY <1>2, HolderFacts
    <3> QED
      BY <2>1, <3>1, GenerationKept
  <2>5. ASSUME NEW u \in Tabs
        PROVE  TabOK(u)'
    <3>1. live[u] # None => gen'[live[u]].alive
      BY <2>1, LiveFacts
    <3> QED
      BY <2>1, <2>2, <3>1, TabKept
  <2> QED
    BY <2>3, <2>4, <2>5, TypesNext DEF Inv
<1> QED
  BY <1>3, <1>4

\* A call that begins has no generation.
LEMMA PlaceInv ==
    ASSUME Inv, NEW c \in Calls, NEW t \in Tabs, NEW o \in Owners,
           NEW at \in {"identity", "useWait", "clearing"}, NEW n \in Nat,
           NEW waits \in Calls \cup {None}, Place(c, t, o, at, n, waits),
           inflight' \in [Tabs -> Calls \cup {None}]
    PROVE  Inv'
<1>1. at \in Places \ InSetup /\ at \notin Draining /\ at \notin UsePlaces
  BY DEF Places, InSetup, Setup, SetupSteps, Draining, UsePlaces
<1>2. /\ pc'[c] = at /\ tab'[c] = t /\ owner'[c] = o
      /\ \A h \in Calls \ {c} : pc'[h] = pc[h] /\ tab'[h] = tab[h] /\ owner'[h] = owner[h]
      /\ CallTypes' /\ epoch' \in [Tabs -> Nat]
  BY <1>1, Typed DEF Place, CallTypes, OwnTypes
<1>3. UNCHANGED <<view, live, gen, lock, published>> /\ WorldTypes'
  BY Typed DEF Place, worldVars, WorldTypes
<1>4. Typing'
  BY <1>2, <1>3, TypesNext, Typed DEF OwnTypes
<1>5. pc[c] = "idle" /\ ~gen[c].alive /\ Sound("idle", gen[c])
  BY DEF Place, Inv, GenerationOK
<1>6. ~gen[c].lease /\ ~gen[c].started
  BY <1>5 DEF Sound, Unleased
<1>7. GenerationOK(c)'
  <2>1. Sound(at, gen[c])
    BY <1>1, <1>5, <1>6 DEF Sound, Unleased, InSetup, Setup
  <2>2. KnowsKeys(gen[c], published[o])
    BY <1>5, <1>6 DEF KnowsKeys
  <2> HIDE DEF Sound, KnowsKeys
  <2>3. at # "idle" /\ at # "granted"
    OBVIOUS
  <2> QED
    BY <1>2, <1>3, <1>5, <1>6, <2>1, <2>2, <2>3 DEF GenerationOK
<1>8. ASSUME NEW h \in Calls, h # c
      PROVE  GenerationOK(h)'
  <2>1. pc[h] = "granted" \/ gen[h].lease => lock'[owner[h]] = h
    BY <1>3, HolderFacts
  <2> QED
    BY <1>2, <1>3, <1>8, <2>1, GenerationKept
<1>9. ASSUME NEW u \in Tabs
      PROVE  TabOK(u)'
  <2>1. live[u] # None => live[u] \in Calls /\ gen[live[u]].alive /\ live[u] # c
    BY <1>5, LiveFacts
  <2>2. \A h \in Calls : tab[h] = u /\ pc[h] \in Draining => tab'[h] = u /\ pc'[h] \in Draining
    BY <1>2, <1>5 DEF Draining
  <2> QED
    BY <1>2, <1>3, <2>1, <2>2, TabKept
<1> QED
  BY <1>4, <1>7, <1>8, <1>9 DEF Inv

LEMMA BeginsInv ==
    ASSUME Inv, NEW c \in Calls, Begins(c)
    PROVE  Inv'
<1>1. PICK t \in Tabs, o \in Owners : EnsureReady(c, t, o) \/ Use(c, t, o) \/ AcceptLoss(c, t, o)
  BY DEF Begins
<1>2. epoch[t] \in Nat /\ epoch[t] + 1 \in Nat /\ inflight[t] \in Calls \cup {None}
      /\ inflight \in [Tabs -> Calls \cup {None}]
  BY Typed DEF OwnTypes, CallTypes
<1>3. CASE EnsureReady(c, t, o)
  <2>1. Place(c, t, o, "identity", epoch[t] + 1, None) /\ inflight' = [inflight EXCEPT ![t] = c]
    BY <1>3 DEF EnsureReady
  <2>2. inflight' \in [Tabs -> Calls \cup {None}]
    BY <1>2, <2>1
  <2> QED
    BY <1>2, <2>1, <2>2, PlaceInv
<1>4. CASE Use(c, t, o)
  <2>1. PICK waits \in Calls \cup {None} : Place(c, t, o, "useWait", epoch[t], waits)
    BY <1>2, <1>4 DEF Use
  <2> QED
    BY <1>2, <1>4, <2>1, PlaceInv DEF Use
<1>5. CASE AcceptLoss(c, t, o)
  <2>1. Place(c, t, o, "clearing", epoch[t] + 1, None) /\ inflight' = inflight
    BY <1>5 DEF AcceptLoss
  <2> QED
    BY <1>2, <2>1, PlaceInv
<1> QED
  BY <1>1, <1>3, <1>4, <1>5

-----------------------------------------------------------------------------
(* ensureReady *)

\* A generation opens in a tab that has none.
LEMMA OpenGenerationInv ==
    ASSUME Inv, NEW c \in Calls, pc[c] \notin InSetup, live[tab[c]] = None,
           OpenGeneration(c), UNCHANGED <<epoch, lock, worldVars, events>>
    PROVE  Inv'
<1>1. tab[c] \in Tabs /\ owner[c] \in Owners
  BY PlacedFacts DEF InSetup
<1> DEFINE t == tab[c]
           n == view[t].gen + 1
           d == IF view[t].owner = owner[c] THEN view[t].dev ELSE None
           x == [NoGeneration EXCEPT !.num = n, !.dev = d, !.alive = TRUE, !.end = "open"]
           v == ViewOf("initializing", n, d, owner[c])
<1>2. n \in Nat /\ d \in Devices \cup {None}
  BY <1>1, Typed DEF OwnTypes, View
<1>3. /\ gen' = [gen EXCEPT ![c] = x] /\ live' = [live EXCEPT ![t] = c]
      /\ view' = [view EXCEPT ![t] = v] /\ GoTo(c, "locking")
  BY DEF OpenGeneration, Publish
<1> HIDE DEF n, d
<1>4. /\ x \in Generation /\ x.num = n /\ x.alive = TRUE /\ x.end = "open" /\ x.lease = FALSE
      /\ x.engine = FALSE /\ x.started = FALSE /\ x.step = None
  BY <1>2 DEF NoGeneration, Generation
<1>5. v \in View /\ v.state = "initializing" /\ v.gen = n /\ v.owner = owner[c]
  BY <1>1, <1>2 DEF ViewOf, View, ViewStates
<1> HIDE DEF x, v
<1>6. Moves(c, "locking")
  BY <1>3, GoToMoves, SetupPlaces DEF Setup
<1>7. /\ pc'[c] = "locking" /\ (\A h \in Calls \ {c} : pc'[h] = pc[h])
      /\ tab' = tab /\ owner' = owner /\ CallTypes'
  BY <1>6, Typed DEF Moves, CallTypes
<1>8. /\ gen'[c] = x /\ live'[t] = c /\ view'[t] = v
      /\ \A h \in Calls \ {c} : gen'[h] = gen[h]
      /\ \A u \in Tabs \ {t} : live'[u] = live[u] /\ view'[u] = view[u]
      /\ OwnTypes'
  BY <1>1, <1>3, <1>4, <1>5, Typed DEF OwnTypes
<1>9. WorldTypes' /\ published' = published
  BY Typed DEF WorldTypes, worldVars
<1>10. GenerationOK(c)'
  <2>1. Sound("locking", x)
    <3>1. None \notin WithDevice /\ None \notin {"ident", "put"}
      BY StepsAssumption DEF WithDevice, SetupSteps
    <3> QED
      BY <1>4, <3>1 DEF Sound, Unleased, SetupSteps
  <2>2. KnowsKeys(x, published[owner[c]])
    <3>1. None \notin WithDevice
      BY StepsAssumption DEF WithDevice, SetupSteps
    <3> QED
      BY <1>4, <3>1 DEF KnowsKeys
  <2> HIDE DEF Sound, KnowsKeys
  <2> QED
    BY <1>1, <1>4, <1>7, <1>8, <1>9, <2>1, <2>2 DEF GenerationOK
<1>11. ASSUME NEW h \in Calls, h # c
       PROVE  GenerationOK(h)'
  <2>1. pc[h] = "granted" \/ gen[h].lease => lock'[owner[h]] = h
    BY HolderFacts
  <2>2. gen[h].alive => tab[h] \in Tabs \ {t}
    BY AliveFacts, NoneAssumption
  <2> QED
    BY <1>7, <1>8, <1>9, <1>11, <2>1, <2>2, GenerationKept
<1>12. TabOK(t)'
  BY <1>1, <1>4, <1>5, <1>7, <1>8, NoneAssumption DEF TabOK, Orphaned, Behind
<1>13. ASSUME NEW u \in Tabs, u # t
       PROVE  TabOK(u)'
  <2>1. live[u] # None => live[u] \in Calls /\ gen[live[u]].alive /\ tab[live[u]] = u
    BY LiveFacts
  <2>2. live[u] # None => gen'[live[u]] = gen[live[u]]
    BY <1>8, <1>13, <2>1
  <2>3. \A h \in Calls : tab[h] = u /\ pc[h] \in Draining => tab'[h] = u /\ pc'[h] \in Draining
    BY <1>7, <1>13
  <2> QED
    BY <1>7, <1>8, <1>13, <2>1, <2>2, <2>3, TabKept
<1> QED
  BY <1>1, <1>7, <1>8, <1>9, <1>10, <1>11, <1>12, <1>13, TypesNext DEF Inv

\* The loop: a generation ends, an orphaned view is settled, a generation opens.
LEMMA DrainInv ==
    ASSUME Inv, NEW c \in Calls, NEW at \in Draining, pc[c] \in Draining \cup {"identity"},
           Drain(c, at)
    PROVE  Inv'
<1>1. pc[c] \notin InSetup /\ pc[c] # "idle" /\ at \in Places \ InSetup
      /\ "done" \in Places \ InSetup
  BY DEF InSetup, Setup, SetupSteps, Draining, Places, Ended
<1>2. tab[c] \in Tabs /\ owner[c] \in Owners
  BY <1>1, PlacedFacts
<1>3. UNCHANGED <<epoch, lock, worldVars, events>> /\ published' = published /\ WorldTypes'
  BY Typed DEF Drain, WorldTypes, worldVars
<1>4. view \in [Tabs -> View]
  BY Typed DEF OwnTypes
<1>5. CASE live[tab[c]] # None /\ req[c] = epoch[tab[c]]
  <2> DEFINE g == live[tab[c]]
  <2>1. g \in Calls /\ gen[g].alive /\ tab[g] = tab[c]
    BY <1>2, <1>5, LiveFacts
  <2>2. EndGeneration(g) /\ live' = [live EXCEPT ![tab[g]] = None] /\ WaitFor(c, at, g) /\ view' = view
    BY <1>5, <2>1 DEF Drain
  <2> HIDE DEF g
  <2>3. Moves(c, at)
    BY <1>1, <2>1, <2>2, WaitForMoves
  <2>4. /\ pc'[c] = at /\ (\A h \in Calls \ {c} : pc'[h] = pc[h])
        /\ tab' = tab /\ owner' = owner /\ CallTypes'
    BY <2>3, Typed DEF Moves, CallTypes
  <2> DEFINE x == End(gen[g])
  <2>5. Sound(pc[g], gen[g]) /\ gen[g] \in Generation /\ (pc'[g] = pc[g] \/ pc'[g] \notin InSetup)
    BY <1>1, <2>1, <2>4, AliveFacts
  <2>6. /\ x \in Generation /\ ~x.alive /\ Sound(pc'[g], x)
        /\ x.lease = gen[g].lease /\ x.started = gen[g].started /\ x.engine = gen[g].engine
        /\ x.dev = gen[g].dev /\ x.fp = gen[g].fp
    BY <2>1, <2>5, EndSound
  <2>7. gen' = [gen EXCEPT ![g] = x]
    BY <2>2 DEF EndGeneration
  <2> HIDE DEF x, Sound
  <2>8. Ends(g, x)
    BY <2>2, <2>6, <2>7 DEF Ends
  <2>9. epoch' \in [Tabs -> Nat] /\ view' \in [Tabs -> View]
    BY <1>3, <2>2, Typed DEF OwnTypes
  <2>10. \A h \in Calls : \/ pc'[h] = pc[h]
                          \/ pc'[h] \notin InSetup /\ (pc[h] \notin InSetup \/ h = g)
    BY <1>1, <2>4
  <2>11. \A h \in Calls : pc[h] \in Draining => pc'[h] \in Draining
    BY <2>4
  <2> QED
    BY <1>3, <2>1, <2>2, <2>4, <2>8, <2>9, <2>10, <2>11, GenerationEnds
<1>6. CASE live[tab[c]] # None /\ req[c] # epoch[tab[c]]
  <2>1. Return(c) /\ UNCHANGED <<view, live, gen>>
    BY <1>6 DEF Drain
  <2> QED
    BY <1>1, <1>3, <1>4, <1>6, <2>1, Returns, CallQuiet
<1>7. CASE live[tab[c]] = None /\ req[c] # epoch[tab[c]]
  <2>1. Return(c) /\ UNCHANGED <<live, gen>> /\ SettleOrphan(tab[c])
    BY <1>7 DEF Drain
  <2>2. /\ view' \in [Tabs -> View] /\ view'[tab[c]].state \notin {"ready", "initializing"}
        /\ \A t \in Tabs : view'[t] = view[t] \/ view'[t].state \notin {"ready", "initializing"}
    <3>1. CASE view[tab[c]].state \in {"ready", "initializing"}
      BY <1>2, <2>1, <3>1, FreshView, PublishTypes DEF SettleOrphan
    <3>2. CASE view[tab[c]].state \notin {"ready", "initializing"}
      BY <1>4, <2>1, <3>2 DEF SettleOrphan
    <3> QED
      BY <3>1, <3>2
  <2> QED
    BY <1>1, <1>3, <2>1, <2>2, Returns, CallQuiet
<1>8. CASE live[tab[c]] = None /\ req[c] = epoch[tab[c]] /\ at = "draining"
  <2>1. OpenGeneration(c)
    BY <1>8 DEF Drain
  <2> QED
    BY <1>1, <1>3, <1>8, <2>1, OpenGenerationInv
<1>9. CASE live[tab[c]] = None /\ req[c] = epoch[tab[c]] /\ at # "draining"
  <2>1. LockView(c)
    BY <1>9 DEF Drain
  <2>2. /\ view' \in [Tabs -> View] /\ view'[tab[c]].state \notin {"ready", "initializing"}
        /\ \A t \in Tabs : view'[t] = view[t] \/ view'[t].state \notin {"ready", "initializing"}
    <3> DEFINE v == view[tab[c]]
    <3>1. CASE v.state \in {"lost", "revoked"}
      BY <1>2, <1>4, <2>1, <3>1 DEF LockView
    <3>2. CASE v.state \notin {"lost", "revoked"}
      <4>1. v.gen \in Nat /\ v.dev \in Devices \cup {None} /\ v.owner \in Owners \cup {None}
        BY <1>2, <1>4 DEF View
      <4>2. Parting(Locked(v.gen, v.dev, v.owner))
        <5>1. PICK s \in {"failed", "locked"} :
                Locked(v.gen, v.dev, v.owner) = ViewOf(s, v.gen, v.dev, v.owner)
          BY DEF Locked
        <5>2. s \in ViewStates /\ s \notin {"ready", "initializing"}
          BY DEF ViewStates
        <5> HIDE DEF v
        <5>3. ViewOf(s, v.gen, v.dev, v.owner) \in View /\ ViewOf(s, v.gen, v.dev, v.owner).state = s
          BY <4>1, <5>2, ViewTypes
        <5> QED
          BY <5>1, <5>2, <5>3 DEF Parting
      <4>3. Publish(tab[c], Locked(v.gen, v.dev, v.owner))
        BY <2>1, <3>2 DEF LockView
      <4> QED
        BY <1>2, <4>2, <4>3, PublishTypes
    <3> QED
      BY <3>1, <3>2
  <2> QED
    BY <1>1, <1>3, <2>1, <2>2, Returns, CallQuiet DEF LockView
<1> QED
  BY <1>5, <1>6, <1>7, <1>8, <1>9

\* A step of a call outside the setup and the loop that touches no view either.
LEMMA CallOnly ==
    ASSUME Inv, NEW c \in Calls, NEW at \in Places \ InSetup,
           pc[c] \notin InSetup \cup Draining, Moves(c, at),
           UNCHANGED <<view, live, epoch, gen, lock, worldVars, events>>
    PROVE  Inv'
<1>1. published' = published /\ WorldTypes' /\ view' \in [Tabs -> View]
  BY Typed DEF WorldTypes, OwnTypes, worldVars
<1> QED
  BY <1>1, CallQuiet

LEMMA EndedPlaces == Ended \subseteq Places \ InSetup
  BY DEF Ended, Places, InSetup, Setup, SetupSteps

LEMMA DropOthersInv ==
    ASSUME Inv, NEW c \in Calls, NEW i, pc[c] = "identity", DropOthers(c, i)
    PROVE  Inv'
<1>1. pc[c] \notin InSetup \cup Draining /\ pc[c] # "idle" /\ "done" \in Places \ InSetup
  BY EndedPlaces DEF InSetup, Setup, SetupSteps, Draining, Ended
<1>2. tab[c] \in Tabs /\ owner[c] \in Owners
  BY <1>1, PlacedFacts
<1>3. CASE live[tab[c]] # None /\ Finish(c, live[tab[c]], Cleared(gen[live[tab[c]]].num))
  <2>1. live[tab[c]] \in Calls /\ gen[live[tab[c]]].alive
    BY <1>2, <1>3, LiveFacts
  <2>2. Parting(Cleared(gen[live[tab[c]]].num))
    BY <2>1, AliveFacts, PartingViews
  <2> QED
    BY <1>1, <1>3, <2>1, <2>2, FinishInv
<1>4. CASE /\ Publish(tab[c], Cleared(view[tab[c]].gen)) /\ Return(c)
           /\ UNCHANGED <<live, gen, epoch, lock, worldVars, events>>
  <2>1. Parting(Cleared(view[tab[c]].gen))
    BY <1>2, FreshView DEF Cleared
  <2>2. /\ view' \in [Tabs -> View]
        /\ \A u \in Tabs : view'[u] = view[u] \/ view'[u].state \notin {"ready", "initializing"}
    BY <1>2, <1>4, <2>1, PublishTypes
  <2>3. published' = published /\ WorldTypes'
    BY <1>4, Typed DEF WorldTypes, worldVars
  <2> QED
    BY <1>1, <1>4, <2>2, <2>3, Returns, CallQuiet
<1>5. CASE Return(c) /\ UNCHANGED <<view, live, gen, epoch, lock, worldVars, events>>
  BY <1>1, <1>5, Returns, CallOnly
<1> QED
  BY <1>3, <1>4, <1>5 DEF DropOthers

LEMMA EnsureIdentityInv ==
    ASSUME Inv, NEW c \in Calls, NEW i, EnsureIdentity(c, i)
    PROVE  Inv'
<1>1. pc[c] = "identity" /\ pc[c] \notin InSetup \cup Draining /\ "done" \in Places \ InSetup
  BY EndedPlaces DEF EnsureIdentity, InSetup, Setup, SetupSteps, Draining, Ended
<1>2. \/ Return(c) /\ UNCHANGED <<view, live, gen, epoch, lock, worldVars, events>>
      \/ \E at \in Draining : Drain(c, at)
      \/ DropOthers(c, i)
  BY DEF EnsureIdentity, Draining
<1>3. CASE Return(c) /\ UNCHANGED <<view, live, gen, epoch, lock, worldVars, events>>
  BY <1>1, <1>3, Returns, CallOnly
<1> QED
  BY <1>1, <1>2, <1>3, DrainInv, DropOthersInv

LEMMA LoopInv ==
    ASSUME Inv, NEW c \in Calls, Drained(c) \/ Finished(c)
    PROVE  Inv'
<1>1. CASE Drained(c)
  BY <1>1, DrainInv DEF Drained, Draining
<1>2. CASE Finished(c)
  <2>1. pc[c] \notin InSetup \cup Draining /\ "done" \in Places \ InSetup
    BY <1>2, EndedPlaces DEF Finished, InSetup, Setup, SetupSteps, Draining, Ended
  <2> QED
    BY <1>2, <2>1, Returns, CallOnly DEF Finished
<1> QED
  BY <1>1, <1>2

-----------------------------------------------------------------------------
(* use and acceptLoss *)

LEMMA UsePlacesFacts ==
    /\ UsePlaces \subseteq Places \ (InSetup \cup Draining)
    /\ {"useWait", "clearing"} \cap (InSetup \cup Draining) = {}
  BY DEF UsePlaces, Places, InSetup, Setup, SetupSteps, Draining

LEMMA UseInv ==
    ASSUME Inv, NEW c \in Calls, UseCheck(c) \/ UseRuns(c)
    PROVE  Inv'
<1>1. "done" \in Places \ InSetup
  BY EndedPlaces DEF Ended
<1>2. UNCHANGED <<view, live, epoch, gen, lock, worldVars, events>>
  BY DEF UseCheck, UseRuns
<1>3. CASE UseCheck(c)
  <2>1. pc[c] = "useWait" /\ pc[c] \notin InSetup \cup Draining /\ pc[c] # "idle"
    BY <1>3, UsePlacesFacts DEF UseCheck
  <2>2. tab[c] \in Tabs
    BY <2>1, PlacedFacts
  <2>3. CASE live[tab[c]] # None /\ WaitFor(c, "useBefore", live[tab[c]])
    <3>1. live[tab[c]] \in Calls
      BY <2>2, <2>3, LiveFacts
    <3>2. "useBefore" \in Places \ InSetup
      BY UsePlacesFacts DEF UsePlaces
    <3>3. Moves(c, "useBefore")
      BY <2>3, <3>1, <3>2, WaitForMoves
    <3> QED
      BY <1>2, <2>1, <3>2, <3>3, CallOnly
  <2>4. CASE Return(c)
    BY <1>1, <1>2, <2>1, <2>4, Returns, CallOnly
  <2> QED
    BY <1>3, <2>3, <2>4 DEF UseCheck
<1>4. CASE UseRuns(c)
  <2>1. pc[c] \in UsePlaces /\ "useAfter" \in UsePlaces /\ "useAfter" \in Places \ InSetup
        /\ pc[c] \notin InSetup \cup Draining
    BY <1>4, UsePlacesFacts DEF UseRuns, UsePlaces
  <2>2. CASE GoTo(c, "useAfter")
    BY <1>2, <2>1, <2>2, GoToMoves, CallOnly
  <2>3. CASE Return(c)
    BY <1>1, <1>2, <2>1, <2>3, Returns, CallOnly
  <2> QED
    BY <1>4, <2>2, <2>3 DEF UseRuns
<1> QED
  BY <1>3, <1>4

LEMMA ConfirmHolderInv ==
    ASSUME Inv, NEW c \in Calls, NEW i, ConfirmHolder(c, i)
    PROVE  Inv'
<1>1. pc[c] \in UsePlaces /\ pc[c] \notin InSetup \cup Draining /\ target[c] \in Calls
      /\ "useRuns" \in UsePlaces /\ "useRuns" \in Places \ InSetup
  BY UsePlacesFacts, Typed DEF ConfirmHolder, UsePlaces, CallTypes
<1>2. Ended \subseteq Places \ InSetup /\ {"ok", "done"} \subseteq Ended
  BY EndedPlaces DEF Ended
<1>3. CASE /\ GoTo(c, "useRuns") \/ ReturnAs(c, "ok") \/ Return(c)
           /\ UNCHANGED <<view, live, epoch, gen, lock, worldVars, events>>
  <2>1. Moves(c, "useRuns") \/ Moves(c, "ok") \/ Moves(c, "done")
    BY <1>1, <1>2, <1>3, GoToMoves, ReturnMoves, Returns
  <2> QED
    BY <1>1, <1>2, <1>3, <2>1, CallOnly
<1>4. CASE \E v : gen[target[c]].alive /\ Parting(v) /\ Finish(c, target[c], v)
  BY <1>1, <1>4, FinishInv
<1>5. gen[target[c]].alive => /\ Parting(Locked(gen[target[c]].num, gen[target[c]].dev, owner[target[c]]))
                              /\ Parting(Cleared(gen[target[c]].num))
  BY <1>1, AliveFacts, PartingViews
<1> QED
  BY <1>3, <1>4, <1>5 DEF ConfirmHolder, Alive

LEMMA LossAcceptedInv ==
    ASSUME Inv, NEW c \in Calls, LossAccepted(c)
    PROVE  Inv'
<1>1. pc[c] = "clearing" /\ pc[c] \notin InSetup \cup Draining /\ pc[c] # "idle"
      /\ "done" \in Places \ InSetup
  BY UsePlacesFacts, EndedPlaces DEF LossAccepted, Ended
<1>2. tab[c] \in Tabs /\ owner[c] \in Owners
  BY <1>1, PlacedFacts
<1>3. WorldTypes' /\ published' = published /\ UNCHANGED <<live, epoch, gen, lock>>
  BY <1>2, Typed DEF LossAccepted, WorldTypes
<1>4. /\ view' \in [Tabs -> View]
      /\ \A t \in Tabs : view'[t] = view[t] \/ view'[t].state \notin {"ready", "initializing"}
  <2>1. CASE view' = view
    BY <2>1, Typed DEF OwnTypes
  <2>2. CASE Publish(tab[c], ViewOf("new", view[tab[c]].gen, None, owner[c]))
    <3>1. view[tab[c]].gen \in Nat /\ "new" \in ViewStates
      BY <1>2, Typed DEF OwnTypes, View, ViewStates
    <3>2. Parting(ViewOf("new", view[tab[c]].gen, None, owner[c]))
      BY <1>2, <3>1, ViewTypes DEF Parting
    <3> QED
      BY <1>2, <2>2, <3>2, PublishTypes
  <2> QED
    BY <2>1, <2>2 DEF LossAccepted
<1>5. Moves(c, "done")
  BY Returns DEF LossAccepted
<1> QED
  BY <1>1, <1>3, <1>4, <1>5, CallQuiet

-----------------------------------------------------------------------------
(* The browser and the server *)

\* The calls of a closed tab are gone, with their generations and their locks.
LEMMA TabClosesInv ==
    ASSUME Inv, NEW t \in Tabs, TabCloses(t)
    PROVE  Inv'
<1> DEFINE ofTab == {c \in Calls : tab[c] = t}
<1>1. /\ tab' = tab /\ owner' = owner /\ published' = published /\ WorldTypes'
  BY Typed DEF TabCloses, WorldTypes, worldVars, Event
<1>2. NewView \in View /\ NewView.state \notin {"ready", "initializing"}
  BY DEF NewView, View, ViewStates
<1>3. /\ \A h \in Calls : tab[h] = t => pc'[h] \in Ended /\ gen'[h] = NoGeneration
      /\ \A h \in Calls : tab[h] # t => pc'[h] = pc[h] /\ gen'[h] = gen[h]
      /\ \A h \in Calls : tab[h] # t => target'[h] = target[h]
  BY DEF TabCloses, Ended
<1>4. \A o \in Owners : lock'[o] = IF lock[o] \in ofTab THEN None ELSE lock[o]
  BY DEF TabCloses
<1>5. /\ live'[t] = None /\ view'[t] = NewView
      /\ \A u \in Tabs \ {t} : live'[u] = live[u] /\ view'[u] = view[u]
  BY Typed DEF TabCloses, OwnTypes
<1>6. CallTypes'
  <2>1. /\ tab' \in [Calls -> Tabs \cup {None}] /\ owner' \in [Calls -> Owners \cup {None}]
        /\ req' \in [Calls -> Nat] /\ target' \in [Calls -> Calls \cup {None}]
        /\ inflight' \in [Tabs -> Calls \cup {None}]
    BY <1>1, Typed DEF TabCloses, CallTypes
  <2>2. pc' \in [Calls -> Places]
    BY Typed DEF TabCloses, CallTypes, Places, Ended
  <2>3. \A h \in Calls : pc'[h] \in UsePlaces => target'[h] \in Calls
    BY <1>3, Typed DEF CallTypes, UsePlaces, Ended
  <2> QED
    BY <2>1, <2>2, <2>3 DEF CallTypes
<1>7. OwnTypes'
  BY <1>2, NoGenerationFacts, Typed DEF TabCloses, OwnTypes
<1>8. ASSUME NEW h \in Calls, tab[h] = t
      PROVE  GenerationOK(h)'
  <2>1. pc'[h] \notin {"idle", "granted"} /\ gen'[h] = NoGeneration
    BY <1>3, <1>8 DEF Ended
  <2>2. pc[h] # "idle" => tab[h] \in Tabs /\ owner[h] \in Owners
    BY PlacedFacts
  <2>3. owner[h] \in Owners
    BY <1>8 DEF Inv, GenerationOK
  <2> QED
    BY <1>1, <1>8, <2>1, <2>2, <2>3, NoGenerationFacts, NoGenerationSound DEF GenerationOK
<1>9. ASSUME NEW h \in Calls, tab[h] # t
      PROVE  GenerationOK(h)'
  <2>1. pc[h] = "granted" \/ gen[h].lease => owner[h] \in Owners /\ lock[owner[h]] = h
    BY HolderFacts
  <2>2. pc[h] = "granted" \/ gen[h].lease => lock'[owner[h]] = h
    BY <1>4, <1>9, <2>1
  <2>3. gen[h].alive => tab[h] \in Tabs
    BY AliveFacts
  <2>4. gen[h].alive => live'[tab[h]] = live[tab[h]]
    BY <1>5, <1>9, <2>3
  <2> QED
    BY <1>1, <1>3, <1>9, <2>2, <2>4, GenerationKept
<1>10. TabOK(t)'
  BY <1>2, <1>5 DEF TabOK
<1>11. ASSUME NEW u \in Tabs, u # t
       PROVE  TabOK(u)'
  <2>1. live[u] # None => live[u] \in Calls /\ gen[live[u]].alive /\ tab[live[u]] = u
    BY LiveFacts
  <2>2. live[u] # None => gen'[live[u]] = gen[live[u]]
    BY <1>3, <1>11, <2>1
  <2>3. \A h \in Calls : tab[h] = u /\ pc[h] \in Draining => tab'[h] = u /\ pc'[h] \in Draining
    BY <1>1, <1>3, <1>11
  <2> QED
    BY <1>1, <1>5, <1>11, <2>1, <2>2, <2>3, TabKept
<1> QED
  BY <1>6, <1>1, <1>7, <1>8, <1>9, <1>10, <1>11, TypesNext DEF Inv

\* A step that touches nothing of the tabs, the calls and the locks.
LEMMA OutsideInv ==
    ASSUME Inv, UNCHANGED <<tabVars, callVars, gen, lock, published>>, WorldTypes'
    PROVE  Inv'
<1>1. UNCHANGED <<view, live, inflight, epoch, pc, tab, owner, req, target>>
  BY DEF tabVars, callVars
<1>2. CallTypes' /\ OwnTypes'
  BY <1>1, Typed DEF CallTypes, OwnTypes
<1>3. ASSUME NEW h \in Calls
      PROVE  GenerationOK(h)'
  <2>1. pc[h] = "granted" \/ gen[h].lease => lock'[owner[h]] = h
    BY HolderFacts
  <2> QED
    BY <1>1, <2>1, GenerationKept
<1>4. ASSUME NEW t \in Tabs
      PROVE  TabOK(t)'
  <2>1. live[t] # None => gen'[live[t]].alive
    BY LiveFacts
  <2> QED
    BY <1>1, <2>1, TabKept
<1> QED
  BY <1>2, <1>3, <1>4, TypesNext DEF Inv

\* A signal of the live generation ends it; any other one is not heard.
LEMMA EngineSignalInv ==
    ASSUME Inv, NEW g \in Calls, EngineSignal(g)
    PROVE  Inv'
<1>1. CASE Alive(g) /\ SignalEnds(g)
  <2>1. gen[g].alive /\ pc[g] # "idle" /\ gen[g].dev \in Devices \cup {None}
    BY <1>1, AliveFacts DEF Alive, Generation
  <2>2. PICK v : Parting(v) /\ Publish(tab[g], v)
    BY <1>1, <2>1, PartingViews DEF SignalEnds
  <2>3. /\ epoch' \in [Tabs -> Nat] /\ inflight' \in [Tabs -> Calls \cup {None}] /\ events' \in Nat
    BY Typed DEF EngineSignal, Event, OwnTypes, CallTypes, WorldTypes
  <2> QED
    BY <1>1, <2>1, <2>2, <2>3, EndsBesideItsCall DEF EngineSignal, SignalEnds
<1>2. CASE UNCHANGED <<view, live, gen>>
  <2>1. UNCHANGED <<tabVars, callVars, gen, lock, published>> /\ WorldTypes'
    BY <1>2, Typed DEF EngineSignal, Event, tabVars, worldVars, WorldTypes
  <2> QED
    BY <2>1, OutsideInv
<1> QED
  BY <1>1, <1>2 DEF EngineSignal

LEMMA WorldInv ==
    ASSUME Inv, NEW o \in Owners, StorageCleared(o) \/ Reenrolled(o)
    PROVE  Inv'
<1>1. CASE StorageCleared(o)
  <2>1. WorldTypes'
    BY <1>1, Typed DEF StorageCleared, Event, WorldTypes
  <2> QED
    BY <1>1, <2>1, OutsideInv DEF StorageCleared
<1>2. CASE Reenrolled(o)
  <2>1. WorldTypes'
    BY <1>2, Typed DEF Reenrolled, Event, WorldTypes
  <2> QED
    BY <1>2, <2>1, OutsideInv DEF Reenrolled
<1> QED
  BY <1>1, <1>2

-----------------------------------------------------------------------------
(* Every step, and every state *)

LEMMA AnsweredInv ==
    ASSUME Inv, NEW c \in Calls, Answered(c)
    PROVE  Inv'
<1>1. CASE \E i \in Identities : EnsureIdentity(c, i) \/ ConfirmIdentity(c, i) \/ ConfirmHolder(c, i)
  BY <1>1, EnsureIdentityInv, ConfirmIdentityInv, ConfirmHolderInv
<1>2. CASE LockRefused(c) \/ StepTimeout(c) \/ StartTimeout(c)
  BY <1>2, TimeoutInv
<1>3. CASE AdoptLease(c) \/ Superseded(c) \/ Drained(c) \/ Finished(c)
  BY <1>3, AdoptLeaseInv, SupersededInv, LoopInv
<1>4. CASE UseCheck(c) \/ UseRuns(c) \/ LossAccepted(c)
  BY <1>4, UseInv, LossAcceptedInv
<1> QED
  BY <1>1, <1>2, <1>3, <1>4 DEF Answered

LEMMA ProgressInv ==
    ASSUME Inv, NEW c \in Calls, Progress(c)
    PROVE  Inv'
<1>1. CASE LockGranted(c) \/ CredentialsResolved(c) \/ StoreOpened(c) \/ EngineOpened(c)
  BY <1>1, LockGrantedInv, CredentialsResolvedInv, StoreOpenedInv, EngineOpenedInv
<1>2. CASE IdentityChecked(c) \/ MarkerPut(c) \/ CredentialsRefused(c) \/ StepThrows(c)
  BY <1>2, IdentityCheckedInv, MarkerPutInv, StepEndsInv
<1>3. CASE KeysUploaded(c) \/ Started(c)
  BY <1>3, KeysUploadedInv, StartedInv
<1> QED
  BY <1>1, <1>2, <1>3 DEF Progress

LEMMA InvStep == Inv /\ [Next]_vars => Inv'
<1> SUFFICES ASSUME Inv, [Next]_vars
             PROVE  Inv'
  OBVIOUS
<1>1. ASSUME NEW c \in Calls,
             Begins(c) \/ Answered(c) \/ Progress(c) \/ Close(c) \/ EngineSignal(c)
      PROVE  Inv'
  BY <1>1, BeginsInv, AnsweredInv, ProgressInv, CloseInv, EngineSignalInv
<1>2. ASSUME NEW t \in Tabs, Stop(t) \/ TabCloses(t)
      PROVE  Inv'
  BY <1>2, StopInv, TabClosesInv
<1>3. ASSUME NEW o \in Owners, StorageCleared(o) \/ Reenrolled(o)
      PROVE  Inv'
  BY <1>3, WorldInv
<1>4. CASE UNCHANGED vars
  <2>1. UNCHANGED <<tabVars, callVars, gen, lock, published>> /\ WorldTypes'
    BY <1>4, Typed DEF vars, worldVars, WorldTypes
  <2> QED
    BY <2>1, OutsideInv
<1> QED
  BY <1>1, <1>2, <1>3, <1>4 DEF Next

LEMMA InvInit == Init => Inv
<1> SUFFICES ASSUME Init
             PROVE  Inv
  OBVIOUS
<1>1. CallTypes
  BY DEF Init, CallTypes, Places, UsePlaces
<1>2. WorldTypes
  <2>1. 1 \in Devices
    BY BoundsAssumption DEF Devices
  <2> QED
    BY <2>1 DEF Init, WorldTypes
<1>3. NewView \in View /\ NewView.state \notin {"ready", "initializing"}
  BY DEF NewView, View, ViewStates
<1>4. OwnTypes
  BY <1>3, NoGenerationFacts DEF Init, OwnTypes
<1>5. ASSUME NEW c \in Calls
      PROVE  GenerationOK(c)
  <2>1. /\ pc[c] = "idle" /\ gen[c] = NoGeneration /\ tab[c] \notin Tabs
    BY NoneAssumption DEF Init
  <2> QED
    BY <2>1, NoGenerationFacts, NoGenerationSound DEF GenerationOK
<1>6. ASSUME NEW t \in Tabs
      PROVE  TabOK(t)
  BY <1>3 DEF Init, TabOK
<1> QED
  BY <1>1, <1>2, <1>4, <1>5, <1>6 DEF Inv, Typing

LEMMA InvAlways == Spec => []Inv
  BY InvInit, InvStep, PTL DEF Spec

-----------------------------------------------------------------------------
(* The theorems *)

\* Every variable of the service, the browser and the server holds a value of its kind.
THEOREM TypeCorrect == Spec => []TypeOK
<1>1. Inv => TypeOK
  BY Typed DEF TypeOK, CallTypes, WorldTypes, OwnTypes, Places
<1> QED
  BY <1>1, InvAlways, PTL

\* However many tabs, calls, stops, timeouts and crashes: whoever may still write an
\* owner's crypto store (transitions.ts) holds that owner's lock, so there is one.
THEOREM OneWriter == Spec => []SingleWriter
<1>1. Inv => SingleWriter
  <2> SUFFICES ASSUME Inv, NEW g \in Calls, NEW h \in Calls, Writes(g), Writes(h), owner[g] = owner[h]
               PROVE  g = h
    BY DEF SingleWriter
  <2>1. ASSUME NEW r \in Calls, Writes(r)
        PROVE  lock[owner[r]] = r
    <3>1. gen[r].engine \/ gen[r].step # None
      BY <2>1, StepsAssumption DEF Writes, Signals, SetupSteps
    <3>2. gen[r].lease
      BY <3>1 DEF Inv, GenerationOK, Sound
    <3> QED
      BY <3>2, HolderFacts
  <2> QED
    BY <2>1
<1> QED
  BY <1>1, InvAlways, PTL

\* A tab shows `ready` or `initializing` (lifecycle.ts) only while the generation it
\* names is live, or while the request that ended it has yet to publish what follows.
THEOREM NoOrphans == Spec => []NoOrphanView
<1>1. Inv => NoOrphanView
  BY DEF Inv, TabOK, Orphaned, Behind, NoOrphanView, Draining
<1> QED
  BY <1>1, InvAlways, PTL

\* Only an upload changes the keys the server holds.
LEMMA OnlyUploadsPublish ==
    ASSUME [Next]_vars
    PROVE  published' = published \/ \E c \in Calls : KeysUploaded(c)
<1>1. ASSUME NEW c \in Calls, Begins(c)
      PROVE  published' = published
  BY <1>1 DEF Begins, EnsureReady, Use, AcceptLoss, Place, worldVars
<1>2. ASSUME NEW c \in Calls, Answered(c)
      PROVE  published' = published
  <2>1. ASSUME NEW i, EnsureIdentity(c, i)
        PROVE  published' = published
    BY <2>1 DEF EnsureIdentity, Drain, DropOthers, Finish, worldVars
  <2>2. ASSUME NEW i, ConfirmIdentity(c, i) \/ ConfirmHolder(c, i)
        PROVE  published' = published
    BY <2>2 DEF ConfirmIdentity, ConfirmHolder, Finish, worldVars
  <2>3. CASE LockRefused(c) \/ StepTimeout(c) \/ StartTimeout(c) \/ AdoptLease(c) \/ Superseded(c)
    BY <2>3 DEF LockRefused, StepTimeout, StartTimeout, AdoptLease, Superseded, Finish, worldVars
  <2>4. CASE Drained(c) \/ Finished(c) \/ UseCheck(c) \/ UseRuns(c) \/ LossAccepted(c)
    BY <2>4 DEF Drained, Drain, Finished, UseCheck, UseRuns, LossAccepted, worldVars
  <2> QED
    BY <1>2, <2>1, <2>2, <2>3, <2>4 DEF Answered
<1>3. ASSUME NEW c \in Calls, Progress(c), ~KeysUploaded(c)
      PROVE  published' = published
  <2>1. CASE LockGranted(c) \/ CredentialsResolved(c) \/ CredentialsRefused(c) \/ StoreOpened(c)
    BY <2>1 DEF LockGranted, CredentialsResolved, CredentialsRefused, StoreOpened, worldVars
  <2>2. CASE EngineOpened(c) \/ IdentityChecked(c) \/ MarkerPut(c) \/ StepThrows(c) \/ Started(c)
    BY <2>2 DEF EngineOpened, IdentityChecked, MarkerPut, StepThrows, Started, worldVars
  <2> QED
    BY <1>3, <2>1, <2>2 DEF Progress
<1>4. ASSUME NEW c \in Calls, Close(c) \/ EngineSignal(c)
      PROVE  published' = published
  BY <1>4 DEF Close, EngineCloses, EngineCloseTimeout, StragglerSettles, StoreCloses,
              EngineSignal, worldVars
<1>5. ASSUME NEW t \in Tabs, Stop(t) \/ TabCloses(t)
      PROVE  published' = published
  BY <1>5 DEF Stop, TabCloses, worldVars
<1>6. ASSUME NEW o \in Owners, StorageCleared(o) \/ Reenrolled(o)
      PROVE  published' = published
  BY <1>6 DEF StorageCleared, Reenrolled
<1>7. CASE UNCHANGED vars
  BY <1>7 DEF vars, worldVars
<1> QED
  BY <1>1, <1>2, <1>3, <1>4, <1>5, <1>6, <1>7 DEF Next

\* Keys are uploaded for a device (lifecycle.ts) only if the server had none or these:
\* what the credentials said is still true, for the lease kept everybody else away.
THEOREM IdentityKept == Spec => DeviceKeepsIdentity
<1> DEFINE Kept == \A o \in Owners, d \in Devices :
                       published[o][d] # None => published'[o][d] = published[o][d]
<1>1. Inv /\ [Next]_vars => [Kept]_vars
  <2> SUFFICES ASSUME Inv, [Next]_vars
               PROVE  Kept
    OBVIOUS
  <2>1. CASE published' = published
    BY <2>1
  <2>2. ASSUME NEW c \in Calls, KeysUploaded(c)
        PROVE  Kept
    <3> SUFFICES ASSUME NEW o \in Owners, NEW d \in Devices, published[o][d] # None
                 PROVE  published'[o][d] = published[o][d]
      OBVIOUS
    <3>1. CASE o = owner[c] /\ d = gen[c].dev
      BY <2>2, <3>1, UploadFacts
    <3>2. CASE ~(o = owner[c] /\ d = gen[c].dev)
      BY <2>2, <3>2, UploadFacts
    <3> QED
      BY <3>1, <3>2
  <2> QED
    BY <2>1, <2>2, OnlyUploadsPublish
<1> QED
  BY <1>1, InvAlways, PTL DEF Spec, DeviceKeepsIdentity

-----------------------------------------------------------------------------
(* What a call waits for *)

\* A call that waits until a generation is closed, and a call that is beyond the
\* point where it opens its own.
Closing == Draining \cup {"finishing"}
Past == Setup \cup Ended \cup {"finishing"}
Calm == {"idle", "useWait"}

\* The generation waited for ends, and its call is past opening it once more.
WaitsForClosed(c) ==
    /\ target[c] \in Calls
    /\ pc[target[c]] \in Past
    /\ ~gen[target[c]].alive

WaitInv ==
    /\ \A c \in Calls : gen[c].alive => pc[c] \in Past
    /\ \A c \in Calls : pc[c] \in Closing => WaitsForClosed(c)
    /\ \A c \in Calls : pc[c] = "useWait" /\ target[c] # None => pc[target[c]] \notin Calm
    /\ \A t \in Tabs : inflight[t] # None => pc[inflight[t]] \notin Calm

LEMMA PlacesApart ==
    /\ Past \cap Calm = {} /\ Past \subseteq Places /\ Closing \subseteq Places
    /\ Closing \cap Calm = {} /\ "identity" \notin Past /\ Draining \cap Past = {}
    /\ Setup \subseteq Past /\ Ended \subseteq Past /\ SetupSteps \subseteq Past
    /\ "finishing" \in Past /\ Past \cap Draining = {} /\ Setup \cap Closing = {}
    /\ Ended \cap Closing = {} /\ SetupSteps \cap Closing = {} /\ UsePlaces \cap Closing = {}
    /\ UsePlaces \cap Calm = {} /\ UsePlaces \cap Past = {} /\ UsePlaces \subseteq Places
  BY DEF Past, Calm, Places, Closing, Setup, SetupSteps, Ended, Draining, UsePlaces

\* A step of whoever: no call leaves Past, and no generation opens but one whose call
\* was not there.
LEMMA WaitKept ==
    ASSUME Inv, WaitInv,
           \A x \in Calls : pc[x] \in Past => pc'[x] \in Past,
           \A x \in Calls : pc[x] \notin Calm => pc'[x] \notin Calm,
           \A x \in Calls : gen'[x].alive => (gen[x].alive \/ pc[x] \notin Past) /\ pc'[x] \in Past,
           \A x \in Calls :
              \/ pc'[x] = pc[x] /\ target'[x] = target[x]
              \/ /\ pc'[x] \in Closing => WaitsForClosed(x)'
                 /\ pc'[x] = "useWait" => target'[x] = None \/ (target'[x] \in Calls /\ pc'[target'[x]] \notin Calm),
           \A t \in Tabs : inflight'[t] \in {None, inflight[t]} \/ pc'[inflight'[t]] \notin Calm
    PROVE  WaitInv'
<1>1. /\ target \in [Calls -> Calls \cup {None}] /\ inflight \in [Tabs -> Calls \cup {None}]
  BY Typed DEF CallTypes
<1>2. ASSUME NEW x \in Calls, pc'[x] \in Closing
      PROVE  WaitsForClosed(x)'
  <2>1. CASE pc'[x] = pc[x] /\ target'[x] = target[x]
    <3>1. WaitsForClosed(x)
      BY <1>2, <2>1 DEF WaitInv
    <3> QED BY <2>1, <3>1 DEF WaitsForClosed
  <2> QED BY <1>2, <2>1
<1>3. ASSUME NEW x \in Calls, pc'[x] = "useWait", target'[x] # None
      PROVE  pc'[target'[x]] \notin Calm
  <2>1. CASE pc'[x] = pc[x] /\ target'[x] = target[x]
    <3>1. target[x] \in Calls /\ pc[target[x]] \notin Calm
      BY <1>1, <1>3, <2>1 DEF WaitInv
    <3> QED BY <2>1, <3>1
  <2> QED BY <1>3, <2>1
<1>4. ASSUME NEW t \in Tabs, inflight'[t] # None
      PROVE  pc'[inflight'[t]] \notin Calm
  <2>1. CASE inflight'[t] = inflight[t]
    <3>1. inflight[t] \in Calls /\ pc[inflight[t]] \notin Calm
      BY <1>1, <1>4, <2>1 DEF WaitInv
    <3> QED BY <2>1, <3>1
  <2> QED BY <1>4, <2>1
<1> QED BY <1>2, <1>3, <1>4 DEF WaitInv

\* No call moves; generations only end.
LEMMA WaitQuiet ==
    ASSUME Inv, WaitInv, UNCHANGED <<pc, target>>,
           \A x \in Calls : gen'[x].alive => gen[x].alive,
           \A t \in Tabs : inflight'[t] \in {None, inflight[t]}
    PROVE  WaitInv'
  BY WaitKept DEF WaitInv

\* The call c moves; generations only end.
LEMMA WaitMoves ==
    ASSUME Inv, WaitInv, NEW c \in Calls, NEW at \in Places \ Calm,
           pc' = [pc EXCEPT ![c] = at], pc[c] \in Past => at \in Past,
           \A x \in Calls \ {c} : target'[x] = target[x],
           \A x \in Calls : gen'[x].alive => gen[x].alive,
           \A t \in Tabs : inflight'[t] \in {None, inflight[t]},
           at \in Closing =>
              /\ target'[c] \in Calls /\ ~gen'[target'[c]].alive
              /\ (target'[c] = c /\ at = "finishing") \/ (target'[c] # c /\ pc[target'[c]] \in Past)
    PROVE  WaitInv'
<1>1. pc'[c] = at /\ \A x \in Calls \ {c} : pc'[x] = pc[x]
  BY Typed DEF CallTypes
<1>2. \A x \in Calls : pc[x] \in Past => pc'[x] \in Past
  BY <1>1
<1>3. \A x \in Calls : pc[x] \notin Calm => pc'[x] \notin Calm
  BY <1>1
<1>4. \A x \in Calls : gen'[x].alive => (gen[x].alive \/ pc[x] \notin Past) /\ pc'[x] \in Past
  BY <1>1 DEF WaitInv
<1>5. ASSUME NEW x \in Calls
      PROVE  \/ pc'[x] = pc[x] /\ target'[x] = target[x]
             \/ /\ pc'[x] \in Closing => WaitsForClosed(x)'
                /\ pc'[x] = "useWait" => target'[x] = None \/ (target'[x] \in Calls /\ pc'[target'[x]] \notin Calm)
  <2>1. CASE x = c
    <3>1. at # "useWait"
      BY DEF Calm
    <3>2. at \in Closing => pc'[target'[c]] \in Past
      BY <1>1, PlacesApart
    <3> QED BY <1>1, <2>1, <3>1, <3>2 DEF WaitsForClosed
  <2> QED BY <1>1, <2>1
<1> QED BY <1>2, <1>3, <1>4, <1>5, WaitKept

\* The call returns.
LEMMA WaitReturns ==
    ASSUME Inv, WaitInv, NEW c \in Calls, NEW at \in Ended, ReturnAs(c, at),
           \A x \in Calls : gen'[x].alive => gen[x].alive
    PROVE  WaitInv'
<1>1. /\ pc' = [pc EXCEPT ![c] = at]
      /\ \A x \in Calls \ {c} : target'[x] = target[x]
      /\ \A t \in Tabs : inflight'[t] \in {None, inflight[t]}
  BY Typed DEF ReturnAs, CallTypes
<1>2. at \in Places \ Calm /\ at \in Past /\ at \notin Closing
  BY PlacesApart
<1> QED BY <1>1, <1>2, WaitMoves

\* The call goes on with a step that opens nothing.
LEMMA WaitGoes ==
    ASSUME Inv, WaitInv, NEW c \in Calls, NEW at \in Places \ (Calm \cup Closing), GoTo(c, at),
           pc[c] \in Past => at \in Past,
           \A x \in Calls : gen'[x].alive => gen[x].alive
    PROVE  WaitInv'
<1>1. /\ pc' = [pc EXCEPT ![c] = at] /\ target' = target /\ inflight' = inflight
  BY DEF GoTo
<1>2. /\ \A x \in Calls \ {c} : target'[x] = target[x]
      /\ \A t \in Tabs : inflight'[t] \in {None, inflight[t]}
  BY <1>1
<1>3. at \in Places \ Calm /\ at \notin Closing
  OBVIOUS
<1> QED BY <1>1, <1>2, <1>3, WaitMoves

\* A generation ends, and the call c waits until it is closed.
LEMMA WaitFinishes ==
    ASSUME Inv, WaitInv, NEW c \in Calls, NEW g \in Calls, NEW at \in Closing, gen[g].alive,
           WaitFor(c, at, g), gen' \in [Calls -> Generation], ~gen'[g].alive,
           \A x \in Calls \ {g} : gen'[x] = gen[x],
           at = "finishing" \/ pc[c] \notin Past
    PROVE  WaitInv'
<1>1. /\ pc' = [pc EXCEPT ![c] = at] /\ inflight' = inflight
      /\ target'[c] = g /\ \A x \in Calls \ {c} : target'[x] = target[x]
  BY Typed DEF WaitFor, CallTypes
<1>2. at \in Places \ Calm /\ (pc[c] \in Past => at \in Past)
  BY PlacesApart
<1>3. pc[g] \in Past
  BY DEF WaitInv
<1>4. \A x \in Calls : gen'[x].alive => gen[x].alive
  OBVIOUS
<1>5. \A t \in Tabs : inflight'[t] \in {None, inflight[t]}
  BY <1>1
<1>6. at = "finishing" \/ g # c
  BY <1>3
<1>7. /\ target'[c] \in Calls /\ ~gen'[target'[c]].alive
      /\ (target'[c] = c /\ at = "finishing") \/ (target'[c] # c /\ pc[target'[c]] \in Past)
  BY <1>1, <1>3, <1>6
<1> QED BY <1>1, <1>2, <1>4, <1>5, <1>7, WaitMoves

-----------------------------------------------------------------------------

LEMMA EndsDead == \A r : ~End(r).alive
  BY DEF End

LEMMA FinishWaits ==
    ASSUME Inv, WaitInv, NEW c \in Calls, NEW g \in Calls, gen[g].alive, NEW v, Finish(c, g, v),
           gen' \in [Calls -> Generation]
    PROVE  WaitInv'
<1>1. gen' = [gen EXCEPT ![g] = End(gen[g])] /\ WaitFor(c, "finishing", g)
  BY DEF Finish, EndGeneration
<1>2. ~gen'[g].alive /\ \A x \in Calls \ {g} : gen'[x] = gen[x]
  BY <1>1, EndsDead, Typed DEF OwnTypes
<1>3. "finishing" \in Closing
  BY DEF Closing
<1> QED BY <1>1, <1>2, <1>3, WaitFinishes

LEMMA FinishStepWaits ==
    ASSUME Inv, WaitInv, NEW c \in Calls, gen[c].alive, NEW v, FinishStep(c, v),
           gen' \in [Calls -> Generation]
    PROVE  WaitInv'
<1>1. gen' = [gen EXCEPT ![c] = End([gen[c] EXCEPT !.step = None])] /\ WaitFor(c, "finishing", c)
  BY DEF FinishStep
<1>2. ~gen'[c].alive /\ \A x \in Calls \ {c} : gen'[x] = gen[x]
  BY <1>1, EndsDead, Typed DEF OwnTypes
<1>3. "finishing" \in Closing
  BY DEF Closing
<1> QED BY <1>1, <1>2, <1>3, WaitFinishes

\* A setup step of a live generation begins: the generation goes on.
LEMMA SetupGoes ==
    ASSUME Inv, WaitInv, NEW c \in Calls, gen[c].alive, NEW at \in Setup, GoTo(c, at),
           \A x \in Calls \ {c} : gen'[x] = gen[x]
    PROVE  WaitInv'
<1>1. \A x \in Calls : gen'[x].alive => gen[x].alive
  OBVIOUS
<1>2. at \in Places \ (Calm \cup Closing) /\ at \in Past
  BY PlacesApart
<1> QED BY <1>1, <1>2, WaitGoes

LEMMA NothingOpens == gen' = gen => \A x \in Calls : gen'[x].alive => gen[x].alive
  OBVIOUS

LEMMA PlaceWaits ==
    ASSUME Inv, WaitInv, NEW c \in Calls, NEW t \in Tabs, NEW o \in Owners,
           NEW at \in {"identity", "useWait", "clearing"}, NEW n \in Nat,
           NEW waits \in Calls \cup {None}, Place(c, t, o, at, n, waits),
           at = "useWait" /\ waits # None => pc[waits] \notin Calm,
           inflight' = inflight \/ (at = "identity" /\ inflight' = [inflight EXCEPT ![t] = c])
    PROVE  WaitInv'
<1>1. /\ pc[c] = "idle" /\ gen' = gen
      /\ pc'[c] = at /\ \A x \in Calls \ {c} : pc'[x] = pc[x]
      /\ target'[c] = waits /\ \A x \in Calls \ {c} : target'[x] = target[x]
  BY Typed DEF Place, CallTypes
<1>2. /\ pc[c] \in Calm /\ pc[c] \notin Past /\ ~gen[c].alive
      /\ at \notin Closing /\ (at # "useWait" => at \notin Calm)
  BY <1>1 DEF WaitInv, Calm, Past, Closing, Draining, Setup, SetupSteps, Ended
<1>3. \A x \in Calls : pc[x] \in Past => pc'[x] \in Past
  BY <1>1, <1>2
<1>4. \A x \in Calls : pc[x] \notin Calm => pc'[x] \notin Calm
  BY <1>1, <1>2
<1>5. \A x \in Calls : gen'[x].alive => (gen[x].alive \/ pc[x] \notin Past) /\ pc'[x] \in Past
  BY <1>1, <1>2 DEF WaitInv
<1>6. at = "useWait" => target'[c] = None \/ (target'[c] \in Calls /\ pc'[target'[c]] \notin Calm)
  BY <1>1, <1>2
<1>7. \A x \in Calls :
         \/ pc'[x] = pc[x] /\ target'[x] = target[x]
         \/ /\ pc'[x] \in Closing => WaitsForClosed(x)'
            /\ pc'[x] = "useWait" => target'[x] = None \/ (target'[x] \in Calls /\ pc'[target'[x]] \notin Calm)
  BY <1>1, <1>2, <1>6
<1>8. \A u \in Tabs : inflight'[u] \in {None, inflight[u]} \/ pc'[inflight'[u]] \notin Calm
  <2> SUFFICES ASSUME NEW u \in Tabs
               PROVE  inflight'[u] \in {None, inflight[u]} \/ pc'[inflight'[u]] \notin Calm
    OBVIOUS
  <2>1. CASE inflight' = inflight
    BY <2>1
  <2>2. CASE at = "identity" /\ inflight' = [inflight EXCEPT ![t] = c]
    <3>1. inflight'[u] = inflight[u] \/ inflight'[u] = c
      BY <2>2, Typed DEF CallTypes
    <3> QED BY <1>1, <1>2, <2>2, <3>1
  <2> QED BY <2>1, <2>2
<1> QED BY <1>3, <1>4, <1>5, <1>7, <1>8, WaitKept

LEMMA BeginsWaits ==
    ASSUME Inv, WaitInv, NEW c \in Calls, Begins(c)
    PROVE  WaitInv'
<1>1. PICK t \in Tabs, o \in Owners : EnsureReady(c, t, o) \/ Use(c, t, o) \/ AcceptLoss(c, t, o)
  BY DEF Begins
<1>2. epoch[t] \in Nat /\ epoch[t] + 1 \in Nat /\ inflight[t] \in Calls \cup {None}
  BY Typed DEF OwnTypes, CallTypes
<1>3. CASE EnsureReady(c, t, o)
  BY <1>2, <1>3, PlaceWaits DEF EnsureReady
<1>4. CASE Use(c, t, o)
  <2> DEFINE waits == IF InflightFor(t, o) THEN inflight[t] ELSE None
  <2>1. Place(c, t, o, "useWait", epoch[t], waits) /\ inflight' = inflight
    BY <1>4 DEF Use
  <2>2. waits \in Calls \cup {None} /\ (waits # None => pc[waits] \notin Calm)
    BY <1>2 DEF WaitInv
  <2> HIDE DEF waits
  <2> QED BY <1>2, <2>1, <2>2, PlaceWaits
<1>5. CASE AcceptLoss(c, t, o)
  BY <1>2, <1>5, PlaceWaits DEF AcceptLoss
<1> QED BY <1>1, <1>3, <1>4, <1>5

\* Before a generation opens its call is at neither of the places that follow.
LEMMA OpenWaits ==
    ASSUME Inv, WaitInv, NEW c \in Calls, pc[c] \in {"identity", "draining"}, OpenGeneration(c)
    PROVE  WaitInv'
<1>1. GoTo(c, "locking") /\ \A x \in Calls \ {c} : gen'[x] = gen[x]
  BY Typed DEF OpenGeneration, OwnTypes
<1>2. /\ pc'[c] = "locking" /\ (\A x \in Calls \ {c} : pc'[x] = pc[x])
      /\ target' = target /\ inflight' = inflight
  BY <1>1, Typed DEF GoTo, CallTypes
<1>3. /\ pc[c] \notin Past /\ pc[c] \notin Calm
      /\ "locking" \in Past /\ "locking" \notin Calm /\ "locking" \notin Closing
  BY DEF Past, Calm, Closing, Draining, Setup, SetupSteps, Ended
<1>4. \A x \in Calls : pc[x] \in Past => pc'[x] \in Past
  BY <1>2, <1>3
<1>5. \A x \in Calls : pc[x] \notin Calm => pc'[x] \notin Calm
  BY <1>2, <1>3
<1>6. \A x \in Calls : gen'[x].alive => (gen[x].alive \/ pc[x] \notin Past) /\ pc'[x] \in Past
  BY <1>1, <1>2, <1>3 DEF WaitInv
<1>7. \A x \in Calls :
         \/ pc'[x] = pc[x] /\ target'[x] = target[x]
         \/ pc'[x] \notin Closing /\ pc'[x] # "useWait"
  BY <1>2, <1>3
<1> QED BY <1>2, <1>4, <1>5, <1>6, <1>7, WaitKept

LEMMA DrainWaits ==
    ASSUME Inv, WaitInv, NEW c \in Calls, NEW at \in Draining, Drain(c, at),
           pc[c] = "identity" \/ pc[c] = at, gen' \in [Calls -> Generation]
    PROVE  WaitInv'
<1> DEFINE t == tab[c]
<1>1. pc[c] \in {"identity", "draining", "signingOut"} /\ pc[c] \notin Past
      /\ (at = "draining" => pc[c] \in {"identity", "draining"})
  BY DEF Draining, Past, Setup, SetupSteps, Ended
<1>2. t \in Tabs
  BY <1>1, PlacedFacts
<1>3. CASE live[t] # None /\ req[c] = epoch[t]
  <2>1. live[t] \in Calls /\ gen[live[t]].alive
    BY <1>2, <1>3, LiveFacts
  <2>2. EndGeneration(live[t]) /\ WaitFor(c, at, live[t])
    BY <1>3 DEF Drain
  <2>3. ~gen'[live[t]].alive /\ \A x \in Calls \ {live[t]} : gen'[x] = gen[x]
    BY <2>1, <2>2, EndsDead, Typed DEF EndGeneration, OwnTypes
  <2>4. at \in Closing
    BY DEF Closing
  <2> QED BY <1>1, <2>1, <2>2, <2>3, <2>4, WaitFinishes
<1>4. CASE live[t] = None /\ req[c] = epoch[t] /\ at = "draining"
  BY <1>1, <1>4, OpenWaits DEF Drain
<1>5. CASE req[c] # epoch[t] \/ (live[t] = None /\ at = "signingOut")
  <2>1. Return(c) /\ gen' = gen
    BY <1>5 DEF Drain, LockView
  <2> QED BY <2>1, NothingOpens, WaitReturns DEF Return, Ended
<1>6. at = "draining" \/ at = "signingOut"
  BY DEF Draining
<1> HIDE DEF t
<1> QED BY <1>3, <1>4, <1>5, <1>6

LEMMA ReturnWaits ==
    ASSUME Inv, WaitInv, NEW c \in Calls, Return(c), gen' = gen
    PROVE  WaitInv'
  BY NothingOpens, WaitReturns DEF Return, Ended

LEMMA EnsureIdentityWaits ==
    ASSUME Inv, Inv', WaitInv, NEW c \in Calls, NEW i \in Identities, EnsureIdentity(c, i)
    PROVE  WaitInv'
<1>1. pc[c] = "identity" /\ gen' \in [Calls -> Generation] /\ tab[c] \in Tabs
  <2>1. OwnTypes'
    BY DEF Inv, Typing
  <2> QED BY <2>1, PlacedFacts DEF EnsureIdentity, OwnTypes
<1>2. CASE Return(c) /\ gen' = gen
  BY <1>2, ReturnWaits
<1>3. CASE Drain(c, "signingOut") \/ Drain(c, "draining")
  BY <1>1, <1>3, DrainWaits DEF Draining
<1>4. CASE DropOthers(c, i)
  <2>1. CASE live[tab[c]] # None /\ Finish(c, live[tab[c]], Cleared(gen[live[tab[c]]].num))
    <3>1. live[tab[c]] \in Calls /\ gen[live[tab[c]]].alive
      BY <1>1, <2>1, LiveFacts
    <3> QED BY <1>1, <2>1, <3>1, FinishWaits
  <2> QED BY <1>2, <1>4, <2>1 DEF DropOthers
<1> QED BY <1>2, <1>3, <1>4 DEF EnsureIdentity

LEMMA LoopWaits ==
    ASSUME Inv, Inv', WaitInv, NEW c \in Calls, Drained(c) \/ Finished(c)
    PROVE  WaitInv'
<1>1. gen' \in [Calls -> Generation]
  BY DEF Inv, Typing, OwnTypes
<1>2. CASE Drained(c)
  BY <1>1, <1>2, DrainWaits DEF Drained, Draining
<1>3. CASE Finished(c)
  BY <1>3, ReturnWaits DEF Finished
<1> QED BY <1>2, <1>3

LEMMA TimeoutWaits ==
    ASSUME Inv, Inv', WaitInv, NEW c \in Calls, LockRefused(c) \/ StepTimeout(c) \/ StartTimeout(c)
    PROVE  WaitInv'
<1>1. gen[c].alive /\ Finish(c, c, Failed(c))
  BY DEF LockRefused, StepTimeout, StartTimeout, Running, Alive
<1>2. gen' \in [Calls -> Generation]
  BY DEF Inv, Typing, OwnTypes
<1> QED BY <1>1, <1>2, FinishWaits

LEMMA LeaseWaits ==
    ASSUME Inv, WaitInv, NEW c \in Calls, LockGranted(c) \/ AdoptLease(c) \/ Superseded(c)
    PROVE  WaitInv'
<1>1. CASE LockGranted(c)
  <2>1. GoTo(c, "granted") /\ gen' = gen
    BY <1>1 DEF LockGranted
  <2>2. "granted" \in Places \ (Calm \cup Closing) /\ "granted" \in Past
    BY PlacesApart DEF Setup
  <2> QED BY <2>1, <2>2, NothingOpens, WaitGoes
<1>2. CASE AdoptLease(c)
  <2>1. gen[c].alive /\ GoTo(c, "afterLock") /\ \A x \in Calls \ {c} : gen'[x] = gen[x]
    BY <1>2, Typed DEF AdoptLease, Alive, OwnTypes
  <2> QED BY <2>1, SetupGoes DEF Setup
<1>3. CASE Superseded(c)
  BY <1>3, ReturnWaits DEF Superseded
<1> QED BY <1>1, <1>2, <1>3

LEMMA BeginWaits ==
    ASSUME Inv, WaitInv, NEW c \in Calls, gen[c].alive, NEW s \in SetupSteps, NEW r, Begin(c, r, s)
    PROVE  WaitInv'
<1>1. GoTo(c, s) /\ \A x \in Calls \ {c} : gen'[x] = gen[x]
  BY Typed DEF Begin, OwnTypes
<1> QED BY <1>1, SetupPlaces, SetupGoes

LEMMA StartWaits ==
    ASSUME Inv, WaitInv, NEW c \in Calls, gen[c].alive, NEW r, Start(c, r)
    PROVE  WaitInv'
<1>1. GoTo(c, "start") /\ \A x \in Calls \ {c} : gen'[x] = gen[x]
  BY Typed DEF Start, OwnTypes
<1> QED BY <1>1, SetupGoes DEF Setup

LEMMA ConfirmIdentityWaits ==
    ASSUME Inv, Inv', WaitInv, NEW c \in Calls, NEW i \in Identities, ConfirmIdentity(c, i)
    PROVE  WaitInv'
<1>1. gen[c].alive /\ gen' \in [Calls -> Generation]
  BY DEF ConfirmIdentity, Alive, Inv, Typing, OwnTypes
<1>2. CASE Begin(c, gen[c], "creds")
  BY <1>1, <1>2, BeginWaits DEF SetupSteps
<1>3. CASE Return(c) /\ gen' = gen
  BY <1>3, ReturnWaits
<1>4. ASSUME NEW v, Finish(c, c, v)
      PROVE  WaitInv'
  BY <1>1, <1>4, FinishWaits
<1> QED BY <1>2, <1>3, <1>4 DEF ConfirmIdentity

LEMMA SetupWaits ==
    ASSUME Inv, Inv', WaitInv, NEW c \in Calls,
           \/ CredentialsResolved(c) \/ CredentialsRefused(c) \/ StoreOpened(c)
           \/ EngineOpened(c) \/ IdentityChecked(c) \/ MarkerPut(c) \/ StepThrows(c) \/ Started(c)
    PROVE  WaitInv'
<1>1. gen[c].alive /\ gen' \in [Calls -> Generation]
  <2>1. gen[c].alive
    BY DEF CredentialsResolved, CredentialsRefused, StoreOpened, EngineOpened, IdentityChecked,
           MarkerPut, StepThrows, Started, Running, Alive
  <2> QED BY <2>1 DEF Inv, Typing, OwnTypes
<1>2. ASSUME NEW s \in SetupSteps, NEW r, Begin(c, r, s)
      PROVE  WaitInv'
  BY <1>1, <1>2, BeginWaits
<1>3. ASSUME NEW v, FinishStep(c, v)
      PROVE  WaitInv'
  BY <1>1, <1>3, FinishStepWaits
<1>4. ASSUME NEW r, Start(c, r)
      PROVE  WaitInv'
  BY <1>1, <1>4, StartWaits
<1>5. CASE CredentialsResolved(c) \/ StoreOpened(c) \/ EngineOpened(c)
  BY <1>2, <1>5 DEF CredentialsResolved, StoreOpened, EngineOpened, SetupSteps
<1>6. CASE CredentialsRefused(c) \/ StepThrows(c)
  BY <1>3, <1>6 DEF CredentialsRefused, StepThrows
<1>7. CASE IdentityChecked(c) \/ MarkerPut(c)
  BY <1>2, <1>3, <1>4, <1>7 DEF IdentityChecked, MarkerPut, SetupSteps
<1>8. CASE Started(c)
  <2>1. GoTo(c, "beforeReady") /\ gen' = gen
    BY <1>8 DEF Started
  <2> QED BY <1>1, <2>1, SetupGoes DEF Setup
<1> QED BY <1>5, <1>6, <1>7, <1>8

LEMMA CloseWaits ==
    ASSUME Inv, WaitInv, NEW g \in Calls, Close(g)
    PROVE  WaitInv'
<1>1. UNCHANGED <<pc, target, inflight>>
  BY DEF Close, EngineCloses, EngineCloseTimeout, StragglerSettles, StoreCloses, tabVars, callVars
<1>2. ASSUME NEW x \in Calls, gen'[x].alive
      PROVE  gen[x].alive
  <2>1. x # g => gen'[x] = gen[x]
    BY Typed DEF Close, EngineCloses, EngineCloseTimeout, StragglerSettles, StoreCloses, OwnTypes
  <2>2. gen[g] \in Generation
    BY Typed DEF OwnTypes
  <2>3. CASE EngineCloses(g) \/ EngineCloseTimeout(g) \/ StragglerSettles(g)
    <3>1. gen'[g].alive = gen[g].alive
      BY <2>2, <2>3, Typed DEF EngineCloses, EngineCloseTimeout, StragglerSettles, OwnTypes, Generation
    <3> QED BY <1>2, <2>1, <3>1
  <2>4. CASE StoreCloses(g)
    <3>1. gen'[g] = NoGeneration \/ gen'[g].alive = gen[g].alive
      BY <2>2, <2>4, Typed DEF StoreCloses, OwnTypes, Generation
    <3> QED BY <1>2, <2>1, <3>1, NoGenerationFacts
  <2> QED BY <2>3, <2>4 DEF Close
<1> QED BY <1>1, <1>2, WaitQuiet

LEMMA SignalWaits ==
    ASSUME Inv, WaitInv, NEW g \in Calls, EngineSignal(g)
    PROVE  WaitInv'
<1>1. UNCHANGED <<pc, target, inflight>> /\ (gen' = gen \/ EndGeneration(g))
  BY DEF EngineSignal, SignalEnds, callVars
<1>2. \A x \in Calls : gen'[x].alive => gen[x].alive
  BY <1>1, EndsDead, Typed DEF EndGeneration, OwnTypes
<1> QED BY <1>1, <1>2, WaitQuiet

LEMMA StopWaits ==
    ASSUME Inv, WaitInv, NEW t \in Tabs, Stop(t)
    PROVE  WaitInv'
<1>1. UNCHANGED <<pc, target>> /\ \A u \in Tabs : inflight'[u] \in {None, inflight[u]}
  BY Typed DEF Stop, callVars, CallTypes
<1>2. \A x \in Calls : gen'[x].alive => gen[x].alive
  <2>1. CASE gen' = gen
    BY <2>1
  <2>2. CASE live[t] # None /\ EndGeneration(live[t])
    BY <2>2, LiveFacts, EndsDead, Typed DEF EndGeneration, OwnTypes
  <2> QED BY <2>1, <2>2 DEF Stop
<1> QED BY <1>1, <1>2, WaitQuiet

LEMMA UseWaits ==
    ASSUME Inv, Inv', WaitInv, NEW c \in Calls, UseCheck(c) \/ UseRuns(c) \/ LossAccepted(c)
    PROVE  WaitInv'
<1>1. CASE Return(c) /\ gen' = gen
  BY <1>1, ReturnWaits
<1>2. CASE UseRuns(c) /\ GoTo(c, "useAfter")
  <2>1. gen' = gen /\ pc[c] \notin Past
    BY <1>2 DEF UseRuns, Past, Setup, SetupSteps, Ended
  <2>2. "useAfter" \in Places \ (Calm \cup Closing)
    BY PlacesApart DEF UsePlaces
  <2> QED BY <1>2, <2>1, <2>2, NothingOpens, WaitGoes
<1>3. CASE UseCheck(c) /\ WaitFor(c, "useBefore", live[tab[c]])
  <2>1. gen' = gen /\ pc[c] \notin Past
    BY <1>3 DEF UseCheck, Past, Setup, SetupSteps, Ended
  <2>2. /\ pc' = [pc EXCEPT ![c] = "useBefore"] /\ inflight' = inflight
        /\ \A x \in Calls \ {c} : target'[x] = target[x]
    BY <1>3, Typed DEF WaitFor, CallTypes
  <2>3. "useBefore" \in Places \ Calm /\ "useBefore" \notin Closing
    BY PlacesApart DEF UsePlaces
  <2> QED BY <2>1, <2>2, <2>3, NothingOpens, WaitMoves
<1> QED BY <1>1, <1>2, <1>3 DEF UseCheck, UseRuns, LossAccepted

LEMMA ConfirmHolderWaits ==
    ASSUME Inv, Inv', WaitInv, NEW c \in Calls, NEW i \in Identities, ConfirmHolder(c, i)
    PROVE  WaitInv'
<1> DEFINE g == target[c]
<1>1. g \in Calls /\ pc[c] \in UsePlaces /\ gen' \in [Calls -> Generation]
  BY Typed DEF ConfirmHolder, UsePlaces, CallTypes, Inv, Typing, OwnTypes
<1>2. CASE ReturnAs(c, "ok") /\ gen' = gen
  BY <1>2, NothingOpens, WaitReturns DEF Ended
<1>3. CASE Return(c) /\ gen' = gen
  BY <1>3, ReturnWaits
<1>4. CASE GoTo(c, "useRuns") /\ gen' = gen
  <2>1. "useRuns" \in Places \ (Calm \cup Closing) /\ pc[c] \notin Past
    BY <1>1, PlacesApart DEF UsePlaces
  <2> QED BY <1>4, <2>1, NothingOpens, WaitGoes
<1>5. ASSUME NEW v, Alive(g), Finish(c, g, v)
      PROVE  WaitInv'
  BY <1>1, <1>5, FinishWaits DEF Alive
<1> QED BY <1>2, <1>3, <1>4, <1>5 DEF ConfirmHolder

LEMMA TabClosesWaits ==
    ASSUME Inv, WaitInv, NEW t \in Tabs, TabCloses(t)
    PROVE  WaitInv'
<1>1. /\ \A x \in Calls : tab[x] = t => pc'[x] \in Ended /\ gen'[x] = NoGeneration
      /\ \A x \in Calls : tab[x] # t => pc'[x] = pc[x] /\ gen'[x] = gen[x] /\ target'[x] = target[x]
      /\ \A u \in Tabs : inflight'[u] \in {None, inflight[u]}
  BY Typed DEF TabCloses, Ended, CallTypes
<1>2. /\ Ended \subseteq Past /\ Ended \cap Closing = {} /\ Ended \cap Calm = {}
      /\ ~NoGeneration.alive
  BY NoGenerationFacts, PlacesApart
<1>3. \A x \in Calls : pc[x] \in Past => pc'[x] \in Past
  BY <1>1, <1>2
<1>4. \A x \in Calls : pc[x] \notin Calm => pc'[x] \notin Calm
  BY <1>1, <1>2
<1>5. \A x \in Calls : gen'[x].alive => (gen[x].alive \/ pc[x] \notin Past) /\ pc'[x] \in Past
  BY <1>1, <1>2 DEF WaitInv
<1>6. \A x \in Calls :
         \/ pc'[x] = pc[x] /\ target'[x] = target[x]
         \/ pc'[x] \notin Closing /\ pc'[x] # "useWait"
  BY <1>1, <1>2 DEF Calm
<1> QED BY <1>1, <1>3, <1>4, <1>5, <1>6, WaitKept

LEMMA WaitStep == Inv /\ Inv' /\ WaitInv /\ [Next]_vars => WaitInv'
<1> SUFFICES ASSUME Inv, Inv', WaitInv, [Next]_vars
             PROVE  WaitInv'
  OBVIOUS
<1>1. ASSUME NEW c \in Calls, Answered(c)
      PROVE  WaitInv'
  BY <1>1, EnsureIdentityWaits, ConfirmIdentityWaits, ConfirmHolderWaits, TimeoutWaits, LeaseWaits,
     LoopWaits, UseWaits DEF Answered
<1>2. ASSUME NEW c \in Calls, Progress(c)
      PROVE  WaitInv'
  <2>1. CASE KeysUploaded(c)
    BY <2>1, NothingOpens, WaitQuiet DEF KeysUploaded, tabVars, callVars
  <2> QED BY <1>2, <2>1, LeaseWaits, SetupWaits DEF Progress
<1>3. ASSUME NEW c \in Calls, Begins(c) \/ Close(c) \/ EngineSignal(c)
      PROVE  WaitInv'
  BY <1>3, BeginsWaits, CloseWaits, SignalWaits
<1>4. ASSUME NEW t \in Tabs, Stop(t) \/ TabCloses(t)
      PROVE  WaitInv'
  BY <1>4, StopWaits, TabClosesWaits
<1>5. CASE \E o \in Owners : StorageCleared(o) \/ Reenrolled(o)
  BY <1>5, NothingOpens, WaitQuiet DEF StorageCleared, Reenrolled, tabVars, callVars
<1>6. CASE UNCHANGED vars
  BY <1>6, NothingOpens, WaitQuiet DEF vars, tabVars, callVars
<1> QED BY <1>1, <1>2, <1>3, <1>4, <1>5, <1>6 DEF Next

LEMMA WaitInit == Init => WaitInv
  BY NoGenerationFacts DEF Init, WaitInv, Closing, Draining

\* Whoever waits, waits for something that ends: the drain loops of signedOut and
\* initialise and a call that finished a generation wait for one that was ended and
\* is never opened again (transitions.ts), a use waits for an ensureReady and not for
\* another use, and what it then holds is a generation.  It is what NothingHangs says
\* of those calls that no timer and no identity carries on.
WaitsEnd ==
    \A c \in Calls :
        /\ pc[c] \in {"draining", "signingOut", "finishing"} =>
              target[c] \in Calls /\ gen[target[c]].end # "open"
        /\ pc[c] = "useWait" /\ target[c] # None =>
              target[c] \in Calls /\ pc[target[c]] \notin {"idle", "useWait"}
        /\ pc[c] \in {"useBefore", "useRuns", "useAfter"} => target[c] \in Calls

THEOREM WaitsEndAlways == Spec => []WaitsEnd
<1>1. Inv /\ WaitInv => WaitsEnd
  <2> SUFFICES ASSUME Inv, WaitInv, NEW c \in Calls
               PROVE  /\ pc[c] \in {"draining", "signingOut", "finishing"} =>
                            target[c] \in Calls /\ gen[target[c]].end # "open"
                      /\ pc[c] = "useWait" /\ target[c] # None =>
                            target[c] \in Calls /\ pc[target[c]] \notin {"idle", "useWait"}
                      /\ pc[c] \in {"useBefore", "useRuns", "useAfter"} => target[c] \in Calls
    BY DEF WaitsEnd
  <2>1. target[c] \in Calls \cup {None} /\ (pc[c] \in UsePlaces => target[c] \in Calls)
    BY Typed DEF CallTypes
  <2>2. ASSUME pc[c] \in Closing
        PROVE  target[c] \in Calls /\ gen[target[c]].end # "open"
    <3>1. target[c] \in Calls /\ ~gen[target[c]].alive
      BY <2>2 DEF WaitInv, WaitsForClosed
    <3> QED BY <3>1 DEF Inv, GenerationOK, Sound
  <2>3. pc[c] = "useWait" /\ target[c] # None => pc[target[c]] \notin Calm
    BY DEF WaitInv
  <2> QED BY <2>1, <2>2, <2>3 DEF Closing, Draining, UsePlaces, Calm
<1>2. Spec => []WaitInv
  BY InvAlways, WaitInit, WaitStep, PTL DEF Spec
<1> QED BY <1>1, <1>2, InvAlways, PTL

-----------------------------------------------------------------------------
(* The web application in every tab, HumanApplication, for any number of tabs, *)
(* events and faults.  Its route follows its phase, and the phase `ready` is    *)
(* shown only over a ready device; what a synchronize may rely on when it comes *)
(* back from an await is `Follows`, what the session knows of its device `Fits`. *)

\* States of a tab's device.
TabDevices == {"off", "asked", "waiting", "opening", "ready", "failing", "stopping"}

\* What a device session s knows of its device d, which may have the lock.
Fits(s, d, locked) ==
    /\ d \in {"opening", "ready", "failing"} => locked
    /\ s.act = "ensuring" <=> d \in {"asked", "waiting", "opening", "failing"}
    /\ s.act = "stopping" => d \in {"stopping", "off"}
    /\ s.view = "ready" <=> d = "ready"
    /\ d = "ready" => s.cached /\ s.act = "none" /\ s.result = "ready"
    /\ s.cached => s.view \in {"ready", "other"}
    /\ s.cached \/ s.act = "ensuring" => s.owned

\* What the tab's snapshot and synchronize a may rely on.
Follows(a, s, d) ==
    /\ a.route <=> a.phase = "ready"
    /\ a.phase = "ready" => d = "ready" /\ a.sync = "none" /\ a.out # "releasing"
    /\ a.sync = "releasing" => a.next \in {"signedOut", "noIdentity"}
    /\ a.sync \in {"ensuring", "yield"} =>
          s.act # "none" \/ s.result \in {"lease", "failed"} \/ s.view \in {"ready", "other"}
    /\ a.sync = "yield" => s.act = "none"
    /\ a.out = "releasing" => d \notin {"opening", "ready", "failing"}

TabsInv ==
    \A t \in AppTabs :
        /\ Fits(session[t], tabDevice[t], lockHolder = t)
        /\ Follows(app[t], session[t], tabDevice[t])

AppInv == AppTypeOK /\ TabsInv

LEMMA OneTab ==
    ASSUME AppInv, NEW t \in AppTabs, AppTypeOK',
           \A u \in AppTabs \ {t} : /\ app'[u] = app[u]
                                    /\ session'[u] = session[u]
                                    /\ tabDevice'[u] = tabDevice[u]
                                    /\ lockHolder = u => lockHolder' = u,
           Fits(session'[t], tabDevice'[t], lockHolder' = t),
           Follows(app'[t], session'[t], tabDevice'[t])
    PROVE  AppInv'
<1>1. ASSUME NEW u \in AppTabs
      PROVE  /\ Fits(session'[u], tabDevice'[u], lockHolder' = u)
             /\ Follows(app'[u], session'[u], tabDevice'[u])
  <2>1. CASE u = t
    BY <2>1
  <2>2. CASE u # t
    <3>1. /\ app'[u] = app[u] /\ session'[u] = session[u] /\ tabDevice'[u] = tabDevice[u]
          /\ lockHolder = u => lockHolder' = u
      BY <2>2
    <3>2. /\ Fits(session[u], tabDevice[u], lockHolder = u)
          /\ Follows(app[u], session[u], tabDevice[u])
      BY DEF AppInv, TabsInv
    <3>3. Fits(session'[u], tabDevice'[u], lockHolder' = u)
      BY <3>1, <3>2 DEF Fits
    <3> QED BY <3>1, <3>2, <3>3
  <2> QED BY <2>1, <2>2
<1> QED BY <1>1 DEF AppInv, TabsInv

LEMMA ReleaseEnds ==
    ASSUME AppInv, NEW t \in AppTabs, Release(t)
    PROVE  /\ session' \in [AppTabs -> Session]
           /\ tabDevice' \in [AppTabs -> TabDevices]
           /\ \A u \in AppTabs \ {t} : session'[u] = session[u] /\ tabDevice'[u] = tabDevice[u]
           /\ session'[t] = Released
           /\ tabDevice'[t] \in {"off", "stopping"}
<1>1. session \in [AppTabs -> Session] /\ tabDevice \in [AppTabs -> TabDevices]
  BY DEF AppInv, AppTypeOK, TabDevices
<1>2. Released \in Session
  BY DEF Released, Session
<1>3. session' = [session EXCEPT ![t] = Released]
  BY DEF Release
<1>4. Fits(session[t], tabDevice[t], lockHolder = t)
  BY DEF AppInv, TabsInv
<1>5. CASE Held(t)
  BY <1>1, <1>2, <1>3, <1>5 DEF Release, Stopped, TabDevices
<1>6. CASE ~Held(t)
  BY <1>1, <1>2, <1>3, <1>4, <1>6 DEF Release, Held, Fits, TabDevices, Session
<1> QED BY <1>5, <1>6

Ensuring(t) ==
    /\ session' \in [AppTabs -> Session]
    /\ tabDevice' \in [AppTabs -> TabDevices]
    /\ \A u \in AppTabs \ {t} : session'[u] = session[u] /\ tabDevice'[u] = tabDevice[u]
    /\ Fits(session'[t], tabDevice'[t], lockHolder = t)
    /\ session'[t].act # "none" \/ session'[t].view \in {"ready", "other"}
    /\ tabDevice'[t] \in {"opening", "ready", "failing"} => tabDevice'[t] = tabDevice[t]

LEMMA EnsureBegins ==
    ASSUME AppInv, NEW t \in AppTabs, EnsureDevice(t)
    PROVE  Ensuring(t)
<1>1. session \in [AppTabs -> Session] /\ tabDevice \in [AppTabs -> TabDevices]
  BY DEF AppInv, AppTypeOK, TabDevices
<1>2. Fits(session[t], tabDevice[t], lockHolder = t)
  BY DEF AppInv, TabsInv
<1>3. CASE /\ session[t].cached
           /\ session' = [session EXCEPT ![t].result = "ready"]
           /\ UNCHANGED tabDevice
  BY <1>1, <1>2, <1>3 DEF Session, Fits, Ensuring
<1>4. CASE /\ ~session[t].cached /\ session[t].act # "none"
           /\ UNCHANGED <<session, tabDevice>>
  BY <1>1, <1>2, <1>4 DEF Ensuring
<1>5. CASE /\ ~session[t].cached /\ session[t].act = "none"
           /\ session[t].owned \/ tabDevice[t] = "stopping"
           /\ session' = [session EXCEPT ![t] =
                  [[Released EXCEPT !.owned = session[t].owned] EXCEPT !.act = "stopping"]]
           /\ IF session[t].owned THEN Stopped(t) ELSE UNCHANGED tabDevice
  <2>1. /\ tabDevice' \in [AppTabs -> TabDevices] /\ tabDevice'[t] \in {"off", "stopping"}
        /\ \A u \in AppTabs \ {t} : tabDevice'[u] = tabDevice[u]
    BY <1>1, <1>2, <1>5 DEF Stopped, TabDevices, Fits
  <2>2. [[Released EXCEPT !.owned = session[t].owned] EXCEPT !.act = "stopping"] \in Session
    BY <1>1 DEF Session, Released
  <2>3. /\ session'[t].act = "stopping" /\ session'[t].view = "none" /\ ~session'[t].cached
        /\ session' \in [AppTabs -> Session] /\ \A u \in AppTabs \ {t} : session'[u] = session[u]
    BY <1>1, <1>5, <2>2 DEF Released
  <2> QED BY <2>1, <2>3 DEF Fits, Ensuring
<1>6. CASE /\ ~session[t].cached /\ session[t].act = "none"
           /\ ~session[t].owned /\ tabDevice[t] # "stopping"
           /\ session' = [session EXCEPT ![t] =
                  [[Released EXCEPT !.owned = session[t].owned]
                      EXCEPT !.owned = TRUE, !.act = "ensuring"]]
           /\ tabDevice' = [tabDevice EXCEPT ![t] = "asked"]
  <2>1. /\ tabDevice' \in [AppTabs -> TabDevices] /\ tabDevice'[t] = "asked"
        /\ \A u \in AppTabs \ {t} : tabDevice'[u] = tabDevice[u]
    BY <1>1, <1>6 DEF TabDevices
  <2>2. [[Released EXCEPT !.owned = session[t].owned] EXCEPT !.owned = TRUE, !.act = "ensuring"]
            \in Session
    BY <1>1 DEF Session, Released
  <2>3. /\ session'[t].act = "ensuring" /\ session'[t].view = "none" /\ ~session'[t].cached
        /\ session'[t].owned
        /\ session' \in [AppTabs -> Session] /\ \A u \in AppTabs \ {t} : session'[u] = session[u]
    BY <1>1, <1>6, <2>2 DEF Released
  <2> QED BY <2>1, <2>3 DEF Fits, Ensuring
<1> QED BY <1>3, <1>4, <1>5, <1>6 DEF EnsureDevice

LEMMA ProceedSafe ==
    ASSUME AppInv, NEW t \in AppTabs, Proceed(t), app[t].phase # "ready", UNCHANGED lockHolder,
           UNCHANGED <<focused, authenticated, appEvents>>, faults' \in Nat
    PROVE  AppInv'
<1>1. Ensuring(t)
  BY EnsureBegins DEF Proceed
<1>2. app \in [AppTabs -> App] /\ Follows(app[t], session[t], tabDevice[t])
  BY DEF AppInv, AppTypeOK, TabsInv
<1>3. /\ app' \in [AppTabs -> App] /\ \A u \in AppTabs \ {t} : app'[u] = app[u]
      /\ app'[t].sync = "ensuring" /\ app'[t].phase \in {"navigating", "initializing"}
      /\ app'[t].route = app[t].route /\ app'[t].out = app[t].out
  <2> DEFINE phase == IF app[t].phase = "navigating" THEN app[t].phase ELSE "initializing"
  <2>1. app' = [app EXCEPT ![t].sync = "ensuring", ![t].own = TRUE, ![t].phase = phase]
    BY DEF Proceed
  <2>2. phase \in {"navigating", "initializing"} /\ phase \in Phases
    BY DEF Phases
  <2> HIDE DEF phase
  <2> DEFINE next == [app[t] EXCEPT !.sync = "ensuring", !.own = TRUE, !.phase = phase]
  <2>3. next \in App
    BY <1>2, <2>2 DEF App, Syncs
  <2>4. app' = [app EXCEPT ![t] = next]
    BY <1>2, <2>1
  <2>5. app' \in [AppTabs -> App]
    BY <1>2, <2>3, <2>4
  <2> QED BY <1>2, <2>1, <2>2, <2>5
<1>4. requested' \subseteq AppTabs
  BY DEF Proceed, Request, AppInv, AppTypeOK
<1>5. AppTypeOK'
  BY <1>1, <1>3, <1>4 DEF AppInv, AppTypeOK, Ensuring, TabDevices
<1>6. Follows(app'[t], session'[t], tabDevice'[t])
  BY <1>1, <1>2, <1>3 DEF Follows, Ensuring
<1>7. Fits(session'[t], tabDevice'[t], lockHolder' = t)
  BY <1>1 DEF Ensuring
<1> QED BY <1>1, <1>3, <1>5, <1>6, <1>7, OneTab DEF Ensuring

\* A tab that releases its device shows no route, whatever it goes on to do.
LEMMA ReleaseSafe ==
    ASSUME AppInv, NEW t \in AppTabs, Release(t), UNCHANGED lockHolder,
           app' \in [AppTabs -> App], \A u \in AppTabs \ {t} : app'[u] = app[u],
           app'[t].phase # "ready", ~app'[t].route, app'[t].sync \in {"none", "releasing"},
           app'[t].sync = "releasing" => app'[t].next \in {"signedOut", "noIdentity"},
           requested' \subseteq AppTabs, focused' \in AppTabs \cup {Nobody},
           authenticated' \in BOOLEAN, appEvents' \in Nat, faults' \in Nat
    PROVE  AppInv'
<1>1. /\ session' \in [AppTabs -> Session]
      /\ tabDevice' \in [AppTabs -> TabDevices]
      /\ \A u \in AppTabs \ {t} : session'[u] = session[u] /\ tabDevice'[u] = tabDevice[u]
      /\ session'[t] = Released
      /\ tabDevice'[t] \in {"off", "stopping"}
  BY ReleaseEnds
<1>2. AppTypeOK'
  BY <1>1 DEF AppInv, AppTypeOK, TabDevices
<1>3. Follows(app'[t], session'[t], tabDevice'[t])
  BY <1>1 DEF Follows
<1>4. Fits(session'[t], tabDevice'[t], lockHolder' = t)
  BY <1>1 DEF Fits, Released
<1> QED BY <1>1, <1>2, <1>3, <1>4, OneTab

\* What only the snapshot and the synchronize of a tab change.
LEMMA AppSafe ==
    ASSUME AppInv, NEW t \in AppTabs, UNCHANGED <<session, tabDevice, lockHolder>>,
           app' \in [AppTabs -> App], \A u \in AppTabs \ {t} : app'[u] = app[u],
           Follows(app'[t], session[t], tabDevice[t]),
           requested' \subseteq AppTabs, focused' \in AppTabs \cup {Nobody},
           authenticated' \in BOOLEAN, appEvents' \in Nat, faults' \in Nat
    PROVE  AppInv'
<1>1. AppTypeOK'
  BY DEF AppInv, AppTypeOK
<1>2. Fits(session'[t], tabDevice'[t], lockHolder' = t)
  BY DEF AppInv, TabsInv
<1> QED BY <1>1, <1>2, OneTab

\* What only the device, its session and the lock change.
LEMMA DeviceSafe ==
    ASSUME AppInv, NEW t \in AppTabs, UNCHANGED <<app, requested, focused, authenticated, appEvents>>,
           session' \in [AppTabs -> Session], tabDevice' \in [AppTabs -> TabDevices],
           \A u \in AppTabs \ {t} : /\ session'[u] = session[u] /\ tabDevice'[u] = tabDevice[u]
                                    /\ lockHolder = u => lockHolder' = u,
           lockHolder' \in AppTabs \cup {Nobody}, faults' \in Nat,
           Fits(session'[t], tabDevice'[t], lockHolder' = t),
           Follows(app[t], session'[t], tabDevice'[t])
    PROVE  AppInv'
<1>1. AppTypeOK'
  BY DEF AppInv, AppTypeOK, TabDevices
<1> QED BY <1>1, OneTab

\* What every action but a release, an activation or the device's own step leaves.
LEMMA Parts ==
    ASSUME AppInv, NEW t \in AppTabs
    PROVE  /\ app \in [AppTabs -> App] /\ session \in [AppTabs -> Session]
           /\ tabDevice \in [AppTabs -> TabDevices]
           /\ app[t] \in App /\ session[t] \in Session
           /\ requested \subseteq AppTabs /\ focused \in AppTabs \cup {Nobody}
           /\ lockHolder \in AppTabs \cup {Nobody} /\ authenticated \in BOOLEAN
           /\ appEvents \in Nat /\ faults \in Nat
           /\ Fits(session[t], tabDevice[t], lockHolder = t)
           /\ Follows(app[t], session[t], tabDevice[t])
BY DEF AppInv, AppTypeOK, TabsInv, TabDevices

LEMMA LeaveSets ==
    ASSUME AppInv, NEW t \in AppTabs, NEW phase \in {"signedOut", "noIdentity"},
           Leave(t, phase), app[t].sync = "identity"
    PROVE  /\ app' \in [AppTabs -> App] /\ \A u \in AppTabs \ {t} : app'[u] = app[u]
           /\ app'[t].phase # "ready" /\ ~app'[t].route
           /\ app'[t].sync \in {"none", "releasing"} /\ app'[t].next = phase
<1>1. app \in [AppTabs -> App] /\ app[t] \in App /\ Follows(app[t], session[t], tabDevice[t])
  BY Parts
<1>2. app[t].phase # "ready" /\ ~app[t].route
  BY <1>1 DEF Follows, App
<1> DEFINE s == IF Held(t) THEN "releasing" ELSE "none"
<1> DEFINE p == IF Held(t) THEN app[t].phase ELSE phase
<1>3. app' = [app EXCEPT ![t].own = FALSE, ![t].next = phase, ![t].sync = s, ![t].phase = p]
  BY DEF Leave
<1>4. s \in {"none", "releasing"} /\ p \in Phases /\ p # "ready"
  BY <1>1, <1>2 DEF App, Phases
<1> HIDE DEF s, p
<1> DEFINE next == [app[t] EXCEPT !.own = FALSE, !.next = phase, !.sync = s, !.phase = p]
<1>5. next \in App
  <2>1. phase \in Phases /\ s \in Syncs
    BY <1>4 DEF Phases, Syncs
  <2> QED BY <1>1, <1>4, <2>1 DEF App
<1>6. app' = [app EXCEPT ![t] = next]
  BY <1>1, <1>3
<1>7. next.phase = p /\ next.route = app[t].route /\ next.sync = s /\ next.next = phase
  BY <1>1 DEF App
<1> HIDE DEF next
<1> QED BY <1>1, <1>2, <1>4, <1>5, <1>6, <1>7

LEMMA ReadIdentitySafe == ASSUME AppInv, NEW t \in AppTabs, ReadIdentity(t) PROVE AppInv'
<1>1. /\ app \in [AppTabs -> App] /\ app[t] \in App
      /\ Fits(session[t], tabDevice[t], lockHolder = t)
      /\ Follows(app[t], session[t], tabDevice[t])
      /\ requested \subseteq AppTabs /\ focused \in AppTabs \cup {Nobody}
      /\ authenticated \in BOOLEAN /\ appEvents \in Nat /\ faults \in Nat
  BY Parts
<1>2. app[t].sync = "identity" /\ app[t].phase # "ready"
  BY <1>1 DEF ReadIdentity, Follows
<1>3. /\ UNCHANGED <<lockHolder, focused, authenticated, appEvents>>
      /\ faults' \in Nat
  BY <1>1 DEF ReadIdentity, Fault
<1>4. CASE /\ app' = [app EXCEPT ![t].sync = "held", ![t].own = TRUE]
           /\ UNCHANGED <<requested, session, tabDevice>>
  <2> DEFINE next == [app[t] EXCEPT !.sync = "held", !.own = TRUE]
  <2>1. next \in App
    BY <1>1 DEF App, Syncs
  <2>2. app' = [app EXCEPT ![t] = next]
    BY <1>1, <1>4
  <2>3. Follows(next, session[t], tabDevice[t])
    BY <1>1, <1>2 DEF Follows, App
  <2> HIDE DEF next
  <2>4. /\ app' \in [AppTabs -> App] /\ \A u \in AppTabs \ {t} : app'[u] = app[u]
        /\ Follows(app'[t], session[t], tabDevice[t])
    BY <1>1, <2>1, <2>2, <2>3
  <2> QED BY <1>1, <1>3, <1>4, <2>4, AppSafe
<1>5. CASE Proceed(t)
  BY <1>2, <1>3, <1>5, ProceedSafe
<1>6. CASE Release(t) /\ UNCHANGED requested /\ \E p \in {"signedOut", "noIdentity"} : Leave(t, p)
  <2>1. PICK p \in {"signedOut", "noIdentity"} : Leave(t, p)
    BY <1>6
  <2> QED BY <1>1, <1>2, <1>3, <1>6, <2>1, LeaveSets, ReleaseSafe
<1> QED BY <1>4, <1>5, <1>6 DEF ReadIdentity

\* A tab that settles on a phase other than ready, its route being closed.
LEMMA ShowSafe ==
    ASSUME AppInv, NEW t \in AppTabs, NEW p \in Phases \ {"ready"}, Show(t, p),
           app[t].sync # "none"
    PROVE  /\ app' \in [AppTabs -> App] /\ \A u \in AppTabs \ {t} : app'[u] = app[u]
           /\ app'[t].phase = p /\ ~app'[t].route /\ app'[t].sync = "none"
           /\ app'[t].out = app[t].out
           /\ Follows(app'[t], session[t], tabDevice[t])
<1>1. app \in [AppTabs -> App] /\ app[t] \in App /\ Follows(app[t], session[t], tabDevice[t])
  BY Parts
<1> DEFINE next == [app[t] EXCEPT !.phase = p, !.sync = "none"]
<1>2. next \in App
  BY <1>1 DEF App, Syncs
<1>3. app' = [app EXCEPT ![t] = next]
  BY <1>1 DEF Show
<1>4. ~app[t].route
  BY <1>1 DEF Follows, App
<1>5. next.phase = p /\ ~next.route /\ next.sync = "none" /\ next.out = app[t].out
  BY <1>1, <1>4 DEF App
<1>6. Follows(next, session[t], tabDevice[t])
  BY <1>1, <1>5 DEF Follows
<1> HIDE DEF next
<1> QED BY <1>1, <1>2, <1>3, <1>5, <1>6

LEMMA SyncReleasedSafe == ASSUME AppInv, NEW t \in AppTabs, SyncReleased(t) PROVE AppInv'
<1>1. app[t].next \in Phases \ {"ready"} /\ app[t].sync # "none"
  BY Parts DEF SyncReleased, Follows, Phases
<1> QED BY <1>1, Parts, ShowSafe, AppSafe DEF SyncReleased, env

LEMMA QueryHeldSafe == ASSUME AppInv, NEW t \in AppTabs, QueryHeld(t) PROVE AppInv'
<1>1. app[t].sync # "none" /\ app[t].phase # "ready"
  BY Parts DEF QueryHeld, Follows
<1>2. faults' \in Nat
  BY Parts DEF QueryHeld, OtherTab, Fault
<1>3. "inactive" \in Phases \ {"ready"}
  BY DEF Phases
<1>4. CASE Show(t, "inactive") /\ UNCHANGED <<session, tabDevice, requested>>
  BY <1>1, <1>2, <1>3, <1>4, Parts, ShowSafe, AppSafe DEF QueryHeld
<1>5. CASE Proceed(t)
  BY <1>1, <1>2, <1>5, ProceedSafe DEF QueryHeld
<1> QED BY <1>4, <1>5 DEF QueryHeld

LEMMA SettledSafe ==
    ASSUME AppInv, NEW t \in AppTabs, Settled(t), app[t].sync \in {"ensuring", "yield"},
           session[t].act = "none",
           UNCHANGED <<session, tabDevice, requested, lockHolder, focused, authenticated,
                       appEvents>>
    PROVE  AppInv'
<1>1. /\ app \in [AppTabs -> App] /\ app[t] \in App
      /\ Fits(session[t], tabDevice[t], lockHolder = t)
      /\ Follows(app[t], session[t], tabDevice[t])
      /\ requested \subseteq AppTabs /\ focused \in AppTabs \cup {Nobody}
      /\ authenticated \in BOOLEAN /\ appEvents \in Nat /\ faults \in Nat
  BY Parts
<1>2. Settle(t) \in {"noLease", "noDevice", "ready"}
  BY DEF Settle
<1>3. Settle(t) = "ready" => tabDevice[t] = "ready" /\ app[t].out # "releasing"
  BY <1>1 DEF Settle, Follows, Fits
<1>4. faults' \in Nat
  BY <1>1 DEF Settled, Fault
<1>5. CASE app' = [app EXCEPT ![t].phase = Settle(t), ![t].sync = "none",
                              ![t].route = Settle(t) = "ready"]
  <2> DEFINE p == Settle(t)
  <2> DEFINE r == p = "ready"
  <2> DEFINE next == [app[t] EXCEPT !.phase = p, !.sync = "none", !.route = r]
  <2>1. /\ p \in Phases /\ r \in BOOLEAN
        /\ p = "ready" => tabDevice[t] = "ready" /\ app[t].out # "releasing"
    BY <1>2, <1>3 DEF Phases
  <2>2. app' = [app EXCEPT ![t] = next]
    BY <1>1, <1>5
  <2>3. r <=> p = "ready"
    OBVIOUS
  <2> HIDE DEF p, r
  <2>4. next \in App
    BY <1>1, <2>1 DEF App, Syncs
  <2>5. next.phase = p /\ next.route = r /\ next.sync = "none" /\ next.out = app[t].out
    BY <1>1 DEF App
  <2>6. Follows(next, session[t], tabDevice[t])
    BY <1>1, <2>1, <2>3, <2>5 DEF Follows
  <2> HIDE DEF next
  <2> QED BY <1>1, <1>4, <2>2, <2>4, <2>6, AppSafe
<1>6. CASE Show(t, "noRoute")
  <2>1. "noRoute" \in Phases \ {"ready"}
    BY DEF Phases
  <2> QED BY <1>1, <1>4, <1>6, <2>1, ShowSafe, AppSafe
<1> QED BY <1>5, <1>6 DEF Settled

LEMMA EnsuredSafe == ASSUME AppInv, NEW t \in AppTabs, Ensured(t) PROVE AppInv'
<1>1. CASE Settled(t)
  BY <1>1, SettledSafe DEF Ensured
<1>2. CASE app' = [app EXCEPT ![t].sync = "yield"] /\ UNCHANGED faults
  <2> DEFINE next == [app[t] EXCEPT !.sync = "yield"]
  <2>1. next \in App
    BY Parts DEF App, Syncs
  <2>2. app' = [app EXCEPT ![t] = next]
    BY <1>2, Parts
  <2>3. Follows(next, session[t], tabDevice[t])
    BY Parts DEF Follows, App, Ensured
  <2> HIDE DEF next
  <2> QED BY <1>2, <2>1, <2>2, <2>3, Parts, AppSafe DEF Ensured
<1> QED BY <1>1, <1>2 DEF Ensured

LEMMA QueryWaitingSafe == ASSUME AppInv, NEW t \in AppTabs, QueryWaiting(t) PROVE AppInv'
<1>1. app[t].sync = "yield" /\ session[t].act = "none"
  BY Parts DEF QueryWaiting, Follows
<1>2. CASE OtherTab(Waiting) /\ Show(t, "inactive") /\ Release(t)
  <2>1. "inactive" \in Phases \ {"ready"}
    BY DEF Phases
  <2>2. faults' \in Nat
    BY <1>2, Parts DEF OtherTab, Fault
  <2>3. /\ app' \in [AppTabs -> App] /\ \A u \in AppTabs \ {t} : app'[u] = app[u]
        /\ app'[t].phase = "inactive" /\ ~app'[t].route /\ app'[t].sync = "none"
    BY <1>1, <1>2, <2>1, ShowSafe
  <2> QED BY <1>2, <2>2, <2>3, Parts, ReleaseSafe DEF QueryWaiting
<1>3. CASE Settled(t) /\ UNCHANGED <<session, tabDevice>>
  BY <1>1, <1>3, SettledSafe DEF QueryWaiting
<1> QED BY <1>2, <1>3 DEF QueryWaiting

LEMMA ActivateSafe == ASSUME AppInv, NEW t \in AppTabs, Activate(t) PROVE AppInv'
<1> DEFINE s == [session[t] EXCEPT !.owned = TRUE, !.act = "ensuring"]
<1>0. session[t] \in Session
  BY Parts
<1>1. s \in Session
  BY <1>0 DEF Session
<1>2. session' = [session EXCEPT ![t] = s]
  BY Parts DEF Activate
<1>3. /\ s.act = "ensuring" /\ s.owned /\ s.view = session[t].view /\ s.cached = session[t].cached
      /\ s.result = session[t].result
  BY Parts DEF Session
<1> HIDE DEF s
<1>4. /\ tabDevice' \in [AppTabs -> TabDevices] /\ tabDevice'[t] = "asked"
      /\ \A u \in AppTabs \ {t} : tabDevice'[u] = tabDevice[u]
  BY Parts DEF Activate, TabDevices
<1>5. /\ session' \in [AppTabs -> Session] /\ session'[t] = s
      /\ \A u \in AppTabs \ {t} : session'[u] = session[u]
  BY Parts, <1>1, <1>2
<1>6. Fits(s, "asked", lockHolder = t)
  BY Parts, <1>3 DEF Fits, Activate
<1>7. Follows(app[t], s, "asked")
  BY Parts, <1>3 DEF Follows, Activate
<1> QED BY <1>4, <1>5, <1>6, <1>7, Parts, DeviceSafe DEF Activate, env

LEMMA DeviceLocksSafe == ASSUME AppInv, NEW t \in AppTabs, DeviceLocks(t) PROVE AppInv'
<1>1. /\ tabDevice' \in [AppTabs -> TabDevices] /\ tabDevice'[t] = "opening" /\ lockHolder' = t
      /\ \A u \in AppTabs \ {t} : tabDevice'[u] = tabDevice[u] /\ lockHolder # u
  BY Parts, NobodyAssumption DEF DeviceLocks, TabDevices
<1>2. Fits(session[t], "opening", TRUE)
  BY Parts DEF Fits, DeviceLocks
<1>3. Follows(app[t], session[t], "opening")
  BY Parts DEF Follows, DeviceLocks
<1> QED BY <1>1, <1>2, <1>3, Parts, DeviceSafe DEF DeviceLocks, env

LEMMA ActivatedSets ==
    ASSUME AppInv, NEW t \in AppTabs,
           NEW r \in {"ready", "lease", "failed"}, NEW v \in {"ready", "other"},
           Activated(t, r, v)
    PROVE  /\ session' \in [AppTabs -> Session]
           /\ \A u \in AppTabs \ {t} : session'[u] = session[u]
           /\ session'[t].act = "none" /\ session'[t].result = r /\ session'[t].view = v
           /\ session'[t].cached = (r = "ready") /\ session'[t].owned = session[t].owned
<1> DEFINE c == r = "ready"
<1>1. c \in BOOLEAN
  OBVIOUS
<1>2. session' = [session EXCEPT ![t].act = "none", ![t].result = r, ![t].view = v, ![t].cached = c]
  BY DEF Activated
<1> SUFFICES /\ session' \in [AppTabs -> Session]
             /\ \A u \in AppTabs \ {t} : session'[u] = session[u]
             /\ session'[t].act = "none" /\ session'[t].result = r /\ session'[t].view = v
             /\ session'[t].cached = c /\ session'[t].owned = session[t].owned
  OBVIOUS
<1> HIDE DEF c
<1> DEFINE s == [session[t] EXCEPT !.act = "none", !.result = r, !.view = v, !.cached = c]
<1>0. session[t] \in Session
  BY Parts
<1>3. s \in Session
  BY <1>0, <1>1 DEF Session
<1>4. session' = [session EXCEPT ![t] = s]
  BY <1>2, Parts
<1>5. s.act = "none" /\ s.result = r /\ s.view = v /\ s.cached = c /\ s.owned = session[t].owned
  BY Parts DEF Session
<1> HIDE DEF s
<1> QED BY <1>3, <1>4, <1>5, Parts

LEMMA LeaseUnavailableSafe == ASSUME AppInv, NEW t \in AppTabs, LeaseUnavailable(t) PROVE AppInv'
<1>1. /\ session' \in [AppTabs -> Session]
      /\ \A u \in AppTabs \ {t} : session'[u] = session[u]
      /\ session'[t].act = "none" /\ session'[t].result = "lease" /\ session'[t].view = "other"
      /\ session'[t].cached = FALSE /\ session'[t].owned = session[t].owned
  BY ActivatedSets DEF LeaseUnavailable
<1>2. /\ tabDevice' \in [AppTabs -> TabDevices] /\ tabDevice'[t] = "off"
      /\ \A u \in AppTabs \ {t} : tabDevice'[u] = tabDevice[u]
  BY Parts DEF LeaseUnavailable, TabDevices
<1>3. Fits(session'[t], "off", lockHolder = t)
  BY <1>1 DEF Fits
<1>4. Follows(app[t], session'[t], "off")
  BY <1>1, Parts DEF Follows, LeaseUnavailable
<1> QED BY <1>1, <1>2, <1>3, <1>4, Parts, DeviceSafe DEF LeaseUnavailable, env

\* Only the session's view changes.
LEMMA ViewChanges ==
    ASSUME AppInv, NEW t \in AppTabs, session' = [session EXCEPT ![t].view = "other"]
    PROVE  /\ session' \in [AppTabs -> Session]
           /\ \A u \in AppTabs \ {t} : session'[u] = session[u]
           /\ session'[t].view = "other" /\ session'[t].act = session[t].act
           /\ session'[t].result = session[t].result /\ session'[t].cached = session[t].cached
           /\ session'[t].owned = session[t].owned
BY Parts DEF Session

LEMMA DeviceOpensSafe == ASSUME AppInv, NEW t \in AppTabs, DeviceOpens(t) PROVE AppInv'
<1>1. /\ Fits(session[t], "opening", lockHolder = t) /\ Follows(app[t], session[t], "opening")
      /\ tabDevice \in [AppTabs -> TabDevices]
      /\ lockHolder \in AppTabs \cup {Nobody} /\ faults \in Nat
  BY Parts DEF DeviceOpens
<1>2. /\ lockHolder = t /\ session[t].act = "ensuring" /\ session[t].owned
      /\ app[t].phase # "ready" /\ app[t].out # "releasing" /\ app[t].sync # "yield"
  BY <1>1 DEF Fits, Follows
<1>3. faults' \in Nat /\ UNCHANGED <<app, requested, lockHolder, focused, authenticated, appEvents>>
  BY <1>1 DEF DeviceOpens, Fault
<1>4. CASE tabDevice' = [tabDevice EXCEPT ![t] = "ready"] /\ Activated(t, "ready", "ready")
  <2>1. /\ session' \in [AppTabs -> Session]
        /\ \A u \in AppTabs \ {t} : session'[u] = session[u]
        /\ session'[t].act = "none" /\ session'[t].result = "ready" /\ session'[t].view = "ready"
        /\ session'[t].cached = TRUE /\ session'[t].owned = session[t].owned
    BY <1>4, ActivatedSets
  <2>2. /\ tabDevice' \in [AppTabs -> TabDevices] /\ tabDevice'[t] = "ready"
        /\ \A u \in AppTabs \ {t} : tabDevice'[u] = tabDevice[u]
    BY <1>1, <1>4 DEF TabDevices
  <2>3. Fits(session'[t], tabDevice'[t], lockHolder' = t)
    BY <1>2, <1>3, <2>1, <2>2 DEF Fits
  <2>4. Follows(app[t], session'[t], tabDevice'[t])
    BY <1>1, <1>2, <2>1, <2>2 DEF Follows
  <2> QED BY <1>1, <1>3, <2>1, <2>2, <2>3, <2>4, DeviceSafe
<1>5. CASE /\ tabDevice' = [tabDevice EXCEPT ![t] = "failing"]
           /\ session' = [session EXCEPT ![t].view = "other"]
  <2>1. /\ session' \in [AppTabs -> Session]
        /\ \A u \in AppTabs \ {t} : session'[u] = session[u]
        /\ session'[t].view = "other" /\ session'[t].act = session[t].act
        /\ session'[t].result = session[t].result /\ session'[t].cached = session[t].cached
        /\ session'[t].owned = session[t].owned
    BY <1>5, ViewChanges
  <2>2. /\ tabDevice' \in [AppTabs -> TabDevices] /\ tabDevice'[t] = "failing"
        /\ \A u \in AppTabs \ {t} : tabDevice'[u] = tabDevice[u]
    BY <1>1, <1>5 DEF TabDevices
  <2>3. Fits(session'[t], tabDevice'[t], lockHolder' = t)
    BY <1>2, <1>3, <2>1, <2>2 DEF Fits
  <2>4. Follows(app[t], session'[t], tabDevice'[t])
    BY <1>1, <1>2, <2>1, <2>2 DEF Follows
  <2> QED BY <1>1, <1>3, <2>1, <2>2, <2>3, <2>4, DeviceSafe
<1> QED BY <1>4, <1>5 DEF DeviceOpens

LEMMA DeviceClosesSafe == ASSUME AppInv, NEW t \in AppTabs, DeviceCloses(t) PROVE AppInv'
<1>1. /\ Fits(session[t], tabDevice[t], lockHolder = t)
      /\ Follows(app[t], session[t], tabDevice[t])
      /\ tabDevice \in [AppTabs -> TabDevices]
      /\ lockHolder \in AppTabs \cup {Nobody} /\ faults \in Nat
  BY Parts
<1>2. /\ lockHolder' \in AppTabs \cup {Nobody}
      /\ \A u \in AppTabs \ {t} : lockHolder = u => lockHolder' = u
      /\ UNCHANGED <<app, requested, focused, authenticated, appEvents, faults>>
  BY <1>1 DEF DeviceCloses, env
<1>3. CASE tabDevice[t] = "failing"
  <2>1. /\ session' \in [AppTabs -> Session]
        /\ \A u \in AppTabs \ {t} : session'[u] = session[u]
        /\ session'[t].act = "none" /\ session'[t].result = "failed" /\ session'[t].view = "other"
        /\ session'[t].cached = FALSE /\ session'[t].owned = session[t].owned
    BY <1>3, ActivatedSets DEF DeviceCloses
  <2>2. /\ tabDevice' \in [AppTabs -> TabDevices] /\ tabDevice'[t] = "off"
        /\ \A u \in AppTabs \ {t} : tabDevice'[u] = tabDevice[u]
    BY <1>1, <1>3 DEF DeviceCloses, TabDevices
  <2>3. Fits(session'[t], tabDevice'[t], lockHolder' = t)
    BY <2>1, <2>2 DEF Fits
  <2>4. Follows(app[t], session'[t], tabDevice'[t])
    BY <1>1, <1>3, <2>1, <2>2 DEF Follows
  <2> QED BY <1>1, <1>2, <2>1, <2>2, <2>3, <2>4, DeviceSafe
<1>4. CASE tabDevice[t] \in {"stopping", "off", "asked", "waiting"}
  <2>1. UNCHANGED session
    BY <1>4 DEF DeviceCloses
  <2>2. /\ tabDevice' \in [AppTabs -> TabDevices]
        /\ tabDevice'[t] \in {"off", "asked", "waiting"}
        /\ tabDevice'[t] = "asked" <=> tabDevice[t] = "asked"
        /\ tabDevice'[t] = "waiting" <=> tabDevice[t] = "waiting"
        /\ \A u \in AppTabs \ {t} : tabDevice'[u] = tabDevice[u]
    BY <1>1, <1>4 DEF DeviceCloses, TabDevices
  <2>3. Fits(session'[t], tabDevice'[t], lockHolder' = t)
    BY <1>1, <1>4, <2>1, <2>2 DEF Fits
  <2>4. Follows(app[t], session'[t], tabDevice'[t])
    BY <1>1, <1>4, <2>1, <2>2 DEF Follows
  <2>5. session' \in [AppTabs -> Session]
    BY <2>1, Parts
  <2> QED BY <1>1, <1>2, <2>1, <2>2, <2>3, <2>4, <2>5, DeviceSafe
<1>5. tabDevice[t] \in {"failing", "stopping", "off", "asked", "waiting"}
  BY DEF DeviceCloses
<1> QED BY <1>3, <1>4, <1>5

LEMMA WithdrawSafe ==
    ASSUME AppInv, NEW t \in AppTabs, NEW p \in Phases \ {"ready"}, Withdraw(t, p),
           requested' \subseteq AppTabs,
           UNCHANGED <<lockHolder, focused, authenticated, faults>>, appEvents' \in Nat
    PROVE  AppInv'
<1> DEFINE next == [app[t] EXCEPT !.phase = p, !.sync = "none", !.route = FALSE]
<1>0. "none" \in Syncs /\ app[t] \in App
  BY Parts DEF Syncs
<1>1. next \in App
  BY <1>0 DEF App
<1>2. app' = [app EXCEPT ![t] = next]
  BY Parts DEF Withdraw
<1>3. next.phase = p /\ next.route = FALSE /\ next.sync = "none"
  BY Parts DEF App
<1> HIDE DEF next
<1>4. /\ app' \in [AppTabs -> App] /\ \A u \in AppTabs \ {t} : app'[u] = app[u]
      /\ app'[t].phase # "ready" /\ ~app'[t].route /\ app'[t].sync = "none"
  BY <1>1, <1>2, <1>3, Parts
<1> QED BY <1>4, Parts, ReleaseSafe DEF Withdraw

LEMMA DeviceBeginsSafe == ASSUME AppInv, NEW t \in AppTabs, DeviceBegins(t) PROVE AppInv'
<1>1. CASE Withdraw(t, "noDevice")
  <2>1. "noDevice" \in Phases \ {"ready"}
    BY DEF Phases
  <2> QED BY <1>1, <2>1, Parts, WithdrawSafe DEF DeviceBegins, env
<1>2. CASE /\ app[t].phase \notin {"ready", "navigating"}
           /\ tabDevice' = [tabDevice EXCEPT ![t] = "waiting"]
           /\ session' = [session EXCEPT ![t].view = "other"]
           /\ UNCHANGED app
  <2>1. /\ session' \in [AppTabs -> Session]
        /\ \A u \in AppTabs \ {t} : session'[u] = session[u]
        /\ session'[t].view = "other" /\ session'[t].act = session[t].act
        /\ session'[t].result = session[t].result /\ session'[t].cached = session[t].cached
        /\ session'[t].owned = session[t].owned
    BY <1>2, ViewChanges
  <2>2. /\ tabDevice' \in [AppTabs -> TabDevices] /\ tabDevice'[t] = "waiting"
        /\ \A u \in AppTabs \ {t} : tabDevice'[u] = tabDevice[u]
    BY <1>2, Parts DEF TabDevices
  <2>3. Fits(session'[t], tabDevice'[t], lockHolder' = t)
    BY <2>1, <2>2, Parts DEF Fits, DeviceBegins
  <2>4. Follows(app[t], session'[t], tabDevice'[t])
    BY <2>1, <2>2, Parts DEF Follows, DeviceBegins
  <2> QED BY <1>2, <2>1, <2>2, <2>3, <2>4, Parts, DeviceSafe DEF DeviceBegins, env
<1> QED BY <1>1, <1>2 DEF DeviceBegins

LEMMA DeviceFailsSafe == ASSUME AppInv, NEW t \in AppTabs, DeviceFails(t) PROVE AppInv'
<1>1. /\ Fits(session[t], "ready", lockHolder = t) /\ Follows(app[t], session[t], "ready")
      /\ tabDevice \in [AppTabs -> TabDevices]
      /\ lockHolder \in AppTabs \cup {Nobody} /\ faults \in Nat
      /\ app \in [AppTabs -> App] /\ app[t] \in App /\ session \in [AppTabs -> Session]
  BY Parts DEF DeviceFails
<1>2. faults' \in Nat /\ UNCHANGED <<requested, lockHolder, focused, authenticated, appEvents>>
  BY <1>1 DEF DeviceFails, Fault
<1>3. /\ tabDevice' \in [AppTabs -> TabDevices] /\ tabDevice'[t] = "off"
      /\ \A u \in AppTabs \ {t} : tabDevice'[u] = tabDevice[u]
  BY <1>1 DEF DeviceFails, TabDevices
<1>4. CASE /\ app[t].phase \in {"ready", "navigating"}
           /\ app' = [app EXCEPT ![t].phase = "noDevice", ![t].sync = "none", ![t].route = FALSE]
           /\ session' = [session EXCEPT ![t] = Released]
  <2> DEFINE next == [app[t] EXCEPT !.phase = "noDevice", !.sync = "none", !.route = FALSE]
  <2>1. next \in App
    BY <1>1 DEF App, Syncs, Phases
  <2>2. app' = [app EXCEPT ![t] = next]
    BY <1>1, <1>4
  <2>3. next.phase = "noDevice" /\ next.route = FALSE /\ next.sync = "none"
    BY <1>1 DEF App
  <2>4. Released \in Session
    BY DEF Released, Session
  <2> HIDE DEF next
  <2>5. /\ app' \in [AppTabs -> App] /\ app'[t] = next
        /\ \A u \in AppTabs \ {t} : app'[u] = app[u]
    BY <1>1, <2>1, <2>2
  <2>6. /\ session' \in [AppTabs -> Session] /\ session'[t] = Released
        /\ \A u \in AppTabs \ {t} : session'[u] = session[u]
    BY <1>1, <1>4, <2>4
  <2>7. Follows(app'[t], session'[t], tabDevice'[t])
    BY <1>3, <2>3, <2>5 DEF Follows
  <2>8. Fits(session'[t], tabDevice'[t], lockHolder' = t)
    BY <1>3, <2>6 DEF Fits, Released
  <2>9. AppTypeOK'
    BY <1>2, <1>3, <2>5, <2>6, Parts DEF AppTypeOK, TabDevices
  <2> QED BY <1>2, <1>3, <2>5, <2>6, <2>7, <2>8, <2>9, OneTab
<1>5. CASE /\ app[t].phase \notin {"ready", "navigating"}
           /\ session' = [session EXCEPT ![t].view = "other"]
           /\ UNCHANGED app
  <2>1. /\ session' \in [AppTabs -> Session]
        /\ \A u \in AppTabs \ {t} : session'[u] = session[u]
        /\ session'[t].view = "other" /\ session'[t].act = session[t].act
        /\ session'[t].result = session[t].result /\ session'[t].cached = session[t].cached
        /\ session'[t].owned = session[t].owned
    BY <1>5, ViewChanges
  <2>2. Fits(session'[t], tabDevice'[t], lockHolder' = t)
    BY <1>1, <1>3, <2>1 DEF Fits
  <2>3. Follows(app[t], session'[t], tabDevice'[t])
    BY <1>1, <1>3, <1>5, <2>1 DEF Follows
  <2> QED BY <1>1, <1>2, <1>3, <1>5, <2>1, <2>2, <2>3, DeviceSafe
<1> QED BY <1>4, <1>5 DEF DeviceFails

LEMMA OnRequestSafe == ASSUME AppInv, NEW t \in AppTabs, OnRequest(t) PROVE AppInv'
<1>1. /\ requested' \subseteq AppTabs
      /\ UNCHANGED <<lockHolder, focused, authenticated, appEvents, faults>>
  BY Parts DEF OnRequest, env
<1>2. CASE Withdraw(t, "inactive")
  <2>1. "inactive" \in Phases \ {"ready"}
    BY DEF Phases
  <2> QED BY <1>1, <1>2, <2>1, Parts, WithdrawSafe
<1>3. CASE UNCHANGED <<app, session, tabDevice>>
  BY <1>1, <1>3, Parts, AppSafe
<1> QED BY <1>2, <1>3 DEF OnRequest

LEMMA SynchronizeSets ==
    ASSUME AppInv, NEW t \in AppTabs, NEW c \in BOOLEAN, Synchronize(t, c)
    PROVE  /\ app' \in [AppTabs -> App] /\ \A u \in AppTabs \ {t} : app'[u] = app[u]
           /\ Follows(app'[t], session[t], tabDevice[t])
<1>1. PICK p \in {"navigating", "initializing", "checking"} :
        app' = [app EXCEPT ![t].phase = p, ![t].sync = "identity", ![t].claim = c,
                           ![t].route = FALSE]
  BY DEF Synchronize
<1> DEFINE next == [app[t] EXCEPT !.phase = p, !.sync = "identity", !.claim = c, !.route = FALSE]
<1>2. p \in Phases /\ "identity" \in Syncs /\ app[t] \in App
  BY <1>1, Parts DEF Phases, Syncs
<1>3. next \in App
  BY <1>2 DEF App
<1>4. app' = [app EXCEPT ![t] = next]
  BY Parts, <1>1
<1>5. next.phase = p /\ next.route = FALSE /\ next.sync = "identity" /\ next.out = app[t].out
  BY Parts DEF App
<1>6. Follows(next, session[t], tabDevice[t])
  BY Parts, <1>1, <1>5 DEF Follows
<1> HIDE DEF next
<1> QED BY Parts, <1>3, <1>4, <1>6

LEMMA FocusSafe == ASSUME AppInv, NEW t \in AppTabs, Focus(t) PROVE AppInv'
<1>1. /\ requested' \subseteq AppTabs /\ focused' \in AppTabs \cup {Nobody} /\ appEvents' \in Nat
      /\ UNCHANGED <<session, tabDevice, lockHolder, authenticated, faults>>
  BY Parts DEF Focus, Request, AppEvent
<1>2. CASE Synchronize(t, FALSE)
  BY <1>1, <1>2, Parts, SynchronizeSets, AppSafe
<1>3. CASE UNCHANGED app
  BY <1>1, <1>3, Parts, AppSafe
<1> QED BY <1>2, <1>3 DEF Focus

LEMMA NavigateSafe == ASSUME AppInv, NEW t \in AppTabs, Navigate(t) PROVE AppInv'
<1>0. appEvents \in Nat
  BY Parts
<1>1. /\ Synchronize(t, FALSE) /\ appEvents' \in Nat
      /\ UNCHANGED <<session, tabDevice, requested, lockHolder, focused, authenticated, faults>>
  <2>1. /\ Synchronize(t, FALSE) /\ (UNCHANGED appEvents \/ AppEvent)
        /\ UNCHANGED <<session, tabDevice, requested, lockHolder, focused, authenticated, faults>>
    BY DEF Navigate
  <2>2. appEvents' \in Nat
    BY <1>0, <2>1 DEF AppEvent
  <2> QED BY <2>1, <2>2
<1> QED BY <1>1, Parts, SynchronizeSets, AppSafe

LEMMA RetryDeviceSafe == ASSUME AppInv, NEW t \in AppTabs, RetryDevice(t) PROVE AppInv'
<1>0. appEvents \in Nat
  BY Parts
<1>1. /\ Synchronize(t, TRUE) /\ appEvents' \in Nat
      /\ UNCHANGED <<session, tabDevice, requested, lockHolder, focused, authenticated, faults>>
  <2>1. /\ Synchronize(t, TRUE) /\ (UNCHANGED appEvents \/ AppEvent)
        /\ UNCHANGED <<session, tabDevice, requested, lockHolder, focused, authenticated, faults>>
    BY DEF RetryDevice
  <2>2. appEvents' \in Nat
    BY <1>0, <2>1 DEF AppEvent
  <2> QED BY <2>1, <2>2
<1> QED BY <1>1, Parts, SynchronizeSets, AppSafe

LEMMA SignOutSafe == ASSUME AppInv, NEW t \in AppTabs, SignOut(t) PROVE AppInv'
<1>1. app' = [app EXCEPT ![t].out = "asking"] /\ appEvents' \in Nat
      /\ UNCHANGED <<session, tabDevice, requested, lockHolder, focused, authenticated, faults>>
  BY Parts DEF SignOut, AppEvent
<1> DEFINE next == [app[t] EXCEPT !.out = "asking"]
<1>2. next \in App /\ app' = [app EXCEPT ![t] = next]
  BY Parts, <1>1 DEF App
<1>3. Follows(next, session[t], tabDevice[t])
  BY Parts DEF Follows, App
<1> HIDE DEF next
<1>4. /\ app' \in [AppTabs -> App] /\ \A u \in AppTabs \ {t} : app'[u] = app[u]
      /\ Follows(app'[t], session[t], tabDevice[t])
  BY Parts, <1>2, <1>3
<1> QED BY <1>1, <1>4, Parts, AppSafe

LEMMA SignOutAnsweredSafe == ASSUME AppInv, NEW t \in AppTabs, SignOutAnswered(t) PROVE AppInv'
<1>1. /\ UNCHANGED <<requested, lockHolder, focused, appEvents>>
      /\ faults' \in Nat /\ authenticated' \in BOOLEAN
  <2>1. faults \in Nat /\ authenticated \in BOOLEAN
    BY Parts
  <2>2. UNCHANGED <<requested, lockHolder, focused, appEvents>>
    BY DEF SignOutAnswered
  <2>3. (UNCHANGED faults \/ Fault) /\ (authenticated' = FALSE \/ UNCHANGED authenticated)
    BY DEF SignOutAnswered
  <2>4. faults' \in Nat
    BY <2>1, <2>3 DEF Fault
  <2>5. authenticated' \in BOOLEAN
    BY <2>1, <2>3
  <2> QED BY <2>2, <2>4, <2>5
<1>2. CASE /\ Release(t) /\ authenticated' = FALSE
           /\ app' = [app EXCEPT ![t].out = IF Held(t) THEN "releasing" ELSE "no",
                                 ![t].phase = IF Held(t) THEN "checking" ELSE "signedOut",
                                 ![t].sync = "none", ![t].route = FALSE, ![t].own = FALSE]
  <2> DEFINE o == IF Held(t) THEN "releasing" ELSE "no"
  <2> DEFINE p == IF Held(t) THEN "checking" ELSE "signedOut"
  <2>1. o \in {"no", "asking", "releasing"} /\ p \in Phases /\ p # "ready"
    BY DEF Phases
  <2>2. app' = [app EXCEPT ![t].out = o, ![t].phase = p, ![t].sync = "none", ![t].route = FALSE,
                           ![t].own = FALSE]
    BY <1>2
  <2> HIDE DEF o, p
  <2> DEFINE next == [app[t] EXCEPT !.out = o, !.phase = p, !.sync = "none", !.route = FALSE,
                                    !.own = FALSE]
  <2>0. "none" \in Syncs /\ app[t] \in App
    BY Parts DEF Syncs
  <2>3. next \in App
    BY <2>0, <2>1 DEF App
  <2>4. app' = [app EXCEPT ![t] = next]
    BY Parts, <2>2
  <2>5. next.phase = p /\ next.route = FALSE /\ next.sync = "none"
    BY Parts DEF App
  <2> HIDE DEF next
  <2>6. /\ app' \in [AppTabs -> App] /\ \A u \in AppTabs \ {t} : app'[u] = app[u]
        /\ app'[t].phase # "ready" /\ ~app'[t].route /\ app'[t].sync = "none"
    BY Parts, <2>1, <2>3, <2>4, <2>5
  <2> QED BY <1>1, <1>2, <2>6, Parts, ReleaseSafe
<1>3. CASE app' = [app EXCEPT ![t].out = "no"] /\ UNCHANGED <<session, tabDevice, authenticated>>
  <2> DEFINE next == [app[t] EXCEPT !.out = "no"]
  <2>1. next \in App /\ app' = [app EXCEPT ![t] = next]
    BY Parts, <1>3 DEF App
  <2>2. Follows(next, session[t], tabDevice[t])
    BY Parts DEF Follows, App
  <2> HIDE DEF next
  <2>3. /\ app' \in [AppTabs -> App] /\ \A u \in AppTabs \ {t} : app'[u] = app[u]
        /\ Follows(app'[t], session[t], tabDevice[t])
    BY Parts, <2>1, <2>2
  <2> QED BY <1>1, <1>3, <2>3, Parts, AppSafe
<1> QED BY <1>2, <1>3 DEF SignOutAnswered

LEMMA SignOutReleasedSafe == ASSUME AppInv, NEW t \in AppTabs, SignOutReleased(t) PROVE AppInv'
<1>1. app' = [app EXCEPT ![t].out = "no", ![t].phase = "signedOut"]
      /\ UNCHANGED <<session, tabDevice, requested, lockHolder, focused, authenticated,
                     appEvents, faults>>
  BY DEF SignOutReleased, env
<1> DEFINE next == [app[t] EXCEPT !.out = "no", !.phase = "signedOut"]
<1>2. "signedOut" \in Phases /\ app[t] \in App
  BY Parts DEF Phases
<1>3. next \in App
  BY <1>2 DEF App
<1>4. app' = [app EXCEPT ![t] = next]
  BY Parts, <1>1
<1>5. /\ next.phase = "signedOut" /\ next.out = "no" /\ next.sync = app[t].sync
      /\ next.route = app[t].route /\ next.next = app[t].next
  BY Parts DEF App
<1>6. tabDevice[t] # "ready"
  BY Parts DEF Follows, SignOutReleased
<1>7. Follows(next, session[t], tabDevice[t])
  BY Parts, <1>5, <1>6 DEF Follows
<1> HIDE DEF next
<1>8. /\ app' \in [AppTabs -> App] /\ \A u \in AppTabs \ {t} : app'[u] = app[u]
      /\ Follows(app'[t], session[t], tabDevice[t])
  BY Parts, <1>3, <1>4, <1>7
<1> QED BY <1>1, <1>8, Parts, AppSafe

LEMMA DisposeSafe == ASSUME AppInv, NEW t \in AppTabs, Dispose(t) PROVE AppInv'
<1>1. "disposed" \in Phases \ {"ready"} /\ appEvents' \in Nat
  BY Parts DEF Dispose, AppEvent, Phases
<1> QED BY <1>1, Parts, WithdrawSafe DEF Dispose

LEMMA AppInitSafe == AppInit => AppInv
<1> SUFFICES ASSUME AppInit PROVE AppInv
  OBVIOUS
<1>1. AppTypeOK
  <2>1. [phase |-> "checking", sync |-> "identity", next |-> "checking", claim |-> FALSE,
         own |-> FALSE, route |-> FALSE, out |-> "no"] \in App
    BY DEF App, Phases, Syncs
  <2>2. [owned |-> FALSE, cached |-> FALSE, view |-> "none", act |-> "none", result |-> "none"]
            \in Session
    BY DEF Session
  <2> QED BY <2>1, <2>2 DEF AppInit, AppTypeOK
<1>2. TabsInv
  BY DEF AppInit, TabsInv, Fits, Follows
<1> QED BY <1>1, <1>2 DEF AppInv

LEMMA AppNextSafe == AppInv /\ [AppNext]_appVars => AppInv'
<1> SUFFICES ASSUME AppInv, [AppNext]_appVars PROVE AppInv'
  OBVIOUS
<1>1. ASSUME NEW t \in AppTabs, Step(t) PROVE AppInv'
  BY <1>1, ReadIdentitySafe, SyncReleasedSafe, QueryHeldSafe, EnsuredSafe, QueryWaitingSafe,
     ActivateSafe, DeviceBeginsSafe, DeviceLocksSafe, DeviceOpensSafe, DeviceClosesSafe,
     SignOutAnsweredSafe, SignOutReleasedSafe DEF Step
<1>2. ASSUME NEW t \in AppTabs, RequestAgain(t) PROVE AppInv'
  <2>1. requested' \subseteq AppTabs
    BY <1>2, Parts DEF RequestAgain, Request
  <2> QED BY <1>2, <2>1, Parts, AppSafe DEF RequestAgain, env
<1>3. ASSUME NEW t \in AppTabs,
             \/ OnRequest(t) \/ LeaseUnavailable(t) \/ DeviceFails(t) \/ Focus(t) \/ Navigate(t)
             \/ RetryDevice(t) \/ SignOut(t) \/ Dispose(t)
      PROVE  AppInv'
  BY <1>3, OnRequestSafe, LeaseUnavailableSafe, DeviceFailsSafe, FocusSafe, NavigateSafe,
     RetryDeviceSafe, SignOutSafe, DisposeSafe
<1>4. ASSUME UNCHANGED <<app, session, tabDevice, requested, lockHolder, faults>>,
             focused' \in AppTabs \cup {Nobody}, authenticated' \in BOOLEAN, appEvents' \in Nat
      PROVE  AppInv'
  BY <1>4 DEF AppInv, AppTypeOK, TabsInv
<1>5. appEvents \in Nat /\ authenticated \in BOOLEAN /\ focused \in AppTabs \cup {Nobody}
  BY DEF AppInv, AppTypeOK
<1>6. CASE Blur
  BY <1>4, <1>5, <1>6 DEF Blur, AppEvent
<1>7. CASE SignIn
  BY <1>4, <1>5, <1>7 DEF SignIn, AppEvent
<1>8. CASE UNCHANGED appVars
  BY <1>4, <1>5, <1>8 DEF appVars
<1> QED BY <1>1, <1>2, <1>3, <1>6, <1>7, <1>8 DEF AppNext

LEMMA AppInvAlways == AppSpec => []AppInv
BY AppInitSafe, AppNextSafe, PTL DEF AppSpec

-----------------------------------------------------------------------------
\* Every variable of the application holds a value of its kind (application.ts,
\* device-session.ts).
THEOREM AppTypeCorrect == AppSpec => []AppTypeOK
BY AppInvAlways, PTL DEF AppInv

\* However many tabs race for the device and however often they fail, a route runs
\* exactly in a tab that shows ready over a ready device with the lock: application.ts
\* ends a route before it releases the device, and looks at the device again before it
\* opens one.
THEOREM RouteHasDeviceAlways == AppSpec => []RouteHasDevice
<1>1. AppInv => RouteHasDevice
  BY DEF AppInv, TabsInv, Fits, Follows, RouteHasDevice
<1> QED BY <1>1, AppInvAlways, PTL

=============================================================================
