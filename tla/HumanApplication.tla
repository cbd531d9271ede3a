--------------------------- MODULE HumanApplication ---------------------------
(***************************************************************************)
(* The web application's lifecycle in every tab of one person               *)
(* (apps/web/src/composition/human/application.ts), its device session      *)
(* (device-session.ts) and the hand-over of the device between tabs         *)
(* (tab-handoff.ts), over a device port of which BrowserDevice tells more:  *)
(* here it is asked, waits for the lock, opens, is ready, fails or closes.  *)
(*                                                                         *)
(* A synchronize whose epoch is over returns at its next check without      *)
(* having done anything, so a tab has at most one that counts; starting     *)
(* another, or ending it, overwrites it.                                    *)
(***************************************************************************)
EXTENDS Naturals

CONSTANTS
    AppTabs,
    MaxAppEvents,  \* bound: navigations, moves of the focus, sign-outs, sign-ins, closed tabs
    MaxFaults,     \* bound: reads, queries, routes and devices that fail
    Nobody

ASSUME NobodyAssumption == Nobody \notin AppTabs

VARIABLES
    app,         \* each tab: its snapshot and its synchronize
    session,     \* each tab's device session
    tabDevice,   \* each tab's device
    requested,   \* the tabs a request for the device is on its way to
    focused,     \* the tab that has the focus
    lockHolder,  \* the tab that holds the device lock
    authenticated, appEvents, faults

appVars ==
    <<app, session, tabDevice, requested, focused, lockHolder, authenticated, appEvents, faults>>
env == <<focused, authenticated, appEvents, faults>>

\* `unavailable` by source and, for the device, by whether the lease was the reason.
Phases == {"checking", "initializing", "navigating", "ready", "inactive", "signedOut", "disposed",
           "noIdentity", "noLease", "noDevice", "noRoute"}
Syncs == {"none", "identity", "releasing", "held", "ensuring", "yield"}
App == [phase : Phases, sync : Syncs, next : Phases, claim : BOOLEAN, own : BOOLEAN,
        route : BOOLEAN, out : {"no", "asking", "releasing"}]
Session == [owned : BOOLEAN, cached : BOOLEAN, view : {"none", "ready", "other"},
            act : {"none", "stopping", "ensuring"}, result : {"none", "ready", "lease", "failed"}]

AppInit ==
    /\ app = [t \in AppTabs |-> [phase |-> "checking", sync |-> "identity", next |-> "checking",
                              claim |-> FALSE, own |-> FALSE, route |-> FALSE, out |-> "no"]]
    /\ session = [t \in AppTabs |-> [owned |-> FALSE, cached |-> FALSE, view |-> "none",
                                  act |-> "none", result |-> "none"]]
    /\ tabDevice = [t \in AppTabs |-> "off"]
    /\ requested = {}
    /\ focused \in AppTabs \cup {Nobody}
    /\ lockHolder = Nobody
    /\ authenticated = TRUE
    /\ appEvents = 0 /\ faults = 0

AppEvent == appEvents < MaxAppEvents /\ appEvents' = appEvents + 1
Fault == faults < MaxFaults /\ faults' = faults + 1

-----------------------------------------------------------------------------
\* device-session.ts and the device.

\* stop(): waits until what it ended is closed.  A generation that ended by itself
\* is closed in the background, with the lock in the hands of a device that is off.
Stopped(t) ==
    tabDevice' = [tabDevice EXCEPT ![t] = IF @ \in {"asked", "waiting", "opening", "ready"} THEN "stopping"
                                    ELSE IF @ = "failing" THEN "off" ELSE @]

Released == [owned |-> FALSE, cached |-> FALSE, view |-> "none", act |-> "none", result |-> "none"]

\* release() has something to stop; otherwise it returns at once.
Held(t) == session[t].owned \/ session[t].act # "none"

Release(t) ==
    /\ session' = [session EXCEPT ![t] = Released]
    /\ IF Held(t) THEN Stopped(t) ELSE UNCHANGED tabDevice

\* ensureReady: a ready session is returned as it is, an activation under way is
\* joined, and a new one follows the stop of what was there.
EnsureDevice(t) ==
    LET s == session[t]
        new == [Released EXCEPT !.owned = s.owned]
    IN  \/ /\ s.cached
           /\ session' = [session EXCEPT ![t].result = "ready"]
           /\ UNCHANGED tabDevice
        \/ /\ ~s.cached /\ s.act # "none"
           /\ UNCHANGED <<session, tabDevice>>
        \/ /\ ~s.cached /\ s.act = "none" /\ (s.owned \/ tabDevice[t] = "stopping")
           /\ session' = [session EXCEPT ![t] = [new EXCEPT !.act = "stopping"]]
           /\ IF s.owned THEN Stopped(t) ELSE UNCHANGED tabDevice
        \/ /\ ~s.cached /\ s.act = "none" /\ ~s.owned /\ tabDevice[t] # "stopping"
           /\ session' = [session EXCEPT ![t] = [new EXCEPT !.owned = TRUE, !.act = "ensuring"]]
           /\ tabDevice' = [tabDevice EXCEPT ![t] = "asked"]

Activate(t) ==
    /\ session[t].act = "stopping" /\ tabDevice[t] = "off"
    /\ session' = [session EXCEPT ![t].owned = TRUE, ![t].act = "ensuring"]
    /\ tabDevice' = [tabDevice EXCEPT ![t] = "asked"]
    /\ UNCHANGED <<app, requested, lockHolder, env>>

\* The browser grants the lock in a task of its own, so what a sign-out does when its
\* release has ended comes first.
DeviceLocks(t) ==
    /\ tabDevice[t] = "waiting" /\ lockHolder = Nobody /\ app[t].out # "releasing"
    /\ lockHolder' = t
    /\ tabDevice' = [tabDevice EXCEPT ![t] = "opening"]
    /\ UNCHANGED <<app, session, requested, env>>

\* The activation ends with result r and the session's view is v.
Activated(t, r, v) ==
    session' = [session EXCEPT ![t].act = "none", ![t].result = r, ![t].view = v,
                               ![t].cached = r = "ready"]

\* Somebody else, or this tab's last generation, kept the lock for the whole wait.
LeaseUnavailable(t) ==
    /\ tabDevice[t] = "waiting" /\ lockHolder # Nobody
    /\ tabDevice' = [tabDevice EXCEPT ![t] = "off"]
    /\ Activated(t, "lease", "other")
    /\ UNCHANGED <<app, requested, lockHolder, env>>

DeviceOpens(t) ==
    /\ tabDevice[t] = "opening"
    /\ \/ /\ tabDevice' = [tabDevice EXCEPT ![t] = "ready"]
          /\ Activated(t, "ready", "ready")
          /\ UNCHANGED faults
       \/ /\ Fault
          /\ tabDevice' = [tabDevice EXCEPT ![t] = "failing"]
          /\ session' = [session EXCEPT ![t].view = "other"]
    /\ UNCHANGED <<app, requested, lockHolder, focused, authenticated, appEvents>>

DeviceCloses(t) ==
    /\ \/ tabDevice[t] \in {"stopping", "failing"}
       \/ lockHolder = t /\ tabDevice[t] \in {"off", "asked", "waiting"}
    /\ tabDevice' = [tabDevice EXCEPT ![t] = IF @ \in {"stopping", "failing"} THEN "off" ELSE @]
    /\ lockHolder' = IF lockHolder = t THEN Nobody ELSE lockHolder
    /\ IF tabDevice[t] = "failing" THEN Activated(t, "failed", "other") ELSE UNCHANGED session
    /\ UNCHANGED <<app, requested, env>>

-----------------------------------------------------------------------------
\* application.ts: synchronize.

Live(t) == app[t].phase # "disposed"

\* A request reaches every other tab that still listens.
Request(t) == requested' = requested \cup {u \in AppTabs \ {t} : Live(u)}

\* The epoch advances and the route's authority ends with it.
Synchronize(t, claims) ==
    LET phase == CASE app[t].phase \in {"ready", "navigating"} -> "navigating"
                   [] app[t].phase \in {"initializing", "noLease", "noDevice", "noRoute"} ->
                          "initializing"
                   [] OTHER -> "checking"
    IN  app' = [app EXCEPT ![t].phase = phase, ![t].sync = "identity", ![t].claim = claims,
                           ![t].route = FALSE]

Show(t, phase) == app' = [app EXCEPT ![t].phase = phase, ![t].sync = "none"]

\* The tab is to have the device: it asks the others for it and activates its own.
Proceed(t) ==
    /\ app' = [app EXCEPT ![t].sync = "ensuring", ![t].own = TRUE,
                          ![t].phase = IF @ = "navigating" THEN @ ELSE "initializing"]
    /\ IF session[t].view # "ready" THEN Request(t) ELSE UNCHANGED requested
    /\ EnsureDevice(t)

\* Nobody is signed in, or that cannot be known: shown once the device is released.
Leave(t, phase) ==
    app' = [app EXCEPT ![t].own = FALSE, ![t].next = phase,
                       ![t].sync = IF Held(t) THEN "releasing" ELSE "none",
                       ![t].phase = IF Held(t) THEN @ ELSE phase]

ReadIdentity(t) ==
    /\ app[t].sync = "identity"
    /\ \/ /\ authenticated
          /\ UNCHANGED faults
          /\ IF ~app[t].claim /\ focused # t /\ session[t].view # "ready"
             THEN /\ app' = [app EXCEPT ![t].sync = "held", ![t].own = TRUE]
                  /\ UNCHANGED <<requested, session, tabDevice>>
             ELSE Proceed(t)
       \/ /\ \/ ~authenticated /\ UNCHANGED faults /\ Leave(t, "signedOut")
             \/ Fault /\ Leave(t, "noIdentity")
          /\ Release(t)
          /\ UNCHANGED requested
    /\ UNCHANGED <<lockHolder, focused, authenticated, appEvents>>

SyncReleased(t) ==
    /\ app[t].sync = "releasing" /\ tabDevice[t] # "stopping"
    /\ Show(t, app[t].next)
    /\ UNCHANGED <<session, tabDevice, requested, lockHolder, env>>

\* otherTab: what the browser says of the lock; unreadable counts as yes.
OtherTab(answer) ==
    \/ answer /\ UNCHANGED faults
    \/ ~answer /\ Fault

QueryHeld(t) ==
    /\ app[t].sync = "held"
    /\ \/ /\ OtherTab(lockHolder # Nobody)
          /\ Show(t, "inactive")
          /\ UNCHANGED <<session, tabDevice, requested>>
       \/ /\ lockHolder = Nobody
          /\ Proceed(t)
          /\ UNCHANGED faults
    /\ UNCHANGED <<lockHolder, focused, authenticated, appEvents>>

\* The request is repeated while the tab waits and has the focus or a claim.
RequestAgain(t) ==
    /\ app[t].sync = "ensuring" /\ session[t].act # "none"
    /\ app[t].claim \/ focused = t
    /\ Request(t) /\ requested' # requested
    /\ UNCHANGED <<app, session, tabDevice, lockHolder, env>>

\* Mutant: the view is not looked at again.
Settle_Believes(t) ==
    CASE session[t].result = "lease" -> "noLease"
      [] session[t].result = "failed" -> "noDevice"
      [] OTHER -> "ready"

\* What the tab shows of the activation: the view may have changed since.
Settle(t) ==
    CASE session[t].result = "lease" -> "noLease"
      [] session[t].result = "failed" \/ session[t].view = "other" -> "noDevice"
      [] OTHER -> "ready"

\* The route's scope opens as the tab shows ready; a route that throws is closed again.
Settled(t) ==
    \/ /\ app' = [app EXCEPT ![t].phase = Settle(t), ![t].sync = "none",
                             ![t].route = Settle(t) = "ready"]
       /\ UNCHANGED faults
    \/ /\ Settle(t) = "ready" /\ Fault
       /\ Show(t, "noRoute")

Ensured(t) ==
    /\ app[t].sync = "ensuring" /\ session[t].act = "none"
    /\ IF focused # t
       THEN app' = [app EXCEPT ![t].sync = "yield"] /\ UNCHANGED faults
       ELSE Settled(t)
    /\ UNCHANGED <<session, tabDevice, requested, lockHolder, focused, authenticated, appEvents>>

Waiting == \E t \in AppTabs : tabDevice[t] = "waiting"

\* A device that was just opened goes to a tab that waits for it.
QueryWaiting(t) ==
    /\ app[t].sync = "yield"
    /\ \/ /\ OtherTab(Waiting)
          /\ Show(t, "inactive")
          /\ Release(t)
       \/ /\ ~Waiting
          /\ Settled(t)
          /\ UNCHANGED <<session, tabDevice>>
    /\ UNCHANGED <<requested, lockHolder, focused, authenticated, appEvents>>

-----------------------------------------------------------------------------
\* The listeners and the operations of the handle.

\* Ends what the tab is doing: the route first, then the device.
Withdraw(t, phase) ==
    /\ app' = [app EXCEPT ![t].phase = phase, ![t].sync = "none", ![t].route = FALSE]
    /\ Release(t)

\* The listener to the device's views: the one with which an activation begins takes a
\* tab that navigates, and so still shows a context, for one that lost its device.  No
\* such tab has an activation that began, so of the later views only DeviceFails' can.
DeviceBegins(t) ==
    /\ tabDevice[t] = "asked"
    /\ IF app[t].phase \in {"ready", "navigating"}
       THEN Withdraw(t, "noDevice")
       ELSE /\ tabDevice' = [tabDevice EXCEPT ![t] = "waiting"]
            /\ session' = [session EXCEPT ![t].view = "other"]
            /\ UNCHANGED app
    /\ UNCHANGED <<requested, lockHolder, env>>

\* The device reports a failure of its own; only a tab that shows it reacts.
DeviceFails(t) ==
    /\ tabDevice[t] = "ready" /\ Fault
    /\ IF app[t].phase \in {"ready", "navigating"}
       THEN /\ app' = [app EXCEPT ![t].phase = "noDevice", ![t].sync = "none", ![t].route = FALSE]
            /\ session' = [session EXCEPT ![t] = Released]
       ELSE /\ session' = [session EXCEPT ![t].view = "other"]
            /\ UNCHANGED app
    /\ tabDevice' = [tabDevice EXCEPT ![t] = "off"]
    /\ UNCHANGED <<requested, lockHolder, focused, authenticated, appEvents>>

\* Mutant: a tab that has its route ready keeps the device.
OnRequest_KeepsReady(t) ==
    /\ t \in requested
    /\ requested' = requested \ {t}
    /\ IF app[t].own /\ focused # t /\ app[t].phase \in {"initializing", "navigating", "noLease"}
       THEN Withdraw(t, "inactive")
       ELSE UNCHANGED <<app, session, tabDevice>>
    /\ UNCHANGED <<lockHolder, env>>

OnRequest(t) ==
    /\ t \in requested
    /\ requested' = requested \ {t}
    /\ IF /\ app[t].own /\ focused # t
          /\ app[t].phase \notin {"signedOut", "inactive", "disposed", "noDevice"}
       THEN Withdraw(t, "inactive")
       ELSE UNCHANGED <<app, session, tabDevice>>
    /\ UNCHANGED <<lockHolder, env>>

\* The focus moves to a tab, whose listener runs, or to something else.
Focus(t) ==
    /\ AppEvent
    /\ focused # t /\ focused' = t
    /\ IF app[t].phase = "initializing" /\ app[t].own THEN Request(t) ELSE UNCHANGED requested
    /\ IF app[t].phase \in {"inactive", "noLease"} THEN Synchronize(t, FALSE) ELSE UNCHANGED app
    /\ UNCHANGED <<session, tabDevice, lockHolder, authenticated, faults>>

Blur ==
    /\ AppEvent
    /\ focused # Nobody /\ focused' = Nobody
    /\ UNCHANGED <<app, session, tabDevice, requested, lockHolder, authenticated, faults>>

Navigate(t) ==
    /\ AppEvent
    /\ Live(t)
    /\ Synchronize(t, FALSE)
    /\ UNCHANGED <<session, tabDevice, requested, lockHolder, focused, authenticated, faults>>

\* "Try again in this tab"; a click is in the tab that has the focus, or moves it there
\* later, so that another tab's clicks count as events.
RetryDevice(t) ==
    /\ app[t].phase \in {"inactive", "noLease"}
    /\ IF focused = t THEN UNCHANGED appEvents ELSE AppEvent
    /\ Synchronize(t, TRUE)
    /\ UNCHANGED <<session, tabDevice, requested, lockHolder, focused, authenticated, faults>>

SignOut(t) ==
    /\ AppEvent
    /\ Live(t) /\ app[t].out = "no"
    /\ app' = [app EXCEPT ![t].out = "asking"]
    /\ UNCHANGED <<session, tabDevice, requested, lockHolder, focused, authenticated, faults>>

SignOutAnswered(t) ==
    /\ app[t].out = "asking" /\ Live(t)
    /\ \/ /\ authenticated' = FALSE
          /\ app' = [app EXCEPT ![t].out = IF Held(t) THEN "releasing" ELSE "no",
                                ![t].phase = IF Held(t) THEN "checking" ELSE "signedOut",
                                ![t].sync = "none", ![t].route = FALSE, ![t].own = FALSE]
          /\ Release(t)
          /\ UNCHANGED faults
       \/ /\ Fault
          /\ app' = [app EXCEPT ![t].out = "no"]
          /\ UNCHANGED <<session, tabDevice, authenticated>>
    /\ UNCHANGED <<requested, lockHolder, focused, appEvents>>

\* Whatever the tab has begun since, it is shown as signed out: a route whose device is
\* open by then would go on behind that.
SignOutReleased(t) ==
    /\ app[t].out = "releasing" /\ tabDevice[t] # "stopping" /\ Live(t)
    /\ app' = [app EXCEPT ![t].out = "no", ![t].phase = "signedOut"]
    /\ UNCHANGED <<session, tabDevice, requested, lockHolder, env>>

SignIn ==
    /\ AppEvent
    /\ ~authenticated /\ authenticated' = TRUE
    /\ UNCHANGED <<app, session, tabDevice, requested, focused, lockHolder, faults>>

Dispose(t) ==
    /\ AppEvent
    /\ Live(t)
    /\ Withdraw(t, "disposed")
    /\ UNCHANGED <<requested, lockHolder, focused, authenticated, faults>>

Step(t) ==
    \/ ReadIdentity(t) \/ SyncReleased(t) \/ QueryHeld(t) \/ Ensured(t) \/ QueryWaiting(t)
    \/ Activate(t) \/ DeviceBegins(t) \/ DeviceLocks(t) \/ DeviceOpens(t) \/ DeviceCloses(t)
    \/ SignOutAnswered(t) \/ SignOutReleased(t)

AppNext ==
    \/ \E t \in AppTabs :
          \/ Step(t) \/ OnRequest(t) \/ RequestAgain(t) \/ LeaseUnavailable(t) \/ DeviceFails(t)
          \/ Focus(t) \/ Navigate(t) \/ RetryDevice(t) \/ SignOut(t) \/ Dispose(t)
    \/ Blur \/ SignIn

\* Answers arrive, the timer fires, messages are delivered, the browser hands a free
\* lock over, devices close; and a person presses "Try again in this tab".
Fairness ==
    \A t \in AppTabs :
        /\ WF_appVars(Step(t))
        /\ WF_appVars(DeviceLocks(t))
        /\ WF_appVars(DeviceCloses(t))
        /\ WF_appVars(OnRequest(t))
        /\ WF_appVars(RequestAgain(t))
        /\ WF_appVars(RetryDevice(t) /\ focused = t)

AppSpec == AppInit /\ [][AppNext]_appVars /\ Fairness

-----------------------------------------------------------------------------
\* Properties.

\* Every variable holds a value of its kind.
AppTypeOK ==
    /\ app \in [AppTabs -> App]
    /\ session \in [AppTabs -> Session]
    /\ tabDevice \in [AppTabs -> {"off", "asked", "waiting", "opening", "ready", "failing",
                               "stopping"}]
    /\ requested \subseteq AppTabs
    /\ focused \in AppTabs \cup {Nobody}
    /\ lockHolder \in AppTabs \cup {Nobody}
    /\ authenticated \in BOOLEAN
    /\ appEvents \in Nat /\ faults \in Nat

\* A route runs only in a tab that shows ready and over a device that is ready and
\* holds the lock, so in one tab at most: authority is withdrawn before the device.
RouteHasDevice ==
    \A t \in AppTabs :
        app[t].route <=> app[t].phase = "ready" /\ tabDevice[t] = "ready" /\ lockHolder = t

\* A tab that shows itself inactive or without the lease is not using the device, nor
\* about to: it cannot keep the device from the tab the person looks at.
InactiveLetsGo ==
    \A t \in AppTabs :
        app[t].phase \in {"inactive", "noLease"} => tabDevice[t] \in {"off", "stopping"}

\* Tabs that hand the device to and fro, or wait for one another, would leave the
\* person waiting: while no inactive tab keeps the device, a tab that keeps the focus
\* comes to rest - ready, signed out or with an error - however the tabs race.
FocusedTabSettles ==
    []InactiveLetsGo =>
        \A t \in AppTabs :
            <>[](focused = t /\ Live(t)) =>
                []<>(app[t].phase \in {"ready", "signedOut", "noIdentity", "noDevice", "noRoute"})

=============================================================================
