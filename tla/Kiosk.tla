-------------------------------- MODULE Kiosk --------------------------------
(***************************************************************************)
(* The kiosk's application: the trace panel (phase4/src/trace.tsx) and the *)
(* wall it shares with the live feed (phase4/src/App.tsx).                 *)
(*                                                                         *)
(* A lookup asks the route service and, if that fails, the static snapshot *)
(* of its source city; static_routes builds go to the snapshot at once.    *)
(* The download of a snapshot is kept, whatever became of it, and is not   *)
(* aborted.  A new lookup, or the way back to the live view, aborts the    *)
(* last one.  What a lookup shows replaces the live traffic on the wall:   *)
(* trips of either kind are added by the animation frame, live ones from a *)
(* queue that the socket fills.                                            *)
(*                                                                         *)
(* A lookup is its number; 0 is none, and the origin of live trips.  The   *)
(* store is the set of the origins of its trips, any of which may expire   *)
(* (TripStore has the store itself).  MaxLookups is a bound.               *)
(***************************************************************************)
EXTENDS FiniteSets, Naturals, Sequences

CONSTANTS Sources,       \* source cities: one snapshot each
          MaxLookups

ASSUME KioskAssumption == Sources # {} /\ MaxLookups \in Nat \ {0}

VARIABLES
    static_routes,   \* import.meta.env.VITE_STATIC_ROUTES, set at build time
    lookups,         \* every findRoutes(): [source, pc, aborted, shown]
    snapshotRequests,    \* of each source: "none", "pending", "ok", "rejected"
    status,
    routes,          \* the lookup whose routes the panel lists, or 0
    mode,            \* the workspace tab: "routes", or "network" for any other
    manual,          \* manualRef.current: the lookup on the wall, or 0
    socket,          \* ws: "waiting" for its timer or to connect, "open"
    pending,         \* live entities wait for the animation frame
    store,           \* origins of the trips in the store
    labels           \* live labels are on the wall

panelVars == <<static_routes, lookups, snapshotRequests, status, routes>>
wallVars  == <<manual, store, labels>>
feedVars  == <<socket, pending>>
kioskVars == <<panelVars, wallVars, feedVars, mode>>

Lookups == 1..Len(lookups)
NewLookup(source) ==
    [source |-> source, pc |-> IF static_routes THEN "snapshot" ELSE "service",
     aborted |-> FALSE, shown |-> "no"]

\* snapshotRoute(): the download that is there, or a new one.
Requested(source) ==
    [snapshotRequests EXCEPT ![source] = IF @ = "none" THEN "pending" ELSE @]

\* TracePanel is mounted and looks a first pair of cities up.
KioskInit ==
    /\ static_routes \in BOOLEAN
    /\ \E source \in Sources :
          /\ lookups = <<NewLookup(source)>>
          /\ snapshotRequests =
                [s \in Sources |-> IF static_routes /\ s = source
                                   THEN "pending" ELSE "none"]
    /\ status = "loading" /\ routes = 0
    /\ mode = "routes"
    /\ manual = 0 /\ store = {} /\ labels = FALSE
    /\ socket = "waiting" /\ pending = FALSE

(******************************** findRoutes ******************************)

\* A lookup whose download is settled goes on before the next event.
Resumable == {l \in Lookups : /\ lookups[l].pc = "snapshot"
                              /\ snapshotRequests[lookups[l].source]
                                     \in {"ok", "rejected"}}
EventStarts == Resumable = {}

\* request.current?.abort(): a request to the service ends with an AbortError.
Abort(ls) ==
    [ls EXCEPT ![Len(ls)].pc = IF @ = "service" THEN "done" ELSE @,
               ![Len(ls)].aborted = TRUE]

\* The form is submitted; its button is disabled while a lookup loads.
MaySubmit == EventStarts /\ mode = "routes" /\ status # "loading"

Submit(source) ==
    /\ MaySubmit /\ Len(lookups) < MaxLookups
    /\ lookups' = Append(Abort(lookups), NewLookup(source))
    /\ snapshotRequests' = IF static_routes THEN Requested(source) ELSE snapshotRequests
    /\ status' = "loading"
    /\ UNCHANGED <<static_routes, routes, wallVars, feedVars, mode>>

SubmitSameCity ==
    /\ MaySubmit
    /\ lookups' = Abort(lookups) /\ status' = "idle"
    /\ UNCHANGED <<static_routes, snapshotRequests, routes, wallVars, feedVars, mode>>

\* App's trace(): lookup l takes the wall.
Trace(l) == manual' = l /\ store' = {} /\ labels' = FALSE

\* setRoutes(), setStatus() and choose(0).
Show(l, shown, newStatus) ==
    /\ lookups' = [lookups EXCEPT ![l].pc = "done", ![l].shown = shown]
    /\ routes' = l /\ status' = newStatus
    /\ Trace(l)

\* Mutation of Fallback: the status is not set.
FallbackKeepsStatus(l) == Show(l, "greatcircle", status)

\* The catch clause: whatever fails but an abort shows the great circle.
Fallback(l) == Show(l, "greatcircle", "fallback")

\* The service answers, with routes or with data that is not valid.
ServiceAnswers(l) ==
    /\ EventStarts /\ lookups[l].pc = "service"
    /\ Show(l, "service", "idle") \/ Fallback(l)
    /\ UNCHANGED <<static_routes, snapshotRequests, feedVars, mode>>

ServiceFails(l) ==
    /\ EventStarts /\ lookups[l].pc = "service"
    /\ lookups' = [lookups EXCEPT ![l].pc = "snapshot"]
    /\ snapshotRequests' = Requested(lookups[l].source)
    /\ UNCHANGED <<static_routes, status, routes, wallVars, feedVars, mode>>

SnapshotSettles(source) ==
    /\ EventStarts /\ snapshotRequests[source] = "pending"
    /\ \E outcome \in {"ok", "rejected"} :
          snapshotRequests' = [snapshotRequests EXCEPT ![source] = outcome]
    /\ UNCHANGED <<static_routes, lookups, status, routes, wallVars, feedVars, mode>>

\* Mutation of FromSnapshot: controller.signal.aborted is not looked at.
FromSnapshotAborted(l) ==
    /\ snapshotRequests[lookups[l].source] = "ok"
    /\ Show(l, "snapshot", "snapshot")

\* The snapshot has the pair: an aborted lookup ends here.
FromSnapshot(l) ==
    /\ snapshotRequests[lookups[l].source] = "ok"
    /\ IF lookups[l].aborted
       THEN /\ lookups' = [lookups EXCEPT ![l].pc = "done"]
            /\ UNCHANGED <<routes, status, wallVars>>
       ELSE Show(l, "snapshot", "snapshot")

\* snapshotRoute() returns or throws; it throws for a download that failed, a
\* snapshot that is not valid and a pair that is not in it.
Resume(l) ==
    /\ l \in Resumable /\ \A k \in Resumable : l <= k
    /\ FromSnapshot(l) \/ Fallback(l)
    /\ UNCHANGED <<static_routes, snapshotRequests, feedVars, mode>>

(****************************** panel and tabs ****************************)

\* A route card: the wall starts over with the panel's routes.
Choose ==
    /\ EventStarts /\ mode = "routes" /\ routes # 0
    /\ Trace(routes)
    /\ UNCHANGED <<panelVars, feedVars, mode>>

\* showLive() and App's live().
ShowLive ==
    /\ EventStarts /\ mode = "routes"
    /\ lookups' = Abort(lookups)
    /\ routes' = 0 /\ status' = "idle"
    /\ manual' = 0 /\ store' = {}
    /\ UNCHANGED <<static_routes, snapshotRequests, labels, feedVars, mode>>

\* changeMode()
ChangeMode ==
    /\ EventStarts /\ mode' \in {"routes", "network"} \ {mode}
    /\ UNCHANGED <<panelVars, wallVars, feedVars>>

(******************************* feed and wall ****************************)

\* The socket connects, or closes; its timer starts the next attempt.
SocketEvent ==
    /\ EventStarts
    /\ socket' \in {"waiting", "open"} \ {socket}
    /\ UNCHANGED <<panelVars, wallVars, pending, mode>>

\* ingest() of a frame with something to draw; a traced route keeps it off.
Ingest ==
    /\ EventStarts /\ socket = "open" /\ manual = 0
    /\ pending' = TRUE /\ labels' = TRUE
    /\ UNCHANGED <<panelVars, manual, store, socket, mode>>

LabelsAge ==
    /\ EventStarts /\ labels /\ labels' = FALSE
    /\ UNCHANGED <<panelVars, manual, store, feedVars, mode>>

\* Mutation of Added: what is pending is not held back.
AddedUnchecked ==
    (IF pending THEN {0} ELSE {})
        \cup (IF manual # 0 /\ mode = "routes" THEN {manual} ELSE {})

\* The trips an animation frame may add: what is pending, unless a route is
\* traced, and the traced route each time its animation is over.
Added ==
    (IF pending /\ manual = 0 THEN {0} ELSE {})
        \cup (IF manual # 0 /\ mode = "routes" THEN {manual} ELSE {})

\* tick(): pending is emptied in any case; trips expire.
Tick ==
    /\ EventStarts
    /\ store' \in SUBSET (store \cup Added)
    /\ pending' = FALSE
    /\ UNCHANGED <<panelVars, manual, labels, socket, mode>>

KioskNext ==
    \/ \E source \in Sources : Submit(source) \/ SnapshotSettles(source)
    \/ SubmitSameCity
    \/ \E l \in Lookups : ServiceAnswers(l) \/ ServiceFails(l) \/ Resume(l)
    \/ Choose \/ ShowLive
    \/ ChangeMode \/ SocketEvent \/ Ingest \/ LabelsAge \/ Tick

KioskSpec == KioskInit /\ [][KioskNext]_kioskVars

\* Fairness: the browser settles every request, and runs what is due.
Settles(l) == l \in Lookups /\ (ServiceAnswers(l) \/ ServiceFails(l))
KioskFairSpec ==
    /\ KioskSpec
    /\ \A l \in 1..MaxLookups : WF_kioskVars(Settles(l))
    /\ \A source \in Sources : WF_kioskVars(SnapshotSettles(source))
    /\ WF_kioskVars(\E l \in Lookups : Resume(l))

(******************************** properties *******************************)

\* The wall shows what the panel lists and nothing else: no live trip or label
\* over a traced route, whenever it was queued, and no trip of a route that was
\* replaced or left.
WallShowsPanel ==
    /\ manual = routes
    /\ store \subseteq {manual}
    /\ manual # 0 => ~labels

\* A lookup that was superseded never takes the wall with a route.  It does
\* with its great circle: snapshotRoute() that throws is not told from an abort
\* (trace.tsx:202), even over the live view or over a later lookup's routes.
SupersededOnlyFallsBack ==
    [][\A l \in Lookups :
          lookups[l].aborted /\ routes' = l /\ routes # l =>
              lookups'[l].shown = "greatcircle"]_kioskVars

\* The panel's button comes back: whatever is aborted or superseded, it does
\* not stay loading.
LoadingEnds == status = "loading" ~> status # "loading"
=============================================================================
