------------------------------ MODULE Workspace ------------------------------
(***************************************************************************)
(* What the map of the kiosk shows on each tab: the network atlas with its *)
(* download of network.json, the map's layers, filter and camera, and the  *)
(* traced route (phase4/src/App.tsx), with the controls of                 *)
(* phase4/src/trace.tsx.                                                   *)
(*                                                                         *)
(* Rendering is React's: a handler changes state, and each effect whose    *)
(* dependencies changed is due, and runs before long, in the order of the  *)
(* source.  Between the two other events may come.  The promise that loads *)
(* network.json settles at any time; nothing cancels it.                   *)
(*                                                                         *)
(* The camera is where the program last sent the map: "world", "routes",   *)
(* or a cable.  What is drawn of a traced route is worked out by           *)
(* RouteDrawing; how lookups end in one is Kiosk's.                        *)
(***************************************************************************)
EXTENDS RouteDrawing

CONSTANTS Layers,       \* the three check boxes
          Submarine,    \* the layer the selected cable belongs to
          Cables, NoCable,
          Lookups,      \* [from, to, answer], as findRoutes() may end
          Estimate,     \* the route that fallback() makes up
          NoRoute       \* manualRef.current is null

ASSUME WorkspaceAssumption ==
    /\ Submarine \in Layers /\ NoCable \notin Cables
    /\ Estimate.valid /\ Estimate.segments = <<>>

\* What is drawn when a lookup ends, and with another candidate chosen.
AnswerOf(l) == IF candidates(l.answer) = <<>> THEN <<Estimate>> ELSE l.answer
Picture(l, i) == [from |-> l.from, to |-> l.to, active |-> i, answer |-> AnswerOf(l)]
Pictures ==
    {Picture(p[1], p[2]) :
        p \in {q \in Lookups \X (1..3) : q[2] <= Len(candidates(AnswerOf(q[1])))}}

\* The routes of resolver/resolve.py: a segment begins at the station where the
\* one before it ends, and they follow one another along the path, which begins
\* at the source city.  Where two segments meet the path has the point once, or
\* twice if the two write it in different ways; what is at most 50 m apart, and
\* so needs no handoff, is one point here.
IsRoute(r, from) ==
    /\ from.lon \in Int
    /\ r.path \in Seq(Int \X Int) /\ r.path # <<>>
    /\ r.segments \in Seq(Range(r.segments))
    /\ \A i \in 1..Len(r.segments) :
          r.segments[i].path \in Seq(Int \X Int) /\ r.segments[i].path # <<>>
    /\ \A i \in 2..Len(r.segments) :
          /\ r.segments[i].from = r.segments[i - 1].to
          /\ SamePoint(r.segments[i].path[1], Last(r.segments[i - 1].path))
    /\ r.segments # <<>> =>
          \E start \in [1..Len(r.segments) -> 0..Len(r.path)] :
             /\ \A k \in 1..start[1] : (r.path[k][1] - from.lon) % Turn = 0
             /\ \A i \in 1..Len(r.segments) : LiesAt(r.segments[i].path, r.path, start[i])
             /\ \A i \in 2..Len(r.segments) :
                   start[i] - start[i - 1] - Len(r.segments[i - 1].path) \in {-1, 0}

ASSUME AnswerAssumption ==
    \A m \in Pictures : \A r \in Range(candidates(m.answer)) : IsRoute(r, m.from)

\* Boxes are in whole pixels, and there is room for a label on the screen.
ASSUME ScreenAssumption ==
    /\ bounds \in Int \X Int \X Int \X Int
    /\ \A m \in Pictures :
          /\ BadgeBox(m) \in Int \X Int \X Int \X Int
          /\ \A place \in Range(Places(Selected(m), m)) :
                 /\ Project(place.position) \in Int \X Int
                 /\ LabelSize(place.label) \in Nat \X Nat
                 /\ LabelSize(place.label)[1] <= bounds[3] - bounds[1]
                 /\ LabelSize(place.label)[2] <= bounds[4] - bounds[2]

VARIABLES
    mapReady,       \* the map's "load" event was there
    mode,           \* the tab
    manual,         \* manualRef.current: [from, to, answer, active]
    network,        \* network.json is loaded
    summary,        \* networkSummary: [loading, error]
    networkLayers,  \* check boxes that are set
    selectedCable,
    due,            \* effects that are to run
    sources,        \* the map has the network's sources and layers
    handlers,       \* click handlers on its cables
    visible,        \* its visible layers
    filter,         \* the cable its "network-selected" layer is filtered for
    camera,
    led             \* the camera was led away since it was on a cable: by a lookup
                    \* that ended, or a click on the tab that is open (history)

panelVars == <<mode, manual, networkLayers, selectedCable>>
fetchVars == <<network, summary>>
mapVars   == <<sources, handlers, visible, filter>>
workspaceVars == <<mapReady, panelVars, fetchVars, due, mapVars, camera, led>>

Tabs == {"routes", "network", "data"}

\* Mutation of Deps: the visibility effect does not list the network.
DepsUnlisted ==
    [fetch      |-> <<mode, network>>,
     sources    |-> <<mapReady, network>>,
     visibility |-> <<mapReady, mode, networkLayers, selectedCable>>,
     fit        |-> <<mapReady, mode, network, selectedCable>>]

\* The effects and their dependency lists.
Deps ==
    [fetch      |-> <<mode, network>>,
     sources    |-> <<mapReady, network>>,
     visibility |-> <<mapReady, mode, network, networkLayers, selectedCable>>,
     fit        |-> <<mapReady, mode, network, selectedCable>>]

\* A render: the effects whose dependencies changed are due.
Commit == due' = due \cup {e \in DOMAIN Deps : Deps'[e] # Deps[e]}

WorkspaceInit ==
    /\ mapReady = FALSE /\ mode = "routes" /\ manual = NoRoute
    /\ network = FALSE /\ summary = [loading |-> FALSE, error |-> FALSE]
    /\ networkLayers = Layers /\ selectedCable = NoCable
    /\ due = DOMAIN Deps
    /\ sources = FALSE /\ handlers = 0 /\ visible = {} /\ filter = NoCable
    /\ camera = "world" /\ led = FALSE

(******************************** the effects ******************************)

VisibleLayers ==
    IF mode # "network" THEN {}
    ELSE networkLayers \cup (IF Submarine \in networkLayers /\ selectedCable # NoCable
                             THEN {"selected"} ELSE {})

\* network.json is asked for unless it is there or on its way.
FetchEffect ==
    IF "fetch" \in due /\ mode # "routes" /\ ~network /\ ~summary.loading
    THEN summary' = [loading |-> TRUE, error |-> FALSE]
    ELSE UNCHANGED summary

\* The sources are added once; the clean-up of the run before takes its handlers.
SourcesEffect ==
    IF "sources" \in due
    THEN LET adds == mapReady /\ network /\ ~sources
         IN  sources' = (sources \/ adds) /\ handlers' = IF adds THEN 1 ELSE 0
    ELSE UNCHANGED <<sources, handlers>>

VisibilityEffect ==
    IF "visibility" \in due /\ mapReady /\ sources'
    THEN visible' = VisibleLayers /\ filter' = selectedCable
    ELSE UNCHANGED <<visible, filter>>

FitEffect ==
    IF "fit" \in due /\ mapReady /\ mode = "network" /\ network /\ selectedCable # NoCable
    THEN camera' = selectedCable /\ led' = FALSE
    ELSE UNCHANGED <<camera, led>>

Effects ==
    /\ due # {} /\ due' = {}
    /\ FetchEffect /\ SourcesEffect /\ VisibilityEffect /\ FitEffect
    /\ UNCHANGED <<mapReady, panelVars, network>>

(********************************* the events ******************************)

\* The map has loaded its style.
MapLoads ==
    /\ ~mapReady /\ mapReady' = TRUE
    /\ camera' = IF manual # NoRoute THEN "routes" ELSE "world"
    /\ UNCHANGED <<panelVars, fetchVars, mapVars, led>>
    /\ Commit

\* changeMode(), also for the tab that is open.
ChangeMode(next) ==
    /\ mode' = next
    /\ camera' = IF next = "routes" /\ manual # NoRoute THEN "routes" ELSE "world"
    /\ led' = (led \/ next = mode)
    /\ UNCHANGED <<mapReady, manual, networkLayers, selectedCable, fetchVars, mapVars>>
    /\ Commit

\* trace(): a route is drawn, and takes the camera on whatever tab.
Draw(m) ==
    /\ manual' = m /\ camera' = "routes" /\ led' = TRUE
    /\ UNCHANGED <<mapReady, mode, networkLayers, selectedCable, fetchVars, due, mapVars>>

\* A lookup ends, with the best candidate, or with an estimate if the answer has
\* none that is valid.
LookupEnds(l) == Draw(Picture(l, 1))

\* choose(): another candidate, on the routes tab.
Choose(i) ==
    /\ mode = "routes" /\ manual # NoRoute /\ i \in 1..Len(candidates(manual.answer))
    /\ Draw([manual EXCEPT !.active = i])

\* "Fit map", on the routes tab.
FitRoutes == mode = "routes" /\ manual # NoRoute /\ Draw(manual)

\* showLive(), from the routes tab.
ShowLive ==
    /\ mode = "routes"
    /\ manual' = NoRoute /\ camera' = "world"
    /\ UNCHANGED <<mapReady, mode, networkLayers, selectedCable, fetchVars, due, mapVars, led>>

\* The controls of the network tab; the list has the cables that are loaded.
MayControl == mode = "network" /\ ~summary.loading /\ ~summary.error

SelectCable(c) ==
    /\ MayControl /\ c \in (IF network THEN Cables ELSE {}) \cup {NoCable}
    /\ selectedCable' = c
    /\ UNCHANGED <<mapReady, mode, manual, networkLayers, fetchVars, mapVars, camera, led>>
    /\ Commit

Toggle(layer) ==
    /\ MayControl
    /\ networkLayers' = IF layer \in networkLayers THEN networkLayers \ {layer}
                        ELSE networkLayers \cup {layer}
    /\ UNCHANGED <<mapReady, mode, manual, selectedCable, fetchVars, mapVars, camera, led>>
    /\ Commit

\* chooseCable(): a click on a cable of the map.
ClickCable(c) ==
    /\ handlers > 0 /\ Submarine \in visible /\ c \in Cables
    /\ selectedCable' = c
    /\ UNCHANGED <<mapReady, mode, manual, networkLayers, fetchVars, mapVars, camera, led>>
    /\ Commit

\* The download ends with a network that is valid; one that has a cable without
\* properties, which validNetwork() does not see, is kept, and an error.
FetchOk ==
    /\ summary.loading
    /\ network' = TRUE
    /\ \E error \in BOOLEAN : summary' = [loading |-> FALSE, error |-> error]
    /\ UNCHANGED <<mapReady, panelVars, mapVars, camera, led>>
    /\ Commit

\* Mutation of FetchFails: the error is not kept.
FetchFailsQuietly ==
    /\ summary.loading
    /\ summary' = [loading |-> FALSE, error |-> FALSE]
    /\ UNCHANGED <<mapReady, panelVars, network, due, mapVars, camera, led>>

\* It fails, or what it brings is not valid.
FetchFails ==
    /\ summary.loading
    /\ summary' = [loading |-> FALSE, error |-> TRUE]
    /\ UNCHANGED <<mapReady, panelVars, network, due, mapVars, camera, led>>

WorkspaceNext ==
    \/ Effects \/ MapLoads \/ FitRoutes \/ ShowLive \/ FetchOk \/ FetchFails
    \/ \E l \in Lookups : LookupEnds(l)
    \/ \E i \in 1..3 : Choose(i)
    \/ \E next \in Tabs : ChangeMode(next)
    \/ \E c \in Cables \cup {NoCable} : SelectCable(c) \/ ClickCable(c)
    \/ \E layer \in Layers : Toggle(layer)

WorkspaceSpec == WorkspaceInit /\ [][WorkspaceNext]_workspaceVars

\* Fairness: React runs the effects that are due, and the browser settles
\* every request.
WorkspaceFairSpec ==
    /\ WorkspaceSpec
    /\ WF_workspaceVars(Effects)
    /\ WF_workspaceVars(FetchOk \/ FetchFails)

(******************************** properties *******************************)

\* Once no effect is due the map is what the panel says, in whatever order the
\* map, the network and the choices came: its layers, its filter, the handler
\* that makes a cable clickable, and its camera on the cable that is selected,
\* unless a lookup that ended or a click on the open tab has led it away.
MapFollowsPanel ==
    due = {} /\ mapReady /\ network =>
        /\ sources /\ handlers = 1
        /\ visible = VisibleLayers /\ filter = selectedCable
        /\ mode = "network" /\ selectedCable # NoCable /\ ~led => camera = selectedCable

\* Who opens the atlas gets it, or is told that it cannot be loaded.
AtlasArrives ==
    mode = "network" ~> (sources \/ summary.error \/ mode # "network" \/ ~mapReady)

\* What is on the map is what is traced, on the routes tab alone.
Drawn == IF mapReady /\ mode = "routes" /\ manual # NoRoute
         THEN Range(candidates(manual.answer)) ELSE {}

\* The lines of a route are the points that the service sent, in one piece,
\* without a streak across the map at the antimeridian or where a segment
\* starts: each begins where the one before it ends, and is a part of the path
\* that the pulse and the camera follow, though each segment and the path are
\* unwrapped apart from one another.
LinesJoin ==
    \A r \in Drawn :
        LET lines == Lines(r, manual)
            path  == Path(r, manual)
        IN  /\ \A i \in 1..Len(lines) : \A k \in 1..Len(lines[i].path) :
                  SamePoint(lines[i].path[k], Segments(r, manual)[i].path[k])
            /\ \A i \in 2..Len(lines) : lines[i].path[1] = Last(lines[i - 1].path)
            /\ \A k \in 2..Len(path) : 2 * (path[k][1] - path[k - 1][1]) \in -Turn..Turn
            /\ \A i \in 1..Len(lines) : lines[i].path \in SubSeqs(path)

\* The stops of the panel that have a place on the map: those that are not a
\* city of the lookup, by name or at an end of the path.
InnerStops(route, m) ==
    {name \in Range(routeStops(route)) \ {"", m.from.name, m.to.name} :
        \E i \in 1..Len(Ends(route, m)) :
            /\ Ends(route, m)[i].label = name
            /\ ~isPathEndpoint(Ends(route, m)[i].position, Path(route, m))}

InOrder(labels, stops) ==
    \E at \in [1..Len(labels) -> 1..Len(stops)] :
        /\ \A i \in 1..Len(labels) : stops[at[i]] = labels[i]
        /\ \A i, j \in 1..Len(labels) : i < j => at[i] < at[j]

\* The numbered places on the map are the stops in the panel, in its order: each
\* once, none at the ends of the route or with a city's name, and no other stop
\* is missing.
PlacesAreStops ==
    \A r \in Drawn :
        LET places == Places(r, manual)
            labels == [i \in 1..Len(places) |-> places[i].label]
        IN  /\ IsInjective(labels) /\ InOrder(labels, routeStops(r))
            /\ Range(labels) = InnerStops(r, manual)

\* Labels of places are on the screen and cover neither each other nor the
\* badge, unless a label had no free place left in any row.
LabelsApart ==
    Drawn # {} =>
        LET boxes  == LabelBoxes(manual)
            places == Places(Selected(manual), manual)
        IN  \A i \in 2..Len(boxes) :
                LET before == SubSeq(boxes, 1, i - 1)
                    size   == LabelSize(places[i - 1].label)
                IN  \/ /\ \A j \in 1..Len(before) : ~overlaps(boxes[i], before[j])
                       /\ boxes[i][1] >= bounds[1] /\ boxes[i][2] >= bounds[2]
                       /\ boxes[i][3] <= bounds[3] /\ boxes[i][4] <= bounds[4]
                    \/ \A try \in Tries :
                          LET box == TryBox(try, Project(places[i - 1].position), size, bounds)
                          IN  \E j \in 1..Len(before) : overlaps(box, before[j])
=============================================================================
