---------------------------- MODULE RouteDrawing ----------------------------
(***************************************************************************)
(* How a traced route is drawn: candidates() of phase4/src/trace.tsx, and  *)
(* trace() and the place labels of phase4/src/App.tsx, with unwrapPath()   *)
(* and isPathEndpoint() of phase4/src/geo.ts.                              *)
(*                                                                         *)
(* A point is <<longitude, latitude>> in integers, a full circle having    *)
(* Turn units.  An answer of the route service is a sequence of routes,    *)
(* the best one and its alternatives: [valid, path, segments], where valid *)
(* is what candidate() finds, and a segment is [kind, from, to, path].     *)
(* What is drawn is [from, to, answer, active], the cities being           *)
(* [name, lon].  No operator here has a state.                             *)
(***************************************************************************)
EXTENDS LabelLayout, SequencesExt

CONSTANTS Turn,
          Project(_),       \* map.project(): a point to <<x, y>> on the screen
          LabelSize(_),     \* [width, height] of a label
          BadgeSize,        \* of the badge of the selected route
          bounds            \* the screen that the panel leaves free

ASSUME DrawingAssumption == Turn \in Nat \ {0} /\ Turn % 2 = 0

(****************************** candidates() ******************************)

\* Nothing without a valid best route; else it and what is valid of the first
\* two alternatives.
candidates(answer) ==
    LET alternative(i) ==
            IF i \in 1..Len(answer) /\ answer[i].valid THEN <<answer[i]>> ELSE <<>>
    IN  IF answer = <<>> \/ ~answer[1].valid THEN <<>>
        ELSE <<answer[1]>> \o alternative(2) \o alternative(3)

\* The stops that the panel lists.
routeStops(route) ==
    LET segments == route.segments
        stops[i \in 0..Len(segments)] ==
            IF i = 0 THEN <<segments[1].from>>
            ELSE LET before == stops[i - 1]
                 IN  IF Last(before) = segments[i].to THEN before
                     ELSE Append(before, segments[i].to)
    IN  IF segments = <<>> THEN <<>> ELSE stops[Len(segments)]

(********************************* geometry *******************************)

\* Math.round(d / Turn)
Turns(d) == (2 * d + Turn) \div (2 * Turn)

\* unwrapPath(): every longitude within half a turn of the one before it, the
\* first one of ref.
unwrapPath(path, ref) ==
    LET lon[i \in 0..Len(path)] ==
            IF i = 0 THEN ref ELSE path[i][1] - Turn * Turns(path[i][1] - lon[i - 1])
    IN  [i \in 1..Len(path) |-> <<lon[i], path[i][2]>>]

isPathEndpoint(position, path) == position \in {path[1], Last(path)}

SamePoint(p, q) == (p[1] - q[1]) % Turn = 0 /\ p[2] = q[2]

\* The part is what the path is after its first start points.
LiesAt(part, path, start) ==
    /\ start + Len(part) <= Len(path)
    /\ \A k \in 1..Len(part) : SamePoint(part[k], path[start + k])

(********************************* trace() ********************************)

\* A route without segments is one estimate.
Segments(route, m) ==
    IF route.segments # <<>> THEN route.segments
    ELSE <<[kind |-> "estimate", from |-> m.from.name, to |-> m.to.name,
            path |-> route.path]>>

Path(route, m) == unwrapPath(route.path, m.from.lon)

\* Mutation of Lines: every segment starts over from the source.
LinesApart(route, m) ==
    [i \in 1..Len(Segments(route, m)) |->
        [kind |-> Segments(route, m)[i].kind,
         path |-> unwrapPath(Segments(route, m)[i].path, m.from.lon)]]

\* The lines of a route: a segment goes on where the one before it ended.
Lines(route, m) ==
    LET segments == Segments(route, m)
        path[i \in 1..Len(segments)] ==
            unwrapPath(segments[i].path,
                       IF i = 1 THEN m.from.lon ELSE Last(path[i - 1])[1])
    IN  [i \in 1..Len(segments) |-> [kind |-> segments[i].kind, path |-> path[i]]]

\* The ends of the segments with their names, along the route.
Ends(route, m) ==
    LET lines == Lines(route, m)
        segments == Segments(route, m)
    IN  [n \in 1..(2 * Len(lines)) |->
            LET i == (n + 1) \div 2
            IN  IF n % 2 = 1
                THEN [label |-> segments[i].from, position |-> lines[i].path[1]]
                ELSE [label |-> segments[i].to, position |-> Last(lines[i].path)]]

\* Mutation of IsPlace: a place may be named again.
IsPlaceAgain(end, places, route, m) ==
    /\ end.label \notin {"", m.from.name, m.to.name}
    /\ ~isPathEndpoint(end.position, Path(route, m))

\* addPlace(): whether an end becomes a place, after those that are.
IsPlace(end, places, route, m) ==
    /\ end.label \notin {"", m.from.name, m.to.name}
    /\ \A i \in 1..Len(places) : places[i].label # end.label
    /\ ~isPathEndpoint(end.position, Path(route, m))

\* The places of a route, numbered in this order.
Places(route, m) ==
    LET ends == Ends(route, m)
        places[n \in 0..Len(ends)] ==
            IF n = 0 THEN <<>>
            ELSE LET before == places[n - 1]
                 IN  IF IsPlace(ends[n], before, route, m) THEN Append(before, ends[n])
                     ELSE before
    IN  places[Len(ends)]

(****************************** place labels ******************************)

Selected(m) == candidates(m.answer)[m.active]

\* Where the badge of the selected route is: 42 % along its vertices.
BadgeBox(m) ==
    LET path  == Path(Selected(m), m)
        point == Project(path[((Len(path) - 1) * 42) \div 100 + 1])
        y     == point[2] + (m.active - 2) * 27
    IN  <<point[1] - BadgeSize[1] \div 2, y - BadgeSize[2] \div 2,
          point[1] + BadgeSize[1] \div 2, y + BadgeSize[2] \div 2>>

\* The badge and the labels of the selected route's places, each placed after
\* those before it.
LabelBoxes(m) ==
    LET places == Places(Selected(m), m)
        boxes[i \in 0..Len(places)] ==
            IF i = 0 THEN <<BadgeBox(m)>>
            ELSE LET before == boxes[i - 1]
                 IN  Append(before, placeLabel(Project(places[i].position),
                                               LabelSize(places[i].label), before, bounds))
    IN  boxes[Len(places)]
=============================================================================
