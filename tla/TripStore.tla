------------------------------ MODULE TripStore ------------------------------
(***************************************************************************)
(* The kiosk's fixed-capacity store of animated trips: phase4/src/trips.ts.*)
(*                                                                         *)
(* Trips are appended; their vertices live in arrays of VERTEX_BUDGET      *)
(* entries, the trips of the list one after the other.  A full store first *)
(* drops the expired trips at its front, then its oldest trip.  prune()    *)
(* runs on every animation tick.  data() caches the payload for the GPU    *)
(* until the set of trips changes.                                         *)
(*                                                                         *)
(* A vertex is the trip it was written for and its index in that trip.     *)
(* Time is performance.now(); MaxNow and MaxAdds are bounds.               *)
(***************************************************************************)
EXTENDS FiniteSets, Integers, Sequences

CONSTANTS MAX_TRIPS, MAX_POINTS_PER_TRIP, VERTEX_BUDGET, TRAIL_MS,
          Paths,          \* numbers of points a path may have
          Durations,      \* what `dur` may come out as
          MaxNow, MaxAdds

ASSUME StoreAssumption ==
    /\ MAX_TRIPS \in Nat \ {0} /\ MAX_POINTS_PER_TRIP \in Nat \ {0, 1}
    /\ VERTEX_BUDGET \in Nat /\ MAX_POINTS_PER_TRIP <= VERTEX_BUDGET
    /\ TRAIL_MS \in Nat /\ Paths \subseteq Nat /\ Durations \subseteq Nat
    /\ MaxNow \in Nat /\ MaxAdds \in Nat

VARIABLES
    trips,        \* oldest first: [id, t0, t1, nPoints, offset]
    nextVertex,
    vertices,     \* positions, timestamps, colors and widths
    dirty,
    payload,      \* _data: what data() built last
    dropped,
    now,
    adds,         \* calls of add() so far; numbers the trips
    pruned        \* the store was pruned at this time, and nothing since

storeVars == <<trips, nextVertex, vertices, dirty, payload, dropped, now,
               adds, pruned>>

NoVertex == <<0, 0>>
NoPayload == [startIndices |-> <<>>, path |-> <<>>]

StoreInit ==
    /\ trips = <<>> /\ nextVertex = 0
    /\ vertices = [v \in 0..(VERTEX_BUDGET - 1) |-> NoVertex]
    /\ dirty = TRUE /\ payload = NoPayload /\ dropped = 0
    /\ now = 0 /\ adds = 0 /\ pruned = FALSE

(***************************** compact, prune *****************************)

\* The part of the store that compact() works on.
Store(ts, vs, next) == [trips |-> ts, vertices |-> vs, next |-> next]

Expired(t) == t.t1 < now - TRAIL_MS

\* Mutation of Faded: one trip per tick.
FadedOne(ts) == IF ts # <<>> /\ Expired(ts[1]) THEN 1 ELSE 0

\* The number of expired trips at the front: the scan stops at the first trip
\* that is not.
Faded(ts) ==
    CHOOSE n \in 0..Len(ts) :
        /\ \A i \in 1..n : Expired(ts[i])
        /\ n = Len(ts) \/ ~Expired(ts[n + 1])

After(ts, n) == SubSeq(ts, n + 1, Len(ts))

\* The places that the first n trips of ts take: one for each of their vertices.
Places(ts, n) ==
    {v \in (1..n) \X (1..MAX_POINTS_PER_TRIP) : v[2] <= ts[v[1]].nPoints}

Width(ts, n) == Cardinality(Places(ts, n))

\* The trip that vertex v is of, if the trips lie one after the other.
Owner(ts, v) ==
    CHOOSE i \in 1..Len(ts) : Width(ts, i - 1) <= v /\ v < Width(ts, i)

\* The vertices slide down to where their trips begin now.
Slid(ts, vs) ==
    [v \in DOMAIN vs |->
        IF v < Width(ts, Len(ts))
        THEN vs[ts[Owner(ts, v)].offset + (v - Width(ts, Owner(ts, v) - 1))]
        ELSE vs[v]]

\* Mutation of Repacked: vertices move, offsets do not.
RepackedKeepsOffsets(s) ==
    Store(s.trips, Slid(s.trips, s.vertices), Width(s.trips, Len(s.trips)))

\* The forward pass of compact(): every trip slides down to the end of the
\* one before it.
Repacked(s) ==
    Store([i \in 1..Len(s.trips) |->
              [s.trips[i] EXCEPT !.offset = Width(s.trips, i - 1)]],
          Slid(s.trips, s.vertices), Width(s.trips, Len(s.trips)))

DropFront(s, n) == Repacked(Store(After(s.trips, n), s.vertices, s.next))

\* compact(now): nothing expired in front, nothing done.
Compact(s) == IF Faded(s.trips) = 0 THEN s ELSE DropFront(s, Faded(s.trips))

Current == Store(trips, vertices, nextVertex)

Becomes(s) ==
    /\ trips' = s.trips /\ vertices' = s.vertices /\ nextVertex' = s.next

\* prune(now), at the end of the kiosk's tick.
Prune ==
    /\ Becomes(Compact(Current))
    /\ dirty' = (dirty \/ Faded(trips) > 0)
    /\ pruned' = TRUE
    /\ UNCHANGED <<payload, dropped, now, adds>>

(*********************************** add **********************************)

Min2(a, b) == IF a <= b THEN a ELSE b

Full(s, n) == s.next + n > VERTEX_BUDGET \/ Len(s.trips) >= MAX_TRIPS

\* Room for n vertices: expire, else drop the oldest.
MakeRoom(s, n) ==
    IF ~Full(s, n) THEN s
    ELSE IF ~Full(Compact(s), n) THEN Compact(s)
    ELSE DropFront(Compact(s), 1)

\* Mutation of Fits: the second look at the budget is missing.
FitsAlways(s, n) == TRUE

Fits(s, n) == s.next + n <= VERTEX_BUDGET

Shifts(s, n) == Full(s, n) /\ Full(Compact(s), n)

Written(s, n, dur) ==
    Store(Append(s.trips, [id |-> adds + 1, t0 |-> now, t1 |-> now + dur,
                           nPoints |-> n, offset |-> s.next]),
          [v \in DOMAIN s.vertices |->
              IF v \in s.next..(s.next + n - 1)
              THEN <<adds + 1, v - s.next>> ELSE s.vertices[v]],
          s.next + n)

\* add(): a trip for which dropping the oldest made too little room is lost,
\* and not counted.
Add(points, dur) ==
    /\ adds < MaxAdds /\ points >= 2
    /\ adds' = adds + 1
    /\ LET n == Min2(points, MAX_POINTS_PER_TRIP)
           s == MakeRoom(Current, n)
           fits == Fits(s, n)
       IN  /\ Becomes(IF fits THEN Written(s, n, dur) ELSE s)
           /\ dirty' = (dirty \/ fits \/ s # Current)
           /\ dropped' = IF Shifts(Current, n) THEN dropped + 1 ELSE dropped
    /\ pruned' = FALSE
    /\ UNCHANGED <<payload, now>>

(********************************* the rest *******************************)

\* clear(): the layers switch between live and replay.
Clear ==
    /\ trips' = <<>> /\ nextVertex' = 0 /\ dirty' = TRUE
    /\ pruned' = FALSE
    /\ UNCHANGED <<vertices, payload, dropped, now, adds>>

StartIndices(ts) == [i \in 1..(Len(ts) + 1) |-> Width(ts, i - 1)]

Prefix(vs, n) == [i \in 1..n |-> vs[i - 1]]

\* data(): the payload is rebuilt only after a change.
Data ==
    /\ payload' = IF dirty \/ payload = NoPayload
                  THEN [startIndices |-> StartIndices(trips),
                        path |-> Prefix(vertices, Width(trips, Len(trips)))]
                  ELSE payload
    /\ dirty' = FALSE
    /\ UNCHANGED <<trips, nextVertex, vertices, dropped, now, adds, pruned>>

Elapse ==
    /\ now < MaxNow /\ now' = now + 1 /\ pruned' = FALSE
    /\ UNCHANGED <<trips, nextVertex, vertices, dirty, payload, dropped, adds>>

StoreNext ==
    \/ \E points \in Paths, dur \in Durations : Add(points, dur)
    \/ Prune \/ Clear \/ Data \/ Elapse

StoreSpec == StoreInit /\ [][StoreNext]_storeVars

(******************************** properties *******************************)

\* "Nothing grows": the trips lie one after the other from the start of the
\* arrays, which is what data() assumes when it computes startIndices from
\* lengths alone, and neither the list nor the arrays exceed their capacity.
PackedInCapacity ==
    /\ \A i \in 1..Len(trips) : trips[i].offset = Width(trips, i - 1)
    /\ nextVertex = Width(trips, Len(trips))
    /\ Len(trips) <= MAX_TRIPS /\ nextVertex <= VERTEX_BUDGET

\* What the GPU draws is the trips of the store, each with the vertices that were
\* written for it, in their places: the payload is never older than the trips,
\* and sliding their ranges over each other mixes no two of them.
PayloadDrawsTrips ==
    ~dirty /\ payload # NoPayload =>
        /\ payload.startIndices = StartIndices(trips)
        /\ payload.path = Prefix(vertices, nextVertex)
        /\ \A i \in 1..Len(trips) : \A j \in 0..(trips[i].nPoints - 1) :
              payload.path[payload.startIndices[i] + j + 1] = <<trips[i].id, j>>

\* A trip outlives its own fade only behind an older one: whatever the order
\* of durations, a tick leaves none that started longer ago than the longest
\* animation and its trail.
OverstayBounded ==
    pruned => \A i \in 1..Len(trips) :
        \E d \in Durations : now <= trips[i].t0 + d + TRAIL_MS
=============================================================================
