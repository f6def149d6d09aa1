----------------------------- MODULE EntityTable -----------------------------
(***************************************************************************)
(* The stream server's aggregation: what onRtt() does once a route is      *)
(* resolved, onVol(), and the 125 ms tick (stream/src/index.ts).           *)
(*                                                                         *)
(* Destinations are folded into entities, one per city.  dstToKey          *)
(* remembers the entity an address was last folded into, so that volume    *)
(* lines, which carry no route, find it.  Both are capped: dstToKey gives  *)
(* up its oldest insertion, entities the one not seen for longest.         *)
(*                                                                         *)
(* A route stands for a resolver answer: label, method, confidence, path.  *)
(* Drawable are the answers with a path and a known method.  A mean is     *)
(* represented by the sequence of values it is the mean of.  now is        *)
(* Date.now(), in ticks; MaxNow bounds it, MaxLines the tap lines.         *)
(***************************************************************************)
EXTENDS InsertionMap, FiniteSets, SequencesExt

CONSTANTS Ips, Routes,
          Drawable,           \* routes that onRtt() accepts
          KeyOf(_, _),        \* KeyOf(route, ip): the city, or the ip without one
          Rtts, Volumes,      \* values of the lines
          MaxEntities, MaxDst,    \* MAX_ENTITIES, MAX_DST_MAP
          WINDOW, RETAIN,     \* WINDOW_MS, RETAIN_MS
          MaxNow, MaxLines

ASSUME TableAssumption ==
    /\ MaxEntities \in Nat \ {0} /\ MaxDst \in Nat \ {0}
    /\ WINDOW \in Nat /\ RETAIN \in Nat /\ WINDOW <= RETAIN
    /\ Drawable \subseteq Routes /\ Rtts \subseteq Nat /\ Volumes \subseteq Nat

VARIABLES
    entities,    \* Map: key -> Agg
    dstToKey,    \* Map: ip -> key
    now,         \* Date.now()
    frame,       \* the entities of the last frame that was broadcast
    lines,       \* lines applied (bound only)
    folded       \* the key each ip was last folded into (history)

tableVars == <<entities, dstToKey, now, frame, lines, folded>>

TableInit ==
    /\ entities = <<>> /\ dstToKey = <<>>
    /\ now = 0 /\ lines = 0
    /\ frame = [at |-> 0, entities |-> <<>>]
    /\ folded = <<>>

(****************************** onRtt, onVol ******************************)

LastSeenAt(i) == entities[i].val.lastSeen

\* Mutation of OldestIndex: the first insertion instead of the least recent.
FirstInserted == 1

\* The entity to evict: least recently seen, the first insertion on a tie.
OldestIndex ==
    Min({i \in 1..Len(entities) :
            \A j \in 1..Len(entities) : LastSeenAt(i) <= LastSeenAt(j)})

MakeRoom ==
    IF Len(entities) >= MaxEntities THEN RemoveIndex(entities, OldestIndex)
    ELSE entities

FreshAgg(route) ==
    [route |-> route, rtts |-> <<>>, volumes |-> <<>>,
     lastRtt |-> 0, lastSeen |-> now, dirty |-> FALSE]

\* The assignments onRtt() ends with.
Updated(agg, route, rtt) ==
    [agg EXCEPT !.rtts = Append(@, [t |-> now, value |-> rtt]),
                !.lastRtt = rtt, !.lastSeen = now,
                !.route = route, !.dirty = TRUE]

\* onRtt() after `await resolve()`: one line for ip, answered by route.
ApplyRtt(ip, rtt, route) ==
    IF route \in Drawable
    THEN LET key   == KeyOf(route, ip)
             known == key \in MapKeys(entities)
             agg   == IF known THEN MapGet(entities, key) ELSE FreshAgg(route)
             room  == IF known THEN entities ELSE MakeRoom
         IN  /\ dstToKey' = Capped(dstToKey, ip, key, MaxDst)
             /\ entities' = MapSet(room, key, Updated(agg, route, rtt))
             /\ folded' = MapSet(folded, ip, key)
             /\ UNCHANGED <<now, frame>>
    ELSE UNCHANGED <<entities, dstToKey, now, frame, folded>>

\* The entity the volume of ip belongs to; none, if ip or its entity is gone.
CreditedKey(ip) ==
    IF ip \in MapKeys(dstToKey) /\ MapGet(dstToKey, ip) \in MapKeys(entities)
    THEN {MapGet(dstToKey, ip)} ELSE {}

\* Mutation of VolumeUpdate: the entity is not marked dirty.
VolumeUpdateQuiet(agg, bytes) ==
    [agg EXCEPT !.volumes = Append(@, [t |-> now, value |-> bytes]),
                !.lastSeen = now]

VolumeUpdate(agg, bytes) ==
    [agg EXCEPT !.volumes = Append(@, [t |-> now, value |-> bytes]),
                !.lastSeen = now, !.dirty = TRUE]

\* onVol(): the volume of an address nothing is known of is dropped.
ApplyVol(ip, bytes) ==
    /\ entities' = IF CreditedKey(ip) = {} THEN entities
                   ELSE LET key == CHOOSE k \in CreditedKey(ip) : TRUE
                        IN  MapSet(entities, key,
                                   VolumeUpdate(MapGet(entities, key), bytes))
    /\ UNCHANGED <<dstToKey, now, frame, folded>>

(********************************** tick **********************************)

\* s.filter(): the elements of s at the indices in I, in their order.
Filtered(s, I) ==
    [k \in 1..Cardinality(I) |->
        s[CHOOSE i \in I : Cardinality({j \in I : j <= i}) = k]]

Recent(samples) ==
    Filtered(samples, {i \in 1..Len(samples) : now - samples[i].t <= WINDOW})

Aged == [i \in 1..Len(entities) |->
            [entities[i] EXCEPT !.val.rtts = Recent(@), !.val.volumes = Recent(@)]]

\* Entities not seen for RETAIN are deleted, dirty or not.
Survivors ==
    Filtered(Aged, {i \in 1..Len(entities) : now - LastSeenAt(i) <= RETAIN})

ValuesOf(samples) == [i \in 1..Len(samples) |-> samples[i].value]

Rendered(e) ==
    [key |-> e.key, route |-> e.val.route,
     mean |-> IF e.val.rtts = <<>> THEN <<e.val.lastRtt>> ELSE ValuesOf(e.val.rtts),
     bytes |-> SumFunction(ValuesOf(e.val.volumes))]

\* The entities of the frame this tick sends: the dirty ones, as they are now.
Out == LET dirty == Filtered(Survivors,
                        {i \in 1..Len(Survivors) : Survivors[i].val.dirty})
       IN  [i \in 1..Len(dirty) |-> Rendered(dirty[i])]

Clean(m) == [i \in 1..Len(m) |-> [m[i] EXCEPT !.val.dirty = FALSE]]

\* What a frame says of an entity, for the history.
Said(e) == [route |-> e.val.route, rtt |-> e.val.lastRtt, seen |-> e.val.lastSeen]

SaidOf(m) == [k \in {m[i].key : i \in {j \in 1..Len(m) : m[j].val.dirty}} |->
                 Said([key |-> k, val |-> MapGet(m, k)])]

\* The interval timer: age, expire, send what changed.  Nothing changed: no
\* frame.
Tick ==
    /\ entities' = Clean(Survivors)
    /\ frame' = IF Out = <<>> THEN frame ELSE [at |-> now, entities |-> Out]
    /\ UNCHANGED <<dstToKey, now, folded>>

(******************************** the table *******************************)

Elapse ==
    /\ now < MaxNow /\ now' = now + 1
    /\ UNCHANGED <<entities, dstToKey, frame, folded>>

CountLine == lines < MaxLines /\ lines' = lines + 1

RttLine(ip, rtt, route) == CountLine /\ ApplyRtt(ip, rtt, route)
VolLine(ip, bytes)      == CountLine /\ ApplyVol(ip, bytes)

TableNext ==
    \/ \E ip \in Ips, rtt \in Rtts, route \in Routes : RttLine(ip, rtt, route)
    \/ \E ip \in Ips, bytes \in Volumes : VolLine(ip, bytes)
    \/ Tick /\ UNCHANGED lines
    \/ Elapse /\ UNCHANGED lines

TableSpec == TableInit /\ [][TableNext]_tableVars

(******************************** properties *******************************)

\* An entity leaves the table because it was idle for RETAIN, or, from a full
\* table, because none that stays was heard from longer ago.
OnlyIdleLeave ==
    [][\A k \in MapKeys(entities) \ MapKeys(entities') :
          LET seen == MapGet(entities, k).lastSeen
          IN  \/ now - seen > RETAIN
              \/ /\ Len(entities) = MaxEntities
                 /\ \A i \in 1..Len(entities') :
                        seen <= entities'[i].val.lastSeen]_tableVars

\* Volume follows the address: once an address was folded into another
\* entity, its volume is never credited to the one before.
VolumeFollowsRoute ==
    \A ip \in MapKeys(dstToKey) : MapGet(dstToKey, ip) = MapGet(folded, ip)
=============================================================================
