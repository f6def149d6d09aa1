---------------------------- MODULE InsertionMap ----------------------------
(***************************************************************************)
(* A JavaScript Map: an association that remembers the order in which its  *)
(* keys were inserted.  A map is a sequence of [key, val] records with     *)
(* distinct keys, oldest insertion first; setting a key that is present    *)
(* keeps its place.  capped() of stream/src/index.ts is Capped.            *)
(***************************************************************************)
EXTENDS Naturals, Sequences

MapKeys(m) == {m[i].key : i \in 1..Len(m)}

IndexOfKey(m, k) == CHOOSE i \in 1..Len(m) : m[i].key = k

\* m.get(k), for a key that is present
MapGet(m, k) == m[IndexOfKey(m, k)].val

\* m.set(k, v)
MapSet(m, k, v) ==
    IF k \in MapKeys(m) THEN [m EXCEPT ![IndexOfKey(m, k)].val = v]
    ELSE Append(m, [key |-> k, val |-> v])

RemoveIndex(m, i) == SubSeq(m, 1, i - 1) \o SubSeq(m, i + 1, Len(m))

\* m.delete(k): a key that is absent is no error
MapDelete(m, k) ==
    IF k \in MapKeys(m) THEN RemoveIndex(m, IndexOfKey(m, k)) ELSE m

\* Mutation of Capped: a key that is present keeps its value.
CappedKeepsValue(m, k, v, max) ==
    IF k \in MapKeys(m) THEN m
    ELSE IF Len(m) >= max THEN MapSet(Tail(m), k, v) ELSE MapSet(m, k, v)

\* capped(m, k, v, max): a new key evicts the oldest insertion of a full map
Capped(m, k, v, max) ==
    IF k \notin MapKeys(m) /\ Len(m) >= max
    THEN MapSet(Tail(m), k, v) ELSE MapSet(m, k, v)

\* The key that Capped evicts, as a set: at most one.
CappedEvicts(m, k, max) ==
    IF k \notin MapKeys(m) /\ Len(m) >= max THEN {Head(m).key} ELSE {}
=============================================================================
