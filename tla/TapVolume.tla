------------------------------ MODULE TapVolume ------------------------------
(***************************************************************************)
(* Volume accounting in the tap: the bytes_by_dst map that every CPU's     *)
(* handle() adds to (tap/src/downlink.bpf.c) and that drain_bytes() reads  *)
(* and empties once a second (tap/src/main.c).                             *)
(*                                                                         *)
(* A packet is accounted in two steps, a lookup that yields a pointer to   *)
(* the element and an atomic add through it, or an insert if there was     *)
(* none.  A drain walks the keys, reading every element, then deletes the  *)
(* keys it read, then prints them.  Nothing excludes the two.              *)
(*                                                                         *)
(* The map is the kernel's LRU hash (external): its elements are           *)
(* preallocated, a deleted one is reused, and when none is free an insert  *)
(* evicts some key.  get_next_key() goes through the keys in the order of  *)
(* their hashes, here their numbers, and starts over when the key it is    *)
(* given is gone.  Lines are printed in the order of the walk.  Packets    *)
(* have one byte; MaxPackets and MaxDrains bound a behaviour, MaxWalk the  *)
(* length of a walk that starts over.                                      *)
(***************************************************************************)
EXTENDS TapProgram, FiniteSets, Integers, Sequences

CONSTANTS Dsts,           \* remote addresses, in the order of their hashes
          Elements,       \* the map's preallocated elements: max_entries
          MaxPackets, MaxDrains, MaxWalk

ASSUME VolumeAssumption ==
    /\ Dsts \subseteq Nat /\ IsFiniteSet(Dsts) /\ IsFiniteSet(CPUs)
    /\ None \notin Dsts \cup Elements
    /\ MaxPackets \in Nat /\ MaxDrains \in Nat /\ MaxWalk \in Nat

VARIABLES
    elem,        \* bytes_by_dst: destination -> its element, or None
    bytes,       \* the value in each element
    acct,        \* what each CPU's handle() is doing: [pc, dst, ptr]
    drain,       \* "idle", "next", "read", "delete" or "print"
    key,         \* drain_bytes(): the last key walked, or None
    v,           \* drain_bytes(): what was read, [dst, bytes] in order
    done,        \* drain_bytes(): how many of v are deleted, or printed
    drains,
    seen,        \* bytes of the packets seen, per destination (history)
    emitted,     \* bytes printed, per destination (history)
    evicted,     \* what drain was when an insert evicted a key (history)
    raced        \* two of the actors were in the middle of it at once (history)

mapVars == <<elem, bytes>>
drainVars == <<drain, key, v, done, drains>>
volumeVars == <<mapVars, acct, drainVars, seen, emitted, evicted, raced>>

IdleAcct == [pc |-> "idle", dst |-> None, ptr |-> None]
Free == Elements \ {elem[d] : d \in Dsts}
Resident == {d \in Dsts : elem[d] # None}

\* The sum of f, counted one by one.
Total(f) == Cardinality(UNION {{d} \X (1..f[d]) : d \in Dsts})
Busy == Cardinality({c \in CPUs : acct[c].pc # "idle"})

VolumeInit ==
    /\ elem = [d \in Dsts |-> None]
    /\ bytes = [e \in Elements |-> 0]
    /\ acct = [c \in CPUs |-> IdleAcct]
    /\ drain = "idle" /\ key = None /\ v = <<>> /\ done = 0 /\ drains = 0
    /\ seen = [d \in Dsts |-> 0] /\ emitted = [d \in Dsts |-> 0]
    /\ raced = FALSE /\ evicted = {}

(********************************* handle() *******************************)

\* A packet from or to dst: bp = bpf_map_lookup_elem().
LookupBytes(c, dst) ==
    /\ acct[c].pc = "idle" /\ Total(seen) < MaxPackets
    /\ acct' = [acct EXCEPT ![c] =
                  [pc |-> IF elem[dst] = None THEN "insert" ELSE "add",
                   dst |-> dst, ptr |-> elem[dst]]]
    /\ seen' = [seen EXCEPT ![dst] = @ + 1]
    /\ raced' = (raced \/ Busy > 0 \/ drain # "idle")
    /\ UNCHANGED <<mapVars, drainVars, emitted, evicted>>

\* __sync_fetch_and_add(bp, len): the element may have been deleted since, or
\* be another destination's by now.
AddBytes(c) ==
    /\ acct[c].pc = "add"
    /\ bytes' = [bytes EXCEPT ![acct[c].ptr] = @ + 1]
    /\ acct' = [acct EXCEPT ![c] = IdleAcct]
    /\ UNCHANGED <<elem, drainVars, seen, emitted, evicted, raced>>

\* The elements an insert of dst may use, each with the key it is taken from.
Allocations(dst) ==
    IF Free # {} THEN {<<e, None>> : e \in Free}
    ELSE {<<elem[d], d>> : d \in Resident \ {dst}}

\* bpf_map_update_elem(..., BPF_ANY): a new element with this packet's bytes,
\* in place of the one that another CPU may have inserted meanwhile.
InsertBytes(c) ==
    /\ acct[c].pc = "insert"
    /\ \E a \in Allocations(acct[c].dst) :
          /\ bytes' = [bytes EXCEPT ![a[1]] = 1]
          /\ evicted' = IF a[2] = None THEN evicted ELSE evicted \cup {drain}
          /\ elem' = [d \in Dsts |-> IF d = acct[c].dst THEN a[1]
                                     ELSE IF d = a[2] THEN None ELSE elem[d]]
    /\ acct' = [acct EXCEPT ![c] = IdleAcct]
    /\ UNCHANGED <<drainVars, seen, emitted, raced>>

(****************************** drain_bytes() *****************************)

DrainStarts ==
    /\ drain = "idle" /\ drains < MaxDrains
    /\ drain' = "next" /\ key' = None /\ v' = <<>> /\ done' = 0
    /\ drains' = drains + 1
    /\ raced' = (raced \/ Busy > 0)
    /\ UNCHANGED <<mapVars, acct, seen, emitted, evicted>>

\* The keys after the last one; all of them if that one is gone.
KeysAhead ==
    IF key = None \/ key \notin Resident THEN Resident
    ELSE {d \in Resident : d > key}

\* bpf_map_get_next_key()
GetNextKey ==
    /\ drain = "next"
    /\ \/ /\ KeysAhead = {} /\ drain' = "delete"
          /\ UNCHANGED key
       \/ /\ KeysAhead # {} /\ Len(v) < MaxWalk
          /\ key' \in KeysAhead /\ \A d \in KeysAhead : key' <= d
          /\ drain' = "read"
    /\ UNCHANGED <<mapVars, acct, v, done, drains, seen, emitted, evicted, raced>>

\* bpf_map_lookup_elem(): a key that is gone already is skipped.
ReadElement ==
    /\ drain = "read" /\ drain' = "next"
    /\ v' = IF elem[key] = None THEN v
            ELSE Append(v, [dst |-> key, bytes |-> bytes[elem[key]]])
    /\ UNCHANGED <<mapVars, acct, key, done, drains, seen, emitted, evicted, raced>>

\* Mutation of DeleteKey: the key stays, with the bytes reported.
DeleteKeySkipped ==
    /\ drain = "delete" /\ done < Len(v)
    /\ done' = done + 1
    /\ UNCHANGED <<mapVars, acct, drain, key, v, drains, seen, emitted, evicted,
                   raced>>

\* bpf_map_delete_elem(), for each key that was read.
DeleteKey ==
    /\ drain = "delete" /\ done < Len(v)
    /\ done' = done + 1
    /\ elem' = [elem EXCEPT ![v[done + 1].dst] = None]
    /\ UNCHANGED <<bytes, acct, drain, key, v, drains, seen, emitted, evicted,
                   raced>>

\* Everything that was read is deleted: qsort() puts the lines in order.
DrainSorts ==
    /\ drain = "delete" /\ done = Len(v)
    /\ drain' = "print" /\ done' = 0
    /\ UNCHANGED <<mapVars, acct, key, v, drains, seen, emitted, evicted, raced>>

\* emit("vol ..."), for each key that was read.
PrintVolume ==
    /\ drain = "print" /\ done < Len(v)
    /\ done' = done + 1
    /\ emitted' = [emitted EXCEPT ![v[done + 1].dst] = @ + v[done + 1].bytes]
    /\ UNCHANGED <<mapVars, acct, drain, key, v, drains, seen, evicted, raced>>

DrainEnds ==
    /\ drain = "print" /\ done = Len(v)
    /\ drain' = "idle" /\ key' = None /\ v' = <<>> /\ done' = 0
    /\ UNCHANGED <<mapVars, acct, drains, seen, emitted, evicted, raced>>

VolumeNext ==
    \/ \E c \in CPUs : \/ \E dst \in Dsts : LookupBytes(c, dst)
                       \/ AddBytes(c) \/ InsertBytes(c)
    \/ DrainStarts \/ GetNextKey \/ ReadElement \/ DeleteKey
    \/ DrainSorts \/ PrintVolume \/ DrainEnds

VolumeSpec == VolumeInit /\ [][VolumeNext]_volumeVars

(******************************** properties *******************************)

Held == [d \in Dsts |-> IF elem[d] = None THEN 0 ELSE bytes[elem[d]]]
Accounted == [d \in Dsts |-> emitted[d] + Held[d]]
Quiet == drain = "idle" /\ Busy = 0

\* The races between the CPUs and the drain lose bytes but invent none, unless
\* an eviction makes the drain's walk start over; and without overlap nothing is
\* lost either, but by evictions: what was seen of a destination is what was
\* printed and what the map still holds.
VolumeBalances ==
    /\ drain = "idle" /\ evicted \subseteq {"idle"} => Total(Accounted) <= Total(seen)
    /\ Quiet /\ ~raced /\ evicted = {} => seen = Accounted
=============================================================================
