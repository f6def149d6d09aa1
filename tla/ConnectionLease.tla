-------------------------- MODULE ConnectionLease --------------------------
(***************************************************************************)
(* What the resolver's connection pool promises, with no queue, no slot    *)
(* and no retry in sight: every Postgres connection is outside (not open,  *)
(* or dropped by a build() that failed and about to be closed), idle, or   *)
(* leased to exactly one request, and never more than size of them are in  *)
(* the pool's hands.  ResolverPool.tla is shown to implement it.           *)
(***************************************************************************)
EXTENDS FiniteSets, Naturals

CONSTANTS Threads,   \* request handler threads
          Conns      \* identities a connection can have

CONSTANTS Outside, Idle   \* owners that are not threads

VARIABLES size,      \* the bound on connections idle or leased, set at start
          owner      \* owner[c]: the thread that uses c, or Idle, or Outside

leaseVars == <<size, owner>>

LeaseTypeOK == size \in Nat /\ owner \in [Conns -> Threads \cup {Outside, Idle}]

InHands == {c \in Conns : owner[c] # Outside}

LeaseInit == size \in Nat /\ owner = [c \in Conns |-> Outside]

\* A thread leases at most one connection at a time.
HoldsNone(t) == \A c \in Conns : owner[c] # t

Open(t, c) ==
    /\ owner[c] = Outside
    /\ HoldsNone(t)
    /\ Cardinality(InHands) < size
    /\ owner' = [owner EXCEPT ![c] = t]

Lease(t, c) ==
    /\ owner[c] = Idle
    /\ HoldsNone(t)
    /\ owner' = [owner EXCEPT ![c] = t]

Return(t, c) ==
    /\ owner[c] = t
    /\ owner' = [owner EXCEPT ![c] = Idle]

\* Only the lessee closes a connection or drops it.
Drop(t, c) ==
    /\ owner[c] = t
    /\ owner' = [owner EXCEPT ![c] = Outside]

LeaseNext ==
    /\ UNCHANGED size
    /\ \E t \in Threads, c \in Conns :
        Open(t, c) \/ Lease(t, c) \/ Return(t, c) \/ Drop(t, c)

LeaseSpec == LeaseInit /\ [][LeaseNext]_leaseVars
=============================================================================
