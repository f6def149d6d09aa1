------------------------ MODULE ResolverPool_proofs ------------------------
(***************************************************************************)
(* What ResolverPool guarantees for every number of threads, connections   *)
(* and slots: types, and with them that run never meets an empty slot; no  *)
(* slot is lost; no connection is shared, queued twice, leaked, or handed  *)
(* out after it was closed, and one that a failing build() leaves behind   *)
(* is closed with its call.                                                *)
(* With that the pool implements ConnectionLease, a connection that died   *)
(* fails one attempt, and connections are built only when needed.          *)
(***************************************************************************)
EXTENDS ResolverPool, FiniteSetTheorems, SequenceTheorems, TLAPS

(********************************* the stack *******************************)

\* get() takes the last slot of the stack and leaves the others in place.
LEMMA GetTakesLast ==
    ASSUME NEW S, NEW q \in Seq(S), q # <<>>
    PROVE  /\ Top(q) \in S
           /\ Rest(q) \in Seq(S)
           /\ Len(Rest(q)) = Len(q) - 1
           /\ Len(q) \in Nat \ {0}
           /\ Top(q) = q[Len(q)]
           /\ \A i \in 1..Len(Rest(q)) : Rest(q)[i] = q[i]
  <1>1. Len(q) \in Nat \ {0}
    BY EmptySeq
  <1>2. \A i \in 1..Len(q) : q[i] \in S
    BY ElementOfSeq
  <1>3. \A i \in 1..(Len(q) - 1) : q[i] \in S
    BY <1>1, <1>2
  <1>4. /\ SubSeq(q, 1, Len(q) - 1) \in Seq(S)
        /\ Len(SubSeq(q, 1, Len(q) - 1)) =
               IF 1 <= Len(q) - 1 THEN Len(q) - 1 - 1 + 1 ELSE 0
        /\ \A i \in 1..(Len(q) - 1 - 1 + 1) :
               SubSeq(q, 1, Len(q) - 1)[i] = q[1 + i - 1]
    <2>1. 1 \in Int /\ Len(q) - 1 \in Int
      BY <1>1
    <2> QED
      BY <1>3, <2>1, SubSeqProperties
  <1>5. Top(q) = q[Len(q)] /\ Top(q) \in S
    BY <1>1, <1>2 DEF Top
  <1>6. Len(Rest(q)) = Len(q) - 1
    <2> DEFINE n == Len(q)
    <2>1. Len(SubSeq(q, 1, n - 1)) = IF 1 <= n - 1 THEN n - 1 - 1 + 1 ELSE 0
      BY <1>4
    <2>2. n \in Nat \ {0}
      BY <1>1
    <2> HIDE DEF n
    <2>3. Len(SubSeq(q, 1, n - 1)) = n - 1
      BY <2>1, <2>2
    <2> QED
      BY <2>3 DEF Rest, n
  <1>7. \A i \in 1..Len(Rest(q)) : Rest(q)[i] = q[i]
    BY <1>1, <1>4, <1>6 DEF Rest
  <1> QED
    BY <1>1, <1>4, <1>5, <1>6, <1>7 DEF Rest

\* put() adds one slot on top.
LEMMA PutAddsLast ==
    ASSUME NEW S, NEW q \in Seq(S), NEW s \in S
    PROVE  /\ PutSlot(q, s) \in Seq(S)
           /\ Len(PutSlot(q, s)) = Len(q) + 1
           /\ Len(q) \in Nat
           /\ PutSlot(q, s)[Len(q) + 1] = s
           /\ \A i \in 1..Len(q) : PutSlot(q, s)[i] = q[i]
  BY LenProperties, AppendProperties DEF PutSlot

LEMMA QueuedLast ==
    ASSUME NEW s \in Slots, pool \in Seq(Slots), pool' = PutSlot(pool, s)
    PROVE  /\ Len(pool') = Len(pool) + 1
           /\ pool'[Len(pool) + 1] = s
           /\ \A i \in 1..Len(pool) : pool'[i] = pool[i]
  BY LenProperties, AppendProperties DEF PutSlot

LEMMA PeakGrows ==
    ASSUME NEW n \in Nat, NEW p \in Nat, NEW q \in Nat, NEW i \in Int,
           p <= q, i <= n - q
    PROVE  i <= n - p
  OBVIOUS

(********************************** types **********************************)

LEMMA FiniteHolders ==
    ASSUME PoolTypeOK
    PROVE  /\ IsFiniteSet(Holders) /\ Cardinality(Holders) \in Nat
           /\ IsFiniteSet(alive) /\ Cardinality(alive) \in Nat
  <1>1. Holders \in SUBSET Threads
    BY DEF Holders
  <1>2. alive \in SUBSET Conns
    BY DEF PoolTypeOK
  <1> QED
    BY <1>1, <1>2, PoolAssumption, FS_Subset, FS_CardinalityType

\* As long as a name is left, a new connection gets one that no open one has.
LEMMA FreshIsNew ==
    ASSUME PoolTypeOK, open # Conns
    PROVE  Fresh \in Conns \ open
  <1>1. \E c \in Conns : c \notin open
    BY DEF PoolTypeOK
  <1> QED
    BY <1>1 DEF Fresh

LEMMA InitType == PoolInit => PoolTypeOK
  BY PoolAssumption DEF PoolInit, PoolTypeOK, Slots, Holds

LEMMA StepType == PoolTypeOK /\ [PoolNext]_vars => PoolTypeOK'
  <1> SUFFICES ASSUME PoolTypeOK, [PoolNext]_vars
               PROVE  PoolTypeOK'
    OBVIOUS
  <1>a. Cardinality(Holders) \in Nat /\ Cardinality(alive) \in Nat
    BY FiniteHolders
  <1>b. POOL_SIZE' = POOL_SIZE
    BY DEF PoolNext, vars
  <1> USE PoolAssumption DEF PoolTypeOK, Slots, Holds
  <1>1. ASSUME NEW t \in Threads, Request(t) PROVE PoolTypeOK'
    BY <1>1, <1>b DEF Request, connVars, history
  <1>2. ASSUME NEW t \in Threads, Get(t) PROVE PoolTypeOK'
    <2>1. Top(pool) \in Slots /\ Rest(pool) \in Seq(Slots)
      BY <1>2, GetTakesLast DEF Get
    <2>2. peak' \in Nat
      BY <1>2, <1>a DEF Get, Max2
    <2> QED
      BY <1>2, <1>b, <2>1, <2>2 DEF Get, connVars
  <1>3. ASSUME NEW t \in Threads, Connect(t) PROVE PoolTypeOK'
    <2>1. Fresh \in Conns
      BY <1>3, FreshIsNew DEF Connect
    <2> QED
      BY <1>3, <1>b, <2>1 DEF Connect, history
  <1>4. ASSUME NEW t \in Threads, ConnectFails(t) PROVE PoolTypeOK'
    BY <1>4, <1>b DEF ConnectFails, connVars, history
  <1>5. ASSUME NEW t \in Threads, InitDone(t) PROVE PoolTypeOK'
    BY <1>5, <1>b DEF InitDone, connVars, history
  <1>6. ASSUME NEW t \in Threads, InitFails(t) PROVE PoolTypeOK'
    <2>1. owed' \in Int
      BY <1>6 DEF InitFails
    <2>2. /\ err'[t] \in {"op", "app"} /\ err' = [err EXCEPT ![t] = err'[t]]
      BY <1>6 DEF InitFails
    <2> QED
      BY <1>6, <1>b, <2>1, <2>2 DEF InitFails, connVars
  <1>7. ASSUME NEW t \in Threads, RunReturns(t) PROVE PoolTypeOK'
    BY <1>7, <1>b DEF RunReturns, connVars, history
  <1>8. ASSUME NEW t \in Threads, RunLosesBackend(t) PROVE PoolTypeOK'
    BY <1>8, <1>b DEF RunLosesBackend, connVars
  <1>9. ASSUME NEW t \in Threads, RunCancelled(t) PROVE PoolTypeOK'
    BY <1>9, <1>b DEF RunCancelled, connVars, history
  <1>10. ASSUME NEW t \in Threads, Evict(t) PROVE PoolTypeOK'
    BY <1>10, <1>b DEF Evict, history
  <1>11. ASSUME NEW t \in Threads, Put(t) PROVE PoolTypeOK'
    <2>1. pool' \in Seq(Slots)
      BY <1>11, PutAddsLast DEF Put
    <2> QED
      BY <1>11, <1>b, <2>1 DEF Put, connVars, history
  <1>12. ASSUME NEW t \in Threads, Leave(t) PROVE PoolTypeOK'
    BY <1>12, <1>b DEF Leave, Retries
  <1>13. ASSUME Restart PROVE PoolTypeOK'
    BY <1>13, <1>a, <1>b DEF Restart, threadVars
  <1>14. ASSUME UNCHANGED vars PROVE PoolTypeOK'
    BY <1>14 DEF vars, callVars, threadVars, connVars, history
  <1> QED
    BY <1>1, <1>2, <1>3, <1>4, <1>5, <1>6, <1>7, <1>8, <1>9, <1>10, <1>11,
       <1>12, <1>13, <1>14 DEF PoolNext, Answered, OwnStep

\* borrow() never runs a query without a connection, and every slot in the
\* queue is empty or a connection, whatever fails in between.
THEOREM TypeCorrect == PoolSpec => []PoolTypeOK
  BY InitType, StepType, PTL DEF PoolSpec

(************************** slots are conserved ****************************)

LEMMA InitSlots == PoolInit => SlotsConserved
  <1> SUFFICES ASSUME PoolInit PROVE SlotsConserved
    OBVIOUS
  <1>1. Holders = {}
    BY DEF PoolInit, Holders, Holds
  <1>2. Len(pool) = POOL_SIZE /\ POOL_SIZE \in Nat
    BY PoolAssumption DEF PoolInit
  <1> QED
    BY <1>1, <1>2, FS_EmptySet DEF SlotsConserved

\* A step that lends and returns no slot.
LEMMA SameHolders ==
    ASSUME SlotsConserved, POOL_SIZE' = POOL_SIZE, pool' = pool, Holders' = Holders
    PROVE  SlotsConserved'
  BY DEF SlotsConserved

LEMMA StepSlots == PoolTypeOK /\ SlotsConserved /\ [PoolNext]_vars => SlotsConserved'
  <1> SUFFICES ASSUME PoolTypeOK, SlotsConserved, [PoolNext]_vars
               PROVE  SlotsConserved'
    OBVIOUS
  <1> USE DEF Holders, Holds
  <1>a. pc \in [Threads -> {"idle", "get", "leave"} \cup Holds]
    BY DEF PoolTypeOK
  <1>b. IsFiniteSet(Holders) /\ Cardinality(Holders) \in Nat
    BY FiniteHolders
  <1>c. Len(pool) \in Nat
    BY LenProperties DEF PoolTypeOK
  <1>d. POOL_SIZE' = POOL_SIZE
    BY DEF PoolNext, vars
  <1>1. ASSUME NEW t \in Threads, Request(t) PROVE SlotsConserved'
    BY <1>1, <1>a, <1>d, SameHolders DEF Request
  <1>2. ASSUME NEW t \in Threads, Get(t) PROVE SlotsConserved'
    <2>1. Holders' = Holders \cup {t} /\ t \notin Holders
      BY <1>2, <1>a DEF Get
    <2>2. Cardinality(Holders') = Cardinality(Holders) + 1
      BY <2>1, <1>b, FS_AddElement
    <2>3. Len(pool') = Len(pool) - 1
      BY <1>2, GetTakesLast DEF Get, PoolTypeOK
    <2> QED
      BY <1>b, <1>c, <1>d, <2>2, <2>3 DEF SlotsConserved
  <1>3. ASSUME NEW t \in Threads, Connect(t) PROVE SlotsConserved'
    BY <1>3, <1>a, <1>d, SameHolders DEF Connect
  <1>4. ASSUME NEW t \in Threads, ConnectFails(t) PROVE SlotsConserved'
    BY <1>4, <1>a, <1>d, SameHolders DEF ConnectFails
  <1>5. ASSUME NEW t \in Threads, InitDone(t) PROVE SlotsConserved'
    BY <1>5, <1>a, <1>d, SameHolders DEF InitDone
  <1>6. ASSUME NEW t \in Threads, InitFails(t) PROVE SlotsConserved'
    BY <1>6, <1>a, <1>d, SameHolders DEF InitFails
  <1>7. ASSUME NEW t \in Threads, RunReturns(t) PROVE SlotsConserved'
    BY <1>7, <1>a, <1>d, SameHolders DEF RunReturns
  <1>8. ASSUME NEW t \in Threads, RunLosesBackend(t) PROVE SlotsConserved'
    BY <1>8, <1>a, <1>d, SameHolders DEF RunLosesBackend
  <1>9. ASSUME NEW t \in Threads, RunCancelled(t) PROVE SlotsConserved'
    BY <1>9, <1>a, <1>d, SameHolders DEF RunCancelled
  <1>10. ASSUME NEW t \in Threads, Evict(t) PROVE SlotsConserved'
    BY <1>10, <1>a, <1>d, SameHolders DEF Evict
  <1>11. ASSUME NEW t \in Threads, Put(t) PROVE SlotsConserved'
    <2>1. Holders' = Holders \ {t} /\ t \in Holders
      BY <1>11, <1>a DEF Put
    <2>2. Cardinality(Holders') = Cardinality(Holders) - 1
      BY <2>1, <1>b, FS_RemoveElement
    <2>3. Len(pool') = Len(pool) + 1
      BY <1>11, PutAddsLast DEF Put, PoolTypeOK
    <2> QED
      BY <1>b, <1>c, <1>d, <2>2, <2>3 DEF SlotsConserved
  <1>12. ASSUME NEW t \in Threads, Leave(t) PROVE SlotsConserved'
    BY <1>12, <1>a, <1>d, SameHolders DEF Leave
  <1>13. ASSUME Restart \/ UNCHANGED vars PROVE SlotsConserved'
    BY <1>13, <1>d, SameHolders DEF Restart, vars, callVars, threadVars
  <1> QED
    BY <1>1, <1>2, <1>3, <1>4, <1>5, <1>6, <1>7, <1>8, <1>9, <1>10, <1>11,
       <1>12, <1>13 DEF PoolNext, Answered, OwnStep

\* Every slot that is lent is in one thread's hands, every other is queued:
\* no path through borrow() loses or doubles one.
THEOREM SlotsAreConserved == PoolSpec => []SlotsConserved
  BY InitType, StepType, InitSlots, StepSlots, PTL DEF PoolSpec

(************************ connections have one owner ***********************)

\* The open connections that no failed build() left behind.
Handled == open \ {left[t] : t \in Threads}

\* ExclusiveUse and NothingLeaks, element by element.
OneOwner ==
    /\ \A t, u \in Threads : slot[t] = slot[u] /\ slot[t] # NONE => t = u
    /\ \A i, j \in 1..Len(pool) : pool[i] = pool[j] /\ pool[i] # NONE => i = j
    /\ \A t \in Threads, i \in 1..Len(pool) : slot[t] # NONE => slot[t] # pool[i]
    /\ \A t \in Threads : slot[t] # NONE => slot[t] \in Handled
    /\ \A i \in 1..Len(pool) : pool[i] # NONE => pool[i] \in Handled
    /\ \A c \in Handled : \/ \E t \in Threads : slot[t] = c
                          \/ \E i \in 1..Len(pool) : pool[i] = c

\* A connection left behind is open, and one exception's alone.
LeftBehind ==
    /\ \A t \in Threads : left[t] # NONE => left[t] \in open
    /\ \A t, u \in Threads : left[t] = left[u] /\ left[t] # NONE => t = u

LEMMA OneOwnerSuffices ==
    ASSUME PoolTypeOK, OneOwner, LeftBehind
    PROVE  ExclusiveUse /\ NothingLeaks
  <1>1. ASSUME NEW c \in Conns PROVE c # NONE
    BY PoolAssumption
  <1>2. ExclusiveUse
    BY <1>1 DEF OneOwner, ExclusiveUse, Owners, Pooled
  <1>3. ASSUME NEW c \in Conns
        PROVE  c \in open <=> c \in Handled \/ \E t \in Threads : left[t] = c
    BY <1>1 DEF LeftBehind, Handled
  <1>4. ASSUME NEW c \in Conns
        PROVE  c \in Handled <=> Owners(c) # {} \/ Pooled(c) # {}
    BY <1>1 DEF OneOwner, Owners, Pooled
  <1>5. NothingLeaks
    BY <1>3, <1>4 DEF NothingLeaks
  <1> QED
    BY <1>2, <1>5

LEMMA InitOwner == PoolInit => OneOwner /\ LeftBehind
  BY PoolAssumption DEF PoolInit, OneOwner, LeftBehind, Handled

(* What each action does to the connections in the pool's hands. *)

LEMMA ConnectHandles ==
    ASSUME PoolTypeOK, LeftBehind, NEW t \in Threads, Connect(t)
    PROVE  \E c \in Conns \ open :
               slot' = [slot EXCEPT ![t] = c] /\ Handled' = Handled \cup {c}
  <1>1. Fresh \in Conns \ open /\ Fresh # NONE
    BY FreshIsNew, PoolAssumption DEF Connect
  <1>2. \A u \in Threads : left[u] # Fresh
    BY <1>1 DEF LeftBehind
  <1>3. /\ open' = open \cup {Fresh} /\ left' = left
        /\ slot' = [slot EXCEPT ![t] = Fresh]
    BY DEF Connect
  <1>4. Handled' = Handled \cup {Fresh}
    BY <1>2, <1>3 DEF Handled
  <1> QED
    BY <1>1, <1>3, <1>4

LEMMA EvictDrops ==
    ASSUME PoolTypeOK, NEW t \in Threads, Evict(t)
    PROVE  /\ slot' = [slot EXCEPT ![t] = NONE]
           /\ Handled' = Handled \ {slot[t]}
  BY DEF Evict, Handled

LEMMA InitFailsDrops ==
    ASSUME PoolTypeOK, NEW t \in Threads, InitFails(t)
    PROVE  /\ slot' = [slot EXCEPT ![t] = NONE]
           /\ left[t] = NONE /\ slot[t] # NONE
           /\ left' = [left EXCEPT ![t] = slot[t]]
           /\ open' = open
           /\ Handled' = Handled \ {slot[t]}
  <1>1. /\ slot' = [slot EXCEPT ![t] = NONE] /\ open' = open
        /\ left' = [left EXCEPT ![t] = slot[t]]
        /\ pc[t] = "init"
    BY DEF InitFails, connVars
  <1>2. left \in [Threads -> Slots] /\ left[t] = NONE /\ slot[t] # NONE
    BY <1>1 DEF PoolTypeOK
  <1>3. \A u \in Threads : left'[u] = IF u = t THEN slot[t] ELSE left[u]
    BY <1>1, <1>2
  <1>4. NONE \notin open
    BY PoolAssumption DEF PoolTypeOK
  <1>5. Handled' = Handled \ {slot[t]}
    BY <1>1, <1>2, <1>3, <1>4 DEF Handled
  <1> QED
    BY <1>1, <1>2, <1>5

LEMMA LeaveHandles ==
    ASSUME PoolTypeOK, NEW t \in Threads, Leave(t)
    PROVE  pool' = pool /\ slot' = slot /\ Handled' = Handled
  <1>1. /\ open' = open \ {left[t]} /\ left' = [left EXCEPT ![t] = NONE]
        /\ left \in [Threads -> Slots] /\ NONE \notin open
        /\ pool' = pool /\ slot' = slot
    BY PoolAssumption DEF Leave, PoolTypeOK
  <1>2. \A u \in Threads : left'[u] = IF u = t THEN NONE ELSE left[u]
    BY <1>1
  <1>3. Handled' = Handled
    BY <1>1, <1>2 DEF Handled
  <1> QED
    BY <1>1, <1>3

\* The steps that move no slot and open or close nothing.
Quiet(t) ==
    \/ Request(t) \/ ConnectFails(t) \/ InitDone(t)
    \/ RunReturns(t) \/ RunLosesBackend(t) \/ RunCancelled(t)

LEMMA QuietKeeps ==
    ASSUME NEW t \in Threads, Quiet(t)
    PROVE  /\ pool' = pool /\ slot' = slot /\ open' = open /\ left' = left
           /\ alive' = alive /\ peak' = peak
  BY DEF Quiet, Request, ConnectFails, InitDone, RunReturns, RunLosesBackend,
     RunCancelled, connVars, history

LEMMA SameHandled ==
    ASSUME pool' = pool, slot' = slot, open' = open, left' = left
    PROVE  Handled' = Handled
  BY DEF Handled

LEMMA SameOwners ==
    ASSUME OneOwner, pool' = pool, slot' = slot, Handled' = Handled
    PROVE  OneOwner'
  BY DEF OneOwner

\* A thread that lets go of its connection.
LEMMA DroppedOwner ==
    ASSUME OneOwner, NEW t \in Threads, slot \in [Threads -> Slots],
           NONE \notin Handled, pool' = pool,
           slot' = [slot EXCEPT ![t] = NONE], Handled' = Handled \ {slot[t]}
    PROVE  OneOwner'
  <1>1. \A u \in Threads : slot'[u] = IF u = t THEN NONE ELSE slot[u]
    OBVIOUS
  <1> QED
    BY <1>1 DEF OneOwner

LEMMA StepOwner ==
    PoolTypeOK /\ OneOwner /\ LeftBehind /\ [PoolNext]_vars => OneOwner'
  <1> SUFFICES ASSUME PoolTypeOK, OneOwner, LeftBehind, [PoolNext]_vars
               PROVE  OneOwner'
    OBVIOUS
  <1>a. /\ pool \in Seq(Slots) /\ slot \in [Threads -> Slots]
        /\ Handled \in SUBSET Conns /\ NONE \notin Conns
        /\ Len(pool) \in Nat
        /\ \A t \in Threads :
              pc[t] \in {"idle", "get", "build", "leave"} => slot[t] = NONE
    BY PoolAssumption, LenProperties DEF PoolTypeOK, Handled
  <1>1. ASSUME NEW t \in Threads, Get(t) PROVE OneOwner'
    <2>1. /\ Len(pool') = Len(pool) - 1 /\ Len(pool) \in Nat \ {0}
          /\ slot' = [slot EXCEPT ![t] = pool[Len(pool)]]
          /\ \A i \in 1..Len(pool') : pool'[i] = pool[i]
          /\ slot[t] = NONE
      BY <1>1, <1>a, GetTakesLast DEF Get
    <2>a. Handled' = Handled
      BY <1>1 DEF Get, connVars, Handled
    <2>2. \A u \in Threads :
              slot'[u] = IF u = t THEN pool[Len(pool)] ELSE slot[u]
      BY <2>1, <1>a
    <2>3. \A i \in 1..Len(pool') : i \in 1..Len(pool) /\ i # Len(pool)
      BY <2>1
    <2>4. \A i \in 1..Len(pool) : i = Len(pool) \/ i \in 1..Len(pool')
      BY <2>1
    <2>c1. (\A v, u \in Threads : slot[v] = slot[u] /\ slot[v] # NONE => v = u)'
      BY <2>1, <2>a, <2>2, <2>3, <2>4 DEF OneOwner
    <2>c2. (\A i, j \in 1..Len(pool) : pool[i] = pool[j] /\ pool[i] # NONE => i = j)'
      BY <2>1, <2>a, <2>2, <2>3, <2>4 DEF OneOwner
    <2>c3. (\A v \in Threads, i \in 1..Len(pool) :
              slot[v] # NONE => slot[v] # pool[i])'
      BY <2>1, <2>a, <2>2, <2>3, <2>4 DEF OneOwner
    <2>c4. (\A v \in Threads : slot[v] # NONE => slot[v] \in Handled)'
      BY <2>1, <2>a, <2>2, <2>3, <2>4 DEF OneOwner
    <2>c5. (\A i \in 1..Len(pool) : pool[i] # NONE => pool[i] \in Handled)'
      BY <2>1, <2>a, <2>2, <2>3, <2>4 DEF OneOwner
    <2>c6. (\A c \in Handled : \/ \E v \in Threads : slot[v] = c
                         \/ \E i \in 1..Len(pool) : pool[i] = c)'
      <3> SUFFICES ASSUME NEW c \in Handled
                   PROVE  \/ \E v \in Threads : slot'[v] = c
                          \/ \E i \in 1..Len(pool') : pool'[i] = c
        BY <2>a
      <3>1. c # NONE
        BY <1>a
      <3>2. CASE \E v \in Threads : slot[v] = c
        BY <2>1, <2>a, <2>2, <3>1, <3>2
      <3>3. ASSUME NEW i \in 1..Len(pool), pool[i] = c
            PROVE  \/ \E v \in Threads : slot'[v] = c
                   \/ \E j \in 1..Len(pool') : pool'[j] = c
        <4>1. CASE i = Len(pool)
          BY <2>2, <3>3, <4>1
        <4>2. CASE i \in 1..Len(pool')
          BY <2>1, <3>3, <4>2
        <4> QED
          BY <2>4, <4>1, <4>2
      <3> QED
        BY <3>2, <3>3 DEF OneOwner
    <2> QED
      BY <2>c1, <2>c2, <2>c3, <2>c4, <2>c5, <2>c6 DEF OneOwner
  <1>2. ASSUME NEW t \in Threads, Connect(t) PROVE OneOwner'
    <2>1. PICK c \in Conns \ open : /\ slot' = [slot EXCEPT ![t] = c]
                                    /\ Handled' = Handled \cup {c}
      BY <1>2, ConnectHandles
    <2>2. pool' = pool /\ slot[t] = NONE /\ c \notin Handled
      BY <1>2, <1>a DEF Connect, Handled
    <2>3. \A u \in Threads : slot'[u] = IF u = t THEN c ELSE slot[u]
      BY <2>1, <1>a
    <2> QED
      BY <2>1, <2>2, <2>3, <1>a DEF OneOwner
  <1>3. ASSUME NEW t \in Threads, Evict(t) PROVE OneOwner'
    <2>1. pool' = pool
      BY <1>3 DEF Evict
    <2> QED
      BY <1>3, <1>a, <2>1, EvictDrops, DroppedOwner
  <1>4. ASSUME NEW t \in Threads, InitFails(t) PROVE OneOwner'
    <2>1. pool' = pool
      BY <1>4 DEF InitFails
    <2> QED
      BY <1>4, <1>a, <2>1, InitFailsDrops, DroppedOwner
  <1>5. ASSUME NEW t \in Threads, Put(t) PROVE OneOwner'
    <2>1. /\ Len(pool') = Len(pool) + 1
          /\ pool'[Len(pool) + 1] = slot[t]
          /\ \A i \in 1..Len(pool) : pool'[i] = pool[i]
      <3>1. slot[t] \in Slots /\ pool \in Seq(Slots)
        BY <1>a
      <3>2. pool' = PutSlot(pool, slot[t])
        BY <1>5 DEF Put
      <3> QED
        BY ONLY <3>1, <3>2, QueuedLast
    <2>2. /\ Handled' = Handled
          /\ \A u \in Threads : slot'[u] = IF u = t THEN NONE ELSE slot[u]
      BY <1>5, <1>a DEF Put, connVars, Handled
    <2>3. \A i \in 1..Len(pool') : i = Len(pool) + 1 \/ i \in 1..Len(pool)
      BY <2>1, <1>a
    <2>4. \A i \in 1..Len(pool) : i \in 1..Len(pool') /\ i # Len(pool) + 1
      BY <2>1, <1>a
    <2>5. Len(pool) + 1 \in 1..Len(pool')
      BY <2>1, <1>a
    <2> QED
      BY <2>1, <2>2, <2>3, <2>4, <2>5 DEF OneOwner
  <1>6. ASSUME NEW t \in Threads, Leave(t) PROVE OneOwner'
    BY <1>6, LeaveHandles, SameOwners
  <1>7. ASSUME NEW t \in Threads, Quiet(t) PROVE OneOwner'
    <2>1. pool' = pool /\ slot' = slot /\ open' = open /\ left' = left
      BY <1>7, QuietKeeps
    <2> QED
      BY <2>1, SameHandled, SameOwners
  <1>8. ASSUME Restart \/ UNCHANGED vars PROVE OneOwner'
    <2>1. pool' = pool /\ slot' = slot /\ open' = open /\ left' = left
      BY <1>8 DEF Restart, vars, callVars, threadVars, connVars
    <2> QED
      BY <2>1, SameHandled, SameOwners
  <1> QED
    BY <1>1, <1>2, <1>3, <1>4, <1>5, <1>6, <1>7, <1>8
       DEF PoolNext, Answered, OwnStep, Quiet

LEMMA StepLeft ==
    PoolTypeOK /\ OneOwner /\ LeftBehind /\ [PoolNext]_vars => LeftBehind'
  <1> SUFFICES ASSUME PoolTypeOK, OneOwner, LeftBehind, [PoolNext]_vars
               PROVE  LeftBehind'
    OBVIOUS
  <1>a. left \in [Threads -> Slots] /\ slot \in [Threads -> Slots]
    BY DEF PoolTypeOK
  <1>b. ASSUME NEW t \in Threads, slot[t] # NONE
        PROVE  slot[t] \in open /\ \A u \in Threads : left[u] # slot[t]
    BY <1>b DEF OneOwner, Handled
  <1>1. ASSUME NEW t \in Threads, Connect(t) PROVE LeftBehind'
    BY <1>1 DEF Connect, LeftBehind
  <1>2. ASSUME NEW t \in Threads, Evict(t) PROVE LeftBehind'
    <2>1. left' = left /\ open' = open \ {slot[t]}
      BY <1>2 DEF Evict
    <2>2. \A u \in Threads : left[u] # NONE => left[u] # slot[t]
      BY <1>b
    <2> QED
      BY <2>1, <2>2 DEF LeftBehind
  <1>3. ASSUME NEW t \in Threads, InitFails(t) PROVE LeftBehind'
    <2>1. /\ left' = [left EXCEPT ![t] = slot[t]] /\ open' = open
          /\ slot[t] # NONE
      BY <1>3, InitFailsDrops
    <2>2. \A u \in Threads : left'[u] = IF u = t THEN slot[t] ELSE left[u]
      BY <1>a, <2>1
    <2> QED
      BY <1>b, <2>1, <2>2 DEF LeftBehind
  <1>4. ASSUME NEW t \in Threads, Leave(t) PROVE LeftBehind'
    <2>1. left' = [left EXCEPT ![t] = NONE] /\ open' = open \ {left[t]}
      BY <1>4 DEF Leave
    <2>2. \A u \in Threads : left'[u] = IF u = t THEN NONE ELSE left[u]
      BY <1>a, <2>1
    <2> QED
      BY <2>1, <2>2 DEF LeftBehind
  <1>5. ASSUME NEW t \in Threads, Get(t) \/ Put(t) \/ Quiet(t) PROVE LeftBehind'
    <2>1. left' = left /\ open' = open
      BY <1>5, QuietKeeps DEF Get, Put, connVars
    <2> QED
      BY <2>1 DEF LeftBehind
  <1>6. ASSUME Restart \/ UNCHANGED vars PROVE LeftBehind'
    BY <1>6 DEF Restart, vars, callVars, threadVars, connVars, LeftBehind
  <1> QED
    BY <1>1, <1>2, <1>3, <1>4, <1>5, <1>6 DEF PoolNext, Answered, OwnStep, Quiet

\* No connection is ever used by two requests, queued twice, or queued while
\* it is used.
THEOREM UseIsExclusive == PoolSpec => []ExclusiveUse
  BY InitType, StepType, InitOwner, StepOwner, StepLeft, OneOwnerSuffices, PTL
     DEF PoolSpec

\* The connections that are open are exactly those lent or queued, and those of
\* a build() that failed, until its call has dropped the exception: evicting a
\* connection closes it, and a closed one is never lent again.
THEOREM NoConnectionLeaks == PoolSpec => []NothingLeaks
  BY InitType, StepType, InitOwner, StepOwner, StepLeft, OneOwnerSuffices, PTL
     DEF PoolSpec

(************************ the lease is implemented *************************)

PoolInv == PoolTypeOK /\ SlotsConserved /\ OneOwner /\ LeftBehind

\* The owner that the refinement mapping names is the one the pool knows.
LEMMA OwnerIsKnown ==
    ASSUME PoolTypeOK, OneOwner, NEW c \in Conns
    PROVE  /\ \A t \in Threads : OwnerOf(c) = t <=> slot[t] = c
           /\ OwnerOf(c) = "idle" <=> \E i \in 1..Len(pool) : pool[i] = c
           /\ OwnerOf(c) = "outside" <=> c \notin Handled
  <1>1. c # NONE
    BY PoolAssumption
  <1>2. CASE \E t \in Threads : slot[t] = c
    <2>1. PICK t \in Threads : slot[t] = c
      BY <1>2
    <2>2. \A u \in Threads : slot[u] = c <=> u = t
      BY <1>1, <2>1 DEF OneOwner
    <2>3. OwnerOf(c) = t
      BY <2>1, <2>2 DEF OwnerOf, Owners
    <2>4. c \in Handled /\ ~ \E i \in 1..Len(pool) : pool[i] = c
      BY <1>1, <2>1 DEF OneOwner
    <2> QED
      BY <2>2, <2>3, <2>4, PoolAssumption
  <1>3. CASE ~ \E t \in Threads : slot[t] = c
    <2>1. OwnerOf(c) = IF \E i \in 1..Len(pool) : pool[i] = c THEN "idle" ELSE "outside"
      BY <1>3 DEF OwnerOf, Owners, Pooled
    <2>2. c \in Handled <=> \E i \in 1..Len(pool) : pool[i] = c
      BY <1>1, <1>3 DEF OneOwner
    <2> QED
      BY <1>3, <2>1, <2>2, PoolAssumption
  <1> QED
    BY <1>2, <1>3

\* While a thread holds an empty slot, fewer connections are in the pool's
\* hands than there are slots.
LEMMA RoomForOneMore ==
    ASSUME PoolInv, NEW t \in Holders, slot[t] = NONE
    PROVE  Cardinality(Handled) < POOL_SIZE
  <1> DEFINE others == Holders \ {t}
             lent   == {slot[u] : u \in others}
             queued == {pool[i] : i \in 1..Len(pool)}
  <1>1. /\ pool \in Seq(Slots) /\ slot \in [Threads -> Slots]
        /\ pc \in [Threads -> {"idle", "get", "leave"} \cup Holds]
        /\ Len(pool) \in Nat /\ POOL_SIZE \in Nat /\ NONE \notin Conns
        /\ Handled \in SUBSET Conns
    BY PoolAssumption, LenProperties DEF PoolInv, PoolTypeOK, Handled
  <1>2. IsFiniteSet(others) /\ Cardinality(others) = Cardinality(Holders) - 1
    BY FiniteHolders, FS_RemoveElement DEF PoolInv
  <1>3. Cardinality(Holders) \in Nat /\ Cardinality(others) \in Nat
    BY <1>2, FiniteHolders, FS_CardinalityType DEF PoolInv
  <1>4. IsFiniteSet(lent) /\ Cardinality(lent) <= Cardinality(others)
    <2>1. [u \in others |-> slot[u]] \in Surjection(others, lent)
      BY DEF Surjection
    <2> HIDE DEF others, lent
    <2> QED
      BY <1>2, <2>1, FS_Surjection
  <1>5. IsFiniteSet(queued) /\ Cardinality(queued) <= Len(pool)
    <2>1. [i \in 1..Len(pool) |-> pool[i]] \in Surjection(1..Len(pool), queued)
      BY DEF Surjection
    <2>2. IsFiniteSet(1..Len(pool)) /\ Cardinality(1..Len(pool)) = Len(pool)
      BY <1>1, FS_Interval
    <2> HIDE DEF queued
    <2> QED
      BY <2>1, <2>2, FS_Surjection
  <1>6. Handled \subseteq lent \cup queued
    <2> SUFFICES ASSUME NEW c \in Handled PROVE c \in lent \cup queued
      OBVIOUS
    <2>1. c # NONE
      BY <1>1
    <2>2. CASE \E i \in 1..Len(pool) : pool[i] = c
      BY <2>2
    <2>3. ASSUME NEW u \in Threads, slot[u] = c PROVE c \in lent
      <3>1. pc[u] \in Holds /\ u # t
        BY <1>1, <2>1, <2>3 DEF PoolInv, PoolTypeOK
      <3> QED
        BY <2>3, <3>1 DEF Holders
    <2> QED
      BY <2>2, <2>3 DEF PoolInv, OneOwner
  <1> HIDE DEF others, lent, queued
  <1>7. /\ IsFiniteSet(lent \cup queued)
        /\ Cardinality(lent \cup queued) =
               Cardinality(lent) + Cardinality(queued) - Cardinality(lent \cap queued)
    BY <1>4, <1>5, FS_Union
  <1>8. Cardinality(lent \cap queued) \in Nat
    <2>1. IsFiniteSet(lent \cap queued)
      BY <1>4, FS_Subset
    <2> QED
      BY <2>1, FS_CardinalityType
  <1>9. Cardinality(Handled) <= Cardinality(lent \cup queued) /\ Cardinality(Handled) \in Nat
    BY <1>6, <1>7, FS_Subset, FS_CardinalityType
  <1>10. Cardinality(lent) \in Nat /\ Cardinality(queued) \in Nat
    BY <1>4, <1>5, FS_CardinalityType
  <1>11. Len(pool) + Cardinality(Holders) = POOL_SIZE
    BY DEF PoolInv, SlotsConserved
  <1> QED
    BY <1>1, <1>2, <1>3, <1>4, <1>5, <1>7, <1>8, <1>9, <1>10, <1>11

Owner == [c \in Conns |-> OwnerOf(c)]

\* A step that moves neither slots nor the queue is a stutter of the lease.
LEMMA SameLease ==
    ASSUME pool' = pool, slot' = slot
    PROVE  Owner' = Owner
  BY DEF Owner, OwnerOf, Owners, Pooled

LEMMA InitLease == PoolInit => Lease!LeaseInit
  <1> SUFFICES ASSUME PoolInit PROVE Lease!LeaseInit
    OBVIOUS
  <1>1. PoolTypeOK /\ OneOwner /\ Handled = {} /\ POOL_SIZE \in Nat
    BY InitType, InitOwner, PoolAssumption DEF PoolInit, Handled
  <1>2. \A c \in Conns : OwnerOf(c) = "outside"
    BY <1>1, OwnerIsKnown
  <1> QED
    BY <1>1, <1>2 DEF Lease!LeaseInit

\* A step that gives connection c the owner x and leaves the others alone.
LEMMA OneChanges ==
    ASSUME NEW c \in Conns, NEW x, OwnerOf(c)' = x,
           \A d \in Conns : d # c => OwnerOf(d)' = OwnerOf(d)
    PROVE  Owner' = [Owner EXCEPT ![c] = x]
  BY DEF Owner

\* Two states give d the same owner if the same thread or the queue has it.
LEMMA SameOwner ==
    ASSUME PoolInv, PoolInv', NEW d \in Conns,
           \A t \in Threads : slot[t] = d <=> slot'[t] = d,
           d \in Handled <=> d \in Handled'
    PROVE  OwnerOf(d)' = OwnerOf(d)
  <1>1. d # NONE
    BY PoolAssumption
  <1>2. (d \in Handled <=> \/ \E t \in Threads : slot[t] = d
                        \/ \E i \in 1..Len(pool) : pool[i] = d)
    BY <1>1 DEF PoolInv, OneOwner
  <1>3. (d \in Handled <=> \/ \E t \in Threads : slot[t] = d
                        \/ \E i \in 1..Len(pool) : pool[i] = d)'
    BY <1>1 DEF PoolInv, OneOwner
  <1>4. CASE \E t \in Threads : slot[t] = d
    <2>1. PICK t \in Threads : slot[t] = d
      BY <1>4
    <2>2. OwnerOf(d) = t
      BY <2>1, OwnerIsKnown DEF PoolInv
    <2>3. OwnerOf(d)' = t
      <3>1. (PoolTypeOK /\ OneOwner)' /\ slot'[t] = d
        BY <2>1 DEF PoolInv
      <3>2. (\A u \in Threads : slot[u] = d <=> u = t)'
        BY <1>1, <3>1 DEF OneOwner
      <3> QED
        BY <3>1, <3>2 DEF OwnerOf, Owners
    <2> QED
      BY <2>2, <2>3
  <1>5. CASE ~ \E t \in Threads : slot[t] = d
    <2>1. ~ \E t \in Threads : slot'[t] = d
      BY <1>5
    <2>2. OwnerOf(d) = IF d \in Handled THEN "idle" ELSE "outside"
      BY <1>2, <1>5 DEF OwnerOf, Owners, Pooled
    <2>3. (OwnerOf(d) = IF d \in Handled THEN "idle" ELSE "outside")'
      BY <1>3, <2>1 DEF OwnerOf, Owners, Pooled
    <2> QED
      BY <2>2, <2>3
  <1> QED
    BY <1>4, <1>5

LEMMA GetLeases ==
    ASSUME PoolInv, PoolInv', NEW t \in Threads, Get(t),
           POOL_SIZE' = POOL_SIZE
    PROVE  [Lease!LeaseNext]_<<POOL_SIZE, Owner>>
  <1>1. PICK c \in Slots :
            /\ slot \in [Threads -> Slots] /\ slot[t] = NONE /\ Handled' = Handled
            /\ slot' = [slot EXCEPT ![t] = c]
            /\ c = pool[Len(pool)] /\ Len(pool) \in 1..Len(pool)
    <2>1. /\ slot \in [Threads -> Slots] /\ slot[t] = NONE /\ Handled' = Handled
          /\ pool \in Seq(Slots) /\ pool # <<>>
          /\ slot' = [slot EXCEPT ![t] = Top(pool)]
      BY DEF Get, PoolInv, PoolTypeOK, connVars, Handled
    <2>2. /\ Top(pool) = pool[Len(pool)] /\ Len(pool) \in 1..Len(pool)
          /\ Top(pool) \in Slots
      BY <2>1, GetTakesLast
    <2> QED
      BY <2>1, <2>2
  <1>2. \A u \in Threads : slot'[u] = IF u = t THEN c ELSE slot[u]
    BY <1>1
  <1>3. ASSUME NEW d \in Conns, d # c PROVE OwnerOf(d)' = OwnerOf(d)
    BY <1>1, <1>2, <1>3, SameOwner, PoolAssumption
  <1>4. CASE c = NONE
    BY <1>3, <1>4, PoolAssumption DEF Owner
  <1>5. CASE c # NONE
    <2>1. c \in Conns
      BY <1>1, <1>5 DEF Slots
    <2>2. OwnerOf(c) = "idle"
      BY <1>1, <2>1, OwnerIsKnown DEF PoolInv
    <2>3. OwnerOf(c)' = t
      <3>1. (PoolTypeOK /\ OneOwner)' /\ slot'[t] = c
        BY <1>2 DEF PoolInv
      <3>2. \A u \in Threads : slot'[u] = c <=> u = t
        BY <1>5, <3>1 DEF OneOwner
      <3> QED
        BY <3>1, <3>2 DEF OwnerOf, Owners
    <2>4. \A d \in Conns : OwnerOf(d) # t
      BY <1>1, OwnerIsKnown, PoolAssumption DEF PoolInv
    <2>5. Owner' = [Owner EXCEPT ![c] = t]
      BY <1>3, <2>1, <2>3, OneChanges
    <2>6. Lease!Lease(t, c)
      BY <2>1, <2>2, <2>4, <2>5 DEF Lease!Lease, Lease!HoldsNone, Owner
    <2> QED
      BY <2>1, <2>6 DEF Lease!LeaseNext
  <1> QED
    BY <1>4, <1>5

LEMMA ConnectOpens ==
    ASSUME PoolInv, PoolInv', NEW t \in Threads, Connect(t),
           POOL_SIZE' = POOL_SIZE
    PROVE  [Lease!LeaseNext]_<<POOL_SIZE, Owner>>
  <1>1. PICK c \in Conns \ open :
            slot' = [slot EXCEPT ![t] = c] /\ Handled' = Handled \cup {c}
    BY ConnectHandles DEF PoolInv
  <1>2. slot \in [Threads -> Slots] /\ slot[t] = NONE /\ t \in Holders
    BY DEF Connect, PoolInv, PoolTypeOK, Holders, Holds
  <1>3. \A u \in Threads : slot'[u] = IF u = t THEN c ELSE slot[u]
    BY <1>1, <1>2
  <1>4. \A d \in Conns : d # c => OwnerOf(d)' = OwnerOf(d)
    BY <1>1, <1>2, <1>3, SameOwner, PoolAssumption
  <1>5. OwnerOf(c) = "outside"
    BY <1>1, OwnerIsKnown DEF PoolInv, Handled
  <1>6. OwnerOf(c)' = t
    <2>1. (PoolTypeOK /\ OneOwner)' /\ slot'[t] = c /\ c # NONE
      BY <1>3, PoolAssumption DEF PoolInv
    <2>2. \A u \in Threads : slot'[u] = c <=> u = t
      BY <2>1 DEF OneOwner
    <2> QED
      BY <2>1, <2>2 DEF OwnerOf, Owners
  <1>7. \A d \in Conns : OwnerOf(d) # t
    BY <1>2, OwnerIsKnown, PoolAssumption DEF PoolInv
  <1>8. Lease!Cardinality(Lease!InHands) < POOL_SIZE
    <2>1. Lease!InHands = Handled
      BY OwnerIsKnown DEF Lease!InHands, PoolInv, PoolTypeOK, Handled
    <2>2. Lease!Cardinality(Handled) = Cardinality(Handled)
      BY DEF Lease!Cardinality, Cardinality
    <2>3. Cardinality(Handled) < POOL_SIZE
      BY <1>2, RoomForOneMore
    <2> QED
      BY <2>1, <2>2, <2>3
  <1>9. Owner' = [Owner EXCEPT ![c] = t]
    BY <1>4, <1>6, OneChanges
  <1>10. Lease!Open(t, c)
    BY <1>5, <1>7, <1>8, <1>9 DEF Lease!Open, Lease!HoldsNone, Owner
  <1> QED
    BY <1>10 DEF Lease!LeaseNext

\* What gives up a slot: the eviction of a connection, and the end of a call.
LEMMA GivesUp ==
    ASSUME PoolInv, PoolInv', NEW t \in Threads,
           slot' = [slot EXCEPT ![t] = NONE],
           \A d \in Conns : d # slot[t] => (d \in Handled <=> d \in Handled')
    PROVE  /\ slot[t] = NONE => Owner' = Owner
           /\ slot[t] # NONE =>
                 /\ slot[t] \in Conns /\ OwnerOf(slot[t]) = t
                 /\ \A c \in Conns : c = slot[t] =>
                        Owner' = [Owner EXCEPT ![c] = IF c \in Handled' THEN "idle" ELSE "outside"]
  <1>1. slot \in [Threads -> Slots]
    BY DEF PoolInv, PoolTypeOK
  <1>2. \A u \in Threads : slot'[u] = IF u = t THEN NONE ELSE slot[u]
    BY <1>1
  <1>3. \A d \in Conns : d # slot[t] => OwnerOf(d)' = OwnerOf(d)
    BY <1>2, SameOwner, PoolAssumption
  <1>4. CASE slot[t] = NONE
    BY <1>3, <1>4, PoolAssumption DEF Owner
  <1>5. CASE slot[t] # NONE
    <2>1. slot[t] \in Conns
      BY <1>1, <1>5 DEF Slots
    <2>2. OwnerOf(slot[t]) = t
      BY <2>1, OwnerIsKnown DEF PoolInv
    <2>3. ASSUME NEW c \in Conns, c = slot[t]
          PROVE  Owner' = [Owner EXCEPT ![c] = IF c \in Handled' THEN "idle" ELSE "outside"]
      <3>1. \A u \in Threads : slot'[u] # c
        BY <1>2, <1>5, <2>3 DEF PoolInv, OneOwner
      <3>2. (c \in Handled <=> \E i \in 1..Len(pool) : pool[i] = c)'
        BY <1>5, <2>3, <3>1 DEF PoolInv, OneOwner
      <3>3. (OwnerOf(c))' = IF c \in Handled' THEN "idle" ELSE "outside"
        BY <3>1, <3>2 DEF OwnerOf, Owners, Pooled
      <3> QED
        BY <1>3, <2>3, <3>3, OneChanges
    <2> QED
      BY <1>5, <2>1, <2>2, <2>3
  <1> QED
    BY <1>4, <1>5

\* Evicting a connection and failing to build on it both take it out of the
\* pool's hands.
LEMMA DropLeaves ==
    ASSUME PoolInv, PoolInv', NEW t \in Threads, POOL_SIZE' = POOL_SIZE,
           slot' = [slot EXCEPT ![t] = NONE], Handled' = Handled \ {slot[t]}
    PROVE  [Lease!LeaseNext]_<<POOL_SIZE, Owner>>
  <1>1. CASE slot[t] = NONE
    BY <1>1, GivesUp
  <1>2. CASE slot[t] # NONE
    <2>1. PICK c \in Conns : c = slot[t] /\ OwnerOf(c) = t
      BY <1>2, GivesUp
    <2>2. Owner' = [Owner EXCEPT ![c] = "outside"]
      BY <1>2, <2>1, GivesUp
    <2>3. Lease!Drop(t, c)
      BY <2>1, <2>2 DEF Lease!Drop, Owner
    <2> QED
      BY <2>3 DEF Lease!LeaseNext
  <1> QED
    BY <1>1, <1>2

LEMMA PutReturns ==
    ASSUME PoolInv, PoolInv', NEW t \in Threads, Put(t),
           POOL_SIZE' = POOL_SIZE
    PROVE  [Lease!LeaseNext]_<<POOL_SIZE, Owner>>
  <1>1. slot' = [slot EXCEPT ![t] = NONE] /\ Handled' = Handled
    BY DEF Put, connVars, Handled
  <1>2. CASE slot[t] = NONE
    BY <1>1, <1>2, GivesUp
  <1>3. CASE slot[t] # NONE
    <2>1. PICK c \in Conns : c = slot[t] /\ OwnerOf(c) = t
      BY <1>1, <1>3, GivesUp
    <2>2. c \in Handled
      BY <1>3, <2>1 DEF PoolInv, OneOwner
    <2>3. Owner' = [Owner EXCEPT ![c] = "idle"]
      BY <1>1, <1>3, <2>1, <2>2, GivesUp
    <2>4. Lease!Return(t, c)
      BY <2>1, <2>3 DEF Lease!Return, Owner
    <2> QED
      BY <2>4 DEF Lease!LeaseNext
  <1> QED
    BY <1>2, <1>3

LEMMA StepLease ==
    PoolInv /\ PoolInv' /\ [PoolNext]_vars => [Lease!LeaseNext]_<<POOL_SIZE, Owner>>
  <1> SUFFICES ASSUME PoolInv, PoolInv', [PoolNext]_vars
               PROVE  [Lease!LeaseNext]_<<POOL_SIZE, Owner>>
    OBVIOUS
  <1>a. POOL_SIZE' = POOL_SIZE
    BY DEF PoolNext, vars
  <1>1. ASSUME NEW t \in Threads, Get(t)
        PROVE  [Lease!LeaseNext]_<<POOL_SIZE, Owner>>
    BY <1>1, <1>a, GetLeases
  <1>2. ASSUME NEW t \in Threads, Connect(t)
        PROVE  [Lease!LeaseNext]_<<POOL_SIZE, Owner>>
    BY <1>2, <1>a, ConnectOpens
  <1>3. ASSUME NEW t \in Threads, Evict(t) \/ InitFails(t)
        PROVE  [Lease!LeaseNext]_<<POOL_SIZE, Owner>>
    BY <1>3, <1>a, EvictDrops, InitFailsDrops, DropLeaves DEF PoolInv
  <1>4. ASSUME NEW t \in Threads, Put(t)
        PROVE  [Lease!LeaseNext]_<<POOL_SIZE, Owner>>
    BY <1>4, <1>a, PutReturns
  <1>5. ASSUME NEW t \in Threads, Leave(t) PROVE Owner' = Owner
    BY <1>5, LeaveHandles, SameLease DEF PoolInv
  <1>6. ASSUME NEW t \in Threads, Quiet(t) PROVE Owner' = Owner
    BY <1>6, QuietKeeps, SameLease
  <1>7. ASSUME Restart \/ UNCHANGED vars PROVE Owner' = Owner
    BY <1>7, SameLease DEF Restart, vars, callVars, threadVars
  <1> QED
    BY <1>a, <1>1, <1>2, <1>3, <1>4, <1>5, <1>6, <1>7
       DEF PoolNext, Answered, OwnStep, Quiet

\* The pool is a lease of at most POOL_SIZE connections: every connection is
\* outside, idle or one request's, whatever Postgres does and in whatever order
\* the handler threads run.
THEOREM PoolIsALease == PoolSpec => ImplementsLease
  <1>1. PoolInit => Lease!LeaseInit
    BY InitLease
  <1>2. PoolInv /\ PoolInv' /\ [PoolNext]_vars => [Lease!LeaseNext]_<<POOL_SIZE, Owner>>
    BY StepLease
  <1>3. PoolSpec => []PoolInv
    BY InitType, StepType, InitSlots, StepSlots, InitOwner, StepOwner, StepLeft, PTL
       DEF PoolSpec, PoolInv
  <1> QED
    BY <1>1, <1>2, <1>3, PTL DEF PoolSpec, ImplementsLease, Lease!LeaseSpec, Lease!leaseVars, Owner

(******************** a dead connection fails one attempt ******************)

\* The dead connections that have yet to fail an attempt.
Unspent == {c \in open \ alive :
               /\ \A t \in Owners(c) : pc[t] # "evict"
               /\ \A t \in Threads : left[t] # c}

LEMMA FiniteUnspent ==
    ASSUME PoolTypeOK
    PROVE  IsFiniteSet(Unspent) /\ Cardinality(Unspent) \in Nat
  <1>1. Unspent \in SUBSET Conns
    BY DEF Unspent, PoolTypeOK
  <1> QED
    BY <1>1, PoolAssumption, FS_Subset, FS_CardinalityType

LEMMA DeadCostsUnspent == DeadCostsOnce <=> Cardinality(Unspent) <= owed
  BY DEF DeadCostsOnce, Unspent

LEMMA FewerUnspent ==
    ASSUME PoolTypeOK, DeadCostsOnce, Unspent' \subseteq Unspent, owed' = owed
    PROVE  DeadCostsOnce'
  <1>1. /\ Cardinality(Unspent') <= Cardinality(Unspent)
        /\ Cardinality(Unspent) \in Nat /\ Cardinality(Unspent') \in Nat
    BY FiniteUnspent, FS_Subset, FS_CardinalityType
  <1>2. Cardinality(Unspent) <= owed /\ owed \in Int
    BY DeadCostsUnspent DEF PoolTypeOK
  <1>3. Cardinality(Unspent') <= owed'
    BY <1>1, <1>2
  <1> QED
    BY <1>3 DEF DeadCostsOnce, Unspent

\* An attempt fails on dead connection c, which is spent with it.
LEMMA OneSpent ==
    ASSUME PoolTypeOK, DeadCostsOnce, NEW c \in Unspent,
           Unspent' \subseteq Unspent \ {c}, owed' = owed - 1
    PROVE  DeadCostsOnce'
  <1>1. IsFiniteSet(Unspent) /\ Cardinality(Unspent) \in Nat
    BY FiniteUnspent
  <1>2. /\ IsFiniteSet(Unspent \ {c})
        /\ Cardinality(Unspent \ {c}) = Cardinality(Unspent) - 1
    BY <1>1, FS_RemoveElement
  <1>3. /\ Cardinality(Unspent') <= Cardinality(Unspent \ {c})
        /\ Cardinality(Unspent') \in Nat
    BY <1>2, FS_Subset, FS_CardinalityType
  <1>4. Cardinality(Unspent) <= owed /\ owed \in Int
    BY DeadCostsUnspent DEF PoolTypeOK
  <1>5. Cardinality(Unspent') <= owed'
    BY <1>1, <1>2, <1>3, <1>4
  <1> QED
    BY <1>5 DEF DeadCostsOnce, Unspent

\* Postgres restarts: what was alive is dead, and owed counts it.
LEMMA AllKilled ==
    ASSUME PoolTypeOK, DeadCostsOnce, Restart
    PROVE  DeadCostsOnce'
  <1>1. Unspent' \subseteq Unspent \cup alive
    BY DEF Unspent, Restart, threadVars, Owners
  <1>2. /\ IsFiniteSet(Unspent) /\ Cardinality(Unspent) \in Nat
        /\ IsFiniteSet(alive) /\ Cardinality(alive) \in Nat
    BY FiniteUnspent, FiniteHolders
  <1>3. Cardinality(Unspent \cap alive) \in Nat
    BY <1>2, FS_Subset, FS_CardinalityType
  <1>4. /\ IsFiniteSet(Unspent \cup alive)
        /\ Cardinality(Unspent \cup alive) =
              Cardinality(Unspent) + Cardinality(alive) - Cardinality(Unspent \cap alive)
    BY <1>2, FS_Union
  <1>5. /\ Cardinality(Unspent') <= Cardinality(Unspent \cup alive)
        /\ Cardinality(Unspent') \in Nat
    BY <1>1, <1>4, FS_Subset, FS_CardinalityType
  <1>6. /\ Cardinality(Unspent) <= owed /\ owed \in Int
        /\ owed' = owed + Cardinality(alive)
    BY DeadCostsUnspent DEF Restart, PoolTypeOK
  <1>7. Cardinality(Unspent') <= owed'
    BY <1>2, <1>3, <1>4, <1>5, <1>6
  <1> QED
    BY <1>7 DEF DeadCostsOnce, Unspent

LEMMA InitDead == PoolInit => DeadCostsOnce
  <1> SUFFICES ASSUME PoolInit PROVE DeadCostsOnce
    OBVIOUS
  <1>1. Unspent = {}
    BY DEF PoolInit, Unspent
  <1> QED
    BY <1>1, FS_EmptySet DEF PoolInit, DeadCostsOnce, Unspent

LEMMA StepDead ==
    PoolInv /\ DeadCostsOnce /\ [PoolNext]_vars => DeadCostsOnce'
  <1> SUFFICES ASSUME PoolInv, DeadCostsOnce, [PoolNext]_vars
               PROVE  DeadCostsOnce'
    OBVIOUS
  <1>a. /\ PoolTypeOK /\ open \in SUBSET Conns /\ NONE \notin Conns
        /\ pc \in [Threads -> {"idle", "get", "leave"} \cup Holds]
        /\ slot \in [Threads -> Slots] /\ left \in [Threads -> Slots]
        /\ \A t \in Threads :
              pc[t] \in {"idle", "get", "build", "leave"} => slot[t] = NONE
        /\ \A t \in Threads : pc[t] \in {"init", "run"} => slot[t] # NONE
    BY PoolAssumption DEF PoolInv, PoolTypeOK
  <1>1. ASSUME NEW t \in Threads, Get(t) PROVE DeadCostsOnce'
    <2>1. Unspent' \subseteq Unspent
      BY <1>1, <1>a DEF Get, connVars, Unspent, Owners
    <2> QED
      BY <1>1, <1>a, <2>1, FewerUnspent DEF Get
  <1>2. ASSUME NEW t \in Threads, Connect(t) PROVE DeadCostsOnce'
    <2>1. Unspent' \subseteq Unspent
      BY <1>2, <1>a DEF Connect, Unspent, Owners
    <2> QED
      BY <1>2, <1>a, <2>1, FewerUnspent DEF Connect, history
  <1>3. ASSUME NEW t \in Threads, InitFails(t) PROVE DeadCostsOnce'
    <2>1. /\ slot[t] # NONE /\ slot[t] \in open /\ open' = open /\ alive' = alive
          /\ slot' = [slot EXCEPT ![t] = NONE] /\ left' = [left EXCEPT ![t] = slot[t]]
          /\ left[t] = NONE /\ pc[t] = "init"
      BY <1>3, InitFailsDrops DEF InitFails, connVars, PoolInv, OneOwner, Handled
    <2>2. \A u \in Threads : /\ slot'[u] = (IF u = t THEN NONE ELSE slot[u])
                            /\ left'[u] = (IF u = t THEN slot[t] ELSE left[u])
                            /\ (u # t => pc'[u] = pc[u])
      BY <1>3, <1>a, <2>1 DEF InitFails
    <2>3. Unspent' \subseteq Unspent \ {slot[t]}
      BY <1>a, <2>1, <2>2 DEF Unspent, Owners
    <2>4. CASE slot[t] \notin alive /\ owed' = owed - 1
      <3>1. slot[t] \in Unspent
        BY <1>a, <2>1, <2>4 DEF PoolInv, OneOwner, Handled, Unspent, Owners
      <3> QED
        BY <1>a, <2>3, <2>4, <3>1, OneSpent
    <2>5. CASE owed' = owed
      BY <1>a, <2>3, <2>5, FewerUnspent
    <2> QED
      BY <1>3, <2>4, <2>5 DEF InitFails
  <1>4. ASSUME NEW t \in Threads, RunLosesBackend(t) PROVE DeadCostsOnce'
    <2>1. /\ slot[t] \in Handled /\ slot[t] \in open \ alive /\ pc[t] = "run"
          /\ owed' = owed - 1
      BY <1>4, <1>a DEF RunLosesBackend, PoolInv, OneOwner, Handled
    <2>2. slot[t] \in Unspent
      BY <1>a, <2>1 DEF PoolInv, OneOwner, Unspent, Owners, Handled
    <2>3. Unspent' \subseteq Unspent \ {slot[t]}
      BY <1>4, <1>a DEF RunLosesBackend, connVars, Unspent, Owners
    <2> QED
      BY <1>a, <2>1, <2>2, <2>3, OneSpent
  <1>5. ASSUME NEW t \in Threads, Evict(t) PROVE DeadCostsOnce'
    <2>1. Unspent' \subseteq Unspent
      BY <1>5, <1>a DEF Evict, Unspent, Owners
    <2> QED
      BY <1>5, <1>a, <2>1, FewerUnspent DEF Evict, history
  <1>6. ASSUME NEW t \in Threads, Put(t) PROVE DeadCostsOnce'
    <2>1. Unspent' \subseteq Unspent
      BY <1>6, <1>a DEF Put, connVars, Unspent, Owners
    <2> QED
      BY <1>6, <1>a, <2>1, FewerUnspent DEF Put, history
  <1>7. ASSUME NEW t \in Threads, Leave(t) PROVE DeadCostsOnce'
    <2>1. Unspent' \subseteq Unspent
      BY <1>7, <1>a DEF Leave, Unspent, Owners
    <2> QED
      BY <1>7, <1>a, <2>1, FewerUnspent DEF Leave
  <1>8. ASSUME NEW t \in Threads, Request(t) \/ ConnectFails(t) \/ InitDone(t)
                                      \/ RunReturns(t) \/ RunCancelled(t)
        PROVE  DeadCostsOnce'
    <2>1. /\ slot' = slot /\ left' = left /\ open' = open /\ alive' = alive
          /\ owed' = owed
      BY <1>8 DEF Request, ConnectFails, InitDone, RunReturns, RunCancelled,
         connVars, history
    <2>2. \A u \in Threads : pc'[u] = "evict" \/ pc[u] # "evict" \/ u = t
      BY <1>8, <1>a DEF Request, ConnectFails, InitDone, RunReturns, RunCancelled
    <2>3. pc[t] # "evict"
      BY <1>8 DEF Request, ConnectFails, InitDone, RunReturns, RunCancelled
    <2>4. Unspent' \subseteq Unspent
      BY <2>1, <2>2, <2>3 DEF Unspent, Owners
    <2> QED
      BY <1>a, <2>1, <2>4, FewerUnspent
  <1>9. ASSUME Restart PROVE DeadCostsOnce'
    BY <1>9, <1>a, AllKilled
  <1>10. ASSUME UNCHANGED vars PROVE DeadCostsOnce'
    BY <1>10 DEF vars, callVars, threadVars, connVars, history, DeadCostsOnce, Owners
  <1> QED
    BY <1>1, <1>2, <1>3, <1>4, <1>5, <1>6, <1>7, <1>8, <1>9, <1>10
       DEF PoolNext, Answered, OwnStep

\* However calls, failures and restarts of Postgres interleave, each connection that
\* died fails one attempt at most.
THEOREM DeadFailOnce == PoolSpec => []DeadCostsOnce
  <1>1. PoolSpec => []PoolInv
    BY InitType, StepType, InitSlots, StepSlots, InitOwner, StepOwner, StepLeft, PTL
       DEF PoolSpec, PoolInv
  <1> QED
    BY <1>1, InitDead, StepDead, PTL DEF PoolSpec

(************************** connections are lazy ***************************)

\* peak is what its name says.
PeakReached == Cardinality(Holders) <= peak

LazyInv == LazyBuild /\ PeakReached

LEMMA InitLazy == PoolInit => LazyInv
  <1> SUFFICES ASSUME PoolInit PROVE LazyInv
    OBVIOUS
  <1>1. Holders = {}
    BY DEF PoolInit, Holders, Holds
  <1>2. LazyBuild
    BY PoolAssumption DEF PoolInit, LazyBuild
  <1> QED
    BY <1>1, <1>2, FS_EmptySet DEF PoolInit, LazyInv, PeakReached

LEMMA SameLazy ==
    ASSUME LazyInv, POOL_SIZE' = POOL_SIZE, pool' = pool, Holders' = Holders,
           peak' = peak
    PROVE  LazyInv'
  BY DEF LazyInv, LazyBuild, PeakReached

LEMMA StepLazy == PoolInv /\ LazyInv /\ [PoolNext]_vars => LazyInv'
  <1> SUFFICES ASSUME PoolInv, LazyInv, [PoolNext]_vars
               PROVE  LazyInv'
    OBVIOUS
  <1>a. /\ pc \in [Threads -> {"idle", "get", "leave"} \cup Holds]
        /\ slot \in [Threads -> Slots] /\ pool \in Seq(Slots)
        /\ IsFiniteSet(Holders) /\ Cardinality(Holders) \in Nat
        /\ Len(pool) \in Nat /\ peak \in Nat /\ POOL_SIZE \in Nat
        /\ Len(pool) + Cardinality(Holders) = POOL_SIZE
    BY FiniteHolders, LenProperties, PoolAssumption
       DEF PoolInv, PoolTypeOK, SlotsConserved
  <1>b. POOL_SIZE' = POOL_SIZE
    BY DEF PoolNext, vars
  <1>1. ASSUME NEW t \in Threads, Get(t) PROVE LazyInv'
    <2>1. /\ Holders' = Holders \cup {t} /\ t \notin Holders
          /\ peak' = Max2(peak, Cardinality(Holders) + 1)
      BY <1>1, <1>a DEF Get, Holders, Holds
    <2>2. Cardinality(Holders') = Cardinality(Holders) + 1
      BY <1>a, <2>1, FS_AddElement
    <2>3. peak' \in Nat /\ peak' >= peak /\ peak' >= Cardinality(Holders')
      BY <1>a, <2>1, <2>2 DEF Max2
    <2>4. /\ Len(pool') = Len(pool) - 1 /\ Len(pool) \in Nat \ {0}
          /\ \A i \in 1..Len(pool') : pool'[i] = pool[i]
      BY <1>1, <1>a, GetTakesLast DEF Get
    <2>5. ASSUME NEW i \in 1..Len(pool'), i <= POOL_SIZE - peak'
          PROVE  pool'[i] = NONE
      <3>1. i \in 1..Len(pool) /\ pool'[i] = pool[i] /\ i \in Int
        BY ONLY <2>4
      <3>2. i <= POOL_SIZE - peak
        <4>1. POOL_SIZE \in Nat /\ peak \in Nat /\ peak' \in Nat /\ peak' >= peak
          BY <1>a, <2>3
        <4>2. i \in Int /\ i <= POOL_SIZE - peak'
          BY <2>5, <3>1
        <4> QED
          BY ONLY <4>1, <4>2, PeakGrows
      <3> QED
        BY <3>1, <3>2 DEF LazyInv, LazyBuild
    <2>6. LazyBuild'
      BY <1>b, <2>5 DEF LazyBuild
    <2> QED
      BY <1>a, <2>2, <2>3, <2>6 DEF LazyInv, PeakReached
  <1>2. ASSUME NEW t \in Threads, Put(t) PROVE LazyInv'
    <2>1. Holders' = Holders \ {t} /\ peak' = peak /\ slot[t] \in Slots
      BY <1>2, <1>a DEF Put, history, Holders, Holds
    <2>2. Cardinality(Holders') <= Cardinality(Holders) /\ Cardinality(Holders') \in Nat
      BY <1>a, <2>1, FS_Subset, FS_CardinalityType
    <2>3. /\ Len(pool') = Len(pool) + 1
          /\ \A i \in 1..Len(pool) : pool'[i] = pool[i]
      <3>1. pool' = PutSlot(pool, slot[t])
        BY <1>2 DEF Put
      <3>2. slot[t] \in Slots /\ pool \in Seq(Slots)
        BY <1>a
      <3> QED
        BY ONLY <3>1, <3>2, QueuedLast
    <2>4. \A i \in 1..Len(pool') : i <= POOL_SIZE - peak' => i \in 1..Len(pool)
      BY <1>a, <2>1, <2>3 DEF LazyInv, PeakReached
    <2>5. LazyBuild'
      BY <1>a, <1>b, <2>1, <2>3, <2>4 DEF LazyInv, LazyBuild
    <2> QED
      BY <1>a, <2>1, <2>2, <2>5 DEF LazyInv, PeakReached
  <1>3. ASSUME NEW t \in Threads,
               Connect(t) \/ InitFails(t) \/ Evict(t) \/ Leave(t) \/ Quiet(t)
        PROVE  LazyInv'
    <2>1. Holders' = Holders
      BY <1>3, <1>a DEF Connect, InitFails, Evict, Leave, Quiet, Request, ConnectFails,
         InitDone, RunReturns, RunLosesBackend, RunCancelled, Holders, Holds
    <2>2. pool' = pool /\ peak' = peak
      BY <1>3, QuietKeeps DEF Connect, InitFails, Evict, Leave, history
    <2> QED
      BY <1>b, <2>1, <2>2, SameLazy
  <1>4. ASSUME Restart \/ UNCHANGED vars PROVE LazyInv'
    BY <1>4, <1>b, SameLazy DEF Restart, vars, callVars, threadVars, history, Holders
  <1> QED
    BY <1>1, <1>2, <1>3, <1>4 DEF PoolNext, Answered, OwnStep, Quiet

\* Only as many slots as were ever lent at the same time hold a connection.
THEOREM ConnectionsAreLazy == PoolSpec => []LazyBuild
  <1>1. PoolSpec => []PoolInv
    BY InitType, StepType, InitSlots, StepSlots, InitOwner, StepOwner, StepLeft, PTL
       DEF PoolSpec, PoolInv
  <1>2. LazyInv => LazyBuild
    BY DEF LazyInv
  <1> QED
    BY <1>1, <1>2, InitLazy, StepLazy, PTL DEF PoolSpec
=============================================================================
