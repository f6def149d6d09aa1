---------------------------- MODULE ResolverPool ----------------------------
(***************************************************************************)
(* The resolver's Postgres connection pool: resolver/server.py, borrow()   *)
(* and call().                                                             *)
(*                                                                         *)
(* Handler threads of the ThreadingHTTPServer run call(fn) concurrently.   *)
(* A call takes a slot off a LIFO queue (blocking while it is empty),      *)
(* builds a Resolver if the slot is empty (connect(), then Geo() and       *)
(* Resolver.__init__), runs the query, closes the connection and empties   *)
(* the slot if OperationalError was raised, puts the slot back whatever    *)
(* happened, and then leaves the exception behind.  OperationalError is    *)
(* retried once.                                                           *)
(*                                                                         *)
(* build() that fails after connect() hands its connection to nobody: only *)
(* the traceback of the exception refers to it, and CPython's finaliser    *)
(* closes it when the exception is dropped, after the slot was put back.   *)
(*                                                                         *)
(* The environment restarts Postgres, at most MaxRestarts times, and, if   *)
(* Faults is TRUE, refuses connects and cancels statements, any number of  *)
(* them: that is what an outage looks like from here.  Requests are not    *)
(* bounded.                                                                *)
(***************************************************************************)
EXTENDS FiniteSets, Integers, Sequences

CONSTANTS Threads, Conns,      \* handler threads; identities of connections
          NONE,                \* Python's None: an empty slot
          PoolSizes,           \* what DOWNLINK_POOL_SIZE may be set to
          MaxRestarts, Faults

ASSUME PoolAssumption ==
    /\ IsFiniteSet(Threads) /\ IsFiniteSet(Conns)
    /\ PoolSizes \subseteq Nat \ {0}
    /\ NONE \notin Conns
    /\ "idle" \notin Threads /\ "outside" \notin Threads   \* see OwnerOf
    /\ MaxRestarts \in Nat /\ Faults \in BOOLEAN

VARIABLES
    POOL_SIZE,   \* read from the environment once, when the server starts
    pool,        \* the LifoQueue: its last element is handed out next
    pc,          \* where each thread is in call()/borrow()
    slot,        \* the connection a thread holds: r, or conn within build()
    left,        \* the connection only its exception's traceback refers to
    attempt,     \* the loop variable of call()
    err,         \* the exception in flight
    open,        \* connections opened and not closed
    alive,       \* open connections whose backend still exists
    restarts,    \* restarts of Postgres so far
    peak,        \* the most slots ever lent at the same time (history)
    owed         \* connections that lost their backend while open, less the
                 \* attempts that failed on one (history)

threadVars == <<pc, slot, left, attempt, err>>
connVars   == <<open, alive>>
history    == <<peak, owed>>
callVars == <<pool, threadVars, connVars, restarts, history>>
vars == <<POOL_SIZE, callVars>>

Slots  == Conns \cup {NONE}
Holds  == {"build", "init", "run", "evict", "put"}   \* pc from get to put
Holders == {t \in Threads : pc[t] \in Holds}
Max2(a, b) == IF a >= b THEN a ELSE b

PoolTypeOK ==
    /\ POOL_SIZE \in Nat \ {0}
    /\ pool \in Seq(Slots)
    /\ pc \in [Threads -> {"idle", "get", "leave"} \cup Holds]
    /\ slot \in [Threads -> Slots] /\ left \in [Threads -> Slots]
    /\ attempt \in [Threads -> {1, 2}]
    /\ err \in [Threads -> {"none", "op", "app"}]
    /\ open \in SUBSET Conns /\ alive \in SUBSET Conns
    /\ restarts \in Nat
    /\ peak \in Nat /\ owed \in Int
    /\ \A t \in Threads :
          /\ pc[t] \in {"idle", "get", "build", "leave"} => slot[t] = NONE
          /\ pc[t] \in {"init", "run"} => slot[t] # NONE
          /\ left[t] # NONE => /\ pc[t] \in {"evict", "put", "leave"}
                               /\ slot[t] = NONE /\ err[t] # "none"

\* for _ in range(POOL_SIZE): _pool.put(None)
PoolInit ==
    /\ POOL_SIZE \in PoolSizes
    /\ pool = [i \in 1..POOL_SIZE |-> NONE]
    /\ pc = [t \in Threads |-> "idle"]
    /\ slot = [t \in Threads |-> NONE] /\ left = [t \in Threads |-> NONE]
    /\ attempt = [t \in Threads |-> 1]
    /\ err = [t \in Threads |-> "none"]
    /\ open = {} /\ alive = {} /\ restarts = 0
    /\ peak = 0 /\ owed = 0

(***************************** handler threads *****************************)

\* A handler reaches call(fn).
Request(t) ==
    /\ pc[t] = "idle"
    /\ pc' = [pc EXCEPT ![t] = "get"]
    /\ UNCHANGED <<pool, slot, left, attempt, err, connVars, restarts, history>>

\* Mutations: the slot stays queued while it is lent; a queue instead of a
\* stack.
RestPeeks(q) == q
PutSlotFifo(q, s) == <<s>> \o q

\* LifoQueue: get() takes what put() stored last.
Top(q)  == q[Len(q)]
Rest(q) == SubSeq(q, 1, Len(q) - 1)
PutSlot(q, s) == Append(q, s)

\* r = _pool.get(): blocks while every slot is lent.
Get(t) ==
    /\ pc[t] = "get"
    /\ pool # <<>>
    /\ slot' = [slot EXCEPT ![t] = Top(pool)]
    /\ pool' = Rest(pool)
    /\ pc' = [pc EXCEPT ![t] = IF Top(pool) = NONE THEN "build" ELSE "run"]
    /\ peak' = Max2(peak, Cardinality(Holders) + 1)
    /\ UNCHANGED <<left, attempt, err, connVars, restarts, owed>>

\* A new connection is none of the open ones; which of the other names it gets
\* makes no difference.
Fresh == CHOOSE c \in Conns : c \notin open

\* r = build(), inside the try.  connect() opens a connection, still a local
\* of build(), ...
Connect(t) ==
    /\ pc[t] = "build"
    /\ open # Conns
    /\ slot' = [slot EXCEPT ![t] = Fresh]
    /\ open' = open \cup {Fresh}
    /\ alive' = alive \cup {Fresh}
    /\ pc' = [pc EXCEPT ![t] = "init"]
    /\ UNCHANGED <<pool, left, attempt, err, restarts, history>>

\* ... or it is refused or breaks off (OperationalError).  r is still None.
ConnectFails(t) ==
    /\ pc[t] = "build"
    /\ Faults
    /\ err' = [err EXCEPT ![t] = "op"]
    /\ pc' = [pc EXCEPT ![t] = "evict"]
    /\ UNCHANGED <<pool, slot, left, attempt, connVars, restarts, history>>

\* Geo() and Resolver.__init__ succeed, and build() returns the Resolver.
InitDone(t) ==
    /\ pc[t] = "init"
    /\ slot[t] \in alive
    /\ pc' = [pc EXCEPT ![t] = "run"]
    /\ UNCHANGED <<pool, slot, left, attempt, err, connVars, restarts, history>>

\* build() raises after connect(): no geolocation file or no table to snapshot
\* ("app"), or an OperationalError of Resolver.__init__, whose backend is gone
\* or which was cancelled.  borrow() has r = None and knows no connection.
InitFails(t) ==
    /\ pc[t] = "init"
    /\ \/ /\ err' = [err EXCEPT ![t] = "app"]
          /\ UNCHANGED owed
       \/ /\ err' = [err EXCEPT ![t] = "op"]
          /\ slot[t] \notin alive
          /\ owed' = owed - 1
       \/ /\ err' = [err EXCEPT ![t] = "op"]
          /\ slot[t] \in alive /\ Faults
          /\ UNCHANGED owed
    /\ left' = [left EXCEPT ![t] = slot[t]]
    /\ slot' = [slot EXCEPT ![t] = NONE]
    /\ pc' = [pc EXCEPT ![t] = IF err'[t] = "op" THEN "evict" ELSE "put"]
    /\ UNCHANGED <<pool, attempt, connVars, restarts, peak>>

\* fn(r) returns, or raises an exception that is not about the connection: the
\* slot goes back as it is, and nothing is tried again.  An address without a
\* location is answered without a query, on whatever connection.
RunReturns(t) ==
    /\ pc[t] = "run"
    /\ err' = [err EXCEPT ![t] = "none"]
    /\ pc' = [pc EXCEPT ![t] = "put"]
    /\ UNCHANGED <<pool, slot, left, attempt, connVars, restarts, history>>

\* fn(r) raises OperationalError: the backend is gone, ...
RunLosesBackend(t) ==
    /\ pc[t] = "run"
    /\ slot[t] \notin alive
    /\ err' = [err EXCEPT ![t] = "op"]
    /\ pc' = [pc EXCEPT ![t] = "evict"]
    /\ owed' = owed - 1
    /\ UNCHANGED <<pool, slot, left, attempt, connVars, restarts, peak>>

\* ... or the query was cancelled on a healthy connection.
RunCancelled(t) ==
    /\ pc[t] = "run"
    /\ slot[t] \in alive
    /\ Faults
    /\ err' = [err EXCEPT ![t] = "op"]
    /\ pc' = [pc EXCEPT ![t] = "evict"]
    /\ UNCHANGED <<pool, slot, left, attempt, connVars, restarts, history>>

\* Mutations of Evict: the connection is not closed; r = None is missing.
EvictWithoutClose(t) ==
    /\ pc[t] = "evict"
    /\ slot' = [slot EXCEPT ![t] = NONE]
    /\ pc' = [pc EXCEPT ![t] = "put"]
    /\ UNCHANGED <<pool, left, attempt, err, connVars, restarts, history>>
EvictKeepsSlot(t) ==
    /\ pc[t] = "evict"
    /\ open' = open \ {slot[t]}
    /\ alive' = alive \ {slot[t]}
    /\ pc' = [pc EXCEPT ![t] = "put"]
    /\ UNCHANGED <<pool, slot, left, attempt, err, restarts, history>>

\* except OperationalError: r.conn.close() and r = None, unless r is None.
Evict(t) ==
    /\ pc[t] = "evict"
    /\ open' = open \ {slot[t]}
    /\ alive' = alive \ {slot[t]}
    /\ slot' = [slot EXCEPT ![t] = NONE]
    /\ pc' = [pc EXCEPT ![t] = "put"]
    /\ UNCHANGED <<pool, left, attempt, err, restarts, history>>

\* finally: _pool.put(r), and the call returns if nothing was raised.
Put(t) ==
    /\ pc[t] = "put"
    /\ pool' = PutSlot(pool, slot[t])
    /\ slot' = [slot EXCEPT ![t] = NONE]
    /\ pc' = [pc EXCEPT ![t] = IF err[t] = "none" THEN "idle" ELSE "leave"]
    /\ attempt' = [attempt EXCEPT ![t] = IF err[t] = "none" THEN 1 ELSE @]
    /\ UNCHANGED <<left, err, connVars, restarts, history>>

\* Mutation: the second failure is not raised.
RetriesForEver(t) == err[t] = "op"

\* if attempt == 2: raise -- only an OperationalError is tried again.
Retries(t) == err[t] = "op" /\ attempt[t] = 1

\* call() goes round again or raises.  The exception is dropped, by call() or
\* by the handler that answers 500, and with it the last reference to a
\* connection that build() left behind: the finaliser closes it.
Leave(t) ==
    /\ pc[t] = "leave"
    /\ open' = open \ {left[t]}
    /\ alive' = alive \ {left[t]}
    /\ left' = [left EXCEPT ![t] = NONE]
    /\ err' = [err EXCEPT ![t] = "none"]
    /\ pc' = [pc EXCEPT ![t] = IF Retries(t) THEN "get" ELSE "idle"]
    /\ attempt' = [attempt EXCEPT ![t] = IF Retries(t) THEN 2 ELSE 1]
    /\ UNCHANGED <<pool, slot, restarts, peak, owed>>

(******************************* environment *******************************)

\* Postgres is restarted, and no open connection has a backend any more.
Restart ==
    /\ restarts < MaxRestarts /\ restarts' = restarts + 1
    /\ alive' = {}
    /\ owed' = owed + Cardinality(alive)
    /\ UNCHANGED <<pool, threadVars, open, peak>>

(******************************** the system *******************************)

\* What a thread does by itself, and what it waits for Postgres to answer: the
\* connect, the statements of Resolver.__init__, the query.
OwnStep(t) == Evict(t) \/ Put(t) \/ Leave(t)
Answered(t) ==
    \/ Connect(t) \/ ConnectFails(t) \/ InitDone(t) \/ InitFails(t)
    \/ RunReturns(t) \/ RunLosesBackend(t) \/ RunCancelled(t)

PoolNext ==
    /\ UNCHANGED POOL_SIZE
    /\ \/ \E t \in Threads : Request(t) \/ Get(t) \/ Answered(t) \/ OwnStep(t)
       \/ Restart

PoolSpec == PoolInit /\ [][PoolNext]_vars

(* Fairness: a handler thread takes the steps it waits for nobody in, and  *)
(* get() returns if a slot stays queued.                                   *)
PoolFairSpec ==
    PoolSpec /\ \A t \in Threads : WF_callVars(OwnStep(t)) /\ WF_callVars(Get(t))

(******************************** properties *******************************)

\* No slot is lost or duplicated on any path through borrow(): what the
\* finally clause is for.  A lost slot lowers the pool's capacity for ever.
SlotsConserved == Len(pool) + Cardinality(Holders) = POOL_SIZE

Owners(c) == {t \in Threads : slot[t] = c}
Pooled(c) == {i \in 1..Len(pool) : pool[i] = c}

\* A psycopg connection is never used by two threads, nor queued twice, nor
\* queued while a thread still uses it.
ExclusiveUse ==
    \A c \in Conns :
        /\ \A t, u \in Owners(c) : t = u
        /\ \A i, j \in Pooled(c) : i = j
        /\ Owners(c) = {} \/ Pooled(c) = {}

\* An open connection is in a thread's hands, queued, or left behind by a
\* build() whose exception is not yet dropped; a closed one is none of these.
\* No backend outlives the call that opened it, except in the pool, and no
\* closed connection is handed out again.
NothingLeaks ==
    \A c \in Conns :
        c \in open <=> Owners(c) # {} \/ Pooled(c) # {} \/ \E t \in Threads : left[t] = c

\* "A quiet gateway reuses one warm connection": the bottom slots stay empty
\* until so many requests overlap that they are needed.
LazyBuild ==
    \A i \in 1..Len(pool) : i <= POOL_SIZE - peak => pool[i] = NONE

\* A connection that lost its backend fails at most one attempt: however the
\* calls interleave with the restart, it is not handed out again after that.
DeadCostsOnce == Cardinality(
    {c \in open \ alive :
        /\ \A t \in Owners(c) : pc[t] # "evict"
        /\ \A t \in Threads : left[t] # c}) <= owed

\* Every call returns, however often Postgres fails, whatever the other
\* threads' calls meet, and even with every slot lent when it arrives: as long
\* as Postgres answers whatever a thread waits for -- connect() sets no
\* timeout -- and get() does not pass the thread over for ever -- Python's
\* queue promises no order.
PostgresAnswers == \A t \in Threads : WF_callVars(Answered(t))
CallsReturn ==
    \A t \in Threads :
        PostgresAnswers /\ SF_callVars(Get(t)) => (pc[t] = "get" ~> pc[t] = "idle")

\* server.py:71-73: "the first attempt evicts the dead connection, the second
\* gets a fresh one": after a lone restart no second attempt runs on a
\* connection that the restart killed.
RetryGetsFresh ==
    restarts <= 1 /\ ~Faults =>
        \A t \in Threads : pc[t] = "run" /\ attempt[t] = 2 => slot[t] \in alive

\* The pool implements the abstract lease of connections.  One that build()
\* left behind is in nobody's hands.
OwnerOf(c) ==
    IF Owners(c) # {} THEN CHOOSE t \in Threads : slot[t] = c
    ELSE IF Pooled(c) # {} THEN "idle" ELSE "outside"

Lease == INSTANCE ConnectionLease WITH
            size <- POOL_SIZE, Outside <- "outside", Idle <- "idle",
            owner <- [c \in Conns |-> OwnerOf(c)]
ImplementsLease == Lease!LeaseSpec
=============================================================================
