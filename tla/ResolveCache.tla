---------------------------- MODULE ResolveCache ----------------------------
(***************************************************************************)
(* The stream server's memo of resolver answers: resolve() in              *)
(* stream/src/index.ts.                                                    *)
(*                                                                         *)
(* The cache holds promises, not answers: a key maps to the fetch that     *)
(* serves it, in flight or answered, and every caller of the key awaits    *)
(* that one fetch.  A fetch that fails (an HTTP error, a bad body, the 5 s *)
(* timeout) deletes its key, whatever the key holds by then.  The cache is *)
(* capped: a new key evicts the oldest one, even one still in flight.      *)
(*                                                                         *)
(* Node runs the continuations of a settled promise before the next event, *)
(* so a fetch settles, its catch handler runs and its callers resume in    *)
(* one step.  MaxFetches bounds the length of a behaviour.                 *)
(***************************************************************************)
EXTENDS InsertionMap, FiniteSets

CONSTANTS Keys,         \* `${ip}|${roundedRtt}`
          MaxCache,     \* MAX_RESOLVE_CACHE
          MaxFetches

ASSUME CacheAssumption == MaxCache \in Nat \ {0} /\ MaxFetches \in Nat

VARIABLES
    resolveCache,   \* the Map: key -> fetch (its index in fetches)
    fetches,        \* every fetch ever started, in order: [key, state]
    resolveErrors,
    evicted         \* fetches the cap evicted while in flight (history)

cacheVars == <<resolveCache, fetches, resolveErrors, evicted>>

Fetches  == 1..Len(fetches)
Pending  == {r \in Fetches : fetches[r].state = "pending"}

CacheInit ==
    /\ resolveCache = <<>> /\ fetches = <<>>
    /\ resolveErrors = 0 /\ evicted = {}

\* resolve(): a hit returns the promise that is cached ...
Hit(k, r) ==
    /\ k \in MapKeys(resolveCache)
    /\ r = MapGet(resolveCache, k)
    /\ UNCHANGED cacheVars

\* Mutation of Miss: the lookup is skipped.
MissAlways(k, r) ==
    /\ r = Len(fetches) + 1
    /\ r <= MaxFetches
    /\ fetches' = Append(fetches, [key |-> k, state |-> "pending"])
    /\ resolveCache' = Capped(resolveCache, k, r, MaxCache)
    /\ evicted' = evicted \cup ({MapGet(resolveCache, e) :
                     e \in CappedEvicts(resolveCache, k, MaxCache)} \cap Pending)
    /\ UNCHANGED resolveErrors

\* ... and a miss starts a fetch and caches its promise at once.
Miss(k, r) ==
    /\ k \notin MapKeys(resolveCache)
    /\ r = Len(fetches) + 1
    /\ r <= MaxFetches
    /\ fetches' = Append(fetches, [key |-> k, state |-> "pending"])
    /\ resolveCache' = Capped(resolveCache, k, r, MaxCache)
    /\ evicted' = evicted \cup ({MapGet(resolveCache, e) :
                     e \in CappedEvicts(resolveCache, k, MaxCache)} \cap Pending)
    /\ UNCHANGED resolveErrors

Resolve(k, r) == Hit(k, r) \/ Miss(k, r)

FetchOk(r) ==
    /\ r \in Pending
    /\ fetches' = [fetches EXCEPT ![r].state = "ok"]
    /\ UNCHANGED <<resolveCache, resolveErrors, evicted>>

\* Mutation of FetchFails: a failure empties the cache.
FetchFailsClears(r) ==
    /\ r \in Pending
    /\ fetches' = [fetches EXCEPT ![r].state = "failed"]
    /\ resolveCache' = <<>>
    /\ resolveErrors' = resolveErrors + 1
    /\ UNCHANGED evicted

\* .catch(): the key goes, even if it serves a younger fetch by now.
FetchFails(r) ==
    /\ r \in Pending
    /\ fetches' = [fetches EXCEPT ![r].state = "failed"]
    /\ resolveCache' = MapDelete(resolveCache, fetches[r].key)
    /\ resolveErrors' = resolveErrors + 1
    /\ UNCHANGED evicted

(******************************** properties *******************************)

\* The cache holds at most MaxCache questions, each with its own fetch and none
\* with one that failed: the next caller asks again.  And one question is in
\* flight per key: two fetches of a key overlap only after the cap evicted one
\* of that key that was in flight, the elder of the two or one before it (whose
\* failure then deletes its successors).
SingleFlight ==
    /\ Len(resolveCache) <= MaxCache
    /\ \A i \in 1..Len(resolveCache) :
           LET r == resolveCache[i].val
           IN  fetches[r].state # "failed" /\ fetches[r].key = resolveCache[i].key
    /\ \A r, s \in Pending :
           r < s /\ fetches[r].key = fetches[s].key =>
               \E q \in evicted : q <= r /\ fetches[q].key = fetches[r].key

\* An answer stays cached until a new key takes its place as the oldest entry of
\* a full cache, or an older fetch of its key, evicted before, fails late.
AnswersStay ==
    [][\A k \in MapKeys(resolveCache) \ MapKeys(resolveCache') :
          LET r == MapGet(resolveCache, k)
          IN  \/ r \in Pending
              \/ /\ Len(resolveCache) = MaxCache /\ k = Head(resolveCache).key
                 /\ Len(fetches') > Len(fetches)
              \/ \E q \in Pending : /\ q < r /\ fetches[q].key = k
                                    /\ fetches'[q].state = "failed"]_cacheVars
=============================================================================
