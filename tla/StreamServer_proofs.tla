------------------------- MODULE StreamServer_proofs -------------------------
(***************************************************************************)
(* Proofs about the stream server, for every number of clients, addresses, *)
(* routes and lines, and every size of its caches, tables and queues.      *)
(*                                                                         *)
(* ResolveCache: two fetches of a key overlap only if the key was evicted  *)
(* in between, and an answer stays until it is evicted.                    *)
(*                                                                         *)
(* EntityTable: volume is credited where its address was last folded, and  *)
(* only idle or least recent entities leave.                               *)
(*                                                                         *)
(* StreamServer: the promises of the table hold with lines that overtake   *)
(* each other's answers; an entity shows the route of the measurement it   *)
(* shows; a client that has received every frame knows the whole table.    *)
(***************************************************************************)
EXTENDS StreamServer, ClientQueues_proofs, FiniteSetTheorems, SequenceTheorems, TLAPS

(*************************** maps in insertion order **************************)

\* A Map from K to V: no key twice.
MapOf(K, V) == {m \in Seq([key : K, val : V]) :
                   \A i, j \in 1..Len(m) : m[i].key = m[j].key => i = j}

LEMMA MapLookup ==
    ASSUME NEW K, NEW V, NEW m \in MapOf(K, V)
    PROVE  /\ \A i \in 1..Len(m) : /\ m[i].key \in MapKeys(m)
                                   /\ IndexOfKey(m, m[i].key) = i
                                   /\ MapGet(m, m[i].key) = m[i].val
                                   /\ m[i] \in [key : K, val : V]
           /\ \A k \in MapKeys(m) : /\ IndexOfKey(m, k) \in 1..Len(m)
                                    /\ m[IndexOfKey(m, k)].key = k
                                    /\ MapGet(m, k) \in V /\ k \in K
           /\ Len(m) \in Nat
  <1>1. m \in Seq([key : K, val : V]) /\ Len(m) \in Nat
    BY DEF MapOf
  <1>2. \A i, j \in 1..Len(m) : m[i].key = m[j].key => i = j
    BY DEF MapOf
  <1>3. \A i \in 1..Len(m) : m[i] \in [key : K, val : V]
    BY <1>1, ElementOfSeq
  <1>4. ASSUME NEW k \in MapKeys(m)
        PROVE  IndexOfKey(m, k) \in 1..Len(m) /\ m[IndexOfKey(m, k)].key = k
    BY <1>4 DEF MapKeys, IndexOfKey
  <1>5. \A i \in 1..Len(m) : m[i].key \in MapKeys(m)
    BY DEF MapKeys
  <1>6. \A i \in 1..Len(m) : IndexOfKey(m, m[i].key) = i
    BY <1>2, <1>4, <1>5
  <1> QED
    BY <1>1, <1>3, <1>4, <1>5, <1>6 DEF MapGet

LEMMA MapIsSet ==
    ASSUME NEW K, NEW V, NEW m \in MapOf(K, V), NEW k \in K, NEW v \in V
    PROVE  LET n == MapSet(m, k, v)
           IN  /\ n \in MapOf(K, V) /\ MapKeys(n) = MapKeys(m) \cup {k}
               /\ MapGet(n, k) = v
               /\ \A j \in MapKeys(m) \ {k} : MapGet(n, j) = MapGet(m, j)
               /\ Len(n) = IF k \in MapKeys(m) THEN Len(m) ELSE Len(m) + 1
               /\ \A i \in 1..Len(m) : m[i].key # k => n[i] = m[i]
  <1> DEFINE n == MapSet(m, k, v)
             N == Len(m)
             R == [key : K, val : V]
  <1>1. m \in Seq(R) /\ N \in Nat /\ \A i \in 1..N : m[i] \in R
    BY MapLookup DEF MapOf
  <1>2. \A i, j \in 1..N : m[i].key = m[j].key => i = j
    BY DEF MapOf
  <1>3. CASE k \in MapKeys(m)
    <2> DEFINE p == IndexOfKey(m, k)
    <2>1. p \in 1..N /\ m[p].key = k
      BY <1>3, MapLookup
    <2>2. n = [m EXCEPT ![p].val = v]
      BY <1>3 DEF MapSet
    <2> HIDE DEF p
    <2>3. m[p] \in R /\ m[p] = [key |-> k, val |-> m[p].val]
      BY <1>1, <2>1
    <2>4. [m[p] EXCEPT !.val = v] = [key |-> k, val |-> v]
      BY <2>3
    <2>5. n = [m EXCEPT ![p] = [key |-> k, val |-> v]]
      BY <2>2, <2>4
    <2> HIDE DEF n
    <2>6. [key |-> k, val |-> v] \in R
      OBVIOUS
    <2>7. n \in Seq(R) /\ Len(n) = N
      BY <1>1, <2>1, <2>5, <2>6, ExceptSeq
    <2>8. n[p] = [key |-> k, val |-> v] /\ \A i \in 1..N : i # p => n[i] = m[i]
      BY <1>1, <2>1, <2>5
    <2>9. \A i \in 1..N : n[i].key = m[i].key
      BY <2>1, <2>8
    <2>10. n \in MapOf(K, V)
      BY <1>2, <2>7, <2>9 DEF MapOf
    <2>11. MapKeys(n) = MapKeys(m)
      BY <2>7, <2>9 DEF MapKeys
    <2>12. MapGet(n, k) = v
      BY <2>1, <2>7, <2>8, <2>10, MapLookup
    <2>13. ASSUME NEW j \in MapKeys(m) \ {k} PROVE MapGet(n, j) = MapGet(m, j)
      <3>1. PICK i \in 1..N : m[i].key = j
        BY DEF MapKeys
      <3>2. n[i] = m[i]
        BY <2>1, <2>8, <3>1
      <3>3. MapGet(m, m[i].key) = m[i].val /\ MapGet(n, n[i].key) = n[i].val
        BY <2>7, <2>10, <3>1, MapLookup
      <3> QED
        BY <3>1, <3>2, <3>3
    <2>14. \A i \in 1..N : m[i].key # k => n[i] = m[i]
      BY <2>1, <2>8
    <2> QED
      BY <1>3, <2>7, <2>10, <2>11, <2>12, <2>13, <2>14 DEF n
  <1>4. CASE k \notin MapKeys(m)
    <2> DEFINE r == [key |-> k, val |-> v]
    <2>1. n = Append(m, r) /\ r \in R /\ r.key = k /\ r.val = v
      BY <1>4 DEF MapSet
    <2> HIDE DEF n, r
    <2>2. /\ n \in Seq(R) /\ Len(n) = N + 1 /\ n[N + 1] = r
          /\ \A i \in 1..N : n[i] = m[i]
      BY <1>1, <2>1, AppendProperties
    <2>3. \A i \in 1..N : m[i].key # k
      BY <1>4 DEF MapKeys
    <2>4. \A i \in 1..(N + 1) : i \in 1..N \/ i = N + 1
      BY <1>1
    <2>5. n \in MapOf(K, V)
      <3>1. \A i \in 1..N : n[i].key = m[i].key /\ n[i].key # n[N + 1].key
        BY <2>1, <2>2, <2>3
      <3>2. \A i, j \in 1..(N + 1) : n[i].key = n[j].key => i = j
        BY <1>2, <2>4, <3>1
      <3> QED
        BY <2>2, <3>2 DEF MapOf
    <2>6. MapKeys(n) = MapKeys(m) \cup {k}
      <3>1. 1..(N + 1) = 1..N \cup {N + 1}
        BY <1>1
      <3> QED
        BY <2>1, <2>2, <3>1 DEF MapKeys
    <2>7. MapGet(n, k) = v
      <3>1. N + 1 \in 1..Len(n)
        BY <1>1, <2>2
      <3>2. MapGet(n, n[N + 1].key) = n[N + 1].val
        BY <2>5, <3>1, MapLookup
      <3> QED
        BY <2>1, <2>2, <3>2
    <2>8. ASSUME NEW j \in MapKeys(m) \ {k} PROVE MapGet(n, j) = MapGet(m, j)
      <3>1. PICK i \in 1..N : m[i].key = j
        BY DEF MapKeys
      <3>2. i \in 1..Len(n) /\ n[i] = m[i]
        BY <1>1, <2>2, <3>1
      <3>3. MapGet(m, m[i].key) = m[i].val /\ MapGet(n, n[i].key) = n[i].val
        BY <2>5, <3>1, <3>2, MapLookup
      <3> QED
        BY <3>1, <3>2, <3>3
    <2> QED
      BY <1>4, <2>2, <2>5, <2>6, <2>7, <2>8 DEF n
  <1> QED
    BY <1>3, <1>4

LEMMA CutSeq ==
    ASSUME NEW S, NEW s \in Seq(S), NEW a \in Nat, NEW b \in Nat,
           1 <= a, a <= b + 1, b <= Len(s)
    PROVE  /\ SubSeq(s, a, b) \in Seq(S) /\ Len(SubSeq(s, a, b)) = (b + 1) - a
           /\ \A i \in 1..((b + 1) - a) : SubSeq(s, a, b)[i] = s[(a + i) - 1]
  <1>1. \A i \in a..b : s[i] \in S
    BY ElementOfSeq
  <1>2. /\ SubSeq(s, a, b) \in Seq(S)
        /\ Len(SubSeq(s, a, b)) = IF a <= b THEN b - a + 1 ELSE 0
        /\ \A i \in 1..b - a + 1 : SubSeq(s, a, b)[i] = s[a + i - 1]
    BY <1>1, SubSeqProperties
  <1> QED
    BY <1>2

LEMMA IndexRemoved ==
    ASSUME NEW S, NEW s \in Seq(S), NEW p \in 1..Len(s)
    PROVE  /\ RemoveIndex(s, p) \in Seq(S) /\ Len(RemoveIndex(s, p)) = Len(s) - 1
           /\ \A i \in 1..(Len(s) - 1) :
                 RemoveIndex(s, p)[i] = s[IF i < p THEN i ELSE i + 1]
  <1> DEFINE N == Len(s)
  <1>1. N \in Nat /\ p \in Nat /\ 1 <= p /\ p <= N
    OBVIOUS
  <1>2. PICK q \in Nat : q = p - 1
    BY <1>1
  <1>3. PICK u \in Nat : u = p + 1
    BY <1>1
  <1> DEFINE a == SubSeq(s, 1, q)
             b == SubSeq(s, u, N)
             n == RemoveIndex(s, p)
  <1>4. n = a \o b
    BY <1>2, <1>3 DEF RemoveIndex
  <1>5. /\ a \in Seq(S) /\ Len(a) = q
        /\ \A i \in 1..q : a[i] = s[i]
    <2>1. 1 <= q + 1 /\ q <= N /\ (q + 1) - 1 = q /\ \A i \in 1..q : (1 + i) - 1 = i
      BY <1>1, <1>2
    <2>2. /\ a \in Seq(S) /\ Len(a) = (q + 1) - 1
          /\ \A i \in 1..((q + 1) - 1) : a[i] = s[(1 + i) - 1]
      BY <2>1, CutSeq
    <2> HIDE DEF a
    <2> QED
      BY <2>1, <2>2
  <1>6. /\ b \in Seq(S) /\ Len(b) = N - p
        /\ \A i \in 1..(N - p) : b[i] = s[p + i]
    <2>1. /\ 1 <= u /\ u <= N + 1 /\ N <= N /\ (N + 1) - u = N - p
          /\ \A i \in 1..(N - p) : (u + i) - 1 = p + i
      BY <1>1, <1>3
    <2>2. /\ b \in Seq(S) /\ Len(b) = (N + 1) - u
          /\ \A i \in 1..((N + 1) - u) : b[i] = s[(u + i) - 1]
      BY <1>1, <2>1, CutSeq
    <2> HIDE DEF b
    <2> QED
      BY <2>1, <2>2
  <1> HIDE DEF a, b, n
  <1>7. /\ n \in Seq(S) /\ Len(n) = Len(a) + Len(b)
        /\ \A i \in 1..(Len(a) + Len(b)) :
              n[i] = IF i <= Len(a) THEN a[i] ELSE b[i - Len(a)]
    BY <1>4, <1>5, <1>6, ConcatProperties
  <1>8. Len(n) = N - 1 /\ Len(a) + Len(b) = N - 1
    BY <1>1, <1>2, <1>5, <1>6, <1>7
  <1>9. ASSUME NEW i \in 1..(N - 1) PROVE n[i] = s[IF i < p THEN i ELSE i + 1]
    <2>1. CASE i < p
      <3>1. i \in 1..q /\ i <= Len(a)
        BY <1>1, <1>2, <1>5, <2>1
      <3> QED
        BY <1>5, <1>7, <1>8, <2>1, <3>1
    <2>2. CASE i >= p
      <3>1. i - q \in 1..(N - p) /\ ~(i <= Len(a)) /\ p + (i - q) = i + 1 /\ ~(i < p)
        BY <1>1, <1>2, <1>5, <2>2
      <3>2. n[i] = b[i - q]
        BY <1>5, <1>7, <1>8, <3>1
      <3>3. b[i - q] = s[i + 1]
        BY <1>6, <3>1
      <3> QED
        BY <3>1, <3>2, <3>3
    <2> QED
      BY <1>1, <2>1, <2>2
  <1> QED
    BY <1>7, <1>8, <1>9 DEF n

LEMMA MapLosesIndex ==
    ASSUME NEW K, NEW V, NEW m \in MapOf(K, V), NEW p \in 1..Len(m)
    PROVE  LET n == RemoveIndex(m, p)
           IN  /\ n \in MapOf(K, V) /\ MapKeys(n) = MapKeys(m) \ {m[p].key}
               /\ \A j \in MapKeys(n) : MapGet(n, j) = MapGet(m, j)
               /\ Len(n) = Len(m) - 1
               /\ \A i \in 1..Len(n) : \E h \in 1..Len(m) : h # p /\ n[i] = m[h]
  <1> DEFINE n == RemoveIndex(m, p)
             N == Len(m)
             R == [key : K, val : V]
             h(i) == IF i < p THEN i ELSE i + 1
  <1>1. m \in Seq(R) /\ N \in Nat /\ p \in 1..N
    BY MapLookup DEF MapOf
  <1>2. \A i, j \in 1..N : m[i].key = m[j].key => i = j
    BY DEF MapOf
  <1>3. n \in Seq(R) /\ Len(n) = N - 1 /\ \A i \in 1..(N - 1) : n[i] = m[h(i)]
    <2> HIDE DEF R
    <2> QED
      BY <1>1, IndexRemoved
  <1> HIDE DEF n
  <1>4. \A i \in 1..(N - 1) : h(i) \in 1..N /\ h(i) # p
    BY <1>1
  <1>5. \A i, j \in 1..(N - 1) : h(i) = h(j) => i = j
    BY <1>1
  <1>6. ASSUME NEW j \in 1..N, j # p PROVE \E i \in 1..(N - 1) : h(i) = j
    <2>1. CASE j < p
      BY <1>1, <2>1
    <2>2. CASE j > p
      <3>1. j - 1 \in 1..(N - 1) /\ h(j - 1) = j
        BY <1>1, <2>2
      <3> QED
        BY <3>1
    <2> QED
      BY <1>1, <1>6, <2>1, <2>2
  <1> HIDE DEF h
  <1>7. n \in MapOf(K, V)
    <2>1. ASSUME NEW i \in 1..(N - 1), NEW j \in 1..(N - 1), n[i].key = n[j].key
          PROVE  i = j
      BY <1>2, <1>3, <1>4, <1>5, <2>1
    <2> QED
      BY <1>3, <2>1 DEF MapOf
  <1>8. MapKeys(n) = MapKeys(m) \ {m[p].key}
    <2>1. \A i \in 1..(N - 1) : n[i].key \in MapKeys(m) /\ n[i].key # m[p].key
      BY <1>1, <1>2, <1>3, <1>4 DEF MapKeys
    <2>2. ASSUME NEW k \in MapKeys(m), k # m[p].key PROVE k \in MapKeys(n)
      <3>1. PICK j \in 1..N : m[j].key = k
        BY DEF MapKeys
      <3>2. PICK i \in 1..(N - 1) : h(i) = j
        BY <1>6, <2>2, <3>1
      <3>3. n[i].key = k
        BY <1>3, <3>1, <3>2
      <3> QED
        BY <1>3, <3>3 DEF MapKeys
    <2>3. \A k \in MapKeys(n) : \E i \in 1..(N - 1) : k = n[i].key
      BY <1>3 DEF MapKeys
    <2> QED
      BY <2>1, <2>2, <2>3
  <1>9. ASSUME NEW k \in MapKeys(n) PROVE MapGet(n, k) = MapGet(m, k)
    <2>1. PICK i \in 1..(N - 1) : k = n[i].key
      BY <1>3 DEF MapKeys
    <2>2. n[i] = m[h(i)] /\ h(i) \in 1..N
      BY <1>3, <1>4
    <2>3. MapGet(n, n[i].key) = n[i].val
      BY <1>3, <1>7, MapLookup
    <2>4. MapGet(m, m[h(i)].key) = m[h(i)].val
      BY <2>2, MapLookup
    <2> QED
      BY <2>1, <2>2, <2>3, <2>4
  <1> QED
    BY <1>3, <1>4, <1>7, <1>8, <1>9 DEF n

LEMMA MapDeletes ==
    ASSUME NEW K, NEW V, NEW m \in MapOf(K, V), NEW k
    PROVE  LET n == MapDelete(m, k)
           IN  /\ n \in MapOf(K, V) /\ MapKeys(n) = MapKeys(m) \ {k}
               /\ \A j \in MapKeys(n) : MapGet(n, j) = MapGet(m, j)
               /\ Len(n) <= Len(m)
  <1>1. Len(m) \in Nat
    BY MapLookup
  <1>2. CASE k \in MapKeys(m)
    <2> DEFINE p == IndexOfKey(m, k)
    <2>1. p \in 1..Len(m) /\ m[p].key = k
      BY <1>2, MapLookup
    <2>2. MapDelete(m, k) = RemoveIndex(m, p)
      BY <1>2 DEF MapDelete
    <2> HIDE DEF p
    <2> QED
      BY <1>1, <2>1, <2>2, MapLosesIndex
  <1>3. CASE k \notin MapKeys(m)
    BY <1>1, <1>3 DEF MapDelete
  <1> QED
    BY <1>2, <1>3

LEMMA MapTail ==
    ASSUME NEW K, NEW V, NEW m \in MapOf(K, V), m # <<>>
    PROVE  /\ Tail(m) = RemoveIndex(m, 1) /\ 1 \in 1..Len(m) /\ Head(m) = m[1]
  <1> DEFINE R == [key : K, val : V]
             N == Len(m)
  <1>1. m \in Seq(R) /\ N \in Nat \ {0}
    BY EmptySeq DEF MapOf
  <1>2. SubSeq(m, 1, 1 - 1) = <<>>
    BY <1>1, SubSeqEmpty
  <1>3. SubSeq(m, 2, N) = Tail(m) /\ Tail(m) \in Seq(R)
    BY <1>1, TailIsSubSeq, HeadTailProperties
  <1>4. <<>> \o Tail(m) = Tail(m)
    BY <1>3, ConcatEmptySeq
  <1>5. Head(m) = m[1] /\ 1 \in 1..N /\ 1 + 1 = 2
    BY <1>1
  <1> QED
    BY <1>1, <1>2, <1>3, <1>4, <1>5 DEF RemoveIndex

\* capped(): the key is set; a full map loses its first entry, another key.
LEMMA MapIsCapped ==
    ASSUME NEW K, NEW V, NEW m \in MapOf(K, V), NEW k \in K, NEW v \in V,
           NEW max \in Nat \ {0}, Len(m) <= max
    PROVE  LET n == Capped(m, k, v, max)
               E == CappedEvicts(m, k, max)
           IN  /\ n \in MapOf(K, V) /\ Len(n) <= max
               /\ MapKeys(n) = (MapKeys(m) \ E) \cup {k}
               /\ MapGet(n, k) = v
               /\ \A j \in MapKeys(n) \ {k} : MapGet(n, j) = MapGet(m, j)
               /\ E \subseteq MapKeys(m) /\ k \notin E
               /\ \A e \in E : Len(m) = max /\ e = Head(m).key
  <1>1. Len(m) \in Nat
    BY MapLookup
  <1>2. CASE k \notin MapKeys(m) /\ Len(m) >= max
    <2>1. m # <<>> /\ Len(m) = max
      BY <1>1, <1>2
    <2> DEFINE t == Tail(m)
    <2>2. t = RemoveIndex(m, 1) /\ 1 \in 1..Len(m) /\ Head(m) = m[1]
      BY <2>1, MapTail
    <2> HIDE DEF t
    <2>3. /\ t \in MapOf(K, V) /\ MapKeys(t) = MapKeys(m) \ {m[1].key}
          /\ \A j \in MapKeys(t) : MapGet(t, j) = MapGet(m, j)
          /\ Len(t) = Len(m) - 1
      BY <2>2, MapLosesIndex
    <2> DEFINE n == MapSet(t, k, v)
    <2>4. k \notin MapKeys(t) /\ m[1].key \in MapKeys(m)
      BY <1>2, <2>2, <2>3, MapLookup
    <2>5. /\ n \in MapOf(K, V) /\ MapKeys(n) = MapKeys(t) \cup {k}
          /\ MapGet(n, k) = v
          /\ \A j \in MapKeys(t) \ {k} : MapGet(n, j) = MapGet(t, j)
          /\ Len(n) = Len(t) + 1
      BY <2>3, <2>4, MapIsSet
    <2>6. Capped(m, k, v, max) = n /\ CappedEvicts(m, k, max) = {m[1].key}
      BY <1>2, <2>2 DEF Capped, CappedEvicts, t
    <2> HIDE DEF n
    <2>7. Len(n) <= max
      BY <1>1, <2>1, <2>3, <2>5
    <2> QED
      BY <1>2, <2>1, <2>2, <2>3, <2>4, <2>5, <2>6, <2>7
  <1>3. CASE ~(k \notin MapKeys(m) /\ Len(m) >= max)
    <2> DEFINE n == MapSet(m, k, v)
    <2>1. Capped(m, k, v, max) = n /\ CappedEvicts(m, k, max) = {}
      BY <1>3 DEF Capped, CappedEvicts
    <2>2. /\ n \in MapOf(K, V) /\ MapKeys(n) = MapKeys(m) \cup {k}
          /\ MapGet(n, k) = v
          /\ \A j \in MapKeys(m) \ {k} : MapGet(n, j) = MapGet(m, j)
          /\ Len(n) = IF k \in MapKeys(m) THEN Len(m) ELSE Len(m) + 1
      BY MapIsSet
    <2> HIDE DEF n
    <2>3. Len(n) <= max
      BY <1>1, <1>3, <2>2
    <2> QED
      BY <2>1, <2>2, <2>3
  <1> QED
    BY <1>2, <1>3

(********************************** the cache *********************************)

CacheKeys == Ips \X Nat
Fetch == [key : CacheKeys, state : {"pending", "ok", "failed"}]

\* A fetch that is cached is the youngest of its key, and did not fail.
CachedIsYoungest ==
    \A k \in MapKeys(resolveCache) :
        LET r == MapGet(resolveCache, k)
        IN  /\ r \in Fetches /\ fetches[r].key = k /\ fetches[r].state # "failed"
            /\ \A s \in Fetches : s > r => fetches[s].key # k

Cached(r) ==
    /\ fetches[r].key \in MapKeys(resolveCache)
    /\ MapGet(resolveCache, fetches[r].key) = r

\* A fetch of the key of r, r or one before it, was evicted in flight.
EvictedUpTo(r) == \E q \in evicted : q <= r /\ fetches[q].key = fetches[r].key

CacheInv ==
    /\ resolveCache \in MapOf(CacheKeys, Nat) /\ Len(resolveCache) <= MaxCache
    /\ fetches \in Seq(Fetch) /\ evicted \subseteq Fetches
    /\ CachedIsYoungest
    /\ \A r \in Pending : Cached(r) \/ EvictedUpTo(r)

LEMMA KeysAreTyped ==
    ASSUME NEW ip \in Ips, NEW rtt \in Rtts
    PROVE  CacheKey(ip, rtt) \in CacheKeys /\ Rounded(rtt) \in Nat
  <1>1. rtt \in Nat
    BY TableAssumption
  <1>2. (rtt + 1) \div 2 \in Nat
    BY <1>1
  <1> QED
    BY <1>2 DEF CacheKey, CacheKeys, Rounded

LEMMA FetchesTyped ==
    ASSUME CacheInv
    PROVE  /\ Len(fetches) \in Nat /\ Fetches \subseteq Nat /\ MaxCache \in Nat \ {0}
           /\ \A r \in Fetches : fetches[r] \in Fetch /\ fetches[r].key \in CacheKeys
           /\ Len(fetches) + 1 \notin Fetches
           /\ Pending \subseteq Fetches
  <1>1. fetches \in Seq(Fetch) /\ Len(fetches) \in Nat
    BY DEF CacheInv
  <1>2. \A r \in Fetches : fetches[r] \in Fetch
    BY <1>1, ElementOfSeq DEF Fetches
  <1> QED
    BY <1>1, <1>2, CacheAssumption DEF Fetches, Fetch, Pending

LEMMA InitCache == CacheInit => CacheInv
  <1> SUFFICES ASSUME CacheInit PROVE CacheInv
    OBVIOUS
  <1>1. Len(<<>>) = 0 /\ 1..0 = {} /\ 0 <= MaxCache
    BY EmptySeq, CacheAssumption
  <1>2. <<>> \in MapOf(CacheKeys, Nat)
    BY <1>1, EmptySeq DEF MapOf
  <1>3. Fetches = {} /\ MapKeys(resolveCache) = {}
    BY <1>1 DEF CacheInit, Fetches, MapKeys
  <1> QED
    BY <1>1, <1>2, <1>3, EmptySeq DEF CacheInit, CacheInv, CachedIsYoungest, Pending

\* What a miss does, by keys.
LEMMA MissEffect ==
    ASSUME CacheInv, NEW k \in CacheKeys, NEW n, Miss(k, n)
    PROVE  /\ n = Len(fetches) + 1 /\ n \in Nat /\ k \notin MapKeys(resolveCache)
           /\ resolveCache' \in MapOf(CacheKeys, Nat) /\ Len(resolveCache') <= MaxCache
           /\ k \in MapKeys(resolveCache') /\ MapGet(resolveCache', k) = n
           /\ \A j \in MapKeys(resolveCache') \ {k} :
                 /\ j \in MapKeys(resolveCache)
                 /\ MapGet(resolveCache', j) = MapGet(resolveCache, j)
           /\ \A j \in MapKeys(resolveCache) \ MapKeys(resolveCache') :
                 /\ Len(resolveCache) = MaxCache /\ j = Head(resolveCache).key
                 /\ MapGet(resolveCache, j) \in Pending =>
                       MapGet(resolveCache, j) \in evicted'
           /\ evicted \subseteq evicted' /\ evicted' \subseteq Fetches
           /\ fetches' \in Seq(Fetch) /\ Len(fetches') = n
           /\ fetches'[n] = [key |-> k, state |-> "pending"]
           /\ \A r \in Fetches : fetches'[r] = fetches[r]
  <1> DEFINE m == resolveCache
             E == CappedEvicts(resolveCache, k, MaxCache)
             f == [key |-> k, state |-> "pending"]
  <1>1. /\ n = Len(fetches) + 1 /\ k \notin MapKeys(m)
        /\ fetches' = Append(fetches, f)
        /\ resolveCache' = Capped(m, k, n, MaxCache)
        /\ evicted' = evicted \cup ({MapGet(m, e) : e \in E} \cap Pending)
    BY DEF Miss
  <1>2. n \in Nat /\ fetches \in Seq(Fetch) /\ f \in Fetch
    BY <1>1, FetchesTyped DEF CacheInv, Fetch
  <1>3. /\ fetches' \in Seq(Fetch) /\ Len(fetches') = n /\ fetches'[n] = f
        /\ \A r \in Fetches : fetches'[r] = fetches[r]
    BY <1>1, <1>2, AppendProperties DEF Fetches
  <1>4. m \in MapOf(CacheKeys, Nat) /\ MaxCache \in Nat \ {0} /\ Len(m) <= MaxCache
    BY FetchesTyped DEF CacheInv
  <1> DEFINE V == Nat
             c == Capped(m, k, n, MaxCache)
  <1>5. /\ c \in MapOf(CacheKeys, V) /\ Len(c) <= MaxCache
        /\ MapKeys(c) = (MapKeys(m) \ E) \cup {k} /\ MapGet(c, k) = n
        /\ \A j \in MapKeys(c) \ {k} : MapGet(c, j) = MapGet(m, j)
        /\ \A e \in E : Len(m) = MaxCache /\ e = Head(m).key
    <2>1. n \in V /\ m \in MapOf(CacheKeys, V)
      BY <1>2, <1>4
    <2> HIDE DEF V
    <2> QED
      BY <1>4, <2>1, MapIsCapped
  <1>6. evicted \subseteq Fetches /\ Pending \subseteq Fetches
    BY FetchesTyped DEF CacheInv
  <1>7. resolveCache' = c /\ V = Nat
    BY <1>1
  <1> HIDE DEF f, E, c, V
  <1> QED
    BY <1>1, <1>2, <1>3, <1>5, <1>6, <1>7 DEF f

LEMMA MissKeepsCache ==
    ASSUME CacheInv, NEW k \in CacheKeys, NEW n, Miss(k, n)
    PROVE  CacheInv'
  <1> DEFINE m == resolveCache
  <1>1. /\ n = Len(fetches) + 1 /\ n \in Nat /\ k \notin MapKeys(m)
        /\ resolveCache' \in MapOf(CacheKeys, Nat) /\ Len(resolveCache') <= MaxCache
        /\ k \in MapKeys(resolveCache') /\ MapGet(resolveCache', k) = n
        /\ \A j \in MapKeys(resolveCache') \ {k} :
              j \in MapKeys(m) /\ MapGet(resolveCache', j) = MapGet(m, j)
        /\ \A j \in MapKeys(m) \ MapKeys(resolveCache') :
              MapGet(m, j) \in Pending => MapGet(m, j) \in evicted'
        /\ evicted \subseteq evicted' /\ evicted' \subseteq Fetches
        /\ fetches' \in Seq(Fetch) /\ Len(fetches') = n
        /\ fetches'[n] = [key |-> k, state |-> "pending"]
        /\ \A r \in Fetches : fetches'[r] = fetches[r]
    BY MissEffect
  <1>2. /\ Fetches' = Fetches \cup {n} /\ n \notin Fetches /\ Fetches \subseteq Nat
        /\ \A r \in Fetches : r < n
    BY <1>1, FetchesTyped DEF Fetches
  <1>3. fetches'[n].key = k /\ fetches'[n].state = "pending"
    BY <1>1
  <1>4. CachedIsYoungest'
    <2> SUFFICES ASSUME NEW j \in MapKeys(resolveCache'), NEW r, r = MapGet(resolveCache', j)
                 PROVE  /\ r \in Fetches' /\ fetches'[r].key = j
                        /\ fetches'[r].state # "failed"
                        /\ \A s \in Fetches' : s > r => fetches'[s].key # j
      BY DEF CachedIsYoungest
    <2>1. CASE j = k
      <3>1. r = n
        BY <1>1, <2>1
      <3>2. \A s \in Fetches' : ~(s > n)
        BY <1>1, <1>2
      <3> QED
        BY <1>2, <1>3, <2>1, <3>1, <3>2
    <2>2. CASE j # k
      <3>1. j \in MapKeys(m) /\ r = MapGet(m, j)
        BY <1>1, <2>2
      <3>2. /\ r \in Fetches /\ fetches[r].key = j /\ fetches[r].state # "failed"
            /\ \A s \in Fetches : s > r => fetches[s].key # j
        BY <3>1 DEF CacheInv, CachedIsYoungest
      <3> QED
        BY <1>1, <1>2, <1>3, <2>2, <3>2
    <2> QED
      BY <2>1, <2>2
  <1>5. ASSUME NEW r \in Pending' PROVE Cached(r)' \/ EvictedUpTo(r)'
    <2>1. CASE r = n
      BY <1>1, <1>3, <2>1 DEF Cached
    <2>2. CASE r # n
      <3>1. r \in Pending /\ r \in Fetches /\ fetches'[r] = fetches[r]
        BY <1>1, <1>2, <2>2 DEF Pending
      <3>2. CASE EvictedUpTo(r)
        <4>1. PICK q \in evicted : q <= r /\ fetches[q].key = fetches[r].key
          BY <3>2 DEF EvictedUpTo
        <4>2. q \in evicted' /\ fetches'[q] = fetches[q]
          BY <1>1, <4>1 DEF CacheInv
        <4> QED
          BY <3>1, <4>1, <4>2 DEF EvictedUpTo
      <3>3. CASE Cached(r)
        <4> DEFINE j == fetches[r].key
        <4>1. j \in MapKeys(m) /\ MapGet(m, j) = r
          BY <3>3 DEF Cached
        <4>2. CASE j \in MapKeys(resolveCache')
          <5>1. MapGet(resolveCache', j) = r
            BY <1>1, <4>1, <4>2
          <5> QED
            BY <3>1, <4>2, <5>1 DEF Cached
        <4>3. CASE j \notin MapKeys(resolveCache')
          <5>1. r \in evicted'
            BY <1>1, <3>1, <4>1, <4>3
          <5>2. r <= r
            BY <1>2, <3>1
          <5> QED
            BY <5>1, <5>2 DEF EvictedUpTo
        <4> QED
          BY <4>2, <4>3
      <3> QED
        BY <3>1, <3>2, <3>3 DEF CacheInv
    <2> QED
      BY <2>1, <2>2
  <1>6. evicted' \subseteq Fetches'
    BY <1>1, <1>2
  <1> QED
    BY <1>1, <1>4, <1>5, <1>6 DEF CacheInv

\* A fetch that settles keeps its place and its key.
LEMMA FetchSettles ==
    ASSUME CacheInv, NEW r \in Pending, NEW state \in {"ok", "failed"},
           fetches' = [fetches EXCEPT ![r].state = state]
    PROVE  /\ fetches' \in Seq(Fetch) /\ Fetches' = Fetches
           /\ Pending' = Pending \ {r} /\ fetches'[r].state = state
           /\ \A s \in Fetches : fetches'[s].key = fetches[s].key
           /\ \A s \in Fetches \ {r} : fetches'[s] = fetches[s]
  <1> DEFINE f == [key |-> fetches[r].key, state |-> state]
  <1>1. r \in Fetches /\ fetches[r] \in Fetch /\ fetches \in Seq(Fetch)
    BY FetchesTyped DEF CacheInv, Pending
  <1>2. [fetches[r] EXCEPT !.state = state] = f /\ f \in Fetch
    BY <1>1 DEF Fetch
  <1>3. fetches' = [fetches EXCEPT ![r] = f]
    BY <1>1, <1>2
  <1>4. f.key = fetches[r].key /\ f.state = state
    OBVIOUS
  <1> HIDE DEF f
  <1>5. fetches' \in Seq(Fetch) /\ Len(fetches') = Len(fetches)
    BY <1>1, <1>2, <1>3, ExceptSeq DEF Fetches
  <1>6. fetches'[r] = f /\ \A s \in Fetches \ {r} : fetches'[s] = fetches[s]
    BY <1>1, <1>3 DEF Fetches
  <1>7. Fetches' = Fetches
    BY <1>5 DEF Fetches
  <1>8. \A s \in Fetches : fetches'[s].key = fetches[s].key
    BY <1>4, <1>6
  <1>9. Pending' = Pending \ {r}
    BY <1>4, <1>6, <1>7 DEF Pending
  <1> QED
    BY <1>4, <1>5, <1>6, <1>7, <1>8, <1>9

LEMMA OkKeepsCache ==
    ASSUME CacheInv, NEW r, FetchOk(r)
    PROVE  CacheInv'
  <1>1. /\ r \in Pending /\ fetches' = [fetches EXCEPT ![r].state = "ok"]
        /\ UNCHANGED <<resolveCache, evicted>>
    BY DEF FetchOk
  <1>2. /\ fetches' \in Seq(Fetch) /\ Fetches' = Fetches
        /\ Pending' = Pending \ {r} /\ fetches'[r].state = "ok"
        /\ \A s \in Fetches : fetches'[s].key = fetches[s].key
        /\ \A s \in Fetches \ {r} : fetches'[s] = fetches[s]
    BY <1>1, FetchSettles
  <1>3. CachedIsYoungest'
    <2>1. \A s \in Fetches : fetches[s].state # "failed" => fetches'[s].state # "failed"
      BY <1>2
    <2> QED
      BY <1>1, <1>2, <2>1 DEF CacheInv, CachedIsYoungest
  <1>4. ASSUME NEW s \in Pending' PROVE Cached(s)' \/ EvictedUpTo(s)'
    <2>1. s \in Pending /\ fetches'[s].key = fetches[s].key
      BY <1>2, <1>4 DEF Pending
    <2>2. \A q \in evicted : fetches'[q].key = fetches[q].key
      BY <1>2 DEF CacheInv
    <2> QED
      BY <1>1, <2>1, <2>2 DEF CacheInv, Cached, EvictedUpTo
  <1> QED
    BY <1>1, <1>2, <1>3, <1>4 DEF CacheInv

LEMMA FailureKeepsCache ==
    ASSUME CacheInv, NEW r, FetchFails(r)
    PROVE  CacheInv'
  <1> DEFINE m == resolveCache
             k == fetches[r].key
  <1>1. /\ r \in Pending /\ fetches' = [fetches EXCEPT ![r].state = "failed"]
        /\ resolveCache' = MapDelete(m, k) /\ evicted' = evicted
    BY DEF FetchFails
  <1>2. /\ fetches' \in Seq(Fetch) /\ Fetches' = Fetches
        /\ Pending' = Pending \ {r} /\ fetches'[r].state = "failed"
        /\ \A s \in Fetches : fetches'[s].key = fetches[s].key
        /\ \A s \in Fetches \ {r} : fetches'[s] = fetches[s]
    BY <1>1, FetchSettles
  <1>3. /\ resolveCache' \in MapOf(CacheKeys, Nat)
        /\ MapKeys(resolveCache') = MapKeys(m) \ {k}
        /\ \A j \in MapKeys(resolveCache') : MapGet(resolveCache', j) = MapGet(m, j)
        /\ Len(resolveCache') <= Len(m) /\ Len(m) \in Nat
    <2> HIDE DEF k
    <2> QED
      BY <1>1, MapDeletes, MapLookup DEF CacheInv
  <1>4. Len(resolveCache') <= MaxCache
    <2>1. Len(resolveCache') \in Nat /\ MaxCache \in Nat /\ Len(m) <= MaxCache
      BY <1>3, FetchesTyped, MapLookup DEF CacheInv
    <2> QED
      BY <1>3, <2>1
  <1>5. CachedIsYoungest'
    <2>1. ASSUME NEW j \in MapKeys(resolveCache')
          PROVE  /\ MapGet(m, j) \in Fetches /\ fetches'[MapGet(m, j)].key = j
                 /\ fetches'[MapGet(m, j)].state # "failed"
                 /\ \A s \in Fetches : s > MapGet(m, j) => fetches'[s].key # j
      <3>1. j \in MapKeys(m) /\ j # k
        BY <1>3
      <3>2. /\ MapGet(m, j) \in Fetches /\ fetches[MapGet(m, j)].key = j
            /\ fetches[MapGet(m, j)].state # "failed"
            /\ \A s \in Fetches : s > MapGet(m, j) => fetches[s].key # j
        BY <3>1 DEF CacheInv, CachedIsYoungest
      <3>3. MapGet(m, j) # r
        BY <3>1, <3>2
      <3> QED
        BY <1>2, <3>2, <3>3
    <2> QED
      BY <1>2, <1>3, <2>1 DEF CachedIsYoungest
  <1>6. ASSUME NEW s \in Pending' PROVE Cached(s)' \/ EvictedUpTo(s)'
    <2>1. /\ s \in Pending /\ s # r /\ s \in Fetches /\ r \in Fetches
          /\ fetches'[s].key = fetches[s].key
      BY <1>1, <1>2, <1>6 DEF Pending
    <2>2. \A q \in evicted : fetches'[q].key = fetches[q].key
      BY <1>2 DEF CacheInv
    <2>3. CASE EvictedUpTo(s)
      BY <1>1, <2>1, <2>2, <2>3 DEF EvictedUpTo
    <2>4. CASE Cached(s) /\ fetches[s].key # k
      BY <1>3, <2>1, <2>4 DEF Cached
    <2>5. CASE Cached(s) /\ fetches[s].key = k
      <3>1. s \in Nat /\ r \in Nat /\ MapGet(m, k) = s /\ k \in MapKeys(m)
        BY <2>1, <2>5, FetchesTyped DEF Cached
      <3>2. ~(r > s)
        BY <2>1, <3>1 DEF CacheInv, CachedIsYoungest
      <3>3. EvictedUpTo(r)
        BY <1>1, <2>1, <3>1 DEF CacheInv, Cached
      <3>4. PICK q \in evicted : q <= r /\ fetches[q].key = k
        BY <3>3 DEF EvictedUpTo
      <3>5. q <= s
        <4>1. q \in Nat
          BY FetchesTyped DEF CacheInv
        <4> QED
          BY <3>1, <3>2, <3>4, <4>1
      <3> QED
        BY <1>1, <2>1, <2>2, <2>5, <3>4, <3>5 DEF EvictedUpTo
    <2> QED
      BY <2>1, <2>3, <2>4, <2>5 DEF CacheInv
  <1>7. evicted' \subseteq Fetches'
    BY <1>1, <1>2 DEF CacheInv
  <1> QED
    BY <1>2, <1>3, <1>4, <1>5, <1>6, <1>7 DEF CacheInv

\* Every step of the server is one of resolve()'s or leaves the cache alone.
LEMMA CacheSteps ==
    ASSUME [ServerNext]_serverVars
    PROVE  \/ \E k \in CacheKeys, n \in Nat : Resolve(k, n)
           \/ \E r \in Fetches : FetchOk(r) \/ FetchFails(r)
           \/ UNCHANGED cacheVars
  <1>1. ASSUME NEW ip \in Ips, NEW rtt \in Rtts, RttArrives(ip, rtt)
        PROVE  \E k \in CacheKeys, n \in Nat : Resolve(k, n)
    <2>1. PICK n \in 1..MaxFetches : Resolve(CacheKey(ip, rtt), n)
      BY <1>1 DEF RttArrives
    <2>2. n \in Nat
      BY CacheAssumption
    <2> QED
      BY <2>1, <2>2, KeysAreTyped
  <1>2. ASSUME NEW ip \in Ips, NEW bytes \in Volumes, VolArrives(ip, bytes)
        PROVE  UNCHANGED cacheVars
    BY <1>2 DEF VolArrives
  <1>3. ASSUME NEW quic \in StatValues, NEW ipv6 \in StatValues, StatArrives(quic, ipv6)
        PROVE  UNCHANGED cacheVars
    BY <1>3 DEF StatArrives
  <1>4. ASSUME Resume \/ Timer \/ ClientEvent \/ TimePasses PROVE UNCHANGED cacheVars
    BY <1>4 DEF Resume, Timer, ClientEvent, TimePasses
  <1>5. ASSUME NEW r \in Fetches, Failed(r) \/ \E route \in Routes : Answered(r, route)
        PROVE  FetchOk(r) \/ FetchFails(r)
    BY <1>5 DEF Failed, Answered
  <1>6. ASSUME UNCHANGED serverVars PROVE UNCHANGED cacheVars
    BY <1>6 DEF serverVars
  <1> QED
    BY <1>1, <1>2, <1>3, <1>4, <1>5, <1>6 DEF ServerNext

LEMMA StepCache == CacheInv /\ [ServerNext]_serverVars => CacheInv'
  <1> SUFFICES ASSUME CacheInv, [ServerNext]_serverVars PROVE CacheInv'
    OBVIOUS
  <1>1. ASSUME UNCHANGED cacheVars PROVE CacheInv'
    BY <1>1 DEF cacheVars, CacheInv, CachedIsYoungest, Cached, EvictedUpTo, Pending, Fetches
  <1>2. ASSUME NEW k \in CacheKeys, NEW n \in Nat, Resolve(k, n) PROVE CacheInv'
    BY <1>1, <1>2, MissKeepsCache DEF Resolve, Hit
  <1> QED
    BY <1>1, <1>2, CacheSteps, OkKeepsCache, FailureKeepsCache

\* For any number of keys, fetches and failures: the cache is in bounds and
\* holds no failed fetch, and two fetches of one key are in flight together
\* only after one of that key was evicted in flight.
THEOREM OneFetchPerKey == ServerSpec => []SingleFlight
  <1>1. ServerInit => CacheInv
    BY InitCache DEF ServerInit
  <1>2. CacheInv => SingleFlight
    <2> SUFFICES ASSUME CacheInv PROVE SingleFlight
      OBVIOUS
    <2>1. ASSUME NEW i \in 1..Len(resolveCache)
          PROVE  LET r == resolveCache[i].val
                 IN  fetches[r].state # "failed" /\ fetches[r].key = resolveCache[i].key
      <3>1. /\ resolveCache[i].key \in MapKeys(resolveCache)
            /\ MapGet(resolveCache, resolveCache[i].key) = resolveCache[i].val
        BY MapLookup DEF CacheInv
      <3> QED
        BY <3>1 DEF CacheInv, CachedIsYoungest
    <2>2. ASSUME NEW r \in Pending, NEW s \in Pending, r < s,
                 fetches[r].key = fetches[s].key
          PROVE  \E q \in evicted : q <= r /\ fetches[q].key = fetches[r].key
      <3>1. ~Cached(r)
        <4>1. s \in Fetches /\ s > r
          BY <2>2, FetchesTyped
        <4> QED
          BY <2>2, <4>1 DEF Cached, CacheInv, CachedIsYoungest
      <3> QED
        BY <3>1 DEF CacheInv, EvictedUpTo
    <2> QED
      BY <2>1, <2>2 DEF SingleFlight, CacheInv
  <1> QED
    BY <1>1, <1>2, StepCache, PTL DEF ServerSpec

\* And an answer stays cached until it is the oldest of a full cache when a new
\* key comes, or an older fetch of its key fails late.
THEOREM AnswersAreKept == ServerSpec => AnswersStay
  <1> DEFINE Stays ==
        \A k \in MapKeys(resolveCache) \ MapKeys(resolveCache') :
          LET r == MapGet(resolveCache, k)
          IN  \/ r \in Pending
              \/ /\ Len(resolveCache) = MaxCache /\ k = Head(resolveCache).key
                 /\ Len(fetches') > Len(fetches)
              \/ \E q \in Pending : /\ q < r /\ fetches[q].key = k
                                    /\ fetches'[q].state = "failed"
  <1>1. ServerInit => CacheInv
    BY InitCache DEF ServerInit
  <1>2. CacheInv /\ [ServerNext]_serverVars => [Stays]_cacheVars
    <2> SUFFICES ASSUME CacheInv, [ServerNext]_serverVars PROVE Stays \/ UNCHANGED cacheVars
      BY DEF cacheVars
    <2>1. ASSUME NEW k \in CacheKeys, NEW n \in Nat, Miss(k, n) PROVE Stays
      <3>1. \A j \in MapKeys(resolveCache) \ MapKeys(resolveCache') :
               Len(resolveCache) = MaxCache /\ j = Head(resolveCache).key
        BY <2>1, MissEffect
      <3>2. Len(fetches') > Len(fetches)
        <4>1. fetches' = Append(fetches, [key |-> k, state |-> "pending"])
          BY <2>1 DEF Miss
        <4>2. fetches \in Seq(Fetch) /\ Len(fetches) \in Nat
          BY FetchesTyped DEF CacheInv
        <4> QED
          BY <4>1, <4>2, AppendProperties
      <3> QED
        BY <3>1, <3>2
    <2>2. ASSUME NEW q \in Fetches, FetchFails(q) PROVE Stays
      <3> SUFFICES ASSUME NEW k \in MapKeys(resolveCache) \ MapKeys(resolveCache'),
                          NEW r, r = MapGet(resolveCache, k), r \notin Pending
                   PROVE  /\ q \in Pending /\ q < r /\ fetches[q].key = k
                          /\ fetches'[q].state = "failed"
        OBVIOUS
      <3>1. /\ q \in Pending /\ fetches' = [fetches EXCEPT ![q].state = "failed"]
            /\ resolveCache' = MapDelete(resolveCache, fetches[q].key)
        BY <2>2 DEF FetchFails
      <3>2. fetches'[q].state = "failed"
        BY <3>1, FetchSettles
      <3>3. MapKeys(resolveCache') = MapKeys(resolveCache) \ {fetches[q].key}
        BY <3>1, MapDeletes DEF CacheInv
      <3>4. k = fetches[q].key /\ q # r
        BY <3>1, <3>3
      <3>5. r \in Fetches /\ ~(q > r)
        BY <3>4 DEF CacheInv, CachedIsYoungest
      <3>6. q < r
        BY <3>4, <3>5, FetchesTyped
      <3> QED
        BY <3>1, <3>2, <3>4, <3>6
    <2>3. ASSUME NEW q \in Fetches, FetchOk(q) PROVE Stays
      BY <2>3 DEF FetchOk
    <2>4. ASSUME NEW k \in CacheKeys, NEW n \in Nat, Hit(k, n) PROVE UNCHANGED cacheVars
      BY <2>4 DEF Hit
    <2> QED
      BY <2>1, <2>2, <2>3, <2>4, CacheSteps DEF Resolve
  <1> QED
    BY <1>1, <1>2, StepCache, PTL DEF ServerSpec, AnswersStay

(******************************** entities ************************************)

EntityKeys == {KeyOf(route, ip) : route \in Routes, ip \in Ips}
Sample == [t : Nat, value : Nat]
Agg == [route : Routes, rtts : Seq(Sample), volumes : Seq(Sample),
        lastRtt : Nat, lastSeen : Nat, dirty : BOOLEAN]

\* The least element of a set of numbers.
LEMMA LeastNumber ==
    ASSUME NEW T \in SUBSET Nat, T # {}
    PROVE  \E x \in T : \A y \in T : x <= y
  <1> DEFINE R == {p \in Nat \X Nat : p[1] < p[2]}
  <1>1. IsWellFoundedOn(R, Nat)
    BY NatLessThanWellFounded DEF OpToRel
  <1>2. PICK x \in T : \A y \in T : ~ (<<y, x>> \in R)
    <2> HIDE DEF R
    <2> QED
      BY <1>1, WFMin
  <1>3. \A y \in T : ~(y < x)
    BY <1>2
  <1> QED
    BY <1>3

LEMMA MinIsLeast ==
    ASSUME NEW T \in SUBSET Nat, T # {}
    PROVE  Min(T) \in T /\ \A y \in T : Min(T) <= y
  BY LeastNumber DEF Min

(********************************** filters ***********************************)

Rank(I, i) == Cardinality({j \in I : j <= i})

\* The elements of I and their ranks are one to one.
LEMMA Ranks ==
    ASSUME NEW n \in Nat, NEW I \in SUBSET (1..n)
    PROVE  /\ Cardinality(I) \in Nat
           /\ \A i \in I : Rank(I, i) \in 1..Cardinality(I)
           /\ \A i, j \in I : Rank(I, i) = Rank(I, j) => i = j
           /\ \A k \in 1..Cardinality(I) : \E i \in I : Rank(I, i) = k
  <1> DEFINE U(i) == {j \in I : j <= i}
             N == Cardinality(I)
  <1>1. IsFiniteSet(I) /\ N \in Nat
    <2>1. IsFiniteSet(1..n)
      BY FS_Interval
    <2>2. IsFiniteSet(I)
      BY <2>1, FS_Subset
    <2> QED
      BY <2>2, FS_CardinalityType
  <1>2. ASSUME NEW i \in I
        PROVE  IsFiniteSet(U(i)) /\ Rank(I, i) \in Nat /\ Rank(I, i) <= N /\ i \in U(i)
    <2>1. U(i) \subseteq I /\ i \in U(i)
      OBVIOUS
    <2>2. IsFiniteSet(U(i)) /\ Cardinality(U(i)) <= N
      BY <1>1, <2>1, FS_Subset
    <2> QED
      BY <2>1, <2>2, FS_CardinalityType DEF Rank
  <1>3. ASSUME NEW i \in I PROVE Rank(I, i) \in 1..N
    <2>1. Cardinality(U(i)) # 0
      BY <1>2, FS_EmptySet
    <2> HIDE DEF N
    <2> QED
      BY <1>1, <1>2, <2>1 DEF Rank
  <1>4. ASSUME NEW i \in I, NEW j \in I, i < j PROVE Rank(I, i) # Rank(I, j)
    <2>0. I \subseteq Int /\ i \in Int /\ j \in Int
      OBVIOUS
    <2>1. \A x \in I : x \in Int /\ (x <= i => x <= j) /\ j <= j /\ ~(j <= i)
      BY <1>4, <2>0
    <2>a. U(i) \subseteq U(j) /\ j \notin U(i) /\ j \in U(j)
      BY <2>1
    <2>2. Cardinality(U(i)) # Cardinality(U(j))
      <3> HIDE DEF U
      <3> QED
        BY <1>2, <2>a, FS_Subset
    <2> QED
      BY <2>2 DEF Rank
  <1>5. ASSUME NEW i \in I, NEW j \in I, Rank(I, i) = Rank(I, j) PROVE i = j
    <2>1. ~(i < j) /\ ~(j < i)
      BY <1>4, <1>5
    <2> QED
      BY <2>1
  <1> DEFINE f == [i \in I |-> Rank(I, i)]
  <1>6. f \in Injection(I, 1..N)
    BY <1>3, <1>5 DEF Injection, IsInjective
  <1>7. IsFiniteSet(1..N) /\ Cardinality(1..N) = N
    BY <1>1, FS_Interval
  <1>8. f \in Surjection(I, 1..N)
    <2> HIDE DEF f
    <2> QED
      BY <1>6, <1>7, FS_Injection
  <1>9. \A k \in 1..N : \E i \in I : Rank(I, i) = k
    BY <1>8 DEF Surjection
  <1> QED
    BY <1>1, <1>3, <1>5, <1>9

LEMMA FilterKeeps ==
    ASSUME NEW S, NEW s \in Seq(S), NEW I \in SUBSET (1..Len(s))
    PROVE  /\ Filtered(s, I) \in Seq(S)
           /\ \E p \in [1..Len(Filtered(s, I)) -> I] :
                 /\ \A k \in 1..Len(Filtered(s, I)) : Filtered(s, I)[k] = s[p[k]]
                 /\ \A k, l \in 1..Len(Filtered(s, I)) : p[k] = p[l] => k = l
                 /\ \A i \in I : \E k \in 1..Len(Filtered(s, I)) : p[k] = i
  <1> DEFINE N == Cardinality(I)
             p == [k \in 1..N |-> CHOOSE i \in I : Rank(I, i) = k]
             g == Filtered(s, I)
  <1>1. /\ N \in Nat /\ \A i \in I : Rank(I, i) \in 1..N
        /\ \A i, j \in I : Rank(I, i) = Rank(I, j) => i = j
        /\ \A k \in 1..N : \E i \in I : Rank(I, i) = k
    <2>1. Len(s) \in Nat
      OBVIOUS
    <2> QED
      BY <2>1, Ranks
  <1>2. \A k \in 1..N : p[k] \in I /\ Rank(I, p[k]) = k
    BY <1>1
  <1>3. p \in [1..N -> I]
    BY <1>2
  <1>4. g = [k \in 1..N |-> s[p[k]]]
    BY DEF Filtered, Rank
  <1> HIDE DEF p, N, g
  <1>5. \A k \in 1..N : s[p[k]] \in S
    BY <1>2, ElementOfSeq
  <1>6. g \in Seq(S) /\ Len(g) = N
    BY <1>1, <1>4, <1>5
  <1>7. ASSUME NEW i \in I PROVE p[Rank(I, i)] = i
    <2>1. Rank(I, i) \in 1..N
      BY <1>1
    <2>2. p[Rank(I, i)] \in I /\ Rank(I, p[Rank(I, i)]) = Rank(I, i)
      BY <1>2, <2>1
    <2> QED
      BY <1>1, <2>2
  <1>8. /\ \A k \in 1..N : g[k] = s[p[k]]
        /\ \A k, l \in 1..N : p[k] = p[l] => k = l
        /\ \A i \in I : \E k \in 1..N : p[k] = i
    BY <1>1, <1>2, <1>4, <1>7
  <1> QED
    BY <1>3, <1>6, <1>8 DEF g

(********************************* entities ***********************************)

LEMMA UpdatedAgg ==
    ASSUME NEW agg \in Agg, NEW route \in Routes, NEW rtt \in Nat, now \in Nat
    PROVE  /\ Updated(agg, route, rtt) \in Agg
           /\ Updated(agg, route, rtt).route = route
           /\ Updated(agg, route, rtt).lastRtt = rtt
           /\ Updated(agg, route, rtt).lastSeen = now
           /\ Updated(agg, route, rtt).dirty
  <1> DEFINE rtts == Append(agg.rtts, [t |-> now, value |-> rtt])
  <1>1. rtts \in Seq(Sample)
    BY DEF Agg, Sample
  <1>2. Updated(agg, route, rtt) =
            [agg EXCEPT !.rtts = rtts, !.lastRtt = rtt, !.lastSeen = now,
                        !.route = route, !.dirty = TRUE]
    BY DEF Updated
  <1> HIDE DEF rtts
  <1> QED
    BY <1>1, <1>2 DEF Agg

LEMMA VolumeAgg ==
    ASSUME NEW agg \in Agg, NEW bytes \in Nat, now \in Nat
    PROVE  /\ VolumeUpdate(agg, bytes) \in Agg
           /\ VolumeUpdate(agg, bytes).route = agg.route
           /\ VolumeUpdate(agg, bytes).lastRtt = agg.lastRtt
           /\ VolumeUpdate(agg, bytes).lastSeen = now
           /\ VolumeUpdate(agg, bytes).dirty
  <1> DEFINE volumes == Append(agg.volumes, [t |-> now, value |-> bytes])
  <1>1. volumes \in Seq(Sample)
    BY DEF Agg, Sample
  <1>2. VolumeUpdate(agg, bytes) =
            [agg EXCEPT !.volumes = volumes, !.lastSeen = now, !.dirty = TRUE]
    BY DEF VolumeUpdate
  <1> HIDE DEF volumes
  <1> QED
    BY <1>1, <1>2 DEF Agg

Entry == [key : EntityKeys, val : Agg]

\* What onRtt() and onVol() remember of an entity, apart from the samples.
Same(a, b) == a.route = b.route /\ a.lastRtt = b.lastRtt /\ a.lastSeen = b.lastSeen

AgedOf(e) == [e EXCEPT !.val.rtts = Recent(@), !.val.volumes = Recent(@)]
CleanOf(e) == [e EXCEPT !.val.dirty = FALSE]

\* Ageing an entry drops samples, and nothing else.
LEMMA AgedEntry ==
    ASSUME NEW e \in Entry
    PROVE  /\ AgedOf(e) \in Entry /\ AgedOf(e).key = e.key
           /\ Same(AgedOf(e).val, e.val) /\ AgedOf(e).val.dirty = e.val.dirty
  <1> DEFINE rtts == Recent(e.val.rtts)
             volumes == Recent(e.val.volumes)
             v == [e.val EXCEPT !.rtts = rtts, !.volumes = volumes]
  <1>1. \A samples \in Seq(Sample) : Recent(samples) \in Seq(Sample)
    <2> SUFFICES ASSUME NEW samples \in Seq(Sample)
                 PROVE  Recent(samples) \in Seq(Sample)
      OBVIOUS
    <2> DEFINE I == {i \in 1..Len(samples) : now - samples[i].t <= WINDOW}
    <2>1. I \in SUBSET (1..Len(samples))
      OBVIOUS
    <2>2. Recent(samples) = Filtered(samples, I)
      BY DEF Recent
    <2> HIDE DEF I
    <2> QED
      BY <2>1, <2>2, FilterKeeps
  <1>2. e.val \in Agg /\ e.key \in EntityKeys
    BY DEF Entry
  <1>3. rtts \in Seq(Sample) /\ volumes \in Seq(Sample)
    BY <1>1, <1>2 DEF Agg
  <1>4. AgedOf(e) = [e EXCEPT !.val = v]
    BY <1>2 DEF Entry, Agg, AgedOf
  <1> HIDE DEF rtts, volumes
  <1>5. v \in Agg /\ Same(v, e.val) /\ v.dirty = e.val.dirty
    BY <1>2, <1>3 DEF Agg, Same
  <1> HIDE DEF v
  <1> QED
    BY <1>2, <1>4, <1>5 DEF Entry

LEMMA CleanEntry ==
    ASSUME NEW e \in Entry
    PROVE  CleanOf(e) \in Entry /\ CleanOf(e).key = e.key /\ Same(CleanOf(e).val, e.val)
  <1> DEFINE v == [e.val EXCEPT !.dirty = FALSE]
  <1>1. e.val \in Agg /\ e.key \in EntityKeys
    BY DEF Entry
  <1>2. CleanOf(e) = [e EXCEPT !.val = v]
    BY <1>1 DEF Entry, Agg, CleanOf
  <1>3. v \in Agg /\ Same(v, e.val)
    BY <1>1 DEF Agg, Same
  <1> HIDE DEF v
  <1> QED
    BY <1>1, <1>2, <1>3 DEF Entry

LEMMA CleanKeeps ==
    ASSUME NEW m \in MapOf(EntityKeys, Agg)
    PROVE  /\ Clean(m) \in MapOf(EntityKeys, Agg) /\ Len(Clean(m)) = Len(m)
           /\ MapKeys(Clean(m)) = MapKeys(m)
           /\ \A k \in MapKeys(m) : Same(MapGet(Clean(m), k), MapGet(m, k))
  <1> DEFINE c == Clean(m)
             M == Len(m)
  <1>1. m \in Seq(Entry) /\ M \in Nat /\ \A i \in 1..M : m[i] \in Entry
    BY MapLookup DEF MapOf, Entry
  <1>2. \A i, j \in 1..M : m[i].key = m[j].key => i = j
    BY DEF MapOf
  <1>3. /\ c \in Seq(Entry) /\ Len(c) = M
        /\ \A i \in 1..M : c[i].key = m[i].key /\ Same(c[i].val, m[i].val)
    <2>1. c = [i \in 1..M |-> CleanOf(m[i])]
      BY DEF Clean, CleanOf
    <2> HIDE DEF c
    <2>2. \A i \in 1..M : c[i] \in Entry
      BY <1>1, <2>1, CleanEntry
    <2> QED
      BY <1>1, <2>1, <2>2, CleanEntry
  <1> HIDE DEF c
  <1>4. c \in MapOf(EntityKeys, Agg)
    <2>1. \A i, j \in 1..M : c[i].key = c[j].key => i = j
      BY <1>2, <1>3
    <2> QED
      BY <1>3, <2>1 DEF MapOf, Entry
  <1>5. MapKeys(c) = MapKeys(m)
    BY <1>3 DEF MapKeys
  <1>6. ASSUME NEW k \in MapKeys(m) PROVE Same(MapGet(c, k), MapGet(m, k))
    <2>1. PICK i \in 1..M : m[i].key = k
      BY DEF MapKeys
    <2>2. MapGet(m, m[i].key) = m[i].val /\ MapGet(c, c[i].key) = c[i].val
      BY <1>3, <1>4, MapLookup
    <2> QED
      BY <1>3, <2>1, <2>2
  <1> QED
    BY <1>3, <1>4, <1>5, <1>6 DEF c

\* Every entity seen within RETAIN survives, aged but otherwise as it was.
LEMMA SurvivorsKept ==
    ASSUME entities \in MapOf(EntityKeys, Agg), now \in Nat
    PROVE  /\ Survivors \in MapOf(EntityKeys, Agg) /\ Len(Survivors) <= Len(entities)
           /\ \A k \in MapKeys(Survivors) :
                 /\ k \in MapKeys(entities)
                 /\ Same(MapGet(Survivors, k), MapGet(entities, k))
                 /\ MapGet(Survivors, k).dirty = MapGet(entities, k).dirty
           /\ \A k \in MapKeys(entities) :
                 now - MapGet(entities, k).lastSeen <= RETAIN => k \in MapKeys(Survivors)
  <1> DEFINE m == Survivors
             N == Len(entities)
             I == {i \in 1..N : now - LastSeenAt(i) <= RETAIN}
             M == Len(m)
  <1>1. entities \in Seq(Entry) /\ N \in Nat /\ \A i \in 1..N : entities[i] \in Entry
    BY MapLookup DEF MapOf, Entry
  <1>2. \A i, j \in 1..N : entities[i].key = entities[j].key => i = j
    BY DEF MapOf
  <1>3. /\ Aged \in Seq(Entry) /\ Len(Aged) = N
        /\ \A i \in 1..N : /\ Aged[i].key = entities[i].key
                           /\ Same(Aged[i].val, entities[i].val)
                           /\ Aged[i].val.dirty = entities[i].val.dirty
    <2>1. Aged = [i \in 1..N |-> AgedOf(entities[i])]
      BY DEF Aged, AgedOf
    <2>2. \A i \in 1..N : Aged[i] \in Entry
      BY <1>1, <2>1, AgedEntry
    <2> QED
      BY <1>1, <2>1, <2>2, AgedEntry
  <1>4. PICK p \in [1..M -> I] :
          /\ \A k \in 1..M : m[k] = Aged[p[k]]
          /\ \A k, l \in 1..M : p[k] = p[l] => k = l
          /\ \A i \in I : \E k \in 1..M : p[k] = i
    <2>1. m = Filtered(Aged, I) /\ I \in SUBSET (1..Len(Aged))
      BY <1>3 DEF Survivors
    <2> HIDE DEF I, m
    <2> QED
      BY <1>3, <2>1, FilterKeeps
  <1>5. m \in Seq(Entry) /\ M \in Nat
    <2>1. m = Filtered(Aged, I) /\ I \in SUBSET (1..Len(Aged))
      BY <1>3 DEF Survivors
    <2> HIDE DEF I, m
    <2> QED
      BY <1>3, <2>1, FilterKeeps
  <1>6. \A i : i \in I <=> i \in 1..N /\ now - LastSeenAt(i) <= RETAIN
    OBVIOUS
  <1> HIDE DEF m, I, M
  <1>7. /\ \A k \in 1..M : /\ p[k] \in 1..N /\ m[k].key = entities[p[k]].key
                           /\ Same(m[k].val, entities[p[k]].val)
                           /\ m[k].val.dirty = entities[p[k]].val.dirty
        /\ \A k, l \in 1..M : p[k] = p[l] => k = l
        /\ \A i \in 1..N : now - LastSeenAt(i) <= RETAIN => \E k \in 1..M : p[k] = i
    <2>1. \A k \in 1..M : p[k] \in I /\ m[k] = Aged[p[k]]
      BY <1>4
    <2>2. ASSUME NEW k \in 1..M
          PROVE  /\ p[k] \in 1..N /\ m[k].key = entities[p[k]].key
                 /\ Same(m[k].val, entities[p[k]].val)
                 /\ m[k].val.dirty = entities[p[k]].val.dirty
      <3>1. p[k] \in 1..N /\ m[k] = Aged[p[k]]
        BY <1>6, <2>1
      <3> QED
        BY <1>3, <3>1
    <2> QED
      BY <1>4, <1>5, <1>6, <2>2
  <1>8. m \in MapOf(EntityKeys, Agg)
    <2>1. ASSUME NEW k \in 1..M, NEW l \in 1..M, m[k].key = m[l].key PROVE k = l
      <3>1. p[k] \in 1..N /\ p[l] \in 1..N /\ entities[p[k]].key = entities[p[l]].key
        BY <1>7, <2>1
      <3> QED
        BY <1>2, <1>7, <3>1
    <2> QED
      BY <1>5, <2>1 DEF MapOf, Entry, M
  <1>9. M <= N
    <2>1. \A n \in Nat : IsFiniteSet(1..n) /\ Cardinality(1..n) = n
      BY FS_Interval
    <2> DEFINE q == [k \in 1..M |-> p[k]]
    <2>2. q \in Injection(1..M, 1..N)
      BY <1>7 DEF Injection, IsInjective
    <2> HIDE DEF q, N
    <2>3. Cardinality(1..M) <= Cardinality(1..N)
      BY <1>1, <1>5, <2>1, <2>2, FS_Injection
    <2> QED
      BY <1>1, <1>5, <2>1, <2>3
  <1>10. ASSUME NEW k \in 1..M
         PROVE  /\ m[k].key \in MapKeys(entities)
                /\ Same(MapGet(m, m[k].key), MapGet(entities, m[k].key))
                /\ MapGet(m, m[k].key).dirty = MapGet(entities, m[k].key).dirty
    <2>1. MapGet(m, m[k].key) = m[k].val
      BY <1>8, MapLookup DEF M
    <2>2. /\ entities[p[k]].key \in MapKeys(entities)
          /\ MapGet(entities, entities[p[k]].key) = entities[p[k]].val
      BY <1>7, MapLookup
    <2> QED
      BY <1>7, <2>1, <2>2
  <1>11. ASSUME NEW i \in 1..N, now - MapGet(entities, entities[i].key).lastSeen <= RETAIN
         PROVE  entities[i].key \in MapKeys(m)
    <2>1. MapGet(entities, entities[i].key) = entities[i].val
      BY MapLookup
    <2>2. now - LastSeenAt(i) <= RETAIN
      BY <1>11, <2>1 DEF LastSeenAt
    <2> QED
      BY <1>7, <2>2 DEF MapKeys, M
  <1>12. /\ \A k \in MapKeys(m) : \E i \in 1..M : m[i].key = k
         /\ \A k \in MapKeys(entities) : \E i \in 1..N : entities[i].key = k
    BY DEF MapKeys, M
  <1>13. /\ \A k \in MapKeys(m) : /\ k \in MapKeys(entities)
                                  /\ Same(MapGet(m, k), MapGet(entities, k))
                                  /\ MapGet(m, k).dirty = MapGet(entities, k).dirty
         /\ \A k \in MapKeys(entities) :
               now - MapGet(entities, k).lastSeen <= RETAIN => k \in MapKeys(m)
    BY <1>10, <1>11, <1>12
  <1> QED
    BY <1>8, <1>9, <1>13 DEF m, M

\* A tick keeps every entity seen within RETAIN, with its route and latency.
LEMMA TickKeeps ==
    ASSUME entities \in MapOf(EntityKeys, Agg), now \in Nat
    PROVE  LET m == Clean(Survivors)
           IN  /\ m \in MapOf(EntityKeys, Agg) /\ Len(m) <= Len(entities)
               /\ \A k \in MapKeys(m) :
                     /\ k \in MapKeys(entities)
                     /\ Same(MapGet(m, k), MapGet(entities, k))
               /\ \A k \in MapKeys(entities) :
                     now - MapGet(entities, k).lastSeen <= RETAIN => k \in MapKeys(m)
  <1>1. Survivors \in MapOf(EntityKeys, Agg)
    BY SurvivorsKept
  <1>2. /\ Clean(Survivors) \in MapOf(EntityKeys, Agg)
        /\ Len(Clean(Survivors)) = Len(Survivors)
        /\ MapKeys(Clean(Survivors)) = MapKeys(Survivors)
        /\ \A k \in MapKeys(Survivors) :
              Same(MapGet(Clean(Survivors), k), MapGet(Survivors, k))
    BY <1>1, CleanKeeps
  <1>3. ASSUME NEW k \in MapKeys(Clean(Survivors))
        PROVE  k \in MapKeys(entities) /\ Same(MapGet(Clean(Survivors), k), MapGet(entities, k))
    <2>1. k \in MapKeys(Survivors) /\ Same(MapGet(Clean(Survivors), k), MapGet(Survivors, k))
      BY <1>2
    <2>2. k \in MapKeys(entities) /\ Same(MapGet(Survivors, k), MapGet(entities, k))
      BY <2>1, SurvivorsKept
    <2> QED
      BY <2>1, <2>2 DEF Same
  <1>4. Len(Clean(Survivors)) <= Len(entities)
    <2>1. Len(Clean(Survivors)) = Len(Survivors)
      BY <1>2
    <2>2. Len(Survivors) <= Len(entities)
      BY SurvivorsKept
    <2> QED
      BY <2>1, <2>2
  <1>5. \A k \in MapKeys(entities) :
           now - MapGet(entities, k).lastSeen <= RETAIN => k \in MapKeys(Clean(Survivors))
    BY <1>2, SurvivorsKept
  <1> QED
    BY <1>2, <1>3, <1>4, <1>5

(******************************** the table ***********************************)

TableTyped ==
    /\ entities \in MapOf(EntityKeys, Agg) /\ Len(entities) <= MaxEntities
    /\ dstToKey \in MapOf(Ips, EntityKeys) /\ Len(dstToKey) <= MaxDst
    /\ folded \in MapOf(Ips, EntityKeys)
    /\ now \in Nat

\* No entity was heard from in the future.
HeardBefore == \A k \in MapKeys(entities) : MapGet(entities, k).lastSeen <= now

\* Where dstToKey has an address, it says where it was last folded.
FoldedThere ==
    \A ip \in MapKeys(dstToKey) :
        ip \in MapKeys(folded) /\ MapGet(folded, ip) = MapGet(dstToKey, ip)

TableInv == TableTyped /\ HeardBefore /\ FoldedThere

LEMMA InitTable == TableInit => TableInv
  <1> SUFFICES ASSUME TableInit PROVE TableInv
    OBVIOUS
  <1>1. Len(<<>>) = 0 /\ 1..0 = {} /\ 0 <= MaxEntities /\ 0 <= MaxDst
    BY EmptySeq, TableAssumption
  <1>2. <<>> \in MapOf(EntityKeys, Agg) /\ <<>> \in MapOf(Ips, EntityKeys)
    BY <1>1, EmptySeq DEF MapOf
  <1>3. MapKeys(entities) = {} /\ MapKeys(dstToKey) = {}
    BY <1>1 DEF TableInit, MapKeys
  <1> QED
    BY <1>1, <1>2, <1>3 DEF TableInit, TableInv, TableTyped, HeardBefore, FoldedThere

\* The entity that makes room in a full table is one heard from least recently.
LEMMA RoomMade ==
    ASSUME TableInv
    PROVE  /\ MakeRoom \in MapOf(EntityKeys, Agg) /\ Len(MakeRoom) + 1 <= MaxEntities
           /\ MapKeys(MakeRoom) \subseteq MapKeys(entities)
           /\ \A k \in MapKeys(MakeRoom) : MapGet(MakeRoom, k) = MapGet(entities, k)
           /\ \A k \in MapKeys(entities) \ MapKeys(MakeRoom) :
                 /\ Len(entities) = MaxEntities
                 /\ \A j \in MapKeys(entities) :
                       MapGet(entities, k).lastSeen <= MapGet(entities, j).lastSeen
  <1> DEFINE N == Len(entities)
  <1>1. /\ entities \in MapOf(EntityKeys, Agg) /\ N \in Nat /\ N <= MaxEntities
        /\ MaxEntities \in Nat \ {0}
    BY MapLookup, TableAssumption DEF TableInv, TableTyped
  <1>2. CASE N < MaxEntities
    <2>1. MakeRoom = entities
      BY <1>1, <1>2 DEF MakeRoom
    <2> QED
      BY <1>1, <1>2, <2>1
  <1>3. CASE ~(N < MaxEntities)
    <2> DEFINE T == {i \in 1..N : \A j \in 1..N : LastSeenAt(i) <= LastSeenAt(j)}
               H == {LastSeenAt(i) : i \in 1..N}
               p == OldestIndex
    <2>1. N = MaxEntities /\ 1 \in 1..N
      BY <1>1, <1>3
    <2>2. \A i \in 1..N : LastSeenAt(i) \in Nat
      <3>1. \A i \in 1..N : entities[i] \in [key : EntityKeys, val : Agg]
        BY <1>1, MapLookup
      <3> QED
        BY <3>1 DEF LastSeenAt, Agg
    <2>3. T # {}
      <3>1. H \in SUBSET Nat /\ H # {}
        BY <2>1, <2>2
      <3> HIDE DEF H
      <3>2. PICK x \in H : \A y \in H : x <= y
        BY <3>1, LeastNumber
      <3>3. PICK i \in 1..N : x = LastSeenAt(i)
        BY <3>2 DEF H
      <3>4. i \in T
        BY <3>2, <3>3 DEF H
      <3> QED
        BY <3>4
    <2>4. p \in T
      <3>1. T \in SUBSET Nat /\ p = Min(T)
        BY DEF OldestIndex
      <3> HIDE DEF T, p
      <3> QED
        BY <2>3, <3>1, MinIsLeast
    <2>5. p \in 1..N /\ \A j \in 1..N : LastSeenAt(p) <= LastSeenAt(j)
      BY <2>4
    <2>6. MakeRoom = RemoveIndex(entities, p)
      BY <1>1, <1>3, <2>1 DEF MakeRoom
    <2> HIDE DEF p
    <2>7. /\ MakeRoom \in MapOf(EntityKeys, Agg)
          /\ MapKeys(MakeRoom) = MapKeys(entities) \ {entities[p].key}
          /\ \A k \in MapKeys(MakeRoom) : MapGet(MakeRoom, k) = MapGet(entities, k)
          /\ Len(MakeRoom) = N - 1
      BY <1>1, <2>5, <2>6, MapLosesIndex
    <2>8. ASSUME NEW j \in MapKeys(entities)
          PROVE  MapGet(entities, entities[p].key).lastSeen
                    <= MapGet(entities, j).lastSeen
      <3>1. PICK i \in 1..N : entities[i].key = j
        BY DEF MapKeys
      <3>2. /\ MapGet(entities, entities[p].key) = entities[p].val
            /\ MapGet(entities, entities[i].key) = entities[i].val
        BY <1>1, <2>5, MapLookup
      <3> QED
        BY <2>5, <3>1, <3>2 DEF LastSeenAt
    <2>9. \A k \in MapKeys(entities) \ MapKeys(MakeRoom) : k = entities[p].key
      <3>1. MapKeys(MakeRoom) = MapKeys(entities) \ {entities[p].key}
        BY <2>7
      <3> QED
        BY <3>1
    <2>10. Len(MakeRoom) + 1 <= MaxEntities
      <3>1. Len(MakeRoom) = N - 1
        BY <2>7
      <3> QED
        BY <1>1, <3>1
    <2> QED
      BY <2>1, <2>7, <2>8, <2>9, <2>10
  <1> QED
    BY <1>2, <1>3

\* onRtt(): one entity is measured anew, and a new one may take the place of one
\* that was heard from least recently.
LEMMA RttEffect ==
    ASSUME TableInv, NEW ip \in Ips, NEW rtt \in Nat, NEW route \in Drawable,
           ApplyRtt(ip, rtt, route)
    PROVE  /\ entities' \in MapOf(EntityKeys, Agg) /\ Len(entities') <= MaxEntities
           /\ KeyOf(route, ip) \in MapKeys(entities')
           /\ MapGet(entities', KeyOf(route, ip)).route = route
           /\ MapGet(entities', KeyOf(route, ip)).lastRtt = rtt
           /\ MapGet(entities', KeyOf(route, ip)).lastSeen = now
           /\ MapGet(entities', KeyOf(route, ip)).dirty
           /\ \A k \in MapKeys(entities') \ {KeyOf(route, ip)} :
                 k \in MapKeys(entities) /\ MapGet(entities', k) = MapGet(entities, k)
           /\ \A k \in MapKeys(entities) \ MapKeys(entities') :
                 /\ Len(entities) = MaxEntities
                 /\ \A j \in MapKeys(entities) :
                       MapGet(entities, k).lastSeen <= MapGet(entities, j).lastSeen
  <1> DEFINE key == KeyOf(route, ip)
             known == key \in MapKeys(entities)
             agg == IF known THEN MapGet(entities, key) ELSE FreshAgg(route)
             room == IF known THEN entities ELSE MakeRoom
             v == Updated(agg, route, rtt)
  <1>1. /\ entities \in MapOf(EntityKeys, Agg) /\ Len(entities) \in Nat
        /\ Len(entities) <= MaxEntities /\ now \in Nat /\ MaxEntities \in Nat
    BY MapLookup, TableAssumption DEF TableInv, TableTyped
  <1>2. route \in Routes /\ key \in EntityKeys
    BY TableAssumption DEF EntityKeys
  <1>3. entities' = MapSet(room, key, v)
    BY DEF ApplyRtt
  <1>4. FreshAgg(route) \in Agg
    <2>1. <<>> \in Seq(Sample)
      BY EmptySeq
    <2> QED
      BY <1>1, <1>2, <2>1 DEF FreshAgg, Agg
  <1>5. agg \in Agg
    BY <1>1, <1>4, MapLookup
  <1> HIDE DEF key, agg
  <1>6. /\ v \in Agg /\ v.route = route /\ v.lastRtt = rtt /\ v.lastSeen = now
        /\ v.dirty
    BY <1>1, <1>2, <1>5, UpdatedAgg
  <1>7. /\ room \in MapOf(EntityKeys, Agg)
        /\ MapKeys(room) \subseteq MapKeys(entities)
        /\ \A k \in MapKeys(room) : MapGet(room, k) = MapGet(entities, k)
        /\ \A k \in MapKeys(entities) \ MapKeys(room) :
                 /\ Len(entities) = MaxEntities
                 /\ \A j \in MapKeys(entities) :
                       MapGet(entities, k).lastSeen <= MapGet(entities, j).lastSeen
        /\ known => room = entities
        /\ ~known => Len(room) + 1 <= MaxEntities
    BY <1>1, RoomMade
  <1> HIDE DEF v, room
  <1>8. /\ entities' \in MapOf(EntityKeys, Agg)
        /\ MapKeys(entities') = MapKeys(room) \cup {key}
        /\ MapGet(entities', key) = v
        /\ \A j \in MapKeys(room) \ {key} : MapGet(entities', j) = MapGet(room, j)
        /\ Len(entities') = IF key \in MapKeys(room) THEN Len(room) ELSE Len(room) + 1
    BY <1>2, <1>3, <1>6, <1>7, MapIsSet
  <1>9. Len(entities') <= MaxEntities
    BY <1>1, <1>7, <1>8
  <1>10. \A k \in MapKeys(entities') \ {key} :
            k \in MapKeys(entities) /\ MapGet(entities', k) = MapGet(entities, k)
    BY <1>7, <1>8
  <1>11. MapKeys(entities) \ MapKeys(entities') \subseteq MapKeys(entities) \ MapKeys(room)
    BY <1>8
  <1> QED
    BY <1>6, <1>7, <1>8, <1>9, <1>10, <1>11 DEF key

\* onRtt(): the address is folded into the entity of its route.
LEMMA FoldEffect ==
    ASSUME TableInv, NEW ip \in Ips, NEW rtt \in Nat, NEW route \in Drawable,
           ApplyRtt(ip, rtt, route)
    PROVE  /\ dstToKey' \in MapOf(Ips, EntityKeys) /\ Len(dstToKey') <= MaxDst
           /\ folded' \in MapOf(Ips, EntityKeys)
           /\ FoldedThere'
  <1> DEFINE key == KeyOf(route, ip)
  <1>1. /\ dstToKey \in MapOf(Ips, EntityKeys) /\ folded \in MapOf(Ips, EntityKeys)
        /\ Len(dstToKey) <= MaxDst /\ MaxDst \in Nat \ {0}
    BY TableAssumption DEF TableInv, TableTyped
  <1>2. route \in Routes /\ key \in EntityKeys
    BY TableAssumption DEF EntityKeys
  <1>3. dstToKey' = Capped(dstToKey, ip, key, MaxDst) /\ folded' = MapSet(folded, ip, key)
    BY DEF ApplyRtt
  <1> HIDE DEF key
  <1>4. /\ dstToKey' \in MapOf(Ips, EntityKeys) /\ Len(dstToKey') <= MaxDst
        /\ MapGet(dstToKey', ip) = key
        /\ \A j \in MapKeys(dstToKey') \ {ip} : /\ j \in MapKeys(dstToKey)
                                                /\ MapGet(dstToKey', j) = MapGet(dstToKey, j)
    BY <1>1, <1>2, <1>3, MapIsCapped
  <1>5. /\ folded' \in MapOf(Ips, EntityKeys)
        /\ MapKeys(folded') = MapKeys(folded) \cup {ip} /\ MapGet(folded', ip) = key
        /\ \A j \in MapKeys(folded) \ {ip} : MapGet(folded', j) = MapGet(folded, j)
    BY <1>1, <1>2, <1>3, MapIsSet
  <1>6. FoldedThere'
    BY <1>4, <1>5 DEF TableInv, FoldedThere
  <1> QED
    BY <1>4, <1>5, <1>6

\* onVol(): one entity is heard from, and nothing else is changed.
LEMMA VolEffect ==
    ASSUME TableInv, NEW ip \in Ips, NEW bytes \in Nat, ApplyVol(ip, bytes)
    PROVE  /\ entities' \in MapOf(EntityKeys, Agg) /\ Len(entities') <= MaxEntities
           /\ MapKeys(entities') = MapKeys(entities)
           /\ \A k \in MapKeys(entities) :
                 /\ MapGet(entities', k).route = MapGet(entities, k).route
                 /\ MapGet(entities', k).lastRtt = MapGet(entities, k).lastRtt
                 /\ \/ /\ MapGet(entities', k).lastSeen = now
                       /\ MapGet(entities', k).dirty
                    \/ MapGet(entities', k) = MapGet(entities, k)
  <1>1. /\ entities \in MapOf(EntityKeys, Agg) /\ Len(entities) \in Nat
        /\ Len(entities) <= MaxEntities /\ now \in Nat
    BY MapLookup DEF TableInv, TableTyped
  <1>2. CASE CreditedKey(ip) = {}
    BY <1>1, <1>2 DEF ApplyVol
  <1>3. CASE CreditedKey(ip) # {}
    <2> DEFINE key == CHOOSE k \in CreditedKey(ip) : TRUE
               agg == MapGet(entities, key)
               v == VolumeUpdate(agg, bytes)
    <2>1. key \in MapKeys(entities) /\ key \in EntityKeys
      <3>1. key \in CreditedKey(ip)
        BY <1>3
      <3>2. key \in MapKeys(entities)
        BY <3>1 DEF CreditedKey
      <3> QED
        BY <1>1, <3>2, MapLookup
    <2>2. entities' = MapSet(entities, key, v)
      BY <1>3 DEF ApplyVol
    <2> HIDE DEF key
    <2>3. agg \in Agg
      BY <1>1, <2>1, MapLookup
    <2>4. /\ v \in Agg /\ v.route = agg.route /\ v.lastRtt = agg.lastRtt /\ v.lastSeen = now
          /\ v.dirty
      BY <1>1, <2>3, VolumeAgg
    <2> HIDE DEF v
    <2>5. /\ entities' \in MapOf(EntityKeys, Agg)
          /\ MapKeys(entities') = MapKeys(entities) \cup {key}
          /\ MapGet(entities', key) = v
          /\ \A j \in MapKeys(entities) \ {key} : MapGet(entities', j) = MapGet(entities, j)
          /\ Len(entities') = Len(entities)
      BY <1>1, <2>1, <2>2, <2>4, MapIsSet
    <2> QED
      BY <1>1, <2>1, <2>4, <2>5
  <1> QED
    BY <1>2, <1>3

\* Every step of the table, and of the server, is one of these.
TableStep ==
    \/ \E ip \in Ips, rtt \in Nat, route \in Drawable : ApplyRtt(ip, rtt, route)
    \/ \E ip \in Ips, bytes \in Nat : ApplyVol(ip, bytes)
    \/ Tick
    \/ Elapse
    \/ UNCHANGED <<entities, dstToKey, now, folded>>

\* What is left of an entity when a step replaces the table.
Older(k, t) == k \in MapKeys(entities) /\ MapGet(entities, k).lastSeen <= t

LEMMA StepTable == TableInv /\ TableStep => TableInv'
  <1> SUFFICES ASSUME TableInv, TableStep PROVE TableInv'
    OBVIOUS
  <1>0. TableTyped /\ HeardBefore /\ FoldedThere /\ now \in Nat
    BY DEF TableInv, TableTyped
  <1>1. ASSUME NEW ip \in Ips, NEW rtt \in Nat, NEW route \in Drawable,
               ApplyRtt(ip, rtt, route)
        PROVE  TableInv'
    <2>1. now' = now
      BY <1>1 DEF ApplyRtt
    <2>2. HeardBefore'
      <3> SUFFICES ASSUME NEW k \in MapKeys(entities')
                   PROVE  MapGet(entities', k).lastSeen <= now
        BY <2>1 DEF HeardBefore
      <3>1. CASE k = KeyOf(route, ip)
        <4>1. MapGet(entities', KeyOf(route, ip)).lastSeen = now
          BY <1>1, RttEffect
        <4> QED
          BY <1>0, <3>1, <4>1
      <3>2. CASE k # KeyOf(route, ip)
        <4>1. k \in MapKeys(entities) /\ MapGet(entities', k) = MapGet(entities, k)
          BY <1>1, <3>2, RttEffect
        <4> QED
          BY <1>0, <4>1 DEF HeardBefore
      <3> QED
        BY <3>1, <3>2
    <2>3. entities' \in MapOf(EntityKeys, Agg) /\ Len(entities') <= MaxEntities
      BY <1>1, RttEffect
    <2>4. /\ dstToKey' \in MapOf(Ips, EntityKeys) /\ Len(dstToKey') <= MaxDst
          /\ folded' \in MapOf(Ips, EntityKeys) /\ FoldedThere'
      BY <1>1, FoldEffect
    <2>5. TableTyped'
      BY <1>0, <2>1, <2>3, <2>4 DEF TableTyped
    <2> QED
      BY <2>2, <2>4, <2>5 DEF TableInv
  <1>2. ASSUME NEW ip \in Ips, NEW bytes \in Nat, ApplyVol(ip, bytes) PROVE TableInv'
    <2>1. now' = now /\ dstToKey' = dstToKey /\ folded' = folded
      BY <1>2 DEF ApplyVol
    <2>2. HeardBefore'
      <3> SUFFICES ASSUME NEW k \in MapKeys(entities')
                   PROVE  MapGet(entities', k).lastSeen <= now
        BY <2>1 DEF HeardBefore
      <3>1. /\ k \in MapKeys(entities)
            /\ \/ MapGet(entities', k).lastSeen = now
               \/ MapGet(entities', k) = MapGet(entities, k)
        BY <1>2, VolEffect
      <3> QED
        BY <1>0, <3>1 DEF HeardBefore
    <2>3. entities' \in MapOf(EntityKeys, Agg) /\ Len(entities') <= MaxEntities
      BY <1>2, VolEffect
    <2>4. TableTyped' /\ FoldedThere'
      BY <1>0, <2>1, <2>3 DEF TableTyped, FoldedThere
    <2> QED
      BY <2>2, <2>4 DEF TableInv
  <1>3. ASSUME Tick PROVE TableInv'
    <2>1. /\ now' = now /\ dstToKey' = dstToKey /\ folded' = folded
          /\ entities' = Clean(Survivors)
      BY <1>3 DEF Tick
    <2>2. /\ entities \in MapOf(EntityKeys, Agg) /\ Len(entities) <= MaxEntities
          /\ Len(entities) \in Nat /\ MaxEntities \in Nat
      BY <1>0, MapLookup, TableAssumption DEF TableTyped
    <2>3. /\ entities' \in MapOf(EntityKeys, Agg) /\ Len(entities') <= Len(entities)
          /\ \A k \in MapKeys(entities') :
                /\ k \in MapKeys(entities)
                /\ Same(MapGet(entities', k), MapGet(entities, k))
      BY <1>0, <2>1, <2>2, TickKeeps
    <2>4. Len(entities') \in Nat
      BY <2>3, MapLookup
    <2>5. Len(entities') <= MaxEntities
      <3>1. Len(entities') <= Len(entities)
        BY <2>3
      <3> QED
        BY <2>2, <2>4, <3>1
    <2>6. HeardBefore'
      <3> SUFFICES ASSUME NEW k \in MapKeys(entities')
                   PROVE  MapGet(entities', k).lastSeen <= now
        BY <2>1 DEF HeardBefore
      <3>1. k \in MapKeys(entities) /\ MapGet(entities', k).lastSeen = MapGet(entities, k).lastSeen
        BY <2>3 DEF Same
      <3> QED
        BY <1>0, <3>1 DEF HeardBefore
    <2>7. TableTyped' /\ FoldedThere'
      BY <1>0, <2>1, <2>3, <2>5 DEF TableTyped, FoldedThere
    <2> QED
      BY <2>6, <2>7 DEF TableInv
  <1>4. ASSUME Elapse PROVE TableInv'
    <2>1. /\ entities' = entities /\ dstToKey' = dstToKey /\ folded' = folded
          /\ now' = now + 1
      BY <1>4 DEF Elapse
    <2>2. entities \in MapOf(EntityKeys, Agg)
      BY <1>0 DEF TableTyped
    <2>3. ASSUME NEW k \in MapKeys(entities) PROVE MapGet(entities, k).lastSeen \in Nat
      <3>1. MapGet(entities, k) \in Agg
        BY <2>2, MapLookup
      <3> QED
        BY <3>1 DEF Agg
    <2>4. ASSUME NEW k \in MapKeys(entities) PROVE MapGet(entities, k).lastSeen <= now + 1
      <3>1. MapGet(entities, k).lastSeen <= now
        BY <1>0 DEF HeardBefore
      <3> QED
        BY <1>0, <2>3, <3>1
    <2>5. HeardBefore'
      BY <2>1, <2>4 DEF HeardBefore
    <2>6. TableTyped' /\ FoldedThere'
      BY <1>0, <2>1 DEF TableTyped, FoldedThere
    <2> QED
      BY <2>5, <2>6 DEF TableInv
  <1>5. ASSUME UNCHANGED <<entities, dstToKey, now, folded>> PROVE TableInv'
    BY <1>0, <1>5 DEF TableInv, TableTyped, HeardBefore, FoldedThere
  <1> QED
    BY <1>1, <1>2, <1>3, <1>4, <1>5 DEF TableStep

LEMMA TableNextSteps ==
    ASSUME [TableNext]_tableVars
    PROVE  TableStep
  <1>1. ASSUME NEW ip \in Ips, NEW rtt \in Rtts, NEW route \in Routes,
               RttLine(ip, rtt, route)
        PROVE  TableStep
    <2>1. rtt \in Nat /\ ApplyRtt(ip, rtt, route)
      BY <1>1, TableAssumption DEF RttLine
    <2>2. CASE route \in Drawable
      BY <2>1, <2>2 DEF TableStep
    <2>3. CASE route \notin Drawable
      BY <2>1, <2>3 DEF ApplyRtt, TableStep
    <2> QED
      BY <2>2, <2>3
  <1>2. ASSUME NEW ip \in Ips, NEW bytes \in Volumes, VolLine(ip, bytes)
        PROVE  TableStep
    <2>1. bytes \in Nat /\ ApplyVol(ip, bytes)
      BY <1>2, TableAssumption DEF VolLine
    <2> QED
      BY <2>1 DEF TableStep
  <1>3. ASSUME Tick \/ Elapse PROVE TableStep
    BY <1>3 DEF TableStep
  <1>4. ASSUME UNCHANGED tableVars PROVE TableStep
    BY <1>4 DEF tableVars, TableStep
  <1> QED
    BY <1>1, <1>2, <1>3, <1>4 DEF TableNext

LEMMA VolumeIsWithAddress == TableInv => VolumeFollowsRoute
  <1> SUFFICES ASSUME TableInv PROVE VolumeFollowsRoute
    OBVIOUS
  <1>1. \A ip \in MapKeys(dstToKey) : MapGet(dstToKey, ip) = MapGet(folded, ip)
    BY Zenon DEF TableInv, FoldedThere
  <1> QED
    BY <1>1, Zenon DEF VolumeFollowsRoute

\* Volume is never credited to an entity the address has left.
THEOREM VolumeStaysWithAddress == TableSpec => []VolumeFollowsRoute
  BY VolumeIsWithAddress, InitTable, StepTable, TableNextSteps, PTL DEF TableSpec

\* Who leaves in a step: the action of OnlyIdleLeave.
IdleLeave ==
    \A k \in MapKeys(entities) \ MapKeys(entities') :
        LET seen == MapGet(entities, k).lastSeen
        IN  \/ now - seen > RETAIN
            \/ /\ Len(entities) = MaxEntities
               /\ \A i \in 1..Len(entities') :
                      seen <= entities'[i].val.lastSeen

LEMMA LeaversAreIdle == TableInv /\ TableStep => IdleLeave
  <1> SUFFICES ASSUME TableInv, TableStep,
                      NEW k \in MapKeys(entities), k \notin MapKeys(entities')
               PROVE  \/ now - MapGet(entities, k).lastSeen > RETAIN
                      \/ /\ Len(entities) = MaxEntities
                         /\ \A i \in 1..Len(entities') :
                             MapGet(entities, k).lastSeen <= entities'[i].val.lastSeen
    BY DEF IdleLeave
  <1>1. /\ entities \in MapOf(EntityKeys, Agg) /\ now \in Nat /\ RETAIN \in Nat
        /\ MapGet(entities, k).lastSeen <= now
    BY TableAssumption DEF TableInv, TableTyped, HeardBefore
  <1>2. MapGet(entities, k).lastSeen \in Nat
    <2>1. MapGet(entities, k) \in Agg
      BY <1>1, MapLookup
    <2> QED
      BY <2>1 DEF Agg
  <1>3. ASSUME NEW ip \in Ips, NEW rtt \in Nat, NEW route \in Drawable,
               ApplyRtt(ip, rtt, route)
        PROVE  /\ Len(entities) = MaxEntities
               /\ \A i \in 1..Len(entities') :
                      MapGet(entities, k).lastSeen <= entities'[i].val.lastSeen
    <2>1. /\ Len(entities) = MaxEntities
          /\ \A j \in MapKeys(entities) :
                MapGet(entities, k).lastSeen <= MapGet(entities, j).lastSeen
      BY <1>3, RttEffect
    <2>2. ASSUME NEW i \in 1..Len(entities')
          PROVE  MapGet(entities, k).lastSeen <= entities'[i].val.lastSeen
      <3>1. /\ entities'[i].key \in MapKeys(entities')
            /\ MapGet(entities', entities'[i].key) = entities'[i].val
        <4>1. entities' \in MapOf(EntityKeys, Agg)
          BY <1>3, RttEffect
        <4> QED
          BY <4>1, MapLookup
      <3>2. CASE entities'[i].key = KeyOf(route, ip)
        <4>1. MapGet(entities', KeyOf(route, ip)).lastSeen = now
          BY <1>3, RttEffect
        <4> QED
          BY <1>1, <3>1, <3>2, <4>1
      <3>3. CASE entities'[i].key # KeyOf(route, ip)
        <4>1. /\ entities'[i].key \in MapKeys(entities)
              /\ MapGet(entities', entities'[i].key) = MapGet(entities, entities'[i].key)
          BY <1>3, <3>1, <3>3, RttEffect
        <4> QED
          BY <2>1, <3>1, <4>1
      <3> QED
        BY <3>2, <3>3
    <2> QED
      BY <2>1, <2>2
  <1>4. ASSUME NEW ip \in Ips, NEW bytes \in Nat, ApplyVol(ip, bytes) PROVE FALSE
    BY <1>4, VolEffect
  <1>5. ASSUME Tick PROVE now - MapGet(entities, k).lastSeen > RETAIN
    <2>1. entities' = Clean(Survivors)
      BY <1>5 DEF Tick
    <2>2. ~(now - MapGet(entities, k).lastSeen <= RETAIN)
      BY <1>1, <2>1, TickKeeps
    <2> QED
      BY <1>1, <1>2, <2>2
  <1>6. ~Elapse /\ ~UNCHANGED <<entities, dstToKey, now, folded>>
    BY DEF Elapse
  <1> QED
    BY <1>3, <1>4, <1>5, <1>6 DEF TableStep

\* Whoever leaves the table was idle for RETAIN, or heard from least recently
\* when a new entity found the table full.
THEOREM LeaversWereIdle == TableSpec => OnlyIdleLeave
  <1>1. TableInv /\ [TableNext]_tableVars => [IdleLeave]_tableVars
    BY LeaversAreIdle, TableNextSteps
  <1> QED
    BY <1>1, InitTable, StepTable, TableNextSteps, PTL DEF TableSpec, OnlyIdleLeave, IdleLeave

(********************************* the routes *********************************)

Call == [ip : Ips, rtt : Rtts, fetch : Nat]

\* A call awaits a fetch of its own key.
CallFits(fs, call) ==
    /\ call.fetch \in 1..Len(fs)
    /\ fs[call.fetch].key = CacheKey(call.ip, call.rtt)

AnswerTyped ==
    /\ answer \in Seq(Routes \cup {Unknown}) /\ Len(answer) = Len(fetches)
    /\ \A r \in Fetches : fetches[r].state = "ok" => answer[r] \in Routes

CallsFit ==
    /\ waiting \in Seq(Call) /\ ready \in Seq(Call)
    /\ \A i \in 1..Len(waiting) : CallFits(fetches, waiting[i])
    /\ \A i \in 1..Len(ready) :
          CallFits(fetches, ready[i]) /\ fetches[ready[i].fetch].state = "ok"

\* Fetch r answered with the route and for the latency that the entity k shows.
Shows(r, k) ==
    LET agg == MapGet(entities, k)
    IN  /\ fetches[r].state = "ok" /\ answer[r] = agg.route
        /\ fetches[r].key[2] = Rounded(agg.lastRtt)
        /\ KeyOf(agg.route, fetches[r].key[1]) = k

EntitiesShown == \A k \in MapKeys(entities) : \E r \in Fetches : Shows(r, k)

RouteInv == CacheInv /\ TableInv /\ AnswerTyped /\ CallsFit /\ EntitiesShown

\* No step changes the key of a fetch, or takes an answer back.
FetchesKept ==
    \A r \in Fetches :
        /\ r \in Fetches' /\ fetches'[r].key = fetches[r].key
        /\ fetches[r].state = "ok" => fetches'[r].state = "ok"

AnswersKept == \A r \in Fetches : fetches[r].state = "ok" => answer'[r] = answer[r]

LEMMA MissKeeps ==
    ASSUME CacheInv, NEW k \in CacheKeys, NEW n, Miss(k, n)
    PROVE  /\ n = Len(fetches) + 1 /\ n \in Nat /\ Len(fetches') = n
           /\ n \in Fetches' /\ n \notin Fetches /\ FetchesKept
           /\ fetches'[n] = [key |-> k, state |-> "pending"]
           /\ \A r \in Fetches' : r \in Fetches \/ r = n
  <1>1. /\ n = Len(fetches) + 1 /\ n \in Nat /\ Len(fetches') = n
        /\ fetches'[n] = [key |-> k, state |-> "pending"]
        /\ \A r \in Fetches : fetches'[r] = fetches[r]
    BY MissEffect
  <1>2. Len(fetches) \in Nat
    BY FetchesTyped
  <1>3. /\ n \in Fetches' /\ n \notin Fetches /\ Fetches \subseteq Fetches'
        /\ \A r \in Fetches' : r \in Fetches \/ r = n
    BY <1>1, <1>2 DEF Fetches
  <1>4. FetchesKept
    BY <1>1, <1>3 DEF FetchesKept
  <1> QED
    BY <1>1, <1>3, <1>4

LEMMA SettlingKeeps ==
    ASSUME CacheInv, NEW r \in Fetches, FetchOk(r) \/ FetchFails(r)
    PROVE  /\ FetchesKept /\ r \in Pending /\ fetches[r].state = "pending"
           /\ Fetches' = Fetches /\ Len(fetches') = Len(fetches)
           /\ \A s \in Fetches \ {r} : fetches'[s] = fetches[s]
           /\ FetchOk(r) => fetches'[r].state = "ok"
           /\ FetchFails(r) => fetches'[r].state = "failed"
  <1>1. r \in Pending /\ fetches[r].state = "pending"
    BY DEF FetchOk, FetchFails, Pending
  <1>2. PICK state \in {"ok", "failed"} : fetches' = [fetches EXCEPT ![r].state = state]
    BY DEF FetchOk, FetchFails
  <1>3. /\ Fetches' = Fetches /\ fetches'[r].state = state
        /\ \A s \in Fetches : fetches'[s].key = fetches[s].key
        /\ \A s \in Fetches \ {r} : fetches'[s] = fetches[s]
    BY <1>1, <1>2, FetchSettles
  <1>4. FetchesKept
    BY <1>1, <1>3 DEF FetchesKept
  <1>5. Len(fetches') = Len(fetches)
    <2>1. fetches \in Seq(Fetch)
      BY DEF CacheInv
    <2> QED
      BY <1>2, <2>1
  <1>6. FetchOk(r) => fetches'[r].state = "ok"
    <2> SUFFICES ASSUME fetches' = [fetches EXCEPT ![r].state = "ok"]
                 PROVE  fetches'[r].state = "ok"
      BY DEF FetchOk
    <2> QED
      BY <1>1, FetchSettles
  <1>7. FetchFails(r) => fetches'[r].state = "failed"
    <2> SUFFICES ASSUME fetches' = [fetches EXCEPT ![r].state = "failed"]
                 PROVE  fetches'[r].state = "failed"
      BY DEF FetchFails
    <2> QED
      BY <1>1, FetchSettles
  <1> QED
    BY <1>1, <1>3, <1>4, <1>5, <1>6, <1>7

LEMMA CallsTyped ==
    ASSUME RouteInv
    PROVE  /\ \A i \in 1..Len(waiting) : waiting[i] \in Call /\ CallFits(fetches, waiting[i])
           /\ \A i \in 1..Len(ready) : /\ ready[i] \in Call /\ CallFits(fetches, ready[i])
                                       /\ fetches[ready[i].fetch].state = "ok"
  <1>1. /\ \A i \in 1..Len(waiting) : waiting[i] \in Call
        /\ \A i \in 1..Len(ready) : ready[i] \in Call
    BY ElementOfSeq DEF RouteInv, CallsFit
  <1> QED
    BY <1>1 DEF RouteInv, CallsFit

\* A call whose continuation is due has an answer.
LEMMA HeadIsAnswered ==
    ASSUME RouteInv, Resume
    PROVE  /\ Head(ready) \in Call /\ Head(ready).fetch \in Fetches
           /\ fetches[Head(ready).fetch].state = "ok"
           /\ fetches[Head(ready).fetch].key = CacheKey(Head(ready).ip, Head(ready).rtt)
           /\ answer[Head(ready).fetch] \in Routes
           /\ ApplyRtt(Head(ready).ip, Head(ready).rtt, answer[Head(ready).fetch])
  <1>1. ready \in Seq(Call) /\ ready # <<>>
    BY DEF RouteInv, CallsFit, Resume
  <1>2. Head(ready) = ready[1] /\ 1 \in 1..Len(ready)
    BY <1>1
  <1>3. /\ ready[1] \in Call /\ CallFits(fetches, ready[1]) /\ fetches[ready[1].fetch].state = "ok"
    BY <1>2, CallsTyped
  <1>4. answer[ready[1].fetch] \in Routes
    BY <1>3 DEF RouteInv, AnswerTyped, CallFits, Fetches
  <1>5. ApplyRtt(Head(ready).ip, Head(ready).rtt, answer[Head(ready).fetch])
    BY DEF Resume
  <1> QED
    BY <1>2, <1>3, <1>4, <1>5 DEF CallFits, Fetches

LEMMA AppliedIsStep ==
    ASSUME NEW ip \in Ips, NEW rtt \in Rtts, NEW route, ApplyRtt(ip, rtt, route)
    PROVE  TableStep
  <1>1. rtt \in Nat
    BY TableAssumption
  <1>2. CASE route \in Drawable
    BY <1>1, <1>2 DEF TableStep
  <1>3. CASE route \notin Drawable
    BY <1>3 DEF ApplyRtt, TableStep
  <1> QED
    BY <1>2, <1>3

\* Every step of the server is one of the table's.
LEMMA ServerTableSteps ==
    ASSUME RouteInv, [ServerNext]_serverVars
    PROVE  TableStep
  <1>1. ASSUME NEW ip \in Ips, NEW rtt \in Rtts, RttArrives(ip, rtt) PROVE TableStep
    BY <1>1 DEF RttArrives, TableStep
  <1>2. ASSUME NEW ip \in Ips, NEW bytes \in Volumes, VolArrives(ip, bytes)
        PROVE  TableStep
    <2>1. bytes \in Nat /\ ApplyVol(ip, bytes)
      BY <1>2, TableAssumption DEF VolArrives
    <2> QED
      BY <2>1 DEF TableStep
  <1>3. ASSUME NEW quic \in StatValues, NEW ipv6 \in StatValues, StatArrives(quic, ipv6)
        PROVE  TableStep
    BY <1>3 DEF StatArrives, TableStep
  <1>4. ASSUME Resume PROVE TableStep
    <2>1. Head(ready).ip \in Ips /\ Head(ready).rtt \in Rtts
      BY <1>4, HeadIsAnswered DEF Call
    <2>2. ApplyRtt(Head(ready).ip, Head(ready).rtt, answer[Head(ready).fetch])
      BY <1>4, HeadIsAnswered
    <2> QED
      BY <2>1, <2>2, AppliedIsStep
  <1>5. ASSUME NEW r \in Fetches, Failed(r) \/ \E route \in Routes : Answered(r, route)
        PROVE  TableStep
    BY <1>5 DEF Failed, Answered, TableStep, tableVars
  <1>6. ASSUME Timer PROVE TableStep
    BY <1>6 DEF Timer, TableStep
  <1>7. ASSUME ClientEvent PROVE TableStep
    BY <1>7 DEF ClientEvent, TableStep, tableVars
  <1>8. ASSUME TimePasses PROVE TableStep
    BY <1>8 DEF TimePasses, TableStep
  <1>9. ASSUME UNCHANGED serverVars PROVE TableStep
    BY <1>9 DEF serverVars, TableStep, tableVars
  <1> QED
    BY <1>1, <1>2, <1>3, <1>4, <1>5, <1>6, <1>7, <1>8, <1>9 DEF ServerNext

\* A line that arrives asks a fetch of its key, an answered one or one in flight.
LEMMA ArrivalAsks ==
    ASSUME RouteInv, NEW ip \in Ips, NEW rtt \in Rtts, RttArrives(ip, rtt)
    PROVE  \E r \in Nat :
             /\ r \in Fetches' /\ fetches'[r].key = CacheKey(ip, rtt)
             /\ \/ /\ fetches' = fetches /\ answer' = answer /\ r \in Fetches
                \/ /\ answer' = Append(answer, Unknown) /\ r \notin Fetches
                   /\ Len(fetches') = Len(fetches) + 1 /\ r = Len(fetches) + 1
                   /\ fetches'[r].state = "pending"
                   /\ \A q \in Fetches' : q \in Fetches \/ q = r
             /\ FetchesKept
             /\ \/ /\ ready' = Append(ready, [ip |-> ip, rtt |-> rtt, fetch |-> r])
                   /\ waiting' = waiting /\ fetches'[r].state = "ok"
                \/ /\ waiting' = Append(waiting, [ip |-> ip, rtt |-> rtt, fetch |-> r])
                   /\ ready' = ready
  <1> DEFINE key == CacheKey(ip, rtt)
             call(r) == [ip |-> ip, rtt |-> rtt, fetch |-> r]
  <1>1. PICK r \in 1..MaxFetches :
          /\ Resolve(key, r)
          /\ IF r \in Fetches /\ Settled(r)
             THEN ready' = Append(ready, call(r)) /\ UNCHANGED waiting
             ELSE waiting' = Append(waiting, call(r)) /\ UNCHANGED ready
          /\ answer' = IF r \in Fetches THEN answer ELSE Append(answer, Unknown)
    BY DEF RttArrives
  <1>2. r \in Nat /\ key \in CacheKeys
    BY KeysAreTyped, CacheAssumption
  <1> HIDE DEF key, call
  <1>3. CASE Hit(key, r)
    <2>1. r = MapGet(resolveCache, key) /\ key \in MapKeys(resolveCache) /\ fetches' = fetches
      BY <1>3 DEF Hit, cacheVars
    <2>2. r \in Fetches /\ fetches[r].key = key /\ fetches[r].state # "failed"
      BY <2>1 DEF RouteInv, CacheInv, CachedIsYoungest
    <2>3. fetches[r] \in Fetch
      BY <2>2, FetchesTyped DEF RouteInv
    <2>4. Settled(r) => fetches[r].state = "ok"
      BY <2>2, <2>3 DEF Settled, Fetch
    <2>5. FetchesKept /\ Fetches' = Fetches
      BY <2>1 DEF FetchesKept, Fetches
    <2>6. answer' = answer
      BY <1>1, <2>2
    <2>7. \/ ready' = Append(ready, call(r)) /\ waiting' = waiting /\ fetches[r].state = "ok"
          \/ waiting' = Append(waiting, call(r)) /\ ready' = ready
      BY <1>1, <2>4
    <2> QED
      BY <1>2, <2>1, <2>2, <2>5, <2>6, <2>7 DEF key, call
  <1>4. CASE Miss(key, r)
    <2>1. CacheInv
      BY DEF RouteInv
    <2>2. /\ r = Len(fetches) + 1 /\ Len(fetches') = r
          /\ r \in Fetches' /\ r \notin Fetches /\ FetchesKept
          /\ fetches'[r] = [key |-> key, state |-> "pending"]
          /\ \A q \in Fetches' : q \in Fetches \/ q = r
      BY <1>2, <1>4, <2>1, MissKeeps
    <2>3. /\ answer' = Append(answer, Unknown)
          /\ waiting' = Append(waiting, call(r)) /\ ready' = ready
      BY <1>1, <2>2
    <2>4. fetches'[r].key = key /\ fetches'[r].state = "pending"
      BY <2>2
    <2> QED
      BY <1>2, <2>2, <2>3, <2>4 DEF key, call
  <1> QED
    BY <1>1, <1>3, <1>4 DEF Resolve

LEMMA FilteredCalls ==
    ASSUME RouteInv, NEW r \in Fetches
    PROVE  /\ Awaiting(r) \in Seq(Call) /\ AwaitingOther(r) \in Seq(Call)
           /\ \A i \in 1..Len(Awaiting(r)) : CallFits(fetches, Awaiting(r)[i]) /\ Awaiting(r)[i].fetch = r
           /\ \A i \in 1..Len(AwaitingOther(r)) : CallFits(fetches, AwaitingOther(r)[i])
  <1> DEFINE I == {i \in 1..Len(waiting) : waiting[i].fetch = r}
             J == {i \in 1..Len(waiting) : waiting[i].fetch # r}
  <1>1. Awaiting(r) = Filtered(waiting, I) /\ AwaitingOther(r) = Filtered(waiting, J)
    BY DEF Awaiting, AwaitingOther
  <1>2. I \in SUBSET (1..Len(waiting)) /\ J \in SUBSET (1..Len(waiting))
    OBVIOUS
  <1>3. \A i \in I : waiting[i].fetch = r
    OBVIOUS
  <1> HIDE DEF I, J
  <1>4. waiting \in Seq(Call) /\ \A i \in 1..Len(waiting) : CallFits(fetches, waiting[i])
    BY DEF RouteInv, CallsFit
  <1>5. /\ Awaiting(r) \in Seq(Call)
        /\ \E p \in [1..Len(Awaiting(r)) -> I] :
              \A k \in 1..Len(Awaiting(r)) : Awaiting(r)[k] = waiting[p[k]]
    BY <1>1, <1>2, <1>4, FilterKeeps
  <1>6. /\ AwaitingOther(r) \in Seq(Call)
        /\ \E p \in [1..Len(AwaitingOther(r)) -> J] :
              \A k \in 1..Len(AwaitingOther(r)) : AwaitingOther(r)[k] = waiting[p[k]]
    BY <1>1, <1>2, <1>4, FilterKeeps
  <1>7. ASSUME NEW k \in 1..Len(Awaiting(r))
        PROVE  CallFits(fetches, Awaiting(r)[k]) /\ Awaiting(r)[k].fetch = r
    <2>1. PICK i \in I : Awaiting(r)[k] = waiting[i]
      BY <1>5
    <2> QED
      BY <1>2, <1>3, <1>4, <2>1
  <1>8. ASSUME NEW k \in 1..Len(AwaitingOther(r)) PROVE CallFits(fetches, AwaitingOther(r)[k])
    <2>1. PICK i \in J : AwaitingOther(r)[k] = waiting[i]
      BY <1>6
    <2> QED
      BY <1>2, <1>4, <2>1
  <1> QED
    BY <1>5, <1>6, <1>7, <1>8

\* Calls that fit still fit when fetches are kept.
LEMMA StillFits ==
    ASSUME FetchesKept, NEW call, CallFits(fetches, call)
    PROVE  /\ CallFits(fetches', call)
           /\ fetches[call.fetch].state = "ok" => fetches'[call.fetch].state = "ok"
  BY DEF FetchesKept, CallFits, Fetches

AnswerSet == Routes \cup {Unknown}

\* The fetches, their answers and the calls that await them.
LEMMA StepCalls ==
    ASSUME RouteInv, [ServerNext]_serverVars
    PROVE  FetchesKept /\ AnswersKept /\ AnswerTyped' /\ CallsFit'
  <1>0. /\ CacheInv /\ AnswerTyped /\ CallsFit
        /\ answer \in Seq(AnswerSet) /\ Len(answer) = Len(fetches) /\ Len(fetches) \in Nat
        /\ waiting \in Seq(Call) /\ ready \in Seq(Call)
    BY FetchesTyped DEF RouteInv, AnswerTyped, CallsFit, AnswerSet
  <1>c. /\ \A i \in 1..Len(waiting) : CallFits(fetches, waiting[i])
        /\ \A i \in 1..Len(ready) : /\ CallFits(fetches, ready[i])
                                    /\ fetches[ready[i].fetch].state = "ok"
    BY CallsTyped
  <1>1. ASSUME NEW ip \in Ips, NEW rtt \in Rtts, RttArrives(ip, rtt)
        PROVE  FetchesKept /\ AnswersKept /\ AnswerTyped' /\ CallsFit'
    <2>1. PICK r \in Nat :
             /\ r \in Fetches' /\ fetches'[r].key = CacheKey(ip, rtt)
             /\ \/ /\ fetches' = fetches /\ answer' = answer /\ r \in Fetches
                \/ /\ answer' = Append(answer, Unknown) /\ r \notin Fetches
                   /\ Len(fetches') = Len(fetches) + 1 /\ r = Len(fetches) + 1
                   /\ fetches'[r].state = "pending"
                   /\ \A q \in Fetches' : q \in Fetches \/ q = r
             /\ FetchesKept
             /\ \/ /\ ready' = Append(ready, [ip |-> ip, rtt |-> rtt, fetch |-> r])
                   /\ waiting' = waiting /\ fetches'[r].state = "ok"
                \/ /\ waiting' = Append(waiting, [ip |-> ip, rtt |-> rtt, fetch |-> r])
                   /\ ready' = ready
      BY <1>1, ArrivalAsks, Zenon
    <2> DEFINE call == [ip |-> ip, rtt |-> rtt, fetch |-> r]
    <2>2. call \in Call /\ CallFits(fetches', call) /\ call.fetch = r
      BY <2>1 DEF Call, CallFits, Fetches
    <2> HIDE DEF call
    <2>3. AnswersKept /\ AnswerTyped'
      <3>1. CASE fetches' = fetches /\ answer' = answer
        BY <1>0, <3>1 DEF AnswersKept, AnswerTyped, Fetches
      <3>2. CASE /\ answer' = Append(answer, Unknown) /\ r \notin Fetches
                 /\ Len(fetches') = Len(fetches) + 1 /\ r = Len(fetches) + 1
                 /\ fetches'[r].state = "pending"
                 /\ \A q \in Fetches' : q \in Fetches \/ q = r
        <4>1. /\ answer' \in Seq(AnswerSet) /\ Len(answer') = Len(answer) + 1
              /\ \A q \in 1..Len(answer) : answer'[q] = answer[q]
          <5>1. Unknown \in AnswerSet
            BY DEF AnswerSet
          <5> QED
            BY <1>0, <3>2, <5>1, AppendProperties
        <4>2. \A q \in Fetches : answer'[q] = answer[q]
          BY <1>0, <4>1 DEF Fetches
        <4>3. ASSUME NEW q \in Fetches', fetches'[q].state = "ok" PROVE answer'[q] \in Routes
          <5>1. q \in Fetches
            BY <3>2, <4>3
          <5>2. fetches[q].state = "ok"
            <6>1. fetches'[q] = fetches[q]
              <7>1. PICK k \in CacheKeys, n \in Nat : Resolve(k, n)
                <8>1. CacheKey(ip, rtt) \in CacheKeys
                  BY KeysAreTyped
                <8>2. PICK n \in 1..MaxFetches : Resolve(CacheKey(ip, rtt), n)
                  BY <1>1 DEF RttArrives
                <8>3. n \in Nat
                  BY CacheAssumption
                <8> QED
                  BY <8>1, <8>2, <8>3
              <7>2. CASE Hit(k, n)
                BY <7>2 DEF Hit, cacheVars
              <7>3. CASE Miss(k, n)
                BY <1>0, <5>1, <7>3, MissEffect
              <7> QED
                BY <7>1, <7>2, <7>3 DEF Resolve
            <6> QED
              BY <4>3, <6>1
          <5> QED
            BY <1>0, <4>2, <5>1, <5>2 DEF AnswerTyped
        <4>4. Len(answer') = Len(fetches')
          BY <1>0, <3>2, <4>1
        <4> QED
          BY <4>1, <4>2, <4>3, <4>4 DEF AnswersKept, AnswerTyped, AnswerSet
      <3> QED
        BY <2>1, <3>1, <3>2
    <2>4. CallsFit'
      <3>a. /\ \A i \in 1..Len(waiting) : CallFits(fetches', waiting[i])
            /\ \A i \in 1..Len(ready) : /\ CallFits(fetches', ready[i])
                                        /\ fetches'[ready[i].fetch].state = "ok"
        BY <1>c, <2>1, StillFits
      <3>1. CASE ready' = Append(ready, call) /\ waiting' = waiting /\ fetches'[r].state = "ok"
        <4>1. /\ ready' \in Seq(Call) /\ Len(ready') = Len(ready) + 1 /\ Len(ready) \in Nat
              /\ \A i \in 1..Len(ready) : ready'[i] = ready[i]
              /\ ready'[Len(ready) + 1] = call
          BY <1>0, <2>2, <3>1, AppendProperties
        <4>2. \A i \in 1..Len(ready') : i \in 1..Len(ready) \/ i = Len(ready) + 1
          BY <4>1
        <4>3. ASSUME NEW i \in 1..Len(ready')
              PROVE  CallFits(fetches', ready'[i]) /\ fetches'[ready'[i].fetch].state = "ok"
          BY <2>2, <3>a, <3>1, <4>1, <4>2 DEF CallFits
        <4> QED
          BY <1>0, <3>a, <3>1, <4>1, <4>3 DEF CallsFit, CallFits
      <3>2. CASE waiting' = Append(waiting, call) /\ ready' = ready
        <4>1. /\ waiting' \in Seq(Call) /\ Len(waiting') = Len(waiting) + 1
              /\ Len(waiting) \in Nat
              /\ \A i \in 1..Len(waiting) : waiting'[i] = waiting[i]
              /\ waiting'[Len(waiting) + 1] = call
          BY <1>0, <2>2, <3>2, AppendProperties
        <4>2. \A i \in 1..Len(waiting') : i \in 1..Len(waiting) \/ i = Len(waiting) + 1
          BY <4>1
        <4>3. ASSUME NEW i \in 1..Len(waiting') PROVE CallFits(fetches', waiting'[i])
          BY <2>2, <3>a, <4>1, <4>2 DEF CallFits
        <4> QED
          BY <1>0, <3>a, <3>2, <4>1, <4>3 DEF CallsFit, CallFits
      <3> QED
        BY <2>1, <3>1, <3>2 DEF call
    <2> QED
      BY <2>1, <2>3, <2>4
  <1>2. ASSUME fetches' = fetches, answer' = answer, waiting' = waiting, ready' = ready
        PROVE  FetchesKept /\ AnswersKept /\ AnswerTyped' /\ CallsFit'
    <2>1. FetchesKept /\ AnswersKept
      BY <1>2 DEF FetchesKept, AnswersKept, Fetches
    <2> QED
      BY <1>0, <1>2, <2>1 DEF AnswerTyped, CallsFit, CallFits, Fetches
  <1>3. ASSUME Resume PROVE FetchesKept /\ AnswersKept /\ AnswerTyped' /\ CallsFit'
    <2>1. /\ fetches' = fetches /\ answer' = answer /\ waiting' = waiting
          /\ ready' = Tail(ready) /\ ready # <<>>
      BY <1>3 DEF Resume, cacheVars
    <2>2. FetchesKept /\ AnswersKept /\ AnswerTyped'
      BY <1>0, <2>1 DEF FetchesKept, AnswersKept, AnswerTyped, Fetches
    <2>3. /\ ready' \in Seq(Call) /\ \A i \in 1..Len(ready') : \E j \in 1..Len(ready) : ready'[i] = ready[j]
      <3>1. /\ ready' \in Seq(Call) /\ Len(ready') = Len(ready) - 1 /\ Len(ready) \in Nat
            /\ \A i \in 1..Len(ready') : ready'[i] = ready[i + 1]
        BY <1>0, <2>1
      <3>2. \A i \in 1..Len(ready') : i + 1 \in 1..Len(ready)
        BY <3>1
      <3> QED
        BY <3>1, <3>2
    <2>4. ASSUME NEW i \in 1..Len(ready')
          PROVE  CallFits(fetches', ready'[i]) /\ fetches'[ready'[i].fetch].state = "ok"
      BY <1>c, <2>1, <2>3 DEF CallFits, Fetches
    <2>5. ASSUME NEW i \in 1..Len(waiting') PROVE CallFits(fetches', waiting'[i])
      BY <1>c, <2>1 DEF CallFits, Fetches
    <2>6. CallsFit'
      BY <1>0, <2>1, <2>3, <2>4, <2>5 DEF CallsFit, CallFits
    <2> QED
      BY <2>2, <2>6
  <1>4. ASSUME NEW r \in Fetches, NEW route \in Routes, Answered(r, route)
        PROVE  FetchesKept /\ AnswersKept /\ AnswerTyped' /\ CallsFit'
    <2>1. /\ FetchOk(r) /\ answer' = [answer EXCEPT ![r] = route]
          /\ ready' = Awaiting(r) /\ waiting' = AwaitingOther(r)
      BY <1>4 DEF Answered
    <2>2. /\ FetchesKept /\ fetches[r].state = "pending"
          /\ Fetches' = Fetches /\ Len(fetches') = Len(fetches)
          /\ fetches'[r].state = "ok"
          /\ \A s \in Fetches \ {r} : fetches'[s] = fetches[s]
      BY <1>0, <2>1, SettlingKeeps
    <2>3. /\ answer' \in Seq(AnswerSet) /\ Len(answer') = Len(fetches')
          /\ answer'[r] = route /\ \A s \in Fetches \ {r} : answer'[s] = answer[s]
      <3>1. route \in AnswerSet /\ r \in 1..Len(answer)
        BY <1>0 DEF AnswerSet, Fetches
      <3> QED
        BY <1>0, <2>1, <2>2, <3>1, ExceptSeq DEF Fetches
    <2>4. AnswersKept
      BY <2>2, <2>3 DEF AnswersKept
    <2>5. AnswerTyped'
      <3>1. ASSUME NEW s \in Fetches', fetches'[s].state = "ok" PROVE answer'[s] \in Routes
        BY <1>0, <2>2, <2>3, <3>1 DEF AnswerTyped
      <3> QED
        BY <2>3, <3>1 DEF AnswerTyped, AnswerSet
    <2>6. CallsFit'
      <3>1. /\ ready' \in Seq(Call) /\ waiting' \in Seq(Call)
            /\ \A i \in 1..Len(ready') : CallFits(fetches, ready'[i]) /\ ready'[i].fetch = r
            /\ \A i \in 1..Len(waiting') : CallFits(fetches, waiting'[i])
        BY <2>1, FilteredCalls
      <3>2. ASSUME NEW i \in 1..Len(ready')
            PROVE  CallFits(fetches', ready'[i]) /\ fetches'[ready'[i].fetch].state = "ok"
        BY <2>2, <3>1, StillFits DEF CallFits
      <3>3. ASSUME NEW i \in 1..Len(waiting') PROVE CallFits(fetches', waiting'[i])
        BY <2>2, <3>1, StillFits DEF CallFits
      <3> QED
        BY <3>1, <3>2, <3>3 DEF CallsFit, CallFits
    <2> QED
      BY <2>2, <2>4, <2>5, <2>6
  <1>5. ASSUME NEW r \in Fetches, Failed(r)
        PROVE  FetchesKept /\ AnswersKept /\ AnswerTyped' /\ CallsFit'
    <2>1. /\ FetchFails(r) /\ answer' = answer
          /\ ready' = ready /\ waiting' = AwaitingOther(r)
      BY <1>5 DEF Failed
    <2>2. /\ FetchesKept /\ Fetches' = Fetches /\ Len(fetches') = Len(fetches)
          /\ fetches'[r].state = "failed"
          /\ \A s \in Fetches \ {r} : fetches'[s] = fetches[s]
      BY <1>0, <2>1, SettlingKeeps
    <2>3. AnswersKept
      BY <2>1 DEF AnswersKept
    <2>4. AnswerTyped'
      <3>1. ASSUME NEW s \in Fetches', fetches'[s].state = "ok" PROVE answer'[s] \in Routes
        BY <1>0, <2>1, <2>2, <3>1 DEF AnswerTyped
      <3> QED
        BY <1>0, <2>1, <2>2, <3>1 DEF AnswerTyped, AnswerSet
    <2>5. CallsFit'
      <3>1. /\ waiting' \in Seq(Call) /\ \A i \in 1..Len(waiting') : CallFits(fetches, waiting'[i])
        BY <2>1, FilteredCalls
      <3>2. ASSUME NEW i \in 1..Len(ready')
            PROVE  CallFits(fetches', ready'[i]) /\ fetches'[ready'[i].fetch].state = "ok"
        BY <1>c, <2>1, <2>2, StillFits
      <3>3. ASSUME NEW i \in 1..Len(waiting') PROVE CallFits(fetches', waiting'[i])
        BY <2>2, <3>1, StillFits DEF CallFits
      <3> QED
        BY <1>0, <2>1, <3>1, <3>2, <3>3 DEF CallsFit, CallFits
    <2> QED
      BY <2>2, <2>3, <2>4, <2>5
  <1>6. ASSUME NEW ip \in Ips, NEW bytes \in Volumes, VolArrives(ip, bytes)
        PROVE  fetches' = fetches /\ answer' = answer /\ waiting' = waiting /\ ready' = ready
    BY <1>6 DEF VolArrives, cacheVars, loopVars
  <1>7. ASSUME NEW quic \in StatValues, NEW ipv6 \in StatValues, StatArrives(quic, ipv6)
        PROVE  fetches' = fetches /\ answer' = answer /\ waiting' = waiting /\ ready' = ready
    BY <1>7 DEF StatArrives, cacheVars, loopVars
  <1>8. ASSUME Timer \/ ClientEvent \/ TimePasses
        PROVE  fetches' = fetches /\ answer' = answer /\ waiting' = waiting /\ ready' = ready
    BY <1>8 DEF Timer, ClientEvent, TimePasses, cacheVars, loopVars
  <1>9. ASSUME UNCHANGED serverVars
        PROVE  fetches' = fetches /\ answer' = answer /\ waiting' = waiting /\ ready' = ready
    BY <1>9 DEF serverVars, cacheVars, loopVars
  <1> QED
    BY <1>1, <1>2, <1>3, <1>4, <1>5, <1>6, <1>7, <1>8, <1>9 DEF ServerNext

\* An entity that keeps its route and latency still shows the answer it showed.
LEMMA StillShown ==
    ASSUME FetchesKept, AnswersKept, NEW k, NEW r \in Fetches, Shows(r, k),
           MapGet(entities', k).route = MapGet(entities, k).route,
           MapGet(entities', k).lastRtt = MapGet(entities, k).lastRtt
    PROVE  r \in Fetches' /\ Shows(r, k)'
  BY DEF FetchesKept, AnswersKept, Shows

LEMMA StepShown ==
    ASSUME RouteInv, [ServerNext]_serverVars, FetchesKept, AnswersKept
    PROVE  EntitiesShown'
  <1>0. /\ TableInv /\ EntitiesShown /\ entities \in MapOf(EntityKeys, Agg) /\ now \in Nat
    BY DEF RouteInv, TableInv, TableTyped
  <1>1. ASSUME NEW k \in MapKeys(entities'), k \in MapKeys(entities),
               MapGet(entities', k).route = MapGet(entities, k).route,
               MapGet(entities', k).lastRtt = MapGet(entities, k).lastRtt
        PROVE  \E r \in Fetches' : Shows(r, k)'
    <2>1. PICK r \in Fetches : Shows(r, k)
      BY <1>0, <1>1 DEF EntitiesShown
    <2>2. r \in Fetches' /\ Shows(r, k)'
      BY <1>1, <2>1, StillShown
    <2> QED
      BY <2>2
  <1>2. ASSUME entities' = entities PROVE EntitiesShown'
    BY <1>1, <1>2 DEF EntitiesShown
  <1>3. ASSUME Resume PROVE EntitiesShown'
    <2> DEFINE call == Head(ready)
               route == answer[call.fetch]
    <2>1. /\ call \in Call /\ call.fetch \in Fetches /\ fetches[call.fetch].state = "ok"
          /\ fetches[call.fetch].key = CacheKey(call.ip, call.rtt)
          /\ route \in Routes /\ ApplyRtt(call.ip, call.rtt, route)
      BY <1>3, HeadIsAnswered
    <2>2. call.ip \in Ips /\ call.rtt \in Rtts /\ call.rtt \in Nat
      BY <2>1, TableAssumption DEF Call
    <2>3. /\ fetches' = fetches /\ answer' = answer
      BY <1>3 DEF Resume, cacheVars
    <2> HIDE DEF call, route
    <2>4. CASE route \notin Drawable
      BY <1>2, <2>1, <2>4 DEF ApplyRtt
    <2>5. CASE route \in Drawable
      <3> DEFINE key == KeyOf(route, call.ip)
      <3>1. /\ MapGet(entities', key).route = route /\ MapGet(entities', key).lastRtt = call.rtt
            /\ \A k \in MapKeys(entities') \ {key} :
                 k \in MapKeys(entities) /\ MapGet(entities', k) = MapGet(entities, k)
        BY <1>0, <2>1, <2>2, <2>5, RttEffect
      <3>2. fetches[call.fetch].key[1] = call.ip /\ fetches[call.fetch].key[2] = Rounded(call.rtt)
        BY <2>1 DEF CacheKey
      <3> HIDE DEF key
      <3>a. PICK q \in Fetches : q = call.fetch
        BY <2>1
      <3>b. PICK j : j = key
        OBVIOUS
      <3>3. q \in Fetches' /\ Shows(q, j)'
        <4>1. q \in Fetches'
          BY <2>3 DEF Fetches
        <4>2. answer'[q] = route
          BY <2>3, <3>a DEF route
        <4>3. KeyOf(route, fetches[q].key[1]) = j
          BY <3>2, <3>a, <3>b DEF key
        <4> QED
          BY <2>1, <2>3, <3>1, <3>2, <3>a, <3>b, <4>1, <4>2, <4>3 DEF Shows
      <3>4. ASSUME NEW k \in MapKeys(entities') PROVE \E r \in Fetches' : Shows(r, k)'
        <4>1. CASE k = key
          BY <3>3, <3>b, <4>1
        <4>2. CASE k # key
          BY <1>1, <3>1, <4>2
        <4> QED
          BY <4>1, <4>2
      <3> QED
        BY <3>4 DEF EntitiesShown
    <2> QED
      BY <2>4, <2>5
  <1>4. ASSUME NEW ip \in Ips, NEW bytes \in Volumes, VolArrives(ip, bytes)
        PROVE  EntitiesShown'
    <2>1. bytes \in Nat /\ ApplyVol(ip, bytes)
      BY <1>4, TableAssumption DEF VolArrives
    <2>2. ASSUME NEW k \in MapKeys(entities') PROVE \E r \in Fetches' : Shows(r, k)'
      <3>1. /\ k \in MapKeys(entities)
            /\ MapGet(entities', k).route = MapGet(entities, k).route
            /\ MapGet(entities', k).lastRtt = MapGet(entities, k).lastRtt
        BY <1>0, <2>1, VolEffect
      <3> QED
        BY <1>1, <3>1
    <2> QED
      BY <2>2 DEF EntitiesShown
  <1>5. ASSUME Timer PROVE EntitiesShown'
    <2>1. entities' = Clean(Survivors)
      BY <1>5 DEF Timer, Tick
    <2>2. ASSUME NEW k \in MapKeys(entities') PROVE \E r \in Fetches' : Shows(r, k)'
      <3>1. k \in MapKeys(entities) /\ Same(MapGet(entities', k), MapGet(entities, k))
        BY <1>0, <2>1, TickKeeps
      <3> QED
        BY <1>1, <3>1 DEF Same
    <2> QED
      BY <2>2 DEF EntitiesShown
  <1>6. ASSUME NEW ip \in Ips, NEW rtt \in Rtts, RttArrives(ip, rtt) PROVE entities' = entities
    BY <1>6 DEF RttArrives
  <1>7. ASSUME NEW quic \in StatValues, NEW ipv6 \in StatValues, StatArrives(quic, ipv6)
        PROVE  entities' = entities
    BY <1>7 DEF StatArrives
  <1>8. ASSUME NEW r \in Fetches, Failed(r) \/ \E route \in Routes : Answered(r, route)
        PROVE  entities' = entities
    BY <1>8 DEF Failed, Answered, tableVars
  <1>9. ASSUME ClientEvent \/ TimePasses \/ UNCHANGED serverVars PROVE entities' = entities
    BY <1>9 DEF ClientEvent, TimePasses, Elapse, serverVars, tableVars
  <1> QED
    BY <1>2, <1>3, <1>4, <1>5, <1>6, <1>7, <1>8, <1>9 DEF ServerNext

LEMMA InitRoutes == ServerInit => RouteInv
  <1> SUFFICES ASSUME ServerInit PROVE RouteInv
    OBVIOUS
  <1>1. CacheInv /\ TableInv
    BY InitCache, InitTable DEF ServerInit
  <1>2. /\ answer = <<>> /\ waiting = <<>> /\ ready = <<>> /\ fetches = <<>> /\ entities = <<>>
    BY DEF ServerInit, CacheInit, TableInit
  <1>3. Len(<<>>) = 0 /\ 1..0 = {}
    BY EmptySeq
  <1>4. AnswerTyped
    BY <1>2, <1>3, EmptySeq DEF AnswerTyped, Fetches
  <1>5. CallsFit
    BY <1>2, <1>3, EmptySeq DEF CallsFit
  <1>6. EntitiesShown
    <2>1. MapKeys(entities) = {}
      BY <1>2, <1>3 DEF MapKeys
    <2> QED
      BY <2>1 DEF EntitiesShown
  <1> QED
    BY <1>1, <1>4, <1>5, <1>6 DEF RouteInv

LEMMA StepRoutes == RouteInv /\ [ServerNext]_serverVars => RouteInv'
  <1> SUFFICES ASSUME RouteInv, [ServerNext]_serverVars PROVE RouteInv'
    OBVIOUS
  <1>1. CacheInv' /\ TableInv'
    BY StepCache, StepTable, ServerTableSteps DEF RouteInv
  <1>2. FetchesKept /\ AnswersKept /\ AnswerTyped' /\ CallsFit'
    BY StepCalls
  <1>3. EntitiesShown'
    BY <1>2, StepShown
  <1> QED
    BY <1>1, <1>2, <1>3 DEF RouteInv

\* For any number of addresses, routes, lines and fetches: an entity shows a
\* measurement together with the answer to that measurement.
THEOREM EntityShowsItsAnswer == ServerSpec => []RouteAnswersRtt
  <1>1. RouteInv => RouteAnswersRtt
    <2> SUFFICES ASSUME RouteInv, NEW i \in 1..Len(entities)
                 PROVE  \E r \in Fetches :
                           /\ answer[r] = entities[i].val.route
                           /\ fetches[r].key[2] = Rounded(entities[i].val.lastRtt)
                           /\ KeyOf(entities[i].val.route, fetches[r].key[1])
                                = entities[i].key
      BY DEF RouteAnswersRtt
    <2>1. /\ entities[i].key \in MapKeys(entities)
          /\ MapGet(entities, entities[i].key) = entities[i].val
      BY MapLookup DEF RouteInv, TableInv, TableTyped
    <2>2. PICK r \in Fetches : Shows(r, entities[i].key)
      BY <2>1 DEF RouteInv, EntitiesShown
    <2> QED
      BY <2>1, <2>2 DEF Shows
  <1> QED
    BY <1>1, InitRoutes, StepRoutes, PTL DEF ServerSpec
\* In the server as a whole, too, volume follows its address and only idle
\* entities leave.
THEOREM TableKeepsItsPromises == ServerSpec => []VolumeFollowsRoute /\ OnlyIdleLeave
  <1>1. RouteInv => TableInv
    BY DEF RouteInv
  <1>2. RouteInv /\ [ServerNext]_serverVars => [IdleLeave]_tableVars
    BY <1>1, LeaversAreIdle, ServerTableSteps
  <1> QED
    BY <1>1, <1>2, VolumeIsWithAddress, InitRoutes, StepRoutes, PTL
       DEF ServerSpec, OnlyIdleLeave, IdleLeave

(******************************** the clients *********************************)

SaysOf(agg) == [route |-> agg.route, rtt |-> agg.lastRtt, seen |-> agg.lastSeen]

\* Frame n is the last that speaks of entity k, and tells what it is now.
TellsLast(n, k) ==
    /\ k \in DOMAIN sentFrames[n]
    /\ sentFrames[n][k] = SaysOf(MapGet(entities, k))
    /\ \A m \in 1..Len(sentFrames) : m > n => k \notin DOMAIN sentFrames[m]

CleanIsTold ==
    \A k \in MapKeys(entities) :
        ~MapGet(entities, k).dirty => \E n \in 1..Len(sentFrames) : TellsLast(n, k)

Says == UNION {[D -> [route : Routes, rtt : Nat, seen : Nat]] : D \in SUBSET EntityKeys}

ToldInv ==
    /\ sentFrames \in Seq(Says) /\ Len(sentFrames) = framesOut
    /\ CleanIsTold

\* What a frame says of the entities m it was built from.
LEMMA FrameSays ==
    ASSUME NEW m \in MapOf(EntityKeys, Agg)
    PROVE  /\ SaidOf(m) \in Says
           /\ \A k : k \in DOMAIN SaidOf(m) <=> k \in MapKeys(m) /\ MapGet(m, k).dirty
           /\ \A k \in DOMAIN SaidOf(m) : SaidOf(m)[k] = SaysOf(MapGet(m, k))
  <1> DEFINE I == {j \in 1..Len(m) : m[j].val.dirty}
             D == {m[i].key : i \in I}
  <1>1. SaidOf(m) = [k \in D |-> SaysOf(MapGet(m, k))]
    BY DEF SaidOf, Said, SaysOf
  <1>2. \A i \in 1..Len(m) : /\ m[i].key \in MapKeys(m)
                             /\ MapGet(m, m[i].key) = m[i].val
    BY MapLookup
  <1>3. ASSUME NEW k PROVE k \in D <=> k \in MapKeys(m) /\ MapGet(m, k).dirty
    <2>1. ASSUME k \in D PROVE k \in MapKeys(m) /\ MapGet(m, k).dirty
      <3>1. PICK i \in 1..Len(m) : m[i].key = k /\ m[i].val.dirty
        BY <2>1
      <3> QED
        BY <1>2, <3>1
    <2>2. ASSUME k \in MapKeys(m), MapGet(m, k).dirty PROVE k \in D
      <3>1. PICK i \in 1..Len(m) : m[i].key = k
        BY <2>2 DEF MapKeys
      <3>2. m[i].val.dirty
        BY <1>2, <2>2, <3>1
      <3> QED
        BY <3>1, <3>2
    <2> QED
      BY <2>1, <2>2
  <1> HIDE DEF D
  <1>4. D \in SUBSET EntityKeys
    BY <1>3, MapLookup
  <1>5. ASSUME NEW k \in D PROVE SaysOf(MapGet(m, k)) \in [route : Routes, rtt : Nat, seen : Nat]
    <2>1. MapGet(m, k) \in Agg
      BY <1>3, MapLookup
    <2> QED
      BY <2>1 DEF SaysOf, Agg
  <1>6. SaidOf(m) \in [D -> [route : Routes, rtt : Nat, seen : Nat]]
    BY <1>1, <1>5
  <1>7. SaidOf(m) \in Says
    BY <1>4, <1>6 DEF Says
  <1> QED
    BY <1>1, <1>3, <1>7

\* A tick that finds nothing dirty sends nothing.
LEMMA NothingDirty ==
    ASSUME entities \in MapOf(EntityKeys, Agg), now \in Nat, Out = <<>>
    PROVE  \A k \in MapKeys(Survivors) : ~MapGet(Survivors, k).dirty
  <1> DEFINE I == {i \in 1..Len(Survivors) : Survivors[i].val.dirty}
             dirty == Filtered(Survivors, I)
  <1>1. Survivors \in MapOf(EntityKeys, Agg)
    BY SurvivorsKept
  <1>2. Out = [i \in 1..Len(dirty) |-> Rendered(dirty[i])]
    BY DEF Out
  <1>3. I \in SUBSET (1..Len(Survivors)) /\ Survivors \in Seq(Entry)
    BY <1>1 DEF MapOf, Entry
  <1>4. \A i : i \in I <=> i \in 1..Len(Survivors) /\ Survivors[i].val.dirty
    OBVIOUS
  <1> HIDE DEF I
  <1>5. /\ dirty \in Seq(Entry)
        /\ \A i \in I : \E k \in 1..Len(dirty) : TRUE
    BY <1>3, FilterKeeps
  <1> HIDE DEF dirty
  <1>6. 1..Len(dirty) = {}
    <2>1. DOMAIN [i \in 1..Len(dirty) |-> Rendered(dirty[i])] = 1..Len(dirty)
      OBVIOUS
    <2>2. DOMAIN <<>> = {}
      BY EmptySeq
    <2> QED
      BY <1>2, <2>1, <2>2
  <1>7. I = {}
    BY <1>5, <1>6
  <1>8. ASSUME NEW k \in MapKeys(Survivors), MapGet(Survivors, k).dirty PROVE FALSE
    <2>1. PICK i \in 1..Len(Survivors) : Survivors[i].key = k
      BY DEF MapKeys
    <2>2. Survivors[i].val.dirty
      BY <1>1, <1>8, <2>1, MapLookup
    <2> QED
      BY <1>4, <1>7, <2>1, <2>2
  <1> QED
    BY <1>8, Zenon

\* A clean entity that no step touches has been told as before.
LEMMA StillTold ==
    ASSUME NEW k, NEW n \in 1..Len(sentFrames), TellsLast(n, k),
           sentFrames' = sentFrames,
           SaysOf(MapGet(entities', k)) = SaysOf(MapGet(entities, k))
    PROVE  n \in 1..Len(sentFrames') /\ TellsLast(n, k)'
  BY DEF TellsLast

LEMMA StepTold ==
    ASSUME RouteInv, ToldInv, [ServerNext]_serverVars
    PROVE  ToldInv'
  <1>0. /\ TableInv /\ entities \in MapOf(EntityKeys, Agg) /\ now \in Nat
        /\ sentFrames \in Seq(Says) /\ Len(sentFrames) = framesOut /\ Len(sentFrames) \in Nat
        /\ CleanIsTold
    BY DEF RouteInv, TableInv, TableTyped, ToldInv
  <1>1. ASSUME NEW k \in MapKeys(entities'), k \in MapKeys(entities),
               SaysOf(MapGet(entities', k)) = SaysOf(MapGet(entities, k)),
               ~MapGet(entities, k).dirty, sentFrames' = sentFrames
        PROVE  \E n \in 1..Len(sentFrames') : TellsLast(n, k)'
    <2>1. PICK n \in 1..Len(sentFrames) : TellsLast(n, k)
      BY <1>0, <1>1 DEF CleanIsTold
    <2>2. n \in 1..Len(sentFrames') /\ TellsLast(n, k)'
      BY <1>1, <2>1, StillTold
    <2> QED
      BY <2>2
  <1>2. ASSUME sentFrames' = sentFrames, framesOut' = framesOut, CleanIsTold' PROVE ToldInv'
    BY <1>0, <1>2 DEF ToldInv
  <1>3. ASSUME entities' = entities, sentFrames' = sentFrames, framesOut' = framesOut
        PROVE  ToldInv'
    <2>1. CleanIsTold'
      BY <1>1, <1>3 DEF CleanIsTold
    <2> QED
      BY <1>2, <1>3, <2>1
  <1>4. ASSUME Resume PROVE ToldInv'
    <2> DEFINE call == Head(ready)
               route == answer[call.fetch]
    <2>1. call \in Call /\ route \in Routes /\ ApplyRtt(call.ip, call.rtt, route)
      BY <1>4, HeadIsAnswered
    <2>2. call.ip \in Ips /\ call.rtt \in Nat
      BY <2>1, TableAssumption DEF Call
    <2>3. sentFrames' = sentFrames /\ framesOut' = framesOut
      BY <1>4 DEF Resume, clientVars
    <2> HIDE DEF call, route
    <2>4. CASE route \notin Drawable
      BY <1>3, <2>1, <2>3, <2>4 DEF ApplyRtt
    <2>5. CASE route \in Drawable
      <3>1. /\ MapGet(entities', KeyOf(route, call.ip)).dirty
            /\ \A k \in MapKeys(entities') \ {KeyOf(route, call.ip)} :
                 k \in MapKeys(entities) /\ MapGet(entities', k) = MapGet(entities, k)
        BY <1>0, <2>1, <2>2, <2>5, RttEffect
      <3>2. ASSUME NEW k \in MapKeys(entities'), ~MapGet(entities', k).dirty
            PROVE  \E n \in 1..Len(sentFrames') : TellsLast(n, k)'
        <4>1. k \in MapKeys(entities) /\ MapGet(entities', k) = MapGet(entities, k)
          BY <3>1, <3>2
        <4> QED
          BY <1>1, <2>3, <3>2, <4>1
      <3> QED
        BY <1>2, <2>3, <3>2 DEF CleanIsTold
    <2> QED
      BY <2>4, <2>5
  <1>5. ASSUME NEW ip \in Ips, NEW bytes \in Volumes, VolArrives(ip, bytes)
        PROVE  ToldInv'
    <2>1. bytes \in Nat /\ ApplyVol(ip, bytes)
      BY <1>5, TableAssumption DEF VolArrives
    <2>2. sentFrames' = sentFrames /\ framesOut' = framesOut
      BY <1>5 DEF VolArrives, clientVars, loopVars
    <2>3. ASSUME NEW k \in MapKeys(entities'), ~MapGet(entities', k).dirty
          PROVE  \E n \in 1..Len(sentFrames') : TellsLast(n, k)'
      <3>1. k \in MapKeys(entities) /\ MapGet(entities', k) = MapGet(entities, k)
        BY <1>0, <2>1, <2>3, VolEffect
      <3> QED
        BY <1>1, <2>2, <2>3, <3>1
    <2> QED
      BY <1>2, <2>2, <2>3 DEF CleanIsTold
  <1>6. ASSUME Timer PROVE ToldInv'
    <2>1. entities' = Clean(Survivors)
      BY <1>6 DEF Timer, Tick
    <2>2. Survivors \in MapOf(EntityKeys, Agg)
      BY <1>0, SurvivorsKept
    <2>3. ASSUME NEW k \in MapKeys(entities')
          PROVE  /\ k \in MapKeys(Survivors) /\ k \in MapKeys(entities)
                 /\ SaysOf(MapGet(entities', k)) = SaysOf(MapGet(Survivors, k))
                 /\ SaysOf(MapGet(Survivors, k)) = SaysOf(MapGet(entities, k))
                 /\ MapGet(Survivors, k).dirty = MapGet(entities, k).dirty
      <3>1. k \in MapKeys(Survivors) /\ Same(MapGet(entities', k), MapGet(Survivors, k))
        BY <2>1, <2>2, CleanKeeps
      <3>2. /\ k \in MapKeys(entities) /\ Same(MapGet(Survivors, k), MapGet(entities, k))
            /\ MapGet(Survivors, k).dirty = MapGet(entities, k).dirty
        BY <1>0, <3>1, SurvivorsKept
      <3> QED
        BY <3>1, <3>2 DEF Same, SaysOf
    <2>4. CASE Out = <<>>
      <3>1. sentFrames' = sentFrames /\ framesOut' = framesOut
        BY <1>6, <2>4 DEF Timer, clientVars
      <3>2. ASSUME NEW k \in MapKeys(entities')
            PROVE  \E n \in 1..Len(sentFrames') : TellsLast(n, k)'
        <4>1. ~MapGet(Survivors, k).dirty
          BY <1>0, <2>3, <2>4, NothingDirty
        <4> QED
          BY <1>1, <2>3, <3>1, <4>1
      <3> QED
        BY <1>2, <3>1, <3>2 DEF CleanIsTold
    <2>5. CASE Out # <<>>
      <3> DEFINE said == SaidOf(Survivors)
                 N == Len(sentFrames)
      <3>1. sentFrames' = Append(sentFrames, said) /\ framesOut' = framesOut + 1
        BY <1>6, <2>5 DEF Timer, Broadcast
      <3>2. /\ said \in Says
            /\ \A k : k \in DOMAIN said <=> k \in MapKeys(Survivors) /\ MapGet(Survivors, k).dirty
            /\ \A k \in DOMAIN said : said[k] = SaysOf(MapGet(Survivors, k))
        BY <2>2, FrameSays
      <3> HIDE DEF said
      <3>3. /\ sentFrames' \in Seq(Says) /\ Len(sentFrames') = N + 1
            /\ sentFrames'[N + 1] = said
            /\ \A i \in 1..N : sentFrames'[i] = sentFrames[i]
        BY <1>0, <3>1, <3>2, AppendProperties
      <3>4. /\ N + 1 \in 1..Len(sentFrames')
            /\ \A i \in 1..Len(sentFrames') : i \in 1..N \/ i = N + 1
            /\ \A i \in 1..N : i \in 1..Len(sentFrames')
            /\ \A i \in 1..Len(sentFrames') : ~(i > N + 1)
        BY <1>0, <3>3
      <3>5. ASSUME NEW k \in MapKeys(entities')
            PROVE  \E n \in 1..Len(sentFrames') : TellsLast(n, k)'
        <4>1. CASE MapGet(Survivors, k).dirty
          <5>1. k \in DOMAIN said /\ said[k] = SaysOf(MapGet(entities', k))
            BY <2>3, <3>2, <4>1
          <5>2. PICK n \in 1..Len(sentFrames') : n = N + 1
            BY <3>4
          <5>3. TellsLast(n, k)'
            BY <3>3, <3>4, <5>1, <5>2 DEF TellsLast
          <5> QED
            BY <5>3
        <4>2. CASE ~MapGet(Survivors, k).dirty
          <5>1. k \notin DOMAIN said
            BY <3>2, <4>2
          <5>2. PICK n \in 1..N : TellsLast(n, k)
            BY <1>0, <2>3, <4>2 DEF CleanIsTold
          <5>3. n \in 1..Len(sentFrames')
            BY <3>4
          <5>4. /\ k \in DOMAIN sentFrames[n]
                /\ sentFrames[n][k] = SaysOf(MapGet(entities, k))
                /\ \A m \in 1..N : m > n => k \notin DOMAIN sentFrames[m]
            BY <5>2 DEF TellsLast
          <5>5. ASSUME NEW m \in 1..Len(sentFrames'), m > n PROVE k \notin DOMAIN sentFrames'[m]
            BY <3>3, <3>4, <5>1, <5>4, <5>5
          <5>6. TellsLast(n, k)'
            BY <2>3, <3>3, <5>4, <5>5 DEF TellsLast
          <5> QED
            BY <5>3, <5>6
        <4> QED
          BY <4>1, <4>2
      <3>6. CleanIsTold'
        BY <3>5 DEF CleanIsTold
      <3> QED
        BY <1>0, <3>1, <3>3, <3>6 DEF ToldInv
    <2> QED
      BY <2>4, <2>5
  <1>7. ASSUME NEW ip \in Ips, NEW rtt \in Rtts, RttArrives(ip, rtt) PROVE ToldInv'
    BY <1>3, <1>7 DEF RttArrives, clientVars
  <1>8. ASSUME NEW quic \in StatValues, NEW ipv6 \in StatValues, StatArrives(quic, ipv6)
        PROVE  ToldInv'
    BY <1>3, <1>8 DEF StatArrives, clientVars, loopVars
  <1>9. ASSUME NEW r \in Fetches, Failed(r) \/ \E route \in Routes : Answered(r, route)
        PROVE  ToldInv'
    BY <1>3, <1>9 DEF Failed, Answered, tableVars, clientVars
  <1>10. ASSUME ClientEvent PROVE ToldInv'
    <2>1. framesOut' = framesOut
      BY <1>10 DEF ClientEvent, ClientEnv, Connect, Closing, Closed, Receive
    <2> QED
      BY <1>3, <1>10, <2>1 DEF ClientEvent, tableVars, loopVars
  <1>11. ASSUME TimePasses PROVE ToldInv'
    BY <1>3, <1>11 DEF TimePasses, Elapse, clientVars, loopVars
  <1>12. ASSUME UNCHANGED serverVars PROVE ToldInv'
    BY <1>3, <1>12 DEF serverVars, tableVars, clientVars, loopVars
  <1> QED
    BY <1>4, <1>5, <1>6, <1>7, <1>8, <1>9, <1>10, <1>11, <1>12 DEF ServerNext

ClientInv == ClientTypeOK /\ Balance /\ Newest

\* Every step of the server is one of the clients', or leaves them alone.
LEMMA ClientSteps == [ServerNext]_serverVars => [ClientNext]_clientVars
  <1> SUFFICES ASSUME [ServerNext]_serverVars PROVE [ClientNext]_clientVars
    OBVIOUS
  <1>1. ASSUME NEW ip \in Ips, NEW rtt \in Rtts, RttArrives(ip, rtt)
        PROVE  UNCHANGED clientVars
    BY <1>1 DEF RttArrives
  <1>2. ASSUME NEW ip \in Ips, NEW bytes \in Volumes, VolArrives(ip, bytes)
        PROVE  UNCHANGED clientVars
    BY <1>2 DEF VolArrives
  <1>3. ASSUME NEW quic \in StatValues, NEW ipv6 \in StatValues, StatArrives(quic, ipv6)
        PROVE  UNCHANGED clientVars
    BY <1>3 DEF StatArrives
  <1>4. ASSUME Resume \/ TimePasses PROVE UNCHANGED clientVars
    BY <1>4 DEF Resume, TimePasses
  <1>5. ASSUME NEW r \in Fetches, Failed(r) \/ \E route \in Routes : Answered(r, route)
        PROVE  UNCHANGED clientVars
    BY <1>5 DEF Failed, Answered
  <1>6. ASSUME Timer PROVE UNCHANGED clientVars \/ ClientNext
    BY <1>6 DEF Timer, ClientNext
  <1>7. ASSUME ClientEvent PROVE ClientNext
    BY <1>7 DEF ClientEvent, ClientNext
  <1>8. ASSUME UNCHANGED serverVars PROVE UNCHANGED clientVars
    BY <1>8 DEF serverVars
  <1> QED
    BY <1>1, <1>2, <1>3, <1>4, <1>5, <1>6, <1>7, <1>8 DEF ServerNext

\* A client that lost nothing got frame i as its i-th.
LEMMA CaughtUpHasAll ==
    ASSUME ClientTypeOK, NewestInOrder, LossIsCounted, NEW c \in clients, CaughtUp(c)
    PROVE  /\ Len(received[c]) = framesOut
           /\ \A i \in 1..framesOut : received[c][i].seq = i
  <1> DEFINE p == received[c]
             N == framesOut
  <1>1. /\ c \in Clients /\ p \in Seq(Frame) /\ N \in Nat
        /\ readyState[c] = "open" /\ joined[c] = 0 /\ cleared[c] = 0 /\ dropped[c] = 0
        /\ queue[c] = <<>> /\ buffer[c] = <<>>
    BY DEF ClientTypeOK, CaughtUp
  <1>2. Pipeline(c) = p
    <2>1. p \o <<>> = p
      BY <1>1, ConcatEmptySeq
    <2> QED
      BY <1>1, <2>1 DEF Pipeline
  <1>3. Len(p) = N /\ Len(p) \in Nat
    <2>1. N - joined[c] = Len(Pipeline(c)) + dropped[c] + cleared[c]
      BY <1>1 DEF LossIsCounted
    <2>2. Len(p) \in Nat
      BY <1>1
    <2> HIDE DEF p
    <2> QED
      BY <1>1, <1>2, <2>1, <2>2
  <1>4. \A i \in 1..N : p[i].seq \in Nat /\ p[i].dropped \in Nat
    <2>1. \A i \in 1..N : p[i] \in Frame
      BY <1>1, <1>3, ElementOfSeq
    <2> QED
      BY <2>1 DEF Frame
  <1>5. \A i \in 1..N : /\ i # 1 => p[i].seq > p[i - 1].seq
                        /\ p[i].dropped <= p[i].seq - joined[c] - i
    BY <1>1, <1>2, <1>3 DEF NewestInOrder, InOrder
  <1>6. N > 0 => p[N].seq = N
    BY <1>1, <1>2, <1>3 DEF NewestInOrder
  <1> HIDE DEF p, N
  <1>7. ASSUME NEW i \in 1..N PROVE p[i].seq >= i
    <2>1. p[i].dropped <= p[i].seq - 0 - i
      BY <1>1, <1>5
    <2> QED
      BY <1>1, <1>4, <2>1
  <1>8. ASSUME NEW i \in 1..N PROVE p[i].seq <= i
    <2> DEFINE T == {d \in 0..(N - 1) : ~(p[N - d].seq <= N - d)}
    <2>1. T = {}
      <3> SUFFICES ASSUME T # {} PROVE FALSE
        OBVIOUS
      <3>1. T \in SUBSET Nat
        OBVIOUS
      <3>2. PICK d \in T : \A e \in T : d <= e
        <4> HIDE DEF T
        <4> QED
          BY <3>1, LeastNumber
      <3>3. d \in 0..(N - 1) /\ ~(p[N - d].seq <= N - d)
        OBVIOUS
      <3>4. d # 0
        BY <1>1, <1>6, <3>3
      <3>5. PICK e \in Nat : e = d - 1
        BY <3>3, <3>4
      <3>6. e \in 0..(N - 1) /\ ~(d <= e)
        BY <1>1, <3>3, <3>5
      <3>7. p[N - e].seq <= N - e
        BY <3>2, <3>6
      <3>8. /\ N - e \in 1..N /\ N - e # 1 /\ (N - e) - 1 = N - d /\ N - d \in 1..N
        BY <1>1, <3>3, <3>4, <3>5
      <3>9. p[N - e].seq > p[N - d].seq
        BY <1>5, <3>8
      <3>10. p[N - e].seq \in Nat /\ p[N - d].seq \in Nat
        BY <1>4, <3>8
      <3> HIDE DEF T
      <3>11. PICK x \in Nat, y \in Nat, a \in Nat, b \in Nat :
                x = p[N - e].seq /\ y = p[N - d].seq /\ a = N - e /\ b = N - d
        BY <3>8, <3>10
      <3>12. x <= a /\ x > y /\ ~(y <= b) /\ a - 1 = b
        BY <3>3, <3>7, <3>8, <3>9, <3>11
      <3> QED
        BY <3>12
    <2>2. N - i \in 0..(N - 1) /\ N - (N - i) = i
      BY <1>1
    <2> QED
      BY <2>1, <2>2
  <1>9. \A i \in 1..N : p[i].seq = i
    BY <1>1, <1>4, <1>7, <1>8
  <1> QED
    BY <1>3, <1>9 DEF p, N

\* The whole way of a measurement: a client that lost no frame shows, of every
\* entity that is not about to be sent, what the table holds.
THEOREM ClientsSeeTable == ServerSpec => []ClientSeesTable
  <1>1. ServerInit => RouteInv /\ ToldInv /\ ClientInv
    <2> SUFFICES ASSUME ServerInit PROVE ToldInv /\ ClientInv
      BY InitRoutes
    <2>1. ClientInv
      BY InitType, InitBalance, InitNewest DEF ServerInit, ClientInv
    <2>2. sentFrames = <<>> /\ entities = <<>> /\ framesOut = 0
      BY DEF ServerInit, TableInit, ClientInit
    <2>3. MapKeys(entities) = {}
      BY <2>2, EmptySeq DEF MapKeys
    <2>4. CleanIsTold
      BY <2>3 DEF CleanIsTold
    <2> QED
      BY <2>1, <2>2, <2>4, EmptySeq DEF ToldInv
  <1>2. RouteInv /\ ToldInv /\ ClientInv /\ [ServerNext]_serverVars
            => RouteInv' /\ ToldInv' /\ ClientInv'
    BY StepRoutes, StepTold, ClientSteps, StepType, StepBalance, StepNewest DEF ClientInv
  <1>3. RouteInv /\ ToldInv /\ ClientInv => ClientSeesTable
    <2> SUFFICES ASSUME RouteInv, ToldInv, ClientInv PROVE ClientSeesTable
      OBVIOUS
    <2>1. ASSUME NEW c \in clients, CaughtUp(c), NEW i \in 1..Len(entities),
                 ~entities[i].val.dirty
          PROVE  \E f \in {h \in Range(received[c]) :
                              entities[i].key \in DOMAIN sentFrames[h.seq]} :
                    /\ \A g \in {h \in Range(received[c]) :
                              entities[i].key \in DOMAIN sentFrames[h.seq]} : g.seq <= f.seq
                    /\ sentFrames[f.seq][entities[i].key] = Said(entities[i])
      <3> DEFINE k == entities[i].key
                 p == received[c]
                 N == framesOut
      <3>1. k \in MapKeys(entities) /\ MapGet(entities, k) = entities[i].val
        BY MapLookup DEF RouteInv, TableInv, TableTyped
      <3>2. /\ Len(p) = N /\ \A j \in 1..N : p[j].seq = j
        BY <2>1, CaughtUpHasAll, NewestSuffices, BalanceSuffices DEF ClientInv
      <3>3. p \in Seq(Frame) /\ N \in Nat /\ Len(sentFrames) = N
        BY DEF ClientInv, ClientTypeOK, ToldInv
      <3>4. PICK n \in 1..N : TellsLast(n, k)
        BY <2>1, <3>1, <3>3 DEF ToldInv, CleanIsTold
      <3>5. Range(p) = {p[j] : j \in 1..N}
        BY <3>2, <3>3 DEF Range
      <3>6. p[n] \in Range(p) /\ p[n].seq = n
        BY <3>2, <3>5
      <3>7. k \in DOMAIN sentFrames[n] /\ sentFrames[n][k] = Said(entities[i])
        BY <3>1, <3>4 DEF TellsLast, SaysOf, Said
      <3>8. ASSUME NEW g \in Range(p), k \in DOMAIN sentFrames[g.seq] PROVE g.seq <= n
        <4>1. PICK j \in 1..N : g = p[j]
          BY <3>5
        <4>2. g.seq = j
          BY <3>2, <4>1
        <4>3. ~(j > n)
          BY <3>3, <3>4, <3>8, <4>2 DEF TellsLast
        <4> QED
          BY <4>2, <4>3
      <3> QED
        BY <3>6, <3>7, <3>8
    <2> QED
      BY <2>1 DEF ClientSeesTable
  <1> QED
    BY <1>1, <1>2, <1>3, PTL DEF ServerSpec
=============================================================================
