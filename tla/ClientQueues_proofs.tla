------------------------ MODULE ClientQueues_proofs ------------------------
(***************************************************************************)
(* What ClientQueues guarantees for every number of clients, queue length  *)
(* and high-water mark: memory per client is bounded, no frame is lost     *)
(* without being counted, and a client's frames stay in order, the newest  *)
(* without a gap.                                                          *)
(***************************************************************************)
EXTENDS ClientQueues, SequenceTheorems, TLAPS

(************************* one client, one broadcast ***********************)

LEMMA FrameRoom ==
    ASSUME NEW n \in Nat,
           NEW e, e = IF n >= CLIENT_QUEUE THEN n - CLIENT_QUEUE + 1 ELSE 0
    PROVE  e \in Nat /\ e <= n /\ n - e + 1 <= CLIENT_QUEUE
  BY ClientAssumption

\* broadcast() leaves room for the new frame, whatever the queue held.
LEMMA PushedFits ==
    ASSUME ClientTypeOK, NEW c \in Clients
    PROVE  /\ Excess(queue[c]) \in Nat
           /\ Pushed(c) \in Seq(Frame)
           /\ Len(queue[c]) \in Nat /\ Len(Pushed(c)) \in Nat
           /\ Len(Pushed(c)) = Len(queue[c]) - Excess(queue[c]) + 1
           /\ Len(Pushed(c)) <= CLIENT_QUEUE
  <1> DEFINE q == queue[c]
             n == Len(q)
             e == Excess(q)
  <1>1. q \in Seq(Frame) /\ n \in Nat
    BY LenProperties DEF ClientTypeOK
  <1>2. e = IF n >= CLIENT_QUEUE THEN n - CLIENT_QUEUE + 1 ELSE 0
    BY DEF Excess
  <1>3. e \in Nat /\ e <= n /\ n - e + 1 <= CLIENT_QUEUE
    <2> HIDE DEF n, e
    <2> QED
      BY <1>1, <1>2, FrameRoom
  <1>4. Trimmed(q) \in Seq(Frame) /\ Len(Trimmed(q)) = n - e
    <2>1. \A i \in (e + 1)..n : q[i] \in Frame
      <3> SUFFICES ASSUME NEW i \in (e + 1)..n PROVE i \in 1..n
        BY <1>1, ElementOfSeq
      <3> HIDE DEF n, e
      <3> QED
        BY <1>1, <1>3
    <2>2. e + 1 \in Int /\ n \in Int
      <3> HIDE DEF n, e
      <3> QED
        BY <1>1, <1>3
    <2>3. /\ SubSeq(q, e + 1, n) \in Seq(Frame)
          /\ Len(SubSeq(q, e + 1, n)) =
                 IF e + 1 <= n THEN n - (e + 1) + 1 ELSE 0
      <3> HIDE DEF n, e
      <3> QED
        BY <2>1, <2>2, SubSeqProperties
    <2>4. Len(SubSeq(q, e + 1, n)) = n - e
      <3> DEFINE l == Len(SubSeq(q, e + 1, n))
      <3>1. l = IF e + 1 <= n THEN n - (e + 1) + 1 ELSE 0
        BY <2>3
      <3> HIDE DEF n, e, l
      <3>2. l = n - e
        BY <1>1, <1>3, <3>1
      <3> QED
        BY <3>2 DEF l
    <2> QED
      BY <2>3, <2>4 DEF Trimmed
  <1>5. NewFrame(c) \in Frame
    BY <1>3 DEF NewFrame, Frame, ClientTypeOK
  <1>6. /\ Pushed(c) \in Seq(Frame)
        /\ Len(Pushed(c)) = Len(Trimmed(q)) + 1
    BY <1>4, <1>5, AppendProperties DEF Pushed
  <1> HIDE DEF n, e
  <1>7. Len(Pushed(c)) = n - e + 1
    BY <1>4, <1>6
  <1>8. Len(Pushed(c)) \in Nat /\ Len(Pushed(c)) <= CLIENT_QUEUE
    BY <1>1, <1>3, <1>7, ClientAssumption
  <1> QED
    BY <1>1, <1>3, <1>6, <1>7, <1>8 DEF n, e

\* A prefix of length n and what is left.
LEMMA Split ==
    ASSUME NEW S, NEW p \in Seq(S), NEW n \in Nat, n <= Len(p)
    PROVE  /\ SubSeq(p, 1, n) \in Seq(S) /\ Len(SubSeq(p, 1, n)) = n
           /\ SubSeq(p, n + 1, Len(p)) \in Seq(S)
           /\ Len(SubSeq(p, n + 1, Len(p))) = Len(p) - n
  <1> DEFINE l == Len(p)
  <1>1. l \in Nat
    BY LenProperties
  <1>2. \A i \in 1..l : p[i] \in S
    BY ElementOfSeq
  <1>3. n <= l
    OBVIOUS
  <1> HIDE DEF l
  <1>4. /\ SubSeq(p, 1, n) \in Seq(S)
        /\ Len(SubSeq(p, 1, n)) = IF 1 <= n THEN n - 1 + 1 ELSE 0
    <2>1. \A i \in 1..n : p[i] \in S
      BY <1>1, <1>2, <1>3
    <2> QED
      BY <2>1, SubSeqProperties
  <1>5. /\ SubSeq(p, n + 1, l) \in Seq(S)
        /\ Len(SubSeq(p, n + 1, l)) = IF n + 1 <= l THEN l - (n + 1) + 1 ELSE 0
    <2>1. \A i \in (n + 1)..l : p[i] \in S
      BY <1>1, <1>2, <1>3
    <2>2. n + 1 \in Int /\ l \in Int
      BY <1>1
    <2> QED
      BY <2>1, <2>2, SubSeqProperties
  <1>6. Len(SubSeq(p, 1, n)) = n
    <2> DEFINE k == Len(SubSeq(p, 1, n))
    <2>1. k = IF 1 <= n THEN n - 1 + 1 ELSE 0
      BY <1>4
    <2> HIDE DEF k
    <2>2. k = n
      BY <2>1
    <2> QED
      BY <2>2 DEF k
  <1>7. Len(SubSeq(p, n + 1, l)) = l - n
    <2> DEFINE k == Len(SubSeq(p, n + 1, l))
    <2>1. k = IF n + 1 <= l THEN l - (n + 1) + 1 ELSE 0
      BY <1>5
    <2> HIDE DEF k
    <2>2. k = l - n
      BY <1>1, <1>3, <2>1
    <2> QED
      BY <2>2 DEF k
  <1> QED
    BY <1>4, <1>5, <1>6, <1>7 DEF l

\* flush() sends at most what is queued and what is left below HIGH_WATER.
LEMMA SentBounded ==
    ASSUME ClientTypeOK, NEW c \in Clients, NEW o \in FlushOutcomes(c)
    PROVE  /\ o.sent \in Nat /\ o.sent <= Len(Pushed(c))
           /\ Len(buffer[c]) \in Nat
           /\ Len(buffer[c]) <= HIGH_WATER => Len(buffer[c]) + o.sent <= HIGH_WATER
           /\ o.throws \in BOOLEAN
  <1> DEFINE b == Len(buffer[c])
             l == Len(Pushed(c))
             all == Sendable(l, b)
  <1>1. b \in Nat /\ l \in Nat
    BY PushedFits, LenProperties DEF ClientTypeOK
  <1>2. all = IF b < HIGH_WATER THEN (IF l <= HIGH_WATER - b THEN l ELSE HIGH_WATER - b)
              ELSE 0
    BY DEF Sendable, Min2
  <1>3. /\ o.sent = all \/ o.sent \in 0..all
        /\ o.throws \in BOOLEAN
    <2>1. \/ o = [sent |-> all, throws |-> FALSE]
          \/ o \in {[sent |-> n, throws |-> TRUE] : n \in {m \in 0..all : m < all}}
      BY DEF FlushOutcomes
    <2>2. CASE o = [sent |-> all, throws |-> FALSE]
      BY <2>2
    <2>3. CASE o \in {[sent |-> n, throws |-> TRUE] : n \in {m \in 0..all : m < all}}
      <3>1. PICK n \in {m \in 0..all : m < all} : o = [sent |-> n, throws |-> TRUE]
        BY <2>3
      <3> HIDE DEF all
      <3>2. n \in 0..all
        OBVIOUS
      <3> QED
        BY <3>1, <3>2
    <2> QED
      BY <2>1, <2>2, <2>3
  <1> HIDE DEF b, l, all
  <1>4. all \in Nat /\ all <= l /\ (b <= HIGH_WATER => b + all <= HIGH_WATER)
    BY <1>1, <1>2, ClientAssumption
  <1>5. o.sent \in Nat /\ o.sent <= all
    BY <1>3, <1>4
  <1>6. o.sent <= l /\ (b <= HIGH_WATER => b + o.sent <= HIGH_WATER)
    <2> DEFINE n == o.sent
    <2>1. n \in Nat /\ n <= all
      BY <1>5
    <2> HIDE DEF n
    <2>2. n <= l /\ (b <= HIGH_WATER => b + n <= HIGH_WATER)
      BY <1>1, <1>4, <2>1, ClientAssumption
    <2> QED
      BY <2>2 DEF n
  <1> QED
    BY <1>1, <1>3, <1>5, <1>6 DEF b, l

\* What broadcast() does to one client that is open.
LEMMA OneBroadcast ==
    ASSUME ClientTypeOK, NEW o \in [Clients -> Outcome], Broadcast(o),
           NEW c \in clients, readyState[c] = "open"
    PROVE  /\ queue'[c] \in Seq(Frame) /\ buffer'[c] \in Seq(Frame)
           /\ dropped'[c] \in Nat /\ cleared'[c] \in Nat
           /\ Len(queue'[c]) <= CLIENT_QUEUE
           /\ Len(buffer[c]) <= HIGH_WATER => Len(buffer'[c]) <= HIGH_WATER
           /\ Len(buffer'[c]) + Len(queue'[c]) + dropped'[c] + cleared'[c] =
                  Len(buffer[c]) + Len(queue[c]) + dropped[c] + cleared[c] + 1
  <1> DEFINE p == Pushed(c)
             n == o[c].sent
             sent == SubSeq(p, 1, n)
             rest == SubSeq(p, n + 1, Len(p))
  <1>1. c \in Clients
    BY DEF ClientTypeOK
  <1>2. /\ o[c] \in FlushOutcomes(c)
        /\ dropped'[c] = dropped[c] + Excess(queue[c])
        /\ queue'[c] = IF o[c].throws THEN <<>> ELSE rest
        /\ buffer'[c] = buffer[c] \o sent
        /\ cleared'[c] = IF o[c].throws THEN cleared[c] + Len(rest) ELSE cleared[c]
    BY <1>1 DEF Broadcast, Flushed
  <1>3. /\ p \in Seq(Frame) /\ Len(p) \in Nat /\ Len(queue[c]) \in Nat
        /\ Excess(queue[c]) \in Nat
        /\ Len(p) = Len(queue[c]) - Excess(queue[c]) + 1 /\ Len(p) <= CLIENT_QUEUE
    BY <1>1, PushedFits
  <1>4. /\ n \in Nat /\ n <= Len(p) /\ Len(buffer[c]) \in Nat
        /\ Len(buffer[c]) <= HIGH_WATER => Len(buffer[c]) + n <= HIGH_WATER
        /\ o[c].throws \in BOOLEAN
    BY <1>1, <1>2, SentBounded
  <1>5. /\ sent \in Seq(Frame) /\ Len(sent) = n
        /\ rest \in Seq(Frame) /\ Len(rest) = Len(p) - n
    BY <1>3, <1>4, Split
  <1>6. buffer[c] \in Seq(Frame) /\ dropped[c] \in Nat /\ cleared[c] \in Nat
    BY <1>1 DEF ClientTypeOK
  <1>7. buffer'[c] \in Seq(Frame) /\ Len(buffer'[c]) = Len(buffer[c]) + n
    BY <1>2, <1>5, <1>6, ConcatProperties
  <1>8. /\ queue'[c] \in Seq(Frame)
        /\ Len(queue'[c]) = IF o[c].throws THEN 0 ELSE Len(rest)
    BY <1>2, <1>5, EmptySeq
  <1> DEFINE b == Len(buffer[c])
             q == Len(queue[c])
             e == Excess(queue[c])
             l == Len(p)
             k == IF o[c].throws THEN l - n ELSE 0
  <1>9. /\ Len(buffer'[c]) = b + n /\ Len(queue'[c]) = l - n - k
        /\ dropped'[c] = dropped[c] + e /\ cleared'[c] = cleared[c] + k
    <2> HIDE DEF p, n, sent, rest
    <2>1. CASE o[c].throws
      BY <1>2, <1>3, <1>4, <1>5, <1>6, <1>7, <1>8, <2>1 DEF b, e, l, k
    <2>2. CASE ~o[c].throws
      BY <1>2, <1>3, <1>4, <1>5, <1>6, <1>7, <1>8, <2>2 DEF b, e, l, k
    <2> QED
      BY <2>1, <2>2
  <1>10. /\ b \in Nat /\ q \in Nat /\ e \in Nat /\ n \in Nat /\ l \in Nat
         /\ l = q - e + 1 /\ l <= CLIENT_QUEUE /\ n <= l
         /\ b <= HIGH_WATER => b + n <= HIGH_WATER
    BY <1>3, <1>4
  <1>11. k = l - n \/ k = 0
    OBVIOUS
  <1> HIDE DEF b, q, e, n, l, k
  <1>12. /\ k \in Nat /\ l - n - k <= CLIENT_QUEUE
    BY <1>10, <1>11, ClientAssumption
  <1>13. \A d, x \in Nat : (b + n) + (l - n - k) + (d + e) + (x + k) = b + q + d + x + 1
    BY <1>10, <1>12
  <1>14. /\ dropped'[c] \in Nat /\ cleared'[c] \in Nat
         /\ Len(queue'[c]) <= CLIENT_QUEUE
         /\ b <= HIGH_WATER => Len(buffer'[c]) <= HIGH_WATER
    BY <1>6, <1>9, <1>10, <1>12
  <1>15. Len(buffer'[c]) + Len(queue'[c]) + dropped'[c] + cleared'[c] =
             b + q + dropped[c] + cleared[c] + 1
    BY <1>6, <1>9, <1>13
  <1> QED
    BY <1>7, <1>8, <1>14, <1>15 DEF b, q

\* A client that broadcast() skips.
LEMMA SkippedClient ==
    ASSUME ClientTypeOK, NEW o \in [Clients -> Outcome], Broadcast(o),
           NEW c \in Clients, c \notin clients \/ readyState[c] # "open"
    PROVE  /\ queue'[c] = queue[c] /\ buffer'[c] = buffer[c]
           /\ dropped'[c] = dropped[c] /\ cleared'[c] = cleared[c]
  BY DEF Broadcast

(********************************** types **********************************)

LEMMA InitType == ClientInit => ClientTypeOK
  BY EmptySeq DEF ClientInit, ClientTypeOK

\* The maps that broadcast() builds are total on Clients.
LEMMA BroadcastDomains ==
    ASSUME NEW o \in [Clients -> Outcome], Broadcast(o)
    PROVE  /\ queue' = [c \in Clients |-> queue'[c]]
           /\ buffer' = [c \in Clients |-> buffer'[c]]
           /\ dropped' = [c \in Clients |-> dropped'[c]]
           /\ cleared' = [c \in Clients |-> cleared'[c]]
  BY DEF Broadcast

LEMMA StepType == ClientTypeOK /\ [ClientNext]_clientVars => ClientTypeOK'
  <1> SUFFICES ASSUME ClientTypeOK, [ClientNext]_clientVars
               PROVE  ClientTypeOK'
    OBVIOUS
  <1>1. ASSUME NEW c \in Clients, Connect(c) PROVE ClientTypeOK'
    BY <1>1 DEF Connect, ClientTypeOK
  <1>2. ASSUME NEW c \in Clients, Closing(c) PROVE ClientTypeOK'
    BY <1>2 DEF Closing, ClientTypeOK
  <1>3. ASSUME NEW c \in Clients, Closed(c) PROVE ClientTypeOK'
    BY <1>3, EmptySeq DEF Closed, ClientTypeOK
  <1>4. ASSUME NEW c \in Clients, Receive(c) PROVE ClientTypeOK'
    <2>1. Head(buffer[c]) \in Frame /\ Tail(buffer[c]) \in Seq(Frame)
      BY <1>4, HeadTailProperties DEF Receive, ClientTypeOK
    <2>2. Append(received[c], Head(buffer[c])) \in Seq(Frame)
      BY <2>1, AppendProperties DEF ClientTypeOK
    <2> QED
      BY <1>4, <2>1, <2>2 DEF Receive, ClientTypeOK
  <1>5. ASSUME NEW o \in [Clients -> Outcome], Broadcast(o) PROVE ClientTypeOK'
    <2>1. \A c \in Clients : /\ queue'[c] \in Seq(Frame) /\ buffer'[c] \in Seq(Frame)
                             /\ dropped'[c] \in Nat /\ cleared'[c] \in Nat
      <3> SUFFICES ASSUME NEW c \in Clients
                   PROVE  /\ queue'[c] \in Seq(Frame) /\ buffer'[c] \in Seq(Frame)
                          /\ dropped'[c] \in Nat /\ cleared'[c] \in Nat
        OBVIOUS
      <3>1. CASE c \in clients /\ readyState[c] = "open"
        BY <1>5, <3>1, OneBroadcast
      <3>2. CASE c \notin clients \/ readyState[c] # "open"
        BY <1>5, <3>2, SkippedClient DEF ClientTypeOK
      <3> QED
        BY <3>1, <3>2
    <2>2. /\ queue' \in [Clients -> Seq(Frame)] /\ buffer' \in [Clients -> Seq(Frame)]
          /\ dropped' \in [Clients -> Nat] /\ cleared' \in [Clients -> Nat]
      BY <1>5, <2>1, BroadcastDomains
    <2> QED
      BY <1>5, <2>2 DEF Broadcast, ClientTypeOK
  <1>6. ASSUME UNCHANGED clientVars PROVE ClientTypeOK'
    BY <1>6 DEF clientVars, ClientTypeOK
  <1> QED
    BY <1>1, <1>2, <1>3, <1>4, <1>5, <1>6 DEF ClientNext, ClientEnv

(********************************* memory **********************************)

LEMMA InitBounded == ClientInit => MemoryBounded
  BY EmptySeq, ClientAssumption
     DEF ClientInit, MemoryBounded

LEMMA StepBounded ==
    ClientTypeOK /\ MemoryBounded /\ [ClientNext]_clientVars => MemoryBounded'
  <1> SUFFICES ASSUME ClientTypeOK, MemoryBounded, [ClientNext]_clientVars,
                      NEW c \in Clients
               PROVE  /\ Len(queue'[c]) <= CLIENT_QUEUE
                      /\ Len(buffer'[c]) <= HIGH_WATER
    BY DEF MemoryBounded
  <1>a. Len(queue[c]) <= CLIENT_QUEUE /\ Len(buffer[c]) <= HIGH_WATER
    BY DEF MemoryBounded
  <1>1. ASSUME NEW d \in Clients, Connect(d) \/ Closing(d) PROVE
          queue' = queue /\ buffer' = buffer
    BY <1>1 DEF Connect, Closing
  <1>2. ASSUME NEW d \in Clients, Closed(d)
        PROVE  Len(queue'[c]) <= CLIENT_QUEUE /\ Len(buffer'[c]) <= HIGH_WATER
    <2>1. queue' = queue /\ (buffer'[c] = buffer[c] \/ buffer'[c] = <<>>)
      BY <1>2 DEF Closed, ClientTypeOK
    <2> QED
      BY <1>a, <2>1, EmptySeq, ClientAssumption
  <1>3. ASSUME NEW d \in Clients, Receive(d)
        PROVE  Len(queue'[c]) <= CLIENT_QUEUE /\ Len(buffer'[c]) <= HIGH_WATER
    <2>1. queue' = queue /\ Len(buffer[c]) \in Nat
      BY <1>3, LenProperties DEF Receive, ClientTypeOK
    <2>2. CASE c = d
      <3>1. buffer[c] \in Seq(Frame) /\ buffer[c] # <<>> /\ buffer'[c] = Tail(buffer[c])
        BY <1>3, <2>2 DEF Receive, ClientTypeOK
      <3>2. Len(buffer'[c]) = Len(buffer[c]) - 1
        BY <3>1, HeadTailProperties
      <3> QED
        BY <1>a, <2>1, <3>2, ClientAssumption
    <2>3. CASE c # d
      BY <1>3, <1>a, <2>1, <2>3 DEF Receive, ClientTypeOK
    <2> QED
      BY <2>2, <2>3
  <1>4. ASSUME NEW o \in [Clients -> Outcome], Broadcast(o)
        PROVE  Len(queue'[c]) <= CLIENT_QUEUE /\ Len(buffer'[c]) <= HIGH_WATER
    <2>1. CASE c \in clients /\ readyState[c] = "open"
      BY <1>4, <1>a, <2>1, OneBroadcast
    <2>2. CASE c \notin clients \/ readyState[c] # "open"
      BY <1>4, <1>a, <2>2, SkippedClient
    <2> QED
      BY <2>1, <2>2
  <1>5. ASSUME UNCHANGED clientVars PROVE queue' = queue /\ buffer' = buffer
    BY <1>5 DEF clientVars
  <1> QED
    BY <1>a, <1>1, <1>2, <1>3, <1>4, <1>5 DEF ClientNext, ClientEnv

\* clients holds the connections that are not closed and nothing else.
THEOREM TypeCorrect == ClientSpec => []ClientTypeOK
  BY InitType, StepType, PTL DEF ClientSpec

\* However slowly a client reads, it costs the server at most CLIENT_QUEUE
\* queued frames and HIGH_WATER in the socket.
THEOREM MemoryIsBounded == ClientSpec => []MemoryBounded
  BY InitType, StepType, InitBounded, StepBounded, PTL DEF ClientSpec

(********************************** losses *********************************)

\* Sums of lengths and counts.
LEMMA Sums ==
    ASSUME NEW r \in Nat, NEW b \in Nat, NEW q \in Nat, NEW d \in Nat, NEW k \in Nat
    PROVE  /\ b + q + d + k \in Nat
           /\ r + (b + q + d + k) = r + b + q + d + k
           /\ (r + 1) + ((b - 1) + q + d + k) = r + (b + q + d + k)
  OBVIOUS

\* What a client has, waits for, or lost.
Account(c) == Len(received[c]) +
              (Len(buffer[c]) + Len(queue[c]) + dropped[c] + cleared[c])

\* LossIsCounted as an equation of lengths, and what Connect() starts from.
Balance ==
    /\ \A c \in clients :
           readyState[c] = "open" => framesOut - joined[c] = Account(c)
    /\ \A c \in Clients :
           readyState[c] = "new" =>
               /\ queue[c] = <<>> /\ buffer[c] = <<>> /\ received[c] = <<>>
               /\ dropped[c] = 0 /\ cleared[c] = 0

LEMMA BalanceSuffices ==
    ASSUME ClientTypeOK, Balance
    PROVE  LossIsCounted
  <1> SUFFICES ASSUME NEW c \in clients, readyState[c] = "open"
               PROVE  framesOut - joined[c] = Len(Pipeline(c)) + dropped[c] + cleared[c]
    BY DEF LossIsCounted
  <1>1. /\ received[c] \in Seq(Frame) /\ buffer[c] \in Seq(Frame)
        /\ queue[c] \in Seq(Frame) /\ dropped[c] \in Nat /\ cleared[c] \in Nat
    BY DEF ClientTypeOK
  <1>2. /\ Len(received[c]) \in Nat /\ Len(buffer[c]) \in Nat
        /\ Len(queue[c]) \in Nat
    BY <1>1, LenProperties
  <1>3. /\ received[c] \o buffer[c] \in Seq(Frame)
        /\ Len(received[c] \o buffer[c]) = Len(received[c]) + Len(buffer[c])
    BY <1>1, ConcatProperties
  <1>4. Len(Pipeline(c)) = Len(received[c]) + Len(buffer[c]) + Len(queue[c])
    BY <1>1, <1>3, ConcatProperties DEF Pipeline
  <1>5. framesOut - joined[c] = Account(c)
    BY DEF Balance
  <1> DEFINE r == Len(received[c])
             b == Len(buffer[c])
             q == Len(queue[c])
             d == dropped[c]
             k == cleared[c]
  <1>6. Account(c) = r + (b + q + d + k)
    BY DEF Account
  <1>7. /\ r \in Nat /\ b \in Nat /\ q \in Nat /\ d \in Nat /\ k \in Nat
        /\ Len(Pipeline(c)) + dropped[c] + cleared[c] = r + b + q + d + k
    BY <1>1, <1>2, <1>4
  <1> HIDE DEF r, b, q, d, k
  <1> QED
    BY <1>5, <1>6, <1>7, Sums

LEMMA InitBalance == ClientInit => Balance
  BY DEF ClientInit, Balance

LEMMA StepBalance ==
    ClientTypeOK /\ Balance /\ [ClientNext]_clientVars => Balance'
  <1> SUFFICES ASSUME ClientTypeOK, Balance, [ClientNext]_clientVars
               PROVE  Balance'
    OBVIOUS
  <1>a. \A c \in Clients :
            /\ received[c] \in Seq(Frame) /\ buffer[c] \in Seq(Frame)
            /\ queue[c] \in Seq(Frame) /\ dropped[c] \in Nat /\ cleared[c] \in Nat
            /\ joined[c] \in Nat /\ framesOut \in Nat
    BY DEF ClientTypeOK
  <1>b. \A c \in Clients : /\ Len(received[c]) \in Nat /\ Len(buffer[c]) \in Nat
                           /\ Len(queue[c]) \in Nat
    BY <1>a, LenProperties
  <1>1. ASSUME NEW d \in Clients, Connect(d) PROVE Balance'
    <2>1. Account(d) = 0 /\ Len(received[d]) \in Nat
      <3>1. /\ queue[d] = <<>> /\ buffer[d] = <<>> /\ received[d] = <<>>
            /\ dropped[d] = 0 /\ cleared[d] = 0
        BY <1>1 DEF Connect, Balance
      <3> QED
        BY <3>1, EmptySeq DEF Account
    <2>2. /\ queue' = queue /\ buffer' = buffer /\ received' = received
          /\ dropped' = dropped /\ cleared' = cleared /\ framesOut' = framesOut
          /\ clients' = clients \cup {d}
          /\ readyState' = [readyState EXCEPT ![d] = "open"]
          /\ joined' = [joined EXCEPT ![d] = framesOut]
      BY <1>1 DEF Connect
    <2>3. \A c \in Clients : Account(c)' = Account(c)
      BY <2>2 DEF Account
    <2>4. readyState \in [Clients -> {"new", "open", "closing", "closed"}]
          /\ joined \in [Clients -> Nat] /\ framesOut \in Nat /\ clients \subseteq Clients
      BY DEF ClientTypeOK
    <2>5. framesOut - joined'[d] = 0
      BY <2>2, <2>4
    <2>6. \A c \in Clients \ {d} :
              joined'[c] = joined[c] /\ readyState'[c] = readyState[c]
      BY <2>2, <2>4
    <2>7. readyState'[d] = "open"
      BY <2>2, <2>4
    <2>8. \A c \in clients' : readyState'[c] = "open" =>
              framesOut' - joined'[c] = Account(c)'
      BY <2>1, <2>2, <2>3, <2>4, <2>5, <2>6 DEF Balance
    <2> QED
      BY <2>2, <2>6, <2>7, <2>8 DEF Balance
  <1>2. ASSUME NEW d \in Clients, Closing(d) PROVE Balance'
    BY <1>2 DEF Closing, Balance, Account, ClientTypeOK
  <1>3. ASSUME NEW d \in Clients, Closed(d) PROVE Balance'
    <2>1. \A c \in Clients \ {d} : /\ buffer'[c] = buffer[c]
                                   /\ readyState'[c] = readyState[c]
      BY <1>3 DEF Closed, ClientTypeOK
    <2>2. readyState'[d] = "closed" /\ clients' \subseteq Clients \ {d}
      BY <1>3 DEF Closed, ClientTypeOK
    <2> QED
      BY <1>3, <2>1, <2>2 DEF Closed, Balance, Account
  <1>4. ASSUME NEW d \in Clients, Receive(d) PROVE Balance'
    <2>1. /\ received'[d] = Append(received[d], Head(buffer[d]))
          /\ buffer'[d] = Tail(buffer[d]) /\ buffer[d] # <<>>
          /\ \A c \in Clients \ {d} : /\ received'[c] = received[c]
                                      /\ buffer'[c] = buffer[c]
      BY <1>4, <1>a DEF Receive, ClientTypeOK
    <2>2. /\ Len(received'[d]) = Len(received[d]) + 1
          /\ Len(buffer'[d]) = Len(buffer[d]) - 1
      BY <1>a, <2>1, HeadTailProperties, AppendProperties
    <2>3. /\ queue' = queue /\ dropped' = dropped /\ cleared' = cleared
          /\ clients' = clients /\ readyState' = readyState /\ joined' = joined
          /\ framesOut' = framesOut /\ readyState[d] # "new"
          /\ clients \subseteq Clients
      BY <1>4 DEF Receive, ClientTypeOK
    <2>4. Account(d)' = Account(d)
      <3>1. Account(d)' = (Len(received[d]) + 1) +
                ((Len(buffer[d]) - 1) + Len(queue[d]) + dropped[d] + cleared[d])
        BY <2>2, <2>3 DEF Account
      <3> DEFINE r == Len(received[d])
                 b == Len(buffer[d])
                 q == Len(queue[d])
                 x == dropped[d]
                 k == cleared[d]
      <3>2. Account(d) = r + (b + q + x + k)
        BY DEF Account
      <3>3. /\ r \in Nat /\ b \in Nat /\ q \in Nat /\ x \in Nat /\ k \in Nat
            /\ Account(d)' = (r + 1) + ((b - 1) + q + x + k)
        BY <1>a, <1>b, <3>1
      <3> HIDE DEF r, b, q, x, k
      <3> QED
        BY <3>2, <3>3, Sums
    <2>5. \A c \in Clients \ {d} : Account(c)' = Account(c)
      BY <2>1, <2>3 DEF Account
    <2> QED
      BY <2>1, <2>3, <2>4, <2>5 DEF Balance
  <1>5. ASSUME NEW o \in [Clients -> Outcome], Broadcast(o) PROVE Balance'
    <2>1. /\ framesOut' = framesOut + 1 /\ clients' = clients
          /\ readyState' = readyState /\ received' = received /\ joined' = joined
          /\ clients \subseteq Clients
      BY <1>5 DEF Broadcast, ClientTypeOK
    <2>2. ASSUME NEW c \in clients, readyState[c] = "open"
          PROVE  framesOut' - joined'[c] = Account(c)'
      <3>0. c \in Clients
        BY <2>1
      <3> DEFINE r == Len(received[c])
                 x == Len(buffer[c]) + Len(queue[c]) + dropped[c] + cleared[c]
                 y == Len(buffer'[c]) + Len(queue'[c]) + dropped'[c] + cleared'[c]
      <3>1. y = x + 1
        BY <1>5, <2>2, OneBroadcast
      <3>2. framesOut - joined[c] = r + x
        BY <2>2 DEF Balance, Account
      <3>3. x \in Nat
        BY <1>a, <1>b, <3>0, Sums
      <3>4. r \in Nat /\ joined[c] \in Nat /\ framesOut \in Nat
        BY <1>a, <1>b, <3>0
      <3>5. Account(c)' = r + y
        BY <2>1 DEF Account
      <3> HIDE DEF r, x, y
      <3>6. framesOut + 1 - joined[c] = r + y
        BY <3>1, <3>2, <3>3, <3>4
      <3>7. framesOut' = framesOut + 1 /\ joined'[c] = joined[c]
        BY <2>1
      <3> QED
        BY <3>4, <3>5, <3>6, <3>7
    <2>3. ASSUME NEW c \in Clients, readyState[c] = "new"
          PROVE  /\ queue'[c] = <<>> /\ buffer'[c] = <<>> /\ received'[c] = <<>>
                 /\ dropped'[c] = 0 /\ cleared'[c] = 0
      BY <1>5, <2>1, <2>3, SkippedClient DEF Balance
    <2> QED
      BY <2>1, <2>2, <2>3 DEF Balance
  <1>6. ASSUME UNCHANGED clientVars PROVE Balance'
    BY <1>6 DEF clientVars, Balance, Account
  <1> QED
    BY <1>1, <1>2, <1>3, <1>4, <1>5, <1>6 DEF ClientNext, ClientEnv

\* Of the frames broadcast since an open client connected, each was received,
\* is on its way, or is in one of the two counts: none disappears.
THEOREM LossesAreCounted == ClientSpec => []LossIsCounted
  BY InitType, StepType, InitBalance, StepBalance, BalanceSuffices, PTL DEF ClientSpec

(********************************** order **********************************)

\* InOrder of one pipeline p, with the order stated for every pair of frames
\* and no frame after the n-th broadcast: what is left of p is ordered too.
Ordered(p, j, n) ==
    \A i \in 1..Len(p) :
        /\ p[i].seq > j /\ p[i].seq <= n
        /\ p[i].dropped <= p[i].seq - j - i
        /\ \A k \in 1..(i - 1) : p[k].seq < p[i].seq

LEMMA FrameOf ==
    ASSUME NEW p \in Seq(Frame), NEW i \in 1..Len(p)
    PROVE  p[i].seq \in Nat /\ p[i].dropped \in Nat
  <1>1. p[i] \in Frame
    BY ElementOfSeq
  <1> QED
    BY <1>1 DEF Frame

LEMMA OrderedLater ==
    ASSUME NEW p \in Seq(Frame), NEW j \in Nat, NEW n \in Nat, Ordered(p, j, n)
    PROVE  Ordered(p, j, n + 1)
  <1> SUFFICES ASSUME NEW i \in 1..Len(p) PROVE p[i].seq <= n + 1
    BY DEF Ordered
  <1>1. p[i].seq \in Nat
    BY FrameOf
  <1> QED
    BY <1>1 DEF Ordered

\* Frames taken out of the middle.
LEMMA OrderedCut ==
    ASSUME NEW a \in Seq(Frame), NEW b \in Seq(Frame), NEW c \in Seq(Frame),
           NEW j \in Nat, NEW n \in Nat, Ordered((a \o b) \o c, j, n)
    PROVE  Ordered(a \o c, j, n)
  <1> DEFINE p == (a \o b) \o c
             r == a \o c
             la == Len(a)
             lb == Len(b)
             lc == Len(c)
             f(i) == IF i <= la THEN i ELSE i + lb
  <1>1. la \in Nat /\ lb \in Nat /\ lc \in Nat
    BY LenProperties
  <1>2. a \o b \in Seq(Frame) /\ Len(a \o b) = la + lb
        /\ \A i \in 1..(la + lb) : (a \o b)[i] = IF i <= la THEN a[i] ELSE b[i - la]
    BY ConcatProperties
  <1>3. p \in Seq(Frame) /\ Len(p) = la + lb + lc
        /\ \A i \in 1..(la + lb + lc) :
              p[i] = IF i <= la + lb THEN (a \o b)[i] ELSE c[i - (la + lb)]
    BY <1>2, ConcatProperties
  <1>4. r \in Seq(Frame) /\ Len(r) = la + lc
        /\ \A i \in 1..(la + lc) : r[i] = IF i <= la THEN a[i] ELSE c[i - la]
    BY ConcatProperties
  <1>5. \A i \in 1..Len(p) : p[i] \in Frame
    BY <1>3, ElementOfSeq
  <1>6. Ordered(p, j, n)
    OBVIOUS
  <1> HIDE DEF p, r, la, lb, lc
  <1>7. ASSUME NEW i \in 1..(la + lc)
        PROVE  f(i) \in 1..Len(p) /\ f(i) >= i /\ r[i] = p[f(i)]
    <2>1. CASE i <= la
      <3>1. i \in 1..(la + lb) /\ i \in 1..(la + lb + lc) /\ i <= la + lb
        BY <1>1, <2>1
      <3>2. p[i] = a[i]
        BY <1>2, <1>3, <2>1, <3>1
      <3>3. r[i] = a[i]
        BY <1>4, <2>1
      <3> QED
        BY <1>3, <2>1, <3>1, <3>2, <3>3
    <2>2. CASE ~(i <= la)
      <3>1. i + lb \in 1..(la + lb + lc) /\ ~(i + lb <= la + lb)
            /\ i + lb - (la + lb) = i - la /\ i + lb >= i
        BY <1>1, <2>2
      <3>2. p[i + lb] = c[i - la]
        BY <1>1, <1>3, <3>1
      <3>3. r[i] = c[i - la]
        BY <1>4, <2>2
      <3> QED
        BY <1>3, <2>2, <3>1, <3>2, <3>3
    <2> QED
      BY <2>1, <2>2
  <1>8. \A i, k \in 1..(la + lc) : k < i => f(k) < f(i)
    BY <1>1
  <1>9. ASSUME NEW i \in 1..(la + lc)
        PROVE  /\ r[i].seq > j /\ r[i].seq <= n
               /\ r[i].dropped <= r[i].seq - j - i
               /\ \A k \in 1..(i - 1) : r[k].seq < r[i].seq
    <2> DEFINE h == f(i)
    <2>1. h \in 1..Len(p) /\ h >= i /\ r[i] = p[h]
      BY <1>7
    <2>2. /\ p[h].seq \in Nat /\ p[h].dropped \in Nat
      BY <1>5, <2>1 DEF Frame
    <2>3. /\ p[h].seq > j /\ p[h].seq <= n
          /\ p[h].dropped <= p[h].seq - j - h
          /\ \A k \in 1..(h - 1) : p[k].seq < p[h].seq
      BY <1>6, <2>1 DEF Ordered
    <2>4. h \in Nat
      <3> HIDE DEF h
      <3> QED
        BY <1>1, <1>3, <2>1
    <2>5. ASSUME NEW k \in 1..(i - 1) PROVE r[k].seq < r[i].seq
      <3>1. k \in 1..(la + lc) /\ k < i
        BY <1>1
      <3>2. f(k) \in 1..Len(p) /\ r[k] = p[f(k)] /\ f(k) < h
        BY <1>7, <1>8, <3>1
      <3>3. f(k) \in 1..(h - 1)
        <4> DEFINE g == f(k)
        <4>1. g \in 1..Len(p) /\ g < h /\ Len(p) \in Nat
          BY <1>1, <1>3, <3>2
        <4> HIDE DEF g, h
        <4> QED
          BY <2>4, <4>1 DEF g
      <3> QED
        BY <2>1, <2>3, <3>2, <3>3
    <2> HIDE DEF h
    <2>6. p[h].dropped <= p[h].seq - j - i
      BY <2>1, <2>2, <2>3, <2>4
    <2> QED
      BY <2>1, <2>3, <2>5, <2>6
  <1> QED
    BY <1>4, <1>9 DEF r, Ordered

\* The rest of a queue that is lost to a send that threw.
LEMMA OrderedPrefix ==
    ASSUME NEW a \in Seq(Frame), NEW b \in Seq(Frame),
           NEW j \in Nat, NEW n \in Nat, Ordered(a \o b, j, n)
    PROVE  Ordered(a, j, n)
  <1>1. a \o b = (a \o b) \o <<>> /\ a = a \o <<>> /\ <<>> \in Seq(Frame)
    BY ConcatProperties, ConcatEmptySeq, EmptySeq
  <1>2. Ordered((a \o b) \o <<>>, j, n)
    BY <1>1
  <1>3. Ordered(a \o <<>>, j, n)
    BY <1>1, <1>2, OrderedCut
  <1> QED
    BY <1>1, <1>3

\* The next frame, with at most as many drops as there were.
LEMMA OrderedAppend ==
    ASSUME NEW p \in Seq(Frame), NEW x \in Frame, NEW j \in Nat, NEW n \in Nat,
           Ordered(p, j, n), j <= n, x.seq = n + 1,
           x.dropped <= n - j - Len(p)
    PROVE  Ordered(Append(p, x), j, n + 1)
  <1> DEFINE r == Append(p, x)
             l == Len(p)
  <1>1. /\ r \in Seq(Frame) /\ Len(r) = l + 1 /\ l \in Nat
        /\ \A i \in 1..l : r[i] = p[i]
        /\ r[l + 1] = x
    BY AppendProperties, LenProperties
  <1>2. Ordered(p, j, n + 1)
    BY OrderedLater
  <1>3. \A i \in 1..l : p[i].seq \in Nat /\ p[i].seq <= n
    BY FrameOf DEF Ordered
  <1>4. \A i \in 1..l : /\ p[i].seq > j /\ p[i].seq <= n + 1
                        /\ p[i].dropped <= p[i].seq - j - i
                        /\ \A k \in 1..(i - 1) : p[k].seq < p[i].seq
    BY <1>2 DEF Ordered
  <1>5. x.dropped \in Nat /\ x.dropped <= n - j - l
    BY DEF Frame
  <1> SUFFICES ASSUME NEW i \in 1..(l + 1)
               PROVE  /\ r[i].seq > j /\ r[i].seq <= n + 1
                      /\ r[i].dropped <= r[i].seq - j - i
                      /\ \A k \in 1..(i - 1) : r[k].seq < r[i].seq
    BY <1>1 DEF Ordered
  <1> HIDE DEF r, l
  <1>6. CASE i \in 1..l
    <2>1. \A k \in 1..(i - 1) : k \in 1..l
      BY <1>1, <1>6
    <2> QED
      BY <1>1, <1>4, <1>6, <2>1
  <1>7. CASE i = l + 1
    <2>1. \A k \in 1..(i - 1) : r[k].seq < r[i].seq
      <3> SUFFICES ASSUME NEW k \in 1..l PROVE p[k].seq < n + 1
        BY <1>1, <1>7
      <3> QED
        BY <1>3
    <2>2. r[i] = x
      BY <1>1, <1>7
    <2>3. x.dropped <= (n + 1) - j - i
      BY <1>1, <1>5, <1>7
    <2>4. x.seq > j /\ x.seq <= n + 1 /\ x.dropped <= x.seq - j - i
      BY <2>3
    <2> QED
      BY <2>1, <2>2, <2>4
  <1> QED
    BY <1>1, <1>6, <1>7

\* What Ordered says of a client is what InOrder says.
LEMMA OrderedIsInOrder ==
    ASSUME ClientTypeOK, \A c \in Clients : Ordered(Pipeline(c), joined[c], framesOut)
    PROVE  InOrder
  <1> SUFFICES ASSUME NEW c \in Clients, NEW i \in 1..Len(Pipeline(c))
               PROVE  /\ Pipeline(c)[i].seq >
                            (IF i = 1 THEN joined[c] ELSE Pipeline(c)[i-1].seq)
                      /\ Pipeline(c)[i].dropped <= Pipeline(c)[i].seq - joined[c] - i
    BY DEF InOrder
  <1> DEFINE p == Pipeline(c)
  <1>1. p \in Seq(Frame) /\ Len(p) \in Nat
    BY ConcatProperties, LenProperties DEF Pipeline, ClientTypeOK
  <1>2. /\ p[i].seq > joined[c]
        /\ p[i].dropped <= p[i].seq - joined[c] - i
        /\ \A k \in 1..(i - 1) : p[k].seq < p[i].seq
    BY DEF Ordered
  <1>3. CASE i # 1
    <2>1. i - 1 \in 1..(i - 1) /\ i - 1 \in 1..Len(p)
      BY <1>1, <1>3
    <2>2. p[i - 1].seq \in Nat /\ p[i].seq \in Nat
      BY <1>1, <2>1, FrameOf
    <2> QED
      BY <1>2, <1>3, <2>1, <2>2
  <1> QED
    BY <1>2, <1>3

LEMMA FrameConcat ==
    ASSUME NEW s \in Seq(Frame), NEW t \in Seq(Frame)
    PROVE  /\ s \o t \in Seq(Frame) /\ Len(s \o t) = Len(s) + Len(t)
  BY ConcatProperties

LEMMA FrameAppend ==
    ASSUME NEW p \in Seq(Frame), NEW x \in Frame
    PROVE  /\ Append(p, x) # <<>> /\ Len(Append(p, x)) = Len(p) + 1
           /\ Append(p, x)[Len(p) + 1] = x
  BY AppendProperties

LEMMA FrameAssoc ==
    \A s, t, u \in Seq(Frame) : (s \o t) \o u = s \o (t \o u)
  BY ConcatAssociative

\* A broadcast takes the pipeline of c apart at a, the end of what the socket
\* has: front is shifted, the new frame is appended, and lost is lost if a send
\* throws.
PipeStep(c, n, a, front, lost) ==
    /\ a \in Seq(Frame) /\ Trimmed(queue[c]) \in Seq(Frame)
    /\ Pipeline(c) = (a \o front) \o Trimmed(queue[c])
    /\ Len(front) = Excess(queue[c])
    /\ Append(a \o Trimmed(queue[c]), NewFrame(c)) = Pipeline(c)' \o lost
    /\ Pipeline(c)' \in Seq(Frame)
    /\ dropped'[c] = dropped[c] + Excess(queue[c])
    /\ cleared'[c] = cleared[c] + Len(lost)
    /\ \A i \in 1..Len(queue'[c]) :
          i + n \in 1..Len(Pushed(c)) /\ queue'[c][i] = Pushed(c)[i + n]
    /\ queue'[c] = <<>> \/ Len(queue'[c]) = Len(Pushed(c)) - n
    /\ n \in Nat

LEMMA OneBroadcastPipe ==
    ASSUME ClientTypeOK, NEW o \in [Clients -> Outcome], Broadcast(o),
           NEW c \in clients, readyState[c] = "open",
           NEW a, a = received[c] \o buffer[c]
    PROVE  \E front \in Seq(Frame), lost \in Seq(Frame) :
              PipeStep(c, o[c].sent, a, front, lost)
  <1> DEFINE q == queue[c]
             e == Excess(q)
             t == Trimmed(q)
             p == Pushed(c)
             n == o[c].sent
             sent == SubSeq(p, 1, n)
             rest == SubSeq(p, n + 1, Len(p))
             front == SubSeq(q, 1, e)
             lost == IF o[c].throws THEN rest ELSE <<>>
  <1>1. c \in Clients
    BY DEF ClientTypeOK
  <1>2. /\ o[c] \in FlushOutcomes(c)
        /\ dropped'[c] = dropped[c] + Excess(queue[c])
        /\ queue'[c] = IF o[c].throws THEN <<>> ELSE rest
        /\ buffer'[c] = buffer[c] \o sent
        /\ cleared'[c] = IF o[c].throws THEN cleared[c] + Len(rest) ELSE cleared[c]
        /\ received' = received
    BY <1>1 DEF Broadcast, Flushed
  <1>3. /\ received[c] \in Seq(Frame) /\ buffer[c] \in Seq(Frame) /\ q \in Seq(Frame)
        /\ dropped[c] \in Nat /\ cleared[c] \in Nat /\ framesOut \in Nat
    BY <1>1 DEF ClientTypeOK
  <1>4. /\ p \in Seq(Frame) /\ Len(p) \in Nat /\ Len(q) \in Nat
        /\ e \in Nat /\ Len(p) = Len(q) - e + 1
    BY <1>1, PushedFits
  <1>5. n \in Nat /\ n <= Len(p)
    BY <1>1, <1>2, SentBounded
  <1>6. e <= Len(q)
    BY <1>4, FrameRoom DEF Excess
  <1>7. /\ front \in Seq(Frame) /\ Len(front) = e
        /\ t \in Seq(Frame) /\ Len(t) = Len(q) - e
    BY <1>3, <1>4, <1>6, Split DEF Trimmed
  <1>8. front \o t = q
    <2>1. SubSeq(q, 1, e) \o SubSeq(q, e + 1, Len(q)) = SubSeq(q, 1, Len(q))
      <3> DEFINE l == Len(q)
      <3>1. 1 \in 1..(l + 1) /\ e \in (1 - 1)..l /\ l \in e..l
        <4> HIDE DEF e, l
        <4>1. e \in Nat /\ l \in Nat /\ e <= l
          BY <1>4, <1>6 DEF l
        <4> QED
          BY <4>1
      <3> QED
        BY <1>3, <3>1, ConcatAdjacentSubSeq
    <2> QED
      BY <1>3, <2>1, SubSeqFull DEF Trimmed
  <1>9. /\ sent \in Seq(Frame) /\ Len(sent) = n
        /\ rest \in Seq(Frame) /\ Len(rest) = Len(p) - n
    BY <1>4, <1>5, Split
  <1>10. sent \o rest = p
    <2>1. SubSeq(p, 1, n) \o SubSeq(p, n + 1, Len(p)) = SubSeq(p, 1, Len(p))
      <3> DEFINE l == Len(p)
      <3>1. 1 \in 1..(l + 1) /\ n \in (1 - 1)..l /\ l \in n..l
        <4> HIDE DEF n, l
        <4>1. n \in Nat /\ l \in Nat /\ n <= l
          BY <1>4, <1>5 DEF l
        <4> QED
          BY <4>1
      <3> QED
        BY <1>4, <3>1, ConcatAdjacentSubSeq
    <2> QED
      BY <1>4, <2>1, SubSeqFull
  <1>11. NewFrame(c) \in Frame /\ p = Append(t, NewFrame(c))
    BY <1>3, <1>4 DEF NewFrame, Frame, Pushed
  <1>12. a \in Seq(Frame)
    BY <1>3, ConcatProperties
  <1> HIDE DEF q, e, t, p, n, sent, rest, front
  <1>13. Pipeline(c) = (a \o front) \o t
    <2>1. Pipeline(c) = a \o (front \o t)
      BY <1>8 DEF Pipeline, q
    <2> QED
      BY <1>7, <1>12, <2>1, FrameAssoc, Zenon
  <1>14. lost \in Seq(Frame) /\ cleared'[c] = cleared[c] + Len(lost)
    <2>1. CASE o[c].throws
      <3>1. lost = rest /\ cleared'[c] = cleared[c] + Len(rest)
        BY <1>2, <2>1 DEF rest, p, n
      <3> HIDE DEF lost
      <3> QED
        BY <1>9, <3>1
    <2>2. CASE ~o[c].throws
      <3>1. lost = <<>> /\ cleared'[c] = cleared[c]
        BY <1>2, <2>2
      <3>2. <<>> \in Seq(Frame) /\ Len(<<>>) = 0
        BY EmptySeq
      <3> HIDE DEF lost
      <3> QED
        BY <1>3, <3>1, <3>2
    <2> QED
      BY <2>1, <2>2
  <1>15. a \o p = Append(a \o t, NewFrame(c))
    <2>1. <<NewFrame(c)>> \in Seq(Frame)
      BY <1>11
    <2>2. p = t \o <<NewFrame(c)>>
      BY <1>7, <1>11, AppendIsConcat
    <2>3. (a \o t) \o <<NewFrame(c)>> = a \o (t \o <<NewFrame(c)>>)
      BY <1>7, <1>12, <2>1, FrameAssoc, Zenon
    <2>4. a \o t \in Seq(Frame)
      BY <1>7, <1>12, FrameConcat
    <2> QED
      BY <1>11, <2>2, <2>3, <2>4, AppendIsConcat
  <1>16. a \o p = (a \o sent) \o rest /\ a \o sent \in Seq(Frame)
    <2>1. (a \o sent) \o rest = a \o (sent \o rest)
      BY <1>9, <1>12, FrameAssoc, Zenon
    <2> QED
      BY <1>9, <1>10, <1>12, <2>1, FrameConcat
  <1>17. a \o sent = received[c] \o buffer'[c]
    <2>1. buffer'[c] = buffer[c] \o sent
      BY <1>2 DEF sent, p, n
    <2>2. (received[c] \o buffer[c]) \o sent = received[c] \o (buffer[c] \o sent)
      BY <1>3, <1>9, FrameAssoc, Zenon
    <2> QED
      BY <2>1, <2>2, Zenon
  <1>18. /\ Pipeline(c)' = (a \o sent) \o queue'[c]
         /\ a \o p = Pipeline(c)' \o lost
         /\ Pipeline(c)' \in Seq(Frame)
    <2>1. Pipeline(c)' = (a \o sent) \o queue'[c]
      BY <1>2, <1>17 DEF Pipeline
    <2>2. CASE o[c].throws
      <3>1. queue'[c] = <<>> /\ lost = rest
        BY <1>2, <2>2
      <3> QED
        BY <1>16, <2>1, <3>1, ConcatEmptySeq
    <2>3. CASE ~o[c].throws
      <3>1. queue'[c] = rest /\ lost = <<>>
        BY <1>2, <2>3 DEF rest, p, n
      <3>2. (a \o sent) \o rest \in Seq(Frame)
        BY <1>9, <1>16, ConcatProperties
      <3> QED
        BY <1>16, <2>1, <3>1, <3>2, ConcatEmptySeq
    <2> QED
      BY <2>2, <2>3, <2>1
  <1>19. /\ \A i \in 1..Len(queue'[c]) :
               i + n \in 1..Len(p) /\ queue'[c][i] = p[i + n]
         /\ queue'[c] = <<>> \/ Len(queue'[c]) = Len(p) - n
    <2>1. CASE o[c].throws
      BY <1>2, <2>1, EmptySeq
    <2>2. CASE ~o[c].throws
      <3>1. queue'[c] = rest
        BY <1>2, <2>2 DEF rest, p, n
      <3>2. \A i \in 1..(Len(p) - n) : i + n \in 1..Len(p) /\ rest[i] = p[i + n]
        <4> DEFINE l == Len(p)
        <4>1. l \in Nat /\ n + 1 \in Int
          BY <1>4, <1>5
        <4>2. \A i \in 1..l : p[i] \in Frame
          BY <1>4, ElementOfSeq
        <4>3. n \in Nat /\ n <= l
          BY <1>5
        <4> HIDE DEF l
        <4>4. \A i \in (n + 1)..l : p[i] \in Frame
          BY <4>1, <4>2, <4>3
        <4>5. \A i \in 1..(l - (n + 1) + 1) :
                  SubSeq(p, n + 1, l)[i] = p[(n + 1) + i - 1]
          BY <4>1, <4>4, SubSeqProperties
        <4>6. \A i \in 1..(l - n) : /\ i \in 1..(l - (n + 1) + 1)
                                    /\ (n + 1) + i - 1 = i + n
                                    /\ i + n \in 1..l
          BY <4>1, <4>3
        <4> QED
          BY <4>5, <4>6 DEF rest, l
      <3> QED
        BY <1>9, <3>1, <3>2
    <2> QED
      BY <2>1, <2>2
  <1>20. /\ a \in Seq(Frame) /\ t \in Seq(Frame)
         /\ Pipeline(c) = (a \o front) \o t
         /\ Len(front) = e
         /\ Append(a \o t, NewFrame(c)) = Pipeline(c)' \o lost
         /\ Pipeline(c)' \in Seq(Frame)
         /\ dropped'[c] = dropped[c] + e
         /\ cleared'[c] = cleared[c] + Len(lost)
         /\ \A i \in 1..Len(queue'[c]) :
               i + n \in 1..Len(p) /\ queue'[c][i] = p[i + n]
         /\ queue'[c] = <<>> \/ Len(queue'[c]) = Len(p) - n
         /\ n \in Nat
    <2> HIDE DEF lost
    <2>1. dropped'[c] = dropped[c] + e
      BY <1>2 DEF e, q
    <2>2. Append(a \o t, NewFrame(c)) = Pipeline(c)' \o lost
      BY <1>15, <1>18
    <2> QED
      BY <1>5, <1>7, <1>12, <1>13, <1>14, <1>18, <1>19, <2>1, <2>2
  <1>21. front \in Seq(Frame) /\ lost \in Seq(Frame)
    BY <1>7, <1>14
  <1> HIDE DEF lost
  <1>22. PipeStep(c, o[c].sent, a, front, lost)
    BY <1>20 DEF PipeStep, q, e, t, p, n
  <1> QED
    BY <1>21, <1>22

\* What waits for an open client is without a gap, up to the last broadcast.
NoGap(c) ==
    \A i \in 1..Len(queue[c]) : queue[c][i].seq = framesOut - Len(queue[c]) + i

\* If no send threw, the last broadcast is the end of the pipeline.
LastArrives(c) ==
    cleared[c] = 0 /\ framesOut > joined[c] =>
        LET p == Pipeline(c)
        IN  /\ p # <<>> /\ p[Len(p)].seq = framesOut
            /\ p[Len(p)].dropped = framesOut - joined[c] - Len(p)

\* NewestInOrder, with pipelines that are ordered pair by pair.
Newest ==
    /\ \A c \in Clients : Ordered(Pipeline(c), joined[c], framesOut)
    /\ \A c \in clients : readyState[c] = "open" => NoGap(c) /\ LastArrives(c)
    /\ \A c \in Clients : joined[c] <= framesOut

LEMMA NewestSuffices == ClientTypeOK /\ Newest => NewestInOrder
  <1> SUFFICES ASSUME ClientTypeOK, Newest PROVE NewestInOrder
    OBVIOUS
  <1>1. InOrder
    BY OrderedIsInOrder DEF Newest
  <1> QED
    BY <1>1 DEF NewestInOrder, Newest, NoGap, LastArrives

LEMMA InitNewest == ClientInit => Newest
  <1> SUFFICES ASSUME ClientInit PROVE Newest
    OBVIOUS
  <1>1. \A c \in Clients : Ordered(Pipeline(c), joined[c], framesOut)
    <2> SUFFICES ASSUME NEW c \in Clients
                 PROVE  Ordered(Pipeline(c), joined[c], framesOut)
      OBVIOUS
    <2>1. Pipeline(c) = (<<>> \o <<>>) \o <<>>
      BY DEF Pipeline, ClientInit
    <2>2. Pipeline(c) = <<>> /\ Len(<<>>) = 0
      BY <2>1, EmptySeq, FrameConcat
    <2> QED
      BY <2>2 DEF Ordered
  <1> QED
    BY <1>1 DEF ClientInit, Newest

\* Steps that leave the pipeline of a client, and what it is compared with, alone.
LEMMA NewestUndisturbed ==
    ASSUME NEW c \in Clients,
           Pipeline(c)' = Pipeline(c), queue'[c] = queue[c],
           joined'[c] = joined[c], framesOut' = framesOut,
           cleared'[c] = cleared[c]
    PROVE  /\ Ordered(Pipeline(c), joined[c], framesOut) =>
                  Ordered(Pipeline(c), joined[c], framesOut)'
           /\ NoGap(c) => NoGap(c)'
           /\ LastArrives(c) => LastArrives(c)'
  BY DEF NoGap, LastArrives, Ordered

\* The drop count of a new frame is what its client missed, less what a send
\* that threw lost.
LEMMA Missed ==
    ASSUME NEW a \in Nat, NEW t \in Nat, NEW e \in Nat, NEW d \in Nat, NEW k \in Nat,
           NEW j \in Nat, NEW f \in Nat, f - j = a + e + t + d + k
    PROVE  d + e <= f - j - (a + t)
  OBVIOUS

\* Numbers from the end of a queue of l, before and after e are shifted.
LEMMA FromTheEnd ==
    ASSUME NEW f \in Nat, NEW l \in Nat, NEW e \in Nat, NEW m \in Nat, NEW i \in Nat,
           NEW n \in Nat, m = l - e + 1
    PROVE  /\ f - l + (e + i) = (f + 1) - m + i
           /\ f + 1 = (f + 1) - m + m
           /\ (f + 1) - m + (i + n) = (f + 1) - (m - n) + i
  OBVIOUS

\* What the socket delivers leaves the buffer and ends what was received.
LEMMA HeadMoves ==
    ASSUME NEW r \in Seq(Frame), NEW b \in Seq(Frame), b # <<>>
    PROVE  Append(r, Head(b)) \o Tail(b) = r \o b
  <1>1. Head(b) \in Frame /\ Tail(b) \in Seq(Frame)
    BY HeadTailProperties
  <1>2. <<Head(b)>> \in Seq(Frame)
    BY <1>1
  <1>3. Append(r, Head(b)) = r \o <<Head(b)>>
    BY <1>1, AppendIsConcat
  <1>4. (r \o <<Head(b)>>) \o Tail(b) = r \o (<<Head(b)>> \o Tail(b))
    BY <1>1, <1>2, FrameAssoc, Zenon
  <1>5. <<Head(b)>> \o Tail(b) = b
    <2>1. Len(<<Head(b)>>) = 1 /\ <<Head(b)>>[1] = b[1]
      OBVIOUS
    <2>2. /\ Len(Tail(b)) = Len(b) - 1 /\ Len(b) \in Nat \ {0}
          /\ \A i \in 1..Len(Tail(b)) : Tail(b)[i] = b[i + 1]
      BY HeadTailProperties, EmptySeq
    <2>3. /\ <<Head(b)>> \o Tail(b) \in Seq(Frame)
          /\ Len(<<Head(b)>> \o Tail(b)) = Len(b)
          /\ \A i \in 1..Len(b) : (<<Head(b)>> \o Tail(b))[i] = b[i]
      BY <1>1, <1>2, <2>1, <2>2, ConcatProperties
    <2> QED
      BY <2>3, SeqEqual
  <1> QED
    BY <1>3, <1>4, <1>5

LEMMA BroadcastNewest ==
    ASSUME ClientTypeOK, Balance, Newest,
           NEW o \in [Clients -> Outcome], Broadcast(o),
           NEW c \in clients, readyState[c] = "open"
    PROVE  /\ Ordered(Pipeline(c), joined[c], framesOut)'
           /\ NoGap(c)' /\ LastArrives(c)'
  <1> DEFINE e == Excess(queue[c])
             t == Trimmed(queue[c])
             n == o[c].sent
             x == NewFrame(c)
             p1 == Pipeline(c)'
             j == joined[c]
             f == framesOut
  <1>1. c \in Clients
    BY DEF ClientTypeOK
  <1>2. PICK a : a = received[c] \o buffer[c]
    OBVIOUS
  <1>3a. PICK front \in Seq(Frame), lost \in Seq(Frame) : PipeStep(c, n, a, front, lost)
    BY <1>2, OneBroadcastPipe, Zenon
  <1>3. /\ a \in Seq(Frame) /\ t \in Seq(Frame)
        /\ Pipeline(c) = (a \o front) \o t
        /\ Len(front) = e
        /\ Append(a \o t, x) = p1 \o lost
        /\ p1 \in Seq(Frame)
        /\ dropped'[c] = dropped[c] + e
        /\ cleared'[c] = cleared[c] + Len(lost)
        /\ \A i \in 1..Len(queue'[c]) :
              i + n \in 1..Len(Pushed(c)) /\ queue'[c][i] = Pushed(c)[i + n]
        /\ queue'[c] = <<>> \/ Len(queue'[c]) = Len(Pushed(c)) - n
        /\ n \in Nat
    BY <1>3a DEF PipeStep
  <1>4. /\ j \in Nat /\ f \in Nat /\ j <= f /\ dropped[c] \in Nat /\ cleared[c] \in Nat
        /\ framesOut' = f + 1 /\ joined' = joined /\ e \in Nat
    BY <1>1, PushedFits DEF ClientTypeOK, Newest, Broadcast
  <1>5. /\ x \in Frame /\ x.seq = f + 1 /\ x.dropped = dropped[c] + e
    BY <1>4 DEF NewFrame, Frame
  <1>6. f - j = Len(a) + e + Len(t) + dropped[c] + cleared[c]
        /\ Len(a) \in Nat /\ Len(t) \in Nat /\ Len(a \o t) = Len(a) + Len(t)
        /\ a \o t \in Seq(Frame)
    <2>1. f - j = Account(c)
      BY DEF Balance
    <2>2. LossIsCounted
      BY BalanceSuffices
    <2>3. f - j = Len(Pipeline(c)) + dropped[c] + cleared[c]
      BY <2>2 DEF LossIsCounted
    <2>4. a \o front \in Seq(Frame) /\ Len(a \o front) = Len(a) + Len(front)
      BY <1>3, FrameConcat
    <2>5. Len((a \o front) \o t) = Len(a \o front) + Len(t)
      BY <1>3, <2>4, FrameConcat
    <2>6. Len(Pipeline(c)) = Len(a) + e + Len(t)
      BY <1>3, <2>4, <2>5
    <2>7. Len(a) \in Nat /\ Len(t) \in Nat
      BY <1>3, LenProperties
    <2>8. Len(a \o t) = Len(a) + Len(t) /\ a \o t \in Seq(Frame)
      BY <1>3, FrameConcat
    <2> QED
      BY <2>3, <2>6, <2>7, <2>8
  <1> HIDE DEF e, t, n, x, p1, j, f
  <1>7. Ordered((a \o front) \o t, j, f)
    BY <1>1, <1>3 DEF Newest, j, f
  <1>8. Ordered(a \o t, j, f)
    BY <1>3, <1>4, <1>7, OrderedCut
  <1>9. x.dropped <= f - j - Len(a \o t)
    <2>1. dropped[c] + e <= f - j - (Len(a) + Len(t))
      BY <1>4, <1>6, Missed
    <2> QED
      BY <1>5, <1>6, <2>1
  <1>10. Ordered(Append(a \o t, x), j, f + 1)
    BY <1>4, <1>5, <1>6, <1>8, <1>9, OrderedAppend
  <1>11. Ordered(p1 \o lost, j, f + 1)
    BY <1>3, <1>10
  <1>12. Ordered(p1, j, f + 1)
    BY <1>3, <1>4, <1>11, OrderedPrefix
  <1>13. Ordered(Pipeline(c), joined[c], framesOut)'
    <2>1. j = joined'[c] /\ f + 1 = framesOut'
      BY <1>4 DEF j, f
    <2> QED
      BY <1>12, <2>1 DEF p1
  <1>14. NoGap(c)'
    <2> DEFINE q == queue[c]
               l == Len(q)
               p == Pushed(c)
               m == Len(p)
               h == Len(queue'[c])
    <2>1. /\ q \in Seq(Frame) /\ l \in Nat /\ m \in Nat /\ m = l - e + 1
          /\ Len(t) \in Nat /\ Len(t) + 1 = m
      <3>1. /\ l \in Nat /\ m \in Nat /\ m = l - e + 1 /\ q \in Seq(Frame)
        BY <1>1, PushedFits DEF e, ClientTypeOK
      <3>2. p = Append(t, x)
        BY DEF Pushed, t, x
      <3>3. m = Len(t) + 1
        BY <1>3, <1>5, <3>2, AppendProperties
      <3> QED
        BY <1>6, <3>1, <3>3
    <2>2. \A i \in 1..m : p[i].seq = (f + 1) - m + i
      <3> SUFFICES ASSUME NEW i \in 1..m PROVE p[i].seq = (f + 1) - m + i
        OBVIOUS
      <3>0. /\ p = Append(t, x)
            /\ \A k \in 1..Len(t) : p[k] = t[k]
            /\ p[Len(t) + 1] = x
        BY <1>3, <1>5, AppendProperties DEF Pushed, t, x
      <3>1. CASE i = m
        <4>1. p[i] = x
          BY <2>1, <3>0, <3>1
        <4>2. p[i].seq = f + 1
          BY <1>5, <4>1
        <4> HIDE DEF p, m
        <4>3. f + 1 = (f + 1) - m + m
          <5>1. f \in Nat
            BY <1>4
          <5>2. m \in Nat
            BY <2>1
          <5> QED
            BY <5>1, <5>2
        <4> QED
          BY <3>1, <4>2, <4>3, Zenon
      <3>2. CASE i # m
        <4>1. i \in 1..Len(t)
          <5> HIDE DEF m
          <5> QED
            BY <2>1, <3>2
        <4>2. t = SubSeq(q, e + 1, l)
          BY DEF t, e, Trimmed
        <4>3. t[i] = q[e + i] /\ e + i \in 1..l
          <5> HIDE DEF l, m
          <5>1. \A k \in 1..l : q[k] \in Frame
            BY <2>1, ElementOfSeq DEF l
          <5>2. \A k \in (e + 1)..l : q[k] \in Frame
            BY <1>4, <2>1, <5>1
          <5>3. \A k \in 1..(l - (e + 1) + 1) : SubSeq(q, e + 1, l)[k] = q[(e + 1) + k - 1]
            BY <1>4, <2>1, <5>2, SubSeqProperties
          <5>4. i \in 1..(l - (e + 1) + 1) /\ (e + 1) + i - 1 = e + i /\ e + i \in 1..l
            BY <1>4, <2>1, <4>1
          <5> QED
            BY <4>2, <5>3, <5>4
        <4>4. q[e + i].seq = f - l + (e + i)
          BY <4>3 DEF Newest, NoGap, f
        <4>5. p[i] = q[e + i]
          BY <3>0, <4>1, <4>3
        <4> HIDE DEF p, m, l, q
        <4>6. f - l + (e + i) = (f + 1) - m + i
          <5>1. i \in Nat /\ l \in Nat /\ m \in Nat /\ m = l - e + 1
            BY <2>1, <4>1
          <5>2. f \in Nat /\ e \in Nat
            BY <1>4
          <5> QED
            BY ONLY <5>1, <5>2
        <4> QED
          BY <4>4, <4>5, <4>6
      <3> QED
        BY <3>1, <3>2
    <2>3. CASE queue'[c] = <<>>
      BY <2>3, EmptySeq DEF NoGap
    <2>4. CASE queue'[c] # <<>>
      <3>1. h = m - n
        BY <1>3, <2>4
      <3> SUFFICES ASSUME NEW i \in 1..h PROVE queue'[c][i].seq = framesOut' - h + i
        BY DEF NoGap
      <3>2. i + n \in 1..m /\ queue'[c][i] = p[i + n]
        BY <1>3
      <3>3. p[i + n].seq = (f + 1) - m + (i + n)
        BY <2>2, <3>2
      <3>4. h \in Nat
        <4>1. queue'[c] \in Seq(Frame)
          BY OneBroadcast
        <4> QED
          BY <4>1, LenProperties
      <3> HIDE DEF h, m, p
      <3>5. (f + 1) - m + (i + n) = (f + 1) - h + i
        <4>1. i \in Nat
          BY <3>4
        <4> QED
          BY <1>3, <1>4, <2>1, <3>1, <4>1, FromTheEnd
      <3> QED
        <4>1. framesOut' - h + i = (f + 1) - h + i
          <5>1. framesOut' = f + 1
            BY <1>4
          <5> QED
            BY <5>1, Zenon
        <4>2. queue'[c][i].seq = (f + 1) - h + i
          BY <3>2, <3>3, <3>5, Zenon
        <4> QED
          BY <4>1, <4>2, Zenon
    <2> QED
      BY <2>3, <2>4
  <1>15. LastArrives(c)'
    <2> SUFFICES ASSUME cleared'[c] = 0
                 PROVE  /\ p1 # <<>> /\ p1[Len(p1)].seq = framesOut'
                        /\ p1[Len(p1)].dropped = framesOut' - joined'[c] - Len(p1)
      BY DEF LastArrives, p1
    <2>1. lost = <<>> /\ cleared[c] = 0
      <3> DEFINE k == Len(lost)
      <3>1. k \in Nat
        BY LenProperties
      <3>2. k = 0 /\ cleared[c] = 0
        <4>1. cleared[c] + k = 0
          BY <1>3
        <4> HIDE DEF k
        <4> QED
          BY <1>4, <3>1, <4>1
      <3> QED
        BY <3>2, EmptySeq
    <2>2. p1 = Append(a \o t, x)
      BY <1>3, <2>1, ConcatEmptySeq
    <2>3. p1 # <<>> /\ Len(p1) = Len(a \o t) + 1 /\ p1[Len(a \o t) + 1] = x
      BY <1>5, <1>6, <2>2, FrameAppend
    <2>4. dropped[c] + e = (f + 1) - j - (Len(a) + Len(t) + 1)
      <3>1. PICK d \in Nat : d = dropped[c]
        BY <1>4
      <3>2. PICK la \in Nat : la = Len(a)
        BY <1>6
      <3>3. PICK lt \in Nat : lt = Len(t)
        BY <1>6
      <3>4. f \in Nat /\ j \in Nat /\ e \in Nat
        BY <1>4
      <3>5. f - j = la + e + lt + d
        BY <1>6, <2>1, <3>1, <3>2, <3>3, <3>4
      <3>6. d + e = (f + 1) - j - (la + lt + 1)
        BY <3>4, <3>5
      <3> QED
        BY <3>1, <3>2, <3>3, <3>6
    <2>5. Len(p1) = Len(a) + Len(t) + 1
      BY <1>6, <2>3
    <2>6. framesOut' = f + 1 /\ joined'[c] = j
      BY <1>4 DEF j
    <2>7. p1[Len(p1)] = x
      BY <2>3
    <2> QED
      <3>1. p1[Len(p1)].seq = framesOut'
        BY <1>5, <2>6, <2>7, Zenon
      <3>2. p1[Len(p1)].dropped = dropped[c] + e
        BY <1>5, <2>7, Zenon
      <3>3. framesOut' - joined'[c] - Len(p1) = (f + 1) - j - (Len(a) + Len(t) + 1)
        <4>1. framesOut' = f + 1
          BY <2>6
        <4>2. joined'[c] = j
          BY <2>6
        <4> QED
          BY <2>5, <4>1, <4>2, Zenon
      <3>4. p1[Len(p1)].dropped = framesOut' - joined'[c] - Len(p1)
        BY <2>4, <3>2, <3>3, Zenon
      <3> QED
        BY <2>3, <3>1, <3>4
  <1> QED
    BY <1>13, <1>14, <1>15

LEMMA StepNewest ==
    ClientTypeOK /\ Balance /\ Newest /\ [ClientNext]_clientVars => Newest'
  <1> SUFFICES ASSUME ClientTypeOK, Balance, Newest, [ClientNext]_clientVars
               PROVE  Newest'
    OBVIOUS
  <1>a. /\ clients \subseteq Clients /\ framesOut \in Nat
        /\ \A c \in Clients : /\ received[c] \in Seq(Frame) /\ buffer[c] \in Seq(Frame)
                              /\ queue[c] \in Seq(Frame) /\ joined[c] \in Nat
    BY DEF ClientTypeOK
  <1>b. /\ \A c \in Clients : /\ Ordered(Pipeline(c), joined[c], framesOut)
                              /\ joined[c] <= framesOut
        /\ \A c \in clients : readyState[c] = "open" => NoGap(c) /\ LastArrives(c)
    BY DEF Newest
  <1>1. ASSUME NEW d \in Clients, Connect(d) PROVE Newest'
    <2>1. /\ queue' = queue /\ buffer' = buffer /\ received' = received
          /\ cleared' = cleared /\ framesOut' = framesOut
          /\ clients' = clients \cup {d}
          /\ joined'[d] = framesOut /\ readyState[d] = "new"
          /\ \A c \in Clients \ {d} : joined'[c] = joined[c]
                                      /\ readyState'[c] = readyState[c]
      BY <1>1 DEF Connect, ClientTypeOK
    <2>2. /\ queue[d] = <<>> /\ buffer[d] = <<>> /\ received[d] = <<>>
      BY <1>1 DEF Connect, Balance
    <2>3. Pipeline(d)' = <<>> /\ Len(<<>>) = 0
      <3>1. Pipeline(d)' = (<<>> \o <<>>) \o <<>>
        BY <2>1, <2>2 DEF Pipeline
      <3> QED
        BY <3>1, EmptySeq, FrameConcat
    <2>4. Ordered(Pipeline(d), joined[d], framesOut)' /\ NoGap(d)' /\ LastArrives(d)'
      BY <1>a, <2>1, <2>2, <2>3 DEF Ordered, NoGap, LastArrives
    <2>5. \A c \in Clients \ {d} :
              /\ Ordered(Pipeline(c), joined[c], framesOut)'
              /\ NoGap(c) => NoGap(c)'
              /\ LastArrives(c) => LastArrives(c)'
      <3> SUFFICES ASSUME NEW c \in Clients \ {d}
                   PROVE  /\ Ordered(Pipeline(c), joined[c], framesOut)'
                          /\ NoGap(c) => NoGap(c)'
                          /\ LastArrives(c) => LastArrives(c)'
        OBVIOUS
      <3>1. Pipeline(c)' = Pipeline(c)
        BY <2>1 DEF Pipeline
      <3> QED
        BY <1>b, <2>1, <3>1, NewestUndisturbed
    <2>6. \A c \in Clients : joined'[c] <= framesOut'
      BY <1>a, <1>b, <2>1
    <2> QED
      BY <1>a, <1>b, <2>1, <2>4, <2>5, <2>6 DEF Newest
  <1>2. ASSUME NEW d \in Clients, Closing(d) PROVE Newest'
    <2>1. /\ clients' = clients /\ joined' = joined /\ framesOut' = framesOut
          /\ \A c \in Clients : readyState'[c] = "open" => readyState[c] = "open"
      BY <1>2 DEF Closing, ClientTypeOK
    <2>2. \A c \in Clients : /\ Ordered(Pipeline(c), joined[c], framesOut)'
                             /\ NoGap(c) => NoGap(c)'
                             /\ LastArrives(c) => LastArrives(c)'
      <3> SUFFICES ASSUME NEW c \in Clients
                   PROVE  /\ Ordered(Pipeline(c), joined[c], framesOut)'
                          /\ NoGap(c) => NoGap(c)'
                          /\ LastArrives(c) => LastArrives(c)'
        OBVIOUS
      <3>1. Pipeline(c)' = Pipeline(c) /\ queue' = queue /\ cleared' = cleared
        BY <1>2 DEF Closing, Pipeline
      <3> QED
        BY <1>b, <2>1, <3>1, NewestUndisturbed
    <2> QED
      BY <1>a, <1>b, <2>1, <2>2 DEF Newest
  <1>3. ASSUME NEW d \in Clients, Closed(d) PROVE Newest'
    <2>1. /\ clients' = clients \ {d} /\ joined' = joined /\ framesOut' = framesOut
          /\ queue' = queue /\ received' = received /\ cleared' = cleared
          /\ buffer'[d] = <<>>
          /\ \A c \in Clients \ {d} : buffer'[c] = buffer[c]
                                      /\ readyState'[c] = readyState[c]
      BY <1>3 DEF Closed, ClientTypeOK
    <2>2. Ordered(Pipeline(d), joined[d], framesOut)'
      <3>1. received[d] \o <<>> = received[d]
        BY <1>a, FrameConcat
      <3>2. Pipeline(d)' = received[d] \o queue[d]
        BY <2>1, <3>1 DEF Pipeline
      <3>3. Ordered((received[d] \o buffer[d]) \o queue[d], joined[d], framesOut)
        BY <1>b DEF Pipeline
      <3>4. Ordered(received[d] \o queue[d], joined[d], framesOut)
        BY <1>a, <3>3, OrderedCut
      <3> QED
        BY <2>1, <3>2, <3>4
    <2>3. \A c \in Clients \ {d} :
              /\ Ordered(Pipeline(c), joined[c], framesOut)'
              /\ NoGap(c) => NoGap(c)'
              /\ LastArrives(c) => LastArrives(c)'
      <3> SUFFICES ASSUME NEW c \in Clients \ {d}
                   PROVE  /\ Ordered(Pipeline(c), joined[c], framesOut)'
                          /\ NoGap(c) => NoGap(c)'
                          /\ LastArrives(c) => LastArrives(c)'
        OBVIOUS
      <3>1. Pipeline(c)' = Pipeline(c)
        BY <2>1 DEF Pipeline
      <3> QED
        BY <1>b, <2>1, <3>1, NewestUndisturbed
    <2> QED
      BY <1>a, <1>b, <2>1, <2>2, <2>3 DEF Newest
  <1>4. ASSUME NEW d \in Clients, Receive(d) PROVE Newest'
    <2>1. /\ clients' = clients /\ joined' = joined /\ framesOut' = framesOut
          /\ queue' = queue /\ readyState' = readyState /\ cleared' = cleared
          /\ received'[d] = Append(received[d], Head(buffer[d]))
          /\ buffer'[d] = Tail(buffer[d]) /\ buffer[d] # <<>>
          /\ \A c \in Clients \ {d} : /\ received'[c] = received[c]
                                      /\ buffer'[c] = buffer[c]
      BY <1>4 DEF Receive, ClientTypeOK
    <2>2. received'[d] \o buffer'[d] = received[d] \o buffer[d]
      BY <1>a, <2>1, HeadMoves
    <2>3. \A c \in Clients : /\ Ordered(Pipeline(c), joined[c], framesOut)'
                             /\ NoGap(c) => NoGap(c)'
                             /\ LastArrives(c) => LastArrives(c)'
      <3> SUFFICES ASSUME NEW c \in Clients
                   PROVE  /\ Ordered(Pipeline(c), joined[c], framesOut)'
                          /\ NoGap(c) => NoGap(c)'
                          /\ LastArrives(c) => LastArrives(c)'
        OBVIOUS
      <3>1. Pipeline(c)' = Pipeline(c)
        BY <2>1, <2>2 DEF Pipeline
      <3> QED
        BY <1>b, <2>1, <3>1, NewestUndisturbed
    <2> QED
      BY <1>a, <1>b, <2>1, <2>3 DEF Newest
  <1>5. ASSUME NEW o \in [Clients -> Outcome], Broadcast(o) PROVE Newest'
    <2>1. /\ framesOut' = framesOut + 1 /\ clients' = clients
          /\ readyState' = readyState /\ received' = received /\ joined' = joined
      BY <1>5 DEF Broadcast
    <2>2. \A c \in clients : readyState[c] = "open" =>
              /\ Ordered(Pipeline(c), joined[c], framesOut)'
              /\ NoGap(c)' /\ LastArrives(c)'
      BY <1>5, BroadcastNewest
    <2>3. ASSUME NEW c \in Clients, c \notin clients \/ readyState[c] # "open"
          PROVE  Ordered(Pipeline(c), joined[c], framesOut)'
      <3>1. queue'[c] = queue[c] /\ buffer'[c] = buffer[c]
        BY <1>5, <2>3, SkippedClient
      <3>2. Pipeline(c)' = Pipeline(c)
        BY <2>1, <3>1 DEF Pipeline
      <3>3. Pipeline(c) \in Seq(Frame)
        BY <1>a, FrameConcat DEF Pipeline
      <3>4. Ordered(Pipeline(c), joined[c], framesOut + 1)
        BY <1>a, <1>b, <3>3, OrderedLater
      <3> QED
        BY <2>1, <3>2, <3>4
    <2>4. \A c \in Clients : joined'[c] <= framesOut'
      BY <1>a, <1>b, <2>1
    <2> QED
      BY <1>a, <2>1, <2>2, <2>3, <2>4 DEF Newest
  <1>6. ASSUME UNCHANGED clientVars PROVE Newest'
    <2>1. /\ clients' = clients /\ joined' = joined /\ framesOut' = framesOut
          /\ queue' = queue /\ readyState' = readyState /\ cleared' = cleared
          /\ \A c \in Clients : Pipeline(c)' = Pipeline(c)
      BY <1>6 DEF clientVars, Pipeline
    <2>2. \A c \in Clients : /\ Ordered(Pipeline(c), joined[c], framesOut)'
                             /\ NoGap(c) => NoGap(c)'
                             /\ LastArrives(c) => LastArrives(c)'
      BY <1>b, <2>1, NewestUndisturbed
    <2> QED
      BY <1>a, <1>b, <2>1, <2>2 DEF Newest
  <1> QED
    BY <1>1, <1>2, <1>3, <1>4, <1>5, <1>6 DEF ClientNext, ClientEnv

\* Frames reach a client in the order of the broadcasts, and what a slow client
\* loses is the oldest: what waits is the frames broadcast last, without a gap,
\* and the drop count of the last one is exact.
THEOREM NewestArriveInOrder == ClientSpec => []NewestInOrder
  BY InitType, StepType, InitBalance, StepBalance, InitNewest, StepNewest,
     NewestSuffices, PTL DEF ClientSpec
=============================================================================
