---------------------------- MODULE ClientQueues ----------------------------
(***************************************************************************)
(* The stream server's WebSocket clients: the connection handler, flush()  *)
(* and broadcast() in stream/src/index.ts.                                 *)
(*                                                                         *)
(* Every client has a queue of at most CLIENT_QUEUE frames in front of the *)
(* socket's own buffer.  A broadcast makes room by dropping the oldest     *)
(* queued frames, appends the new one with the number of drops so far, and *)
(* then moves frames to the socket while its buffer is below HIGH_WATER.   *)
(* Nothing else moves frames: a queue waits for the next broadcast.        *)
(*                                                                         *)
(* A frame is its number in the order of broadcasts and the drop count it  *)
(* carries; the socket's buffer is counted in frames.  The network and the *)
(* clients are the environment.  MaxFrames bounds the broadcasts.          *)
(***************************************************************************)
EXTENDS FiniteSets, Naturals, Sequences

CONSTANTS Clients,
          CLIENT_QUEUE, HIGH_WATER,
          MaxFrames

ASSUME ClientAssumption ==
    /\ CLIENT_QUEUE \in Nat \ {0} /\ HIGH_WATER \in Nat \ {0}
    /\ MaxFrames \in Nat

VARIABLES
    clients,      \* the Set of connected clients
    readyState,   \* of each client's WebSocket: "new", "open", "closing", "closed"
    queue,        \* client.queue
    dropped,      \* client.dropped
    buffer,       \* frames handed to the socket, not yet received
    received,     \* frames the client got (history)
    cleared,      \* frames lost to a send that threw (history)
    joined,       \* the last frame broadcast before the client connected
    framesOut     \* broadcasts so far: framesOut numbers the frames

clientVars == <<clients, readyState, queue, dropped, buffer, received,
                cleared, joined, framesOut>>

Frame == [seq : Nat, dropped : Nat]

ClientTypeOK ==
    /\ clients \in SUBSET Clients
    /\ readyState \in [Clients -> {"new", "open", "closing", "closed"}]
    /\ queue \in [Clients -> Seq(Frame)]
    /\ buffer \in [Clients -> Seq(Frame)]
    /\ received \in [Clients -> Seq(Frame)]
    /\ dropped \in [Clients -> Nat] /\ cleared \in [Clients -> Nat]
    /\ joined \in [Clients -> Nat] /\ framesOut \in Nat
    /\ \A c \in clients : readyState[c] \in {"open", "closing"}

ClientInit ==
    /\ clients = {}
    /\ readyState = [c \in Clients |-> "new"]
    /\ queue = [c \in Clients |-> <<>>]
    /\ buffer = [c \in Clients |-> <<>>]
    /\ received = [c \in Clients |-> <<>>]
    /\ dropped = [c \in Clients |-> 0]
    /\ cleared = [c \in Clients |-> 0]
    /\ joined = [c \in Clients |-> 0]
    /\ framesOut = 0

\* wss.on("connection")
Connect(c) ==
    /\ readyState[c] = "new"
    /\ clients' = clients \cup {c}
    /\ readyState' = [readyState EXCEPT ![c] = "open"]
    /\ joined' = [joined EXCEPT ![c] = framesOut]
    /\ UNCHANGED <<queue, dropped, buffer, received, cleared, framesOut>>

\* The peer starts the closing handshake: readyState is no longer 1 (OPEN),
\* the "close" event is still to come.
Closing(c) ==
    /\ readyState[c] = "open"
    /\ readyState' = [readyState EXCEPT ![c] = "closing"]
    /\ UNCHANGED <<clients, queue, dropped, buffer, received, cleared, joined,
                   framesOut>>

\* ws.on("close"), and ws.on("error") with its ws.terminate().
Closed(c) ==
    /\ readyState[c] \in {"open", "closing"}
    /\ readyState' = [readyState EXCEPT ![c] = "closed"]
    /\ clients' = clients \ {c}
    /\ buffer' = [buffer EXCEPT ![c] = <<>>]
    /\ UNCHANGED <<queue, dropped, received, cleared, joined, framesOut>>

\* The network delivers a buffered frame.
Receive(c) ==
    /\ readyState[c] \in {"open", "closing"}
    /\ buffer[c] # <<>>
    /\ received' = [received EXCEPT ![c] = Append(@, Head(buffer[c]))]
    /\ buffer' = [buffer EXCEPT ![c] = Tail(@)]
    /\ UNCHANGED <<clients, readyState, queue, dropped, cleared, joined, framesOut>>

Min2(a, b) == IF a <= b THEN a ELSE b

\* The number of frames broadcast() shifts off a queue to make room.
ExcessOffByOne(q) == IF Len(q) > CLIENT_QUEUE THEN Len(q) - CLIENT_QUEUE ELSE 0
Excess(q) == IF Len(q) >= CLIENT_QUEUE THEN Len(q) - CLIENT_QUEUE + 1 ELSE 0

Trimmed(q) == SubSeq(q, Excess(q) + 1, Len(q))

\* The number of frames flush() sends, of a queue of n with b in the buffer:
\* it stops at an empty queue or at the high-water mark.
Sendable(n, b) == IF b < HIGH_WATER THEN Min2(n, HIGH_WATER - b) ELSE 0

\* Mutation of NewFrame: the payload is built before the oldest are dropped.
NewFrameEarly(c) == [seq |-> framesOut + 1, dropped |-> dropped[c]]

\* The queue of c when broadcast() reaches flush().
NewFrame(c) == [seq |-> framesOut + 1,
                dropped |-> dropped[c] + Excess(queue[c])]
Pushed(c) == Append(Trimmed(queue[c]), NewFrame(c))

\* Mutation of Flushed: one more is shifted than was sent.
FlushedSkips(c, n) ==
    SubSeq(Pushed(c), IF n = 0 THEN 1 ELSE n + 2, Len(Pushed(c)))

\* flush() sends n frames; then it is done, or the next send throws and the
\* rest of the queue is cleared.
Flushed(c, n) == SubSeq(Pushed(c), n + 1, Len(Pushed(c)))

FlushOutcomes(c) ==
    LET all == Sendable(Len(Pushed(c)), Len(buffer[c]))
    IN  {[sent |-> all, throws |-> FALSE]} \cup
        {[sent |-> n, throws |-> TRUE] : n \in {m \in 0..all : m < all}}

\* broadcast(): the clients that are not open are skipped.
Broadcast(outcome) ==
    /\ framesOut < MaxFrames
    /\ framesOut' = framesOut + 1
    /\ LET live == {c \in clients : readyState[c] = "open"}
           sent(c) == SubSeq(Pushed(c), 1, outcome[c].sent)
           rest(c) == Flushed(c, outcome[c].sent)
       IN  /\ \A c \in live : outcome[c] \in FlushOutcomes(c)
           /\ dropped' = [c \in Clients |->
                  IF c \in live THEN dropped[c] + Excess(queue[c]) ELSE dropped[c]]
           /\ queue' = [c \in Clients |->
                  IF c \notin live THEN queue[c]
                  ELSE IF outcome[c].throws THEN <<>> ELSE rest(c)]
           /\ buffer' = [c \in Clients |->
                  IF c \in live THEN buffer[c] \o sent(c) ELSE buffer[c]]
           /\ cleared' = [c \in Clients |->
                  IF c \in live /\ outcome[c].throws
                  THEN cleared[c] + Len(rest(c)) ELSE cleared[c]]
    /\ UNCHANGED <<clients, readyState, received, joined>>

Outcome == [sent : 0..HIGH_WATER, throws : BOOLEAN]

ClientEnv == \E c \in Clients : Connect(c) \/ Closing(c) \/ Closed(c) \/ Receive(c)

ClientNext == ClientEnv \/ \E o \in [Clients -> Outcome] : Broadcast(o)

ClientSpec == ClientInit /\ [][ClientNext]_clientVars

(******************************** properties *******************************)

\* README: "All collections and client queues are bounded", and flush() hands
\* the socket nothing once HIGH_WATER is buffered: however slowly it reads, a
\* client costs no more than both.
MemoryBounded ==
    \A c \in Clients :
        Len(queue[c]) <= CLIENT_QUEUE /\ Len(buffer[c]) <= HIGH_WATER

\* Everything on its way to c, oldest first.
Pipeline(c) == received[c] \o buffer[c] \o queue[c]

\* Frames reach a client in the order of the broadcasts, each at most once, and
\* none from before it connected.  The drop count in a frame never exceeds what
\* the client missed before that frame.
InOrder ==
    \A c \in Clients :
        LET p == Pipeline(c)
        IN  \A i \in 1..Len(p) :
                /\ p[i].seq > (IF i = 1 THEN joined[c] ELSE p[i-1].seq)
                /\ p[i].dropped <= p[i].seq - joined[c] - i

\* "Slow clients lose old frames", and nothing else: besides InOrder, what waits
\* for an open client is the frames broadcast last, without a gap, and unless a
\* send threw the very last one is at least in the socket, with a drop count
\* that is exact.
NewestInOrder ==
    /\ InOrder
    /\ \A c \in clients :
           readyState[c] = "open" =>
               /\ \A i \in 1..Len(queue[c]) :
                      queue[c][i].seq = framesOut - Len(queue[c]) + i
               /\ cleared[c] = 0 /\ framesOut > joined[c] =>
                      LET p == Pipeline(c)
                      IN  /\ p # <<>> /\ p[Len(p)].seq = framesOut
                          /\ p[Len(p)].dropped = framesOut - joined[c] - Len(p)

\* No frame disappears unaccounted: of the frames broadcast since an open
\* client connected, each is on its way, dropped, or lost to a failed send.
LossIsCounted ==
    \A c \in clients :
        readyState[c] = "open" =>
            framesOut - joined[c] = Len(Pipeline(c)) + dropped[c] + cleared[c]
=============================================================================
