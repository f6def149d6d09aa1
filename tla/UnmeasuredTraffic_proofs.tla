---------------------- MODULE UnmeasuredTraffic_proofs ----------------------
(***************************************************************************)
(* Proofs about the unmeasured share, for any number of CPUs, packets,     *)
(* drains and faults, and however often a stat line is due: the server     *)
(* takes no remainder of a line for the start of another, it never counts  *)
(* more unmeasured bytes than the tap counted, and without a fault in      *)
(* between the share is overstated by lost volume alone, and exact if no   *)
(* packet met another in the accounting, or a drain.                       *)
(***************************************************************************)
EXTENDS UnmeasuredTraffic, SequenceTheorems, TLAPS

(*********************************** types **********************************)

Totals == [packets : Nat, ipv4 : Nat, ipv6 : Nat, quic : Nat, met : Nat, faults : Nat]
StatLine == [kind : {"stat"}, quic : Nat, ipv6 : Nat, held : Nat, total : Totals]
VolLine == [kind : {"vol"}, bytes : Nat]
Line == StatLine \cup VolLine
PieceType == [conn : Nat, part : {"head", "tail"}, line : Line]
SinkType == [conn : Nat, state : {"down", "up", "dead"}]

CpuType == {"idle", "hit", "stale", "miss", "bump"}
LoopType == {"poll", "walk", "delete", "print", "ipv6", "quic"}

TapTyped ==
    /\ quic \in Nat /\ ipv6 \in Nat /\ held \in Nat
    /\ cpu \in [CPUs -> CpuType] /\ met \subseteq CPUs
    /\ at \in LoopType /\ read \in Nat /\ read6 \in [bytes : Nat, total : Nat]
    /\ total \in Totals

TrafficTyped ==
    /\ TapTyped
    /\ sink \in SinkType
    /\ stream \in Seq(PieceType)
    /\ buffer \in [conn : Nat, pieces : Seq(PieceType)]

\* The steps that neither print a line nor are a fault.
Handles(c) ==
    BumpIpv6(c) \/ LookupBytes(c) \/ AddBytes(c) \/ InsertBytes(c) \/ BumpQuic(c)
Walks == DrainStarts \/ ReadElement \/ DeleteKey \/ ReadIpv6

LEMMA PushedPiece ==
    ASSUME NEW S, NEW s \in Seq(S), NEW a \in S
    PROVE  /\ Append(s, a) \in Seq(S) /\ Len(s) \in Nat
           /\ Len(Append(s, a)) = Len(s) + 1
           /\ \A i \in 1..Len(s) : Append(s, a)[i] = s[i]
           /\ Append(s, a)[Len(s) + 1] = a
  BY AppendProperties

LEMMA TwoPieces ==
    ASSUME NEW S, NEW s \in Seq(S), NEW a \in S, NEW b \in S
    PROVE  s \o <<a, b>> = Append(Append(s, a), b)
  <1> DEFINE ab == <<a, b>>
             t == Append(s, a)
             u == Append(t, b)
  <1>1. ab \in Seq(S) /\ Len(ab) = 2 /\ ab[1] = a /\ ab[2] = b
    OBVIOUS
  <1>2. PICK n \in Nat : n = Len(s)
    OBVIOUS
  <1> HIDE DEF ab
  <1>3. t \in Seq(S) /\ Len(t) = n + 1 /\ t[n + 1] = a /\ \A i \in 1..n : t[i] = s[i]
    BY <1>2, PushedPiece
  <1> HIDE DEF t
  <1>4. /\ u \in Seq(S) /\ Len(u) = (n + 1) + 1 /\ u[(n + 1) + 1] = b
        /\ \A i \in 1..(n + 1) : u[i] = t[i]
    BY <1>3, PushedPiece
  <1> HIDE DEF u
  <1>5. Len(u) = n + 2 /\ u[n + 2] = b /\ u[n + 1] = a /\ \A i \in 1..n : u[i] = s[i]
    <2>1. (n + 1) + 1 = n + 2 /\ n + 1 \in 1..(n + 1) /\ \A i \in 1..n : i \in 1..(n + 1)
      OBVIOUS
    <2> QED
      BY <1>3, <1>4, <2>1
  <1>6. /\ s \o ab \in Seq(S) /\ Len(s \o ab) = n + 2
        /\ \A i \in 1..(n + 2) : (s \o ab)[i] = IF i <= n THEN s[i] ELSE ab[i - n]
    <2>1. /\ s \o ab \in Seq(S) /\ Len(s \o ab) = Len(s) + Len(ab)
          /\ \A i \in 1..(Len(s) + Len(ab)) :
                (s \o ab)[i] = IF i <= Len(s) THEN s[i] ELSE ab[i - Len(s)]
      BY <1>1, ConcatProperties
    <2>2. Len(s) + Len(ab) = n + 2
      BY <1>1, <1>2
    <2> QED
      BY <1>2, <2>1, <2>2
  <1>7. ASSUME NEW i \in 1..(n + 2) PROVE (s \o ab)[i] = u[i]
    <2>1. i \in 1..n \/ i = n + 1 \/ i = n + 2
      OBVIOUS
    <2>2. CASE i \in 1..n
      BY <1>5, <1>6, <2>2
    <2>3. CASE i = n + 1
      <3>1. i - n = 1 /\ ~(i <= n)
        BY <2>3
      <3> QED
        BY <1>1, <1>5, <1>6, <2>3, <3>1
    <2>4. CASE i = n + 2
      <3>1. i - n = 2 /\ ~(i <= n)
        BY <2>4
      <3> QED
        BY <1>1, <1>5, <1>6, <2>4, <3>1
    <2> QED
      BY <2>1, <2>2, <2>3, <2>4
  <1>8. s \o ab = u
    BY <1>4, <1>5, <1>6, <1>7, SeqEqual
  <1> QED
    BY <1>8 DEF ab, t, u

PieceOf(conn, part, line) == [conn |-> conn, part |-> part, line |-> line]

\* What emit() does: the line is lost, or it is sent on a connection that is up.
LEMMA Emits ==
    ASSUME sink \in SinkType, NEW line, Emit(line)
    PROVE  /\ sink' \in SinkType /\ sink.conn <= sink'.conn
           /\ \/ stream' = stream /\ sink'.state # "up" /\ sink.state # "up"
              \/ /\ sink'.state = "up"
                 /\ sink' = sink \/ sink'.conn = sink.conn + 1
                 /\ sink.state = "up" => sink' = sink
                 /\ sink.state # "up" => sink'.conn = sink.conn + 1
                 /\ stream' = stream \o <<PieceOf(sink'.conn, "head", line),
                                          PieceOf(sink'.conn, "tail", line)>>
  <1>1. sink.conn \in Nat /\ sink.state \in {"down", "up", "dead"}
    BY DEF SinkType
  <1>2. CASE sink.state = "up" /\ UNCHANGED sink /\ Sent(line)
    BY <1>1, <1>2 DEF Sent, Piece, PieceOf
  <1>3. CASE /\ sink.state = "down"
             /\ sink' = [conn |-> sink.conn + 1, state |-> "up"] /\ Sent(line)
    BY <1>1, <1>3 DEF Sent, Piece, PieceOf, SinkType
  <1>4. CASE sink.state # "up" /\ UNCHANGED linkVars
    BY <1>1, <1>4 DEF linkVars
  <1>5. CASE sink.state = "dead" /\ sink' = [sink EXCEPT !.state = "down"] /\ UNCHANGED stream
    BY <1>1, <1>5 DEF SinkType
  <1> QED
    BY <1>2, <1>3, <1>4, <1>5 DEF Emit

LEMMA CutSeq ==
    ASSUME NEW S, NEW s \in Seq(S), NEW n \in 0..Len(s)
    PROVE  /\ SubSeq(s, 1, n) \in Seq(S) /\ Len(SubSeq(s, 1, n)) = n
           /\ \A i \in 1..n : SubSeq(s, 1, n)[i] = s[i]
  <1>1. Len(s) \in Nat /\ n \in Int
    OBVIOUS
  <1>2. \A i \in 1..n : s[i] \in S
    BY <1>1, ElementOfSeq
  <1>3. /\ SubSeq(s, 1, n) \in Seq(S)
        /\ Len(SubSeq(s, 1, n)) = IF 1 <= n THEN n - 1 + 1 ELSE 0
        /\ \A i \in 1..(n - 1 + 1) : SubSeq(s, 1, n)[i] = s[1 + i - 1]
    BY <1>1, <1>2, SubSeqProperties
  <1>4. n - 1 + 1 = n /\ \A i \in 1..n : 1 + i - 1 = i
    BY <1>1
  <1>5. (IF 1 <= n THEN n - 1 + 1 ELSE 0) = n
    BY <1>1
  <1>6. ASSUME NEW i \in 1..n PROVE SubSeq(s, 1, n)[i] = s[i]
    BY <1>3, <1>4
  <1> QED
    BY <1>3, <1>5, <1>6

LEMMA InitTyped == TrafficInit => TrafficTyped
  BY DEF TrafficInit, TrafficTyped, TapTyped, CpuType, LoopType, Totals, SinkType,
     EmptyBuffer

LEMMA EmitTyped ==
    ASSUME TrafficTyped, NEW line \in Line, Emit(line)
    PROVE  sink' \in SinkType /\ stream' \in Seq(PieceType)
  <1>1. sink \in SinkType /\ stream \in Seq(PieceType)
    BY DEF TrafficTyped
  <1>2. CASE stream' = stream
    BY <1>1, <1>2, Emits
  <1>3. CASE stream' = stream \o <<PieceOf(sink'.conn, "head", line),
                                   PieceOf(sink'.conn, "tail", line)>>
    <2>1. sink' \in SinkType /\ sink'.conn \in Nat
      BY <1>1, Emits DEF SinkType
    <2>2. /\ PieceOf(sink'.conn, "head", line) \in PieceType
          /\ PieceOf(sink'.conn, "tail", line) \in PieceType
      BY <2>1 DEF PieceOf, PieceType
    <2> QED
      BY <1>1, <1>3, <2>1, <2>2, TwoPieces, PushedPiece
  <1> QED
    BY <1>1, <1>2, <1>3, Emits

\* The lines that a drain, or print_stats(), is about to print.
VolNow == [kind |-> "vol", bytes |-> read]
StatRead == [kind |-> "stat", quic |-> quic, ipv6 |-> read6.bytes, held |-> held,
             total |-> [total EXCEPT !.ipv6 = read6.total]]

LEMMA LinesTyped == TrafficTyped => VolNow \in VolLine /\ StatRead \in StatLine
  BY DEF TrafficTyped, TapTyped, Totals, VolNow, StatRead, VolLine, StatLine

\* What a fault does to the tap's history, and Cut to what is on its way.
LEMMA FaultCounted ==
    ASSUME total \in Totals, Fault
    PROVE  /\ total' \in Totals /\ total'.faults = total.faults + 1
           /\ total' = [total EXCEPT !.faults = total.faults + 1]
  BY DEF Totals, Fault

\* What the steps of handle() and of a drain leave alone.
LEMMA HandlesKeeps ==
    ASSUME NEW c, Handles(c)
    PROVE  UNCHANGED <<shareVars, buffer, prevStat, thisStat, whole, sink, stream,
                       at, read, read6>>
  BY DEF Handles, BumpIpv6, LookupBytes, AddBytes, InsertBytes, BumpQuic, Accounts,
     serverVars, linkVars, loopVars

LEMMA WalksKeeps ==
    ASSUME Walks
    PROVE  UNCHANGED <<shareVars, buffer, prevStat, thisStat, whole, sink, stream,
                       quic, ipv6, total>>
  BY DEF Walks, DrainStarts, ReadElement, DeleteKey, ReadIpv6, serverVars, linkVars,
     handleVars

\* What the steps of handle() count.
LEMMA HandleCounts ==
    ASSUME total \in Totals, NEW c
    PROVE  /\ BumpIpv6(c) => total' = [total EXCEPT !.packets = total.packets + 1,
                                                    !.ipv6 = total.ipv6 + 1]
           /\ LookupBytes(c) => total' = [total EXCEPT !.packets = total.packets + 1]
           /\ Accounts(c) /\ c \in met =>
                 total' = [total EXCEPT !.ipv4 = total.ipv4 + 1, !.met = total.met + 1]
           /\ Accounts(c) /\ c \notin met =>
                 total' = [total EXCEPT !.ipv4 = total.ipv4 + 1]
           /\ BumpQuic(c) => total' = [total EXCEPT !.quic = total.quic + 1]
  BY DEF Totals, BumpIpv6, LookupBytes, Accounts, BumpQuic

LEMMA HandleFields ==
    ASSUME total \in Totals, NEW c
    PROVE  /\ BumpIpv6(c) => /\ total'.ipv6 = total.ipv6 + 1
                             /\ total'.quic = total.quic /\ total'.ipv4 = total.ipv4
                             /\ total'.met = total.met /\ total'.faults = total.faults
           /\ LookupBytes(c) => /\ total'.quic = total.quic /\ total'.ipv4 = total.ipv4
                                /\ total'.ipv6 = total.ipv6 /\ total'.met = total.met
                                /\ total'.faults = total.faults
           /\ Accounts(c) => /\ total'.ipv4 = total.ipv4 + 1 /\ total'.quic = total.quic
                             /\ total'.ipv6 = total.ipv6 /\ total'.faults = total.faults
                             /\ c \in met => total'.met = total.met + 1
                             /\ c \notin met => total'.met = total.met
           /\ BumpQuic(c) => /\ total'.quic = total.quic + 1
                             /\ total'.ipv4 = total.ipv4 /\ total'.ipv6 = total.ipv6
                             /\ total'.met = total.met /\ total'.faults = total.faults
  <1>1. ASSUME BumpIpv6(c)
        PROVE  /\ total'.ipv6 = total.ipv6 + 1
               /\ total'.quic = total.quic /\ total'.ipv4 = total.ipv4
               /\ total'.met = total.met /\ total'.faults = total.faults
    <2>1. total' = [total EXCEPT !.packets = total.packets + 1, !.ipv6 = total.ipv6 + 1]
      BY <1>1, HandleCounts
    <2> QED
      BY <2>1 DEF Totals
  <1>2. ASSUME LookupBytes(c)
        PROVE  /\ total'.quic = total.quic /\ total'.ipv4 = total.ipv4
               /\ total'.ipv6 = total.ipv6 /\ total'.met = total.met /\ total'.faults = total.faults
    <2>1. total' = [total EXCEPT !.packets = total.packets + 1]
      BY <1>2, HandleCounts
    <2> QED
      BY <2>1 DEF Totals
  <1>3. ASSUME Accounts(c), c \in met
        PROVE  /\ total'.ipv4 = total.ipv4 + 1
               /\ total'.met = total.met + 1
               /\ total'.quic = total.quic /\ total'.ipv6 = total.ipv6
               /\ total'.faults = total.faults
    <2>1. total' = [total EXCEPT !.ipv4 = total.ipv4 + 1, !.met = total.met + 1]
      BY <1>3, HandleCounts
    <2> QED
      BY <2>1 DEF Totals
  <1>4. ASSUME Accounts(c), c \notin met
        PROVE  /\ total'.ipv4 = total.ipv4 + 1
               /\ total'.met = total.met /\ total'.quic = total.quic
               /\ total'.ipv6 = total.ipv6 /\ total'.faults = total.faults
    <2>1. total' = [total EXCEPT !.ipv4 = total.ipv4 + 1]
      BY <1>4, HandleCounts
    <2> QED
      BY <2>1 DEF Totals
  <1>5. ASSUME BumpQuic(c)
        PROVE  /\ total'.quic = total.quic + 1
               /\ total'.ipv4 = total.ipv4 /\ total'.ipv6 = total.ipv6
               /\ total'.met = total.met /\ total'.faults = total.faults
    <2>1. total' = [total EXCEPT !.quic = total.quic + 1]
      BY <1>5, HandleCounts
    <2> QED
      BY <2>1 DEF Totals
  <1> QED
    BY <1>1, <1>2, <1>3, <1>4, <1>5

LEMMA HandlesTyped ==
    ASSUME TapTyped, NEW c \in CPUs, Handles(c)
    PROVE  TapTyped'
  <1>1. UNCHANGED <<at, read, read6>>
    BY HandlesKeeps
  <1>2. total' \in Totals
    <2>1. total \in Totals
      BY DEF TapTyped
    <2>2. /\ total.packets + 1 \in Nat /\ total.ipv4 + 1 \in Nat /\ total.ipv6 + 1 \in Nat
          /\ total.quic + 1 \in Nat /\ total.met + 1 \in Nat
      BY <2>1 DEF Totals
    <2>3. CASE BumpIpv6(c)
      <3>1. total' = [total EXCEPT !.packets = total.packets + 1, !.ipv6 = total.ipv6 + 1]
        BY <2>1, <2>3, HandleCounts
      <3> QED
        BY <2>1, <2>2, <3>1 DEF Totals
    <2>4. CASE LookupBytes(c)
      <3>1. total' = [total EXCEPT !.packets = total.packets + 1]
        BY <2>1, <2>4, HandleCounts
      <3> QED
        BY <2>1, <2>2, <3>1 DEF Totals
    <2>5. CASE BumpQuic(c)
      <3>1. total' = [total EXCEPT !.quic = total.quic + 1]
        BY <2>1, <2>5, HandleCounts
      <3> QED
        BY <2>1, <2>2, <3>1 DEF Totals
    <2>6. CASE Accounts(c)
      <3>1. \/ total' = [total EXCEPT !.ipv4 = total.ipv4 + 1, !.met = total.met + 1]
            \/ total' = [total EXCEPT !.ipv4 = total.ipv4 + 1]
        BY <2>1, <2>6, HandleCounts
      <3> QED
        BY <2>1, <2>2, <3>1 DEF Totals
    <2> QED
      BY <2>3, <2>4, <2>5, <2>6 DEF Handles, AddBytes, InsertBytes
  <1>3. quic' \in Nat /\ ipv6' \in Nat /\ held' \in Nat
    BY DEF TapTyped, Handles, BumpIpv6, LookupBytes, AddBytes, InsertBytes, BumpQuic, Accounts
  <1>4. cpu' \in [CPUs -> CpuType]
    BY DEF TapTyped, CpuType, Handles, BumpIpv6, LookupBytes, AddBytes, InsertBytes, BumpQuic,
       Accounts, Stale
  <1>5. met' \subseteq CPUs
    BY DEF TapTyped, Handles, BumpIpv6, LookupBytes, AddBytes, InsertBytes, BumpQuic,
       Accounts, Accounting
  <1> QED
    BY <1>1, <1>2, <1>3, <1>4, <1>5 DEF TapTyped

LEMMA WalksTyped ==
    ASSUME TapTyped, Walks
    PROVE  TapTyped'
  <1>1. UNCHANGED <<quic, ipv6, total>>
    BY WalksKeeps
  <1>2. /\ held' \in Nat /\ read' \in Nat /\ at' \in LoopType
        /\ read6' \in [bytes : Nat, total : Nat]
    BY DEF TapTyped, Totals, LoopType, Walks, DrainStarts, ReadElement, DeleteKey, ReadIpv6,
       handleVars
  <1>3. cpu' \in [CPUs -> CpuType] /\ met' \subseteq CPUs
    BY DEF TapTyped, CpuType, Walks, DrainStarts, ReadElement, DeleteKey, ReadIpv6,
       handleVars, Accounting, Stale
  <1> QED
    BY <1>1, <1>2, <1>3 DEF TapTyped

LEMMA PieceRead ==
    ASSUME TrafficTyped, Read
    PROVE  /\ Len(stream) \in Nat /\ Len(stream) >= 1
           /\ Head(stream) = stream[1] /\ stream[1] \in PieceType
           /\ stream' = Tail(stream) /\ stream' \in Seq(PieceType)
           /\ Len(stream') = Len(stream) - 1
           /\ \A i \in 1..(Len(stream) - 1) : stream'[i] = stream[i + 1]
  <1>1. stream \in Seq(PieceType) /\ stream # <<>> /\ stream' = Tail(stream)
    BY DEF TrafficTyped, Read
  <1>2. /\ Head(stream) \in PieceType /\ Tail(stream) \in Seq(PieceType)
        /\ Len(Tail(stream)) = Len(stream) - 1
        /\ \A i \in 1..Len(Tail(stream)) : Tail(stream)[i] = stream[i + 1]
    BY <1>1, HeadTailProperties
  <1>3. Len(stream) \in Nat /\ Len(stream) >= 1 /\ Head(stream) = stream[1]
    BY <1>1
  <1> QED
    BY <1>1, <1>2, <1>3

\* The pieces that the buffer of the connection holds, with the piece read.
Joined(b, p) == Append(IF b.conn = p.conn THEN b.pieces ELSE <<>>, p)

LEMMA ReadTyped ==
    ASSUME TrafficTyped, Read
    PROVE  /\ buffer' \in [conn : Nat, pieces : Seq(PieceType)]
           /\ \/ /\ stream[1].part = "head"
                 /\ buffer' = [conn |-> stream[1].conn, pieces |-> Joined(buffer, stream[1])]
                 /\ UNCHANGED <<shareVars, prevStat, thisStat, whole>>
              \/ /\ stream[1].part = "tail" /\ buffer' = EmptyBuffer
                 /\ whole' = (whole /\ Joined(buffer, stream[1])
                                         = <<[stream[1] EXCEPT !.part = "head"], stream[1]>>)
                 /\ HandleLine(stream[1].line)
           /\ UNCHANGED <<tapVars, sink, total>>
  <1>1. Head(stream) = stream[1] /\ stream[1] \in PieceType
    BY PieceRead
  <1>2. /\ \/ /\ stream[1].part = "head"
              /\ buffer' = [conn |-> stream[1].conn, pieces |-> Joined(buffer, stream[1])]
              /\ UNCHANGED <<shareVars, prevStat, thisStat, whole>>
           \/ /\ stream[1].part = "tail" /\ buffer' = EmptyBuffer
              /\ whole' = (whole /\ Joined(buffer, stream[1])
                                      = <<[stream[1] EXCEPT !.part = "head"], stream[1]>>)
              /\ HandleLine(stream[1].line)
        /\ UNCHANGED <<tapVars, sink, total>>
    BY <1>1, Zenon DEF Read, Buffered, Joined
  <1>3. buffer \in [conn : Nat, pieces : Seq(PieceType)]
    BY DEF TrafficTyped
  <1>4. stream[1].conn \in Nat /\ Joined(buffer, stream[1]) \in Seq(PieceType)
    <2>1. buffer.pieces \in Seq(PieceType) /\ <<>> \in Seq(PieceType)
      BY <1>3
    <2> QED
      BY <1>1, <2>1, AppendProperties DEF Joined, PieceType
  <1>5. EmptyBuffer \in [conn : Nat, pieces : Seq(PieceType)]
    BY DEF EmptyBuffer
  <1> QED
    BY <1>2, <1>4, <1>5

LEMMA StepTyped == TrafficTyped /\ [TrafficNext]_trafficVars => TrafficTyped'
  <1> SUFFICES ASSUME TrafficTyped, [TrafficNext]_trafficVars PROVE TrafficTyped'
    OBVIOUS
  <1>0. /\ TapTyped /\ sink \in SinkType /\ stream \in Seq(PieceType)
        /\ buffer \in [conn : Nat, pieces : Seq(PieceType)]
    BY DEF TrafficTyped
  <1>1. ASSUME NEW c \in CPUs, Handles(c) PROVE TrafficTyped'
    BY <1>0, <1>1, HandlesTyped, HandlesKeeps DEF TrafficTyped
  <1>2. CASE Walks
    BY <1>0, <1>2, WalksTyped, WalksKeeps DEF TrafficTyped
  <1>3. CASE PrintVolume
    <2>1. TapTyped'
      BY <1>0, <1>3 DEF PrintVolume, TapTyped, LoopType, handleVars
    <2>2. sink' \in SinkType /\ stream' \in Seq(PieceType)
      <3>1. CASE UNCHANGED linkVars
        BY <1>0, <3>1 DEF linkVars
      <3>2. CASE Emit(VolNow)
        BY <3>2, LinesTyped, EmitTyped DEF Line
      <3> QED
        BY <1>3, <3>1, <3>2 DEF PrintVolume, VolNow
    <2>3. UNCHANGED buffer
      BY <1>3 DEF PrintVolume, serverVars
    <2> QED
      BY <1>0, <2>1, <2>2, <2>3 DEF TrafficTyped
  <1>4. CASE Stat
    <2>1. TapTyped'
      BY <1>0, <1>4 DEF Stat, TapTyped, LoopType, handleVars
    <2>2. Emit(StatRead) /\ UNCHANGED buffer
      BY <1>4 DEF Stat, StatRead, serverVars
    <2>3. sink' \in SinkType /\ stream' \in Seq(PieceType)
      BY <2>2, LinesTyped, EmitTyped DEF Line
    <2> QED
      BY <1>0, <2>1, <2>2, <2>3 DEF TrafficTyped
  <1>5. CASE Read
    <2>1. UNCHANGED <<tapVars, sink, total>>
      BY <1>5 DEF Read
    <2>2. TapTyped'
      BY <1>0, <2>1 DEF TapTyped, tapVars, handleVars, loopVars
    <2> QED
      BY <1>0, <1>5, <2>1, <2>2, PieceRead, ReadTyped DEF TrafficTyped
  <1>6. ASSUME Cut PROVE stream' \in Seq(PieceType)
    BY <1>0, <1>6, CutSeq DEF Cut
  <1>7. ASSUME Fault PROVE total' \in Totals
    BY <1>0, <1>7, FaultCounted DEF TapTyped
  <1>8. CASE Evict
    <2>1. TapTyped'
      BY <1>0, <1>7, <1>8 DEF Evict, TapTyped, CpuType, Stale, Accounting, loopVars
    <2> QED
      BY <1>0, <1>8, <2>1 DEF Evict, TrafficTyped, serverVars, linkVars
  <1>9. CASE Crash
    <2>1. sink' \in SinkType /\ UNCHANGED buffer
      BY <1>0, <1>9 DEF Crash, SinkType, serverVars
    <2>2. TapTyped'
      BY <1>0, <1>7, <1>9 DEF Crash, TapTyped, CpuType, LoopType
    <2> QED
      BY <1>0, <1>6, <1>9, <2>1, <2>2 DEF Crash, TrafficTyped
  <1>a. ASSUME UNCHANGED tapVars, Fault PROVE TapTyped'
    BY <1>0, <1>7, <1>a DEF TapTyped, tapVars, handleVars, loopVars
  <1>10. CASE Breaks
    <2>1. sink' \in SinkType /\ UNCHANGED buffer
      BY <1>0, <1>10 DEF Breaks, SinkType, serverVars
    <2> QED
      BY <1>0, <1>6, <1>a, <1>10, <2>1 DEF Breaks, TrafficTyped
  <1>11. CASE ServerRestarts
    <2>1. sink' \in SinkType
      BY <1>0, <1>11 DEF ServerRestarts, SinkType
    <2>2. stream' = <<>> /\ buffer' = EmptyBuffer
      BY <1>11 DEF ServerRestarts
    <2>3. TapTyped'
      BY <1>a, <1>11 DEF ServerRestarts
    <2> QED
      BY <2>1, <2>2, <2>3 DEF TrafficTyped, EmptyBuffer
  <1>12. CASE UNCHANGED trafficVars
    BY <1>0, <1>12 DEF trafficVars, tapVars, handleVars, loopVars, serverVars, linkVars,
       TapTyped, TrafficTyped
  <1> QED
    BY <1>1, <1>2, <1>3, <1>4, <1>5, <1>8, <1>9, <1>10, <1>11, <1>12
       DEF TrafficNext, Handles, Walks

(******************************** whole lines *******************************)

\* q may come after p: a tail after its head, a head after anything but a head
\* of its own connection.
Follows(p, q) ==
    /\ q.part = "tail" => p = [q EXCEPT !.part = "head"]
    /\ q.part = "head" /\ p.part = "head" => p.conn # q.conn

Starts(pieces, q) ==
    IF pieces = <<>> THEN q.part = "head" ELSE Follows(pieces[1], q)

\* The pieces s, read after those of the buffer.
Linked(pieces, s) ==
    \A i \in 1..Len(s) : IF i = 1 THEN Starts(pieces, s[1]) ELSE Follows(s[i - 1], s[i])

BufferFits(b) ==
    \/ b.pieces = <<>>
    \/ /\ Len(b.pieces) = 1 /\ b.pieces = <<b.pieces[1]>>
       /\ b.pieces[1] \in PieceType
       /\ b.pieces[1].part = "head" /\ b.pieces[1].conn = b.conn

\* Where a sink that is up stands: at the end of a line.
AtLineEnd(pieces, s) ==
    IF s = <<>> THEN pieces = <<>> ELSE s[Len(s)].part = "tail"

LineInv ==
    /\ TrafficTyped
    /\ BufferFits(buffer)
    /\ Linked(buffer.pieces, stream)
    /\ \A i \in 1..Len(stream) : stream[i].conn <= sink.conn
    /\ buffer.conn <= sink.conn
    /\ sink.state = "up" => AtLineEnd(buffer.pieces, stream)
    /\ whole = TRUE

\* q may come after the last of the pieces.
Extends(pieces, s, q) ==
    IF s = <<>> THEN Starts(pieces, q) ELSE Follows(s[Len(s)], q)

LEMMA LinkedMore ==
    ASSUME NEW S, NEW s \in Seq(S), NEW q \in S, NEW pieces,
           Linked(pieces, s), Extends(pieces, s, q)
    PROVE  Linked(pieces, Append(s, q))
  <1> DEFINE t == Append(s, q)
  <1>1. PICK n \in Nat : n = Len(s)
    OBVIOUS
  <1>2. Len(t) = n + 1 /\ t[n + 1] = q /\ \A i \in 1..n : t[i] = s[i]
    BY <1>1, PushedPiece
  <1>3. n = 0 <=> s = <<>>
    BY <1>1
  <1> HIDE DEF t
  <1>4. ASSUME NEW i \in 1..(n + 1)
        PROVE  IF i = 1 THEN Starts(pieces, t[1]) ELSE Follows(t[i - 1], t[i])
    <2>1. CASE i = 1 /\ n = 0
      BY <1>2, <1>3, <2>1 DEF Extends
    <2>2. CASE i = 1 /\ n # 0
      <3>1. 1 \in 1..n
        BY <2>2
      <3> QED
        BY <1>1, <1>2, <2>2, <3>1 DEF Linked
    <2>3. CASE i # 1 /\ i = n + 1
      <3>1. n \in 1..n /\ i - 1 = n /\ s # <<>>
        BY <1>3, <2>3
      <3> QED
        BY <1>1, <1>2, <2>3, <3>1 DEF Extends
    <2>4. CASE i # 1 /\ i # n + 1
      <3>1. i \in 1..n /\ i - 1 \in 1..n
        BY <2>4
      <3> QED
        BY <1>1, <1>2, <2>4, <3>1 DEF Linked
    <2> QED
      BY <2>1, <2>2, <2>3, <2>4
  <1>5. Linked(pieces, t)
    BY <1>2, <1>4 DEF Linked
  <1> QED
    BY <1>5 DEF t

LEMMA LinkedCut ==
    ASSUME NEW S, NEW s \in Seq(S), NEW n \in 0..Len(s), NEW pieces, Linked(pieces, s)
    PROVE  Linked(pieces, SubSeq(s, 1, n))
  <1> DEFINE t == SubSeq(s, 1, n)
  <1>1. Len(t) = n /\ \A i \in 1..n : t[i] = s[i]
    BY CutSeq
  <1>2. Len(s) \in Nat /\ n \in Nat /\ n <= Len(s)
    OBVIOUS
  <1> HIDE DEF t
  <1>3. ASSUME NEW i \in 1..n
        PROVE  IF i = 1 THEN Starts(pieces, t[1]) ELSE Follows(t[i - 1], t[i])
    <2>1. i \in 1..Len(s) /\ (i = 1 \/ i - 1 \in 1..n)
      BY <1>2
    <2> QED
      BY <1>1, <2>1 DEF Linked
  <1>4. Linked(pieces, t)
    BY <1>1, <1>3 DEF Linked
  <1> QED
    BY <1>4 DEF t

\* A line that the sink sends comes whole after what is on its way.
LEMMA LineSent ==
    ASSUME LineInv, NEW line \in Line, Emit(line)
    PROVE  /\ Linked(buffer.pieces, stream')
           /\ \A i \in 1..Len(stream') : stream'[i].conn <= sink'.conn
           /\ buffer.conn <= sink'.conn
           /\ sink'.state = "up" => AtLineEnd(buffer.pieces, stream')
  <1>1. /\ sink \in SinkType /\ stream \in Seq(PieceType) /\ buffer.conn \in Nat
        /\ Linked(buffer.pieces, stream) /\ BufferFits(buffer)
    BY DEF LineInv, TrafficTyped
  <1>2. /\ \A i \in 1..Len(stream) : stream[i].conn <= sink.conn
        /\ buffer.conn <= sink.conn
        /\ sink.state = "up" => AtLineEnd(buffer.pieces, stream)
    BY DEF LineInv
  <1>3. /\ sink' \in SinkType /\ sink.conn \in Nat /\ sink'.conn \in Nat
        /\ sink.conn <= sink'.conn
    BY <1>1, Emits DEF SinkType
  <1>4. \A i \in 1..Len(stream) : stream[i].conn \in Nat
    <2>1. \A i \in 1..Len(stream) : stream[i] \in PieceType
      BY <1>1, ElementOfSeq
    <2> QED
      BY <2>1 DEF PieceType
  <1>5. buffer.conn <= sink'.conn /\ \A i \in 1..Len(stream) : stream[i].conn <= sink'.conn
    BY <1>1, <1>2, <1>3, <1>4
  <1>6. CASE stream' = stream /\ sink'.state # "up"
    BY <1>1, <1>5, <1>6
  <1>7. CASE /\ sink'.state = "up"
             /\ sink.state = "up" => sink' = sink
             /\ sink.state # "up" => sink'.conn = sink.conn + 1
             /\ stream' = stream \o <<PieceOf(sink'.conn, "head", line),
                                      PieceOf(sink'.conn, "tail", line)>>
    <2>1. PICK h : h = PieceOf(sink'.conn, "head", line)
      OBVIOUS
    <2>2. PICK t : t = PieceOf(sink'.conn, "tail", line)
      OBVIOUS
    <2>3. /\ h \in PieceType /\ h.part = "head" /\ h.conn = sink'.conn
          /\ t \in PieceType /\ t.part = "tail" /\ t.conn = sink'.conn
          /\ h = [t EXCEPT !.part = "head"]
      BY <1>3, <2>1, <2>2 DEF PieceOf, PieceType
    <2>4. stream' = Append(Append(stream, h), t)
      BY <1>1, <1>7, <2>1, <2>2, <2>3, TwoPieces
    <2>5. Extends(buffer.pieces, stream, h)
      <3>1. CASE sink.state = "up"
        <4>1. AtLineEnd(buffer.pieces, stream)
          BY <1>2, <3>1
        <4> QED
          BY <2>3, <4>1 DEF Extends, AtLineEnd, Starts, Follows
      <3>2. CASE sink.state # "up"
        <4>1. h.conn = sink.conn + 1
          BY <1>7, <2>3, <3>2
        <4>2. CASE stream = <<>>
          <5>1. buffer.pieces # <<>> => buffer.pieces[1].conn # h.conn
            BY <1>1, <1>2, <1>3, <4>1 DEF BufferFits
          <5> QED
            BY <2>3, <4>2, <5>1 DEF Extends, Starts, Follows
        <4>3. CASE stream # <<>>
          <5>1. Len(stream) \in 1..Len(stream)
            BY <1>1, <4>3
          <5>2. stream[Len(stream)].conn # h.conn
            BY <1>2, <1>3, <1>4, <4>1, <5>1
          <5> QED
            BY <2>3, <4>3, <5>2 DEF Extends, Follows
        <4> QED
          BY <4>2, <4>3
      <3> QED
        BY <3>1, <3>2
    <2>6. Linked(buffer.pieces, Append(stream, h))
      BY <1>1, <2>3, <2>5, LinkedMore
    <2>7. PICK s \in Seq(PieceType) : s = Append(stream, h)
      BY <1>1, <2>3, PushedPiece
    <2>8. PICK n \in Nat : n = Len(stream)
      BY <1>1
    <2>9. /\ Len(s) = n + 1 /\ s[n + 1] = h /\ s # <<>>
          /\ \A i \in 1..n : s[i] = stream[i]
      BY <1>1, <2>3, <2>7, <2>8, PushedPiece
    <2>10. Linked(buffer.pieces, Append(s, t))
      <3>1. Extends(buffer.pieces, s, t)
        BY <2>3, <2>9 DEF Extends, Follows
      <3> QED
        BY <2>3, <2>6, <2>7, <3>1, LinkedMore
    <2>11. /\ Len(stream') = (n + 1) + 1 /\ stream'[(n + 1) + 1] = t
           /\ \A i \in 1..(n + 1) : stream'[i] = s[i]
      BY <2>3, <2>4, <2>7, <2>9, PushedPiece
    <2>12. \A i \in 1..Len(stream') : stream'[i].conn <= sink'.conn
      <3> SUFFICES ASSUME NEW i \in 1..((n + 1) + 1) PROVE stream'[i].conn <= sink'.conn
        BY <2>11
      <3>1. i \in 1..n \/ i = n + 1 \/ i = (n + 1) + 1
        OBVIOUS
      <3>2. CASE i \in 1..n
        <4>1. i \in 1..(n + 1) /\ i \in 1..Len(stream)
          BY <2>8, <3>2
        <4>2. stream'[i] = stream[i]
          BY <2>9, <2>11, <3>2, <4>1
        <4> QED
          BY <1>5, <4>1, <4>2
      <3>3. CASE i = n + 1
        <4>1. i \in 1..(n + 1)
          BY <3>3
        <4>2. stream'[i] = h
          BY <2>9, <2>11, <3>3, <4>1
        <4> QED
          BY <1>3, <2>3, <4>2
      <3>4. CASE i = (n + 1) + 1
        BY <1>3, <2>3, <2>11, <3>4
      <3> QED
        BY <3>1, <3>2, <3>3, <3>4
    <2>13. AtLineEnd(buffer.pieces, stream')
      <3>1. stream' # <<>>
        BY <2>11
      <3> QED
        BY <2>3, <2>11, <3>1 DEF AtLineEnd
    <2> QED
      BY <1>5, <2>4, <2>7, <2>10, <2>12, <2>13
  <1> QED
    BY <1>6, <1>7, Emits, <1>1

LEMMA OneOrTwo ==
    ASSUME NEW S, NEW h \in S, NEW p \in S
    PROVE  Append(<<>>, p) = <<p>> /\ Append(<<h>>, p) = <<h, p>>
  <1>1. /\ <<>> \in Seq(S) /\ <<h>> \in Seq(S) /\ <<p>> \in Seq(S) /\ <<h, p>> \in Seq(S)
        /\ Len(<<>>) = 0 /\ Len(<<h>>) = 1 /\ <<h>>[1] = h /\ Len(<<p>>) = 1 /\ <<p>>[1] = p
        /\ Len(<<h, p>>) = 2 /\ <<h, p>>[1] = h /\ <<h, p>>[2] = p
    OBVIOUS
  <1>2. Append(<<>>, p) = <<p>>
    <2>1. /\ Append(<<>>, p) \in Seq(S) /\ Len(Append(<<>>, p)) = 0 + 1
          /\ Append(<<>>, p)[0 + 1] = p
      BY <1>1, PushedPiece
    <2>2. Len(Append(<<>>, p)) = 1 /\ \A i \in 1..1 : Append(<<>>, p)[i] = <<p>>[i]
      BY <1>1, <2>1
    <2> QED
      BY <1>1, <2>1, <2>2, SeqEqual
  <1>3. Append(<<h>>, p) = <<h, p>>
    <2>1. /\ Append(<<h>>, p) \in Seq(S) /\ Len(Append(<<h>>, p)) = 1 + 1
          /\ Append(<<h>>, p)[1 + 1] = p
          /\ \A i \in 1..1 : Append(<<h>>, p)[i] = <<h>>[i]
      BY <1>1, PushedPiece
    <2>2. Len(Append(<<h>>, p)) = 2 /\ \A i \in 1..2 : Append(<<h>>, p)[i] = <<h, p>>[i]
      BY <1>1, <2>1
    <2> QED
      BY <1>1, <2>1, <2>2, SeqEqual
  <1> QED
    BY <1>2, <1>3

LEMMA PieceJoined ==
    ASSUME LineInv, Read
    PROVE  /\ BufferFits(buffer')
           /\ Linked(buffer'.pieces, stream')
           /\ buffer'.conn <= sink.conn
           /\ AtLineEnd(buffer.pieces, stream) => AtLineEnd(buffer'.pieces, stream')
           /\ whole' = TRUE
  <1>1. PICK n \in Nat : n = Len(stream)
    BY PieceRead DEF LineInv
  <1>2. PICK p \in PieceType : p = stream[1]
    BY PieceRead DEF LineInv
  <1>3. /\ 1 \in 1..n /\ stream' \in Seq(PieceType) /\ Len(stream') = n - 1
        /\ \A i \in 1..(n - 1) : stream'[i] = stream[i + 1]
    BY <1>1, PieceRead DEF LineInv
  <1>4. /\ TrafficTyped /\ BufferFits(buffer) /\ Linked(buffer.pieces, stream)
        /\ whole = TRUE /\ sink.conn \in Nat
        /\ buffer \in [conn : Nat, pieces : Seq(PieceType)]
    BY DEF LineInv, TrafficTyped, SinkType
  <1>5. Starts(buffer.pieces, p) /\ p.conn <= sink.conn
    BY <1>1, <1>2, <1>3 DEF LineInv, Linked
  <1>6. ASSUME NEW i \in 1..(n - 1), i # 1 PROVE Follows(stream'[i - 1], stream'[i])
    <2>1. i + 1 \in 1..n /\ i + 1 # 1 /\ (i + 1) - 1 = i /\ i - 1 \in 1..(n - 1) /\ (i - 1) + 1 = i
      BY <1>6
    <2>2. Follows(stream[i], stream[i + 1])
      BY <1>1, <1>4, <2>1 DEF Linked
    <2> QED
      BY <1>3, <2>1, <2>2
  <1>7. ASSUME n - 1 # 0 PROVE Follows(p, stream'[1])
    <2>1. 2 \in 1..n /\ 1 \in 1..(n - 1)
      BY <1>3, <1>7
    <2>2. Follows(stream[1], stream[2])
      BY <1>1, <1>4, <2>1 DEF Linked
    <2>3. stream'[1] = stream[2]
      BY <1>3, <2>1
    <2> QED
      BY <1>2, <2>2, <2>3
  <1>8. AtLineEnd(buffer.pieces, stream) =>
            IF n - 1 = 0 THEN p.part = "tail" ELSE stream'[n - 1].part = "tail"
    <2>1. stream # <<>>
      BY <1>1, <1>3
    <2>2. CASE n - 1 = 0
      <3>1. stream[Len(stream)] = p
        <4>1. n = 1
          BY <2>2
        <4> QED
          BY <1>1, <1>2, <4>1
      <3> QED
        BY <2>1, <2>2, <3>1 DEF AtLineEnd
    <2>3. CASE n - 1 # 0
      <3>1. n - 1 \in 1..(n - 1) /\ (n - 1) + 1 = n
        BY <1>3, <2>3
      <3>2. stream'[n - 1] = stream[n]
        BY <1>3, <3>1
      <3> QED
        BY <1>1, <2>1, <2>3, <3>2 DEF AtLineEnd
    <2> QED
      BY <2>2, <2>3
  <1>9. stream' = <<>> <=> n - 1 = 0
    BY <1>3
  <1>10. CASE p.part = "head"
    <2>1. buffer' = [conn |-> p.conn, pieces |-> Joined(buffer, p)] /\ whole' = whole
      BY <1>2, <1>4, <1>10, ReadTyped
    <2>2. buffer.conn = p.conn => buffer.pieces = <<>>
      BY <1>4, <1>5, <1>10 DEF BufferFits, Starts, Follows
    <2>3. Joined(buffer, p) = <<p>>
      <3>1. (IF buffer.conn = p.conn THEN buffer.pieces ELSE <<>>) = <<>>
        BY <2>2
      <3> QED
        BY <3>1, OneOrTwo DEF Joined
    <2>4. buffer'.pieces = <<p>> /\ buffer'.conn = p.conn /\ <<p>>[1] = p /\ <<p>> # <<>>
      BY <2>1, <2>3
    <2>5. BufferFits(buffer')
      BY <1>10, <2>4 DEF BufferFits
    <2>6. Linked(buffer'.pieces, stream')
      <3> SUFFICES ASSUME NEW i \in 1..(n - 1)
                   PROVE  IF i = 1 THEN Starts(<<p>>, stream'[1])
                          ELSE Follows(stream'[i - 1], stream'[i])
        BY <1>3, <2>4 DEF Linked
      <3>1. CASE i = 1
        BY <1>7, <2>4, <3>1 DEF Starts
      <3>2. CASE i # 1
        BY <1>6, <3>2
      <3> QED
        BY <3>1, <3>2
    <2>7. AtLineEnd(buffer.pieces, stream) => AtLineEnd(buffer'.pieces, stream')
      BY <1>3, <1>8, <1>9, <1>10 DEF AtLineEnd
    <2> QED
      BY <1>4, <1>5, <2>1, <2>4, <2>5, <2>6, <2>7
  <1>11. CASE p.part = "tail"
    <2>1. /\ buffer' = EmptyBuffer
          /\ whole' = (whole /\ Joined(buffer, p) = <<[p EXCEPT !.part = "head"], p>>)
      BY <1>2, <1>4, <1>11, ReadTyped
    <2>2. /\ buffer.pieces = <<[p EXCEPT !.part = "head"]>> /\ buffer.conn = p.conn
      <3>1. buffer.pieces # <<>> /\ buffer.pieces[1] = [p EXCEPT !.part = "head"]
        BY <1>5, <1>11 DEF Starts, Follows
      <3>2. /\ buffer.pieces = <<buffer.pieces[1]>> /\ buffer.pieces[1].conn = buffer.conn
        BY <1>4, <3>1 DEF BufferFits
      <3>3. [p EXCEPT !.part = "head"].conn = p.conn
        BY DEF PieceType
      <3> QED
        BY <3>1, <3>2, <3>3
    <2>3. whole' = TRUE
      <3> DEFINE h == [p EXCEPT !.part = "head"]
      <3>1. Joined(buffer, p) = Append(buffer.pieces, p)
        BY <2>2 DEF Joined
      <3>2. buffer.pieces = <<h>>
        BY <2>2
      <3>3. whole' = (whole /\ Joined(buffer, p) = <<h, p>>)
        BY <2>1
      <3>a. h \in PieceType
        BY DEF PieceType
      <3> HIDE DEF h
      <3>4. Joined(buffer, p) = <<h, p>>
        BY <3>1, <3>2, <3>a, OneOrTwo
      <3> QED
        BY <1>4, <3>3, <3>4
    <2>4. buffer'.pieces = <<>> /\ buffer'.conn = 0
      BY <2>1 DEF EmptyBuffer
    <2>5. Linked(buffer'.pieces, stream')
      <3> SUFFICES ASSUME NEW i \in 1..(n - 1)
                   PROVE  IF i = 1 THEN Starts(<<>>, stream'[1])
                          ELSE Follows(stream'[i - 1], stream'[i])
        BY <1>3, <2>4 DEF Linked
      <3>1. CASE i = 1
        <4>1. Follows(p, stream'[1])
          BY <1>7, <3>1
        <4>2. stream'[1] \in PieceType
          BY <1>3, <3>1, ElementOfSeq
        <4>3. stream'[1].part = "head"
          BY <1>11, <4>1, <4>2 DEF Follows, PieceType
        <4> QED
          BY <3>1, <4>3 DEF Starts
      <3>2. CASE i # 1
        BY <1>6, <3>2
      <3> QED
        BY <3>1, <3>2
    <2>6. AtLineEnd(buffer.pieces, stream) => AtLineEnd(buffer'.pieces, stream')
      BY <1>3, <1>8, <1>9, <2>4 DEF AtLineEnd
    <2> QED
      BY <1>4, <2>3, <2>4, <2>5, <2>6 DEF BufferFits
  <1> QED
    BY <1>10, <1>11 DEF PieceType

LEMMA InitLines == TrafficInit => LineInv
  <1> SUFFICES ASSUME TrafficInit PROVE LineInv
    OBVIOUS
  <1>1. /\ stream = <<>> /\ buffer = [conn |-> 0, pieces |-> <<>>] /\ sink.conn = 0
        /\ sink.state = "down" /\ whole = TRUE
    BY DEF TrafficInit, EmptyBuffer
  <1> QED
    BY <1>1, InitTyped DEF LineInv, BufferFits, Linked

LEMMA StepLines == LineInv /\ [TrafficNext]_trafficVars => LineInv'
  <1> SUFFICES ASSUME LineInv, [TrafficNext]_trafficVars PROVE LineInv'
    OBVIOUS
  <1>0. TrafficTyped'
    BY StepTyped DEF LineInv
  <1>a. /\ TrafficTyped /\ BufferFits(buffer) /\ Linked(buffer.pieces, stream)
        /\ \A i \in 1..Len(stream) : stream[i].conn <= sink.conn
        /\ buffer.conn <= sink.conn
        /\ sink.state = "up" => AtLineEnd(buffer.pieces, stream)
        /\ whole = TRUE
    BY DEF LineInv
  <1>b. ASSUME UNCHANGED <<sink, stream, buffer, whole>> PROVE LineInv'
    BY <1>0, <1>a, <1>b DEF LineInv
  <1>c. ASSUME NEW line \in Line, Emit(line), UNCHANGED <<buffer, whole>> PROVE LineInv'
    <2>1. /\ Linked(buffer.pieces, stream')
          /\ \A i \in 1..Len(stream') : stream'[i].conn <= sink'.conn
          /\ buffer.conn <= sink'.conn
          /\ sink'.state = "up" => AtLineEnd(buffer.pieces, stream')
      BY <1>c, LineSent
    <2> QED
      BY <1>0, <1>a, <1>c, <2>1 DEF LineInv
  <1>d. ASSUME Cut, sink'.conn = sink.conn, sink'.state # "up", UNCHANGED <<buffer, whole>>
        PROVE  LineInv'
    <2>1. PICK n \in 0..Len(stream) : stream' = SubSeq(stream, 1, n)
      BY <1>d DEF Cut
    <2>2. Linked(buffer.pieces, stream')
      BY <1>a, <2>1, LinkedCut DEF TrafficTyped
    <2>3. \A i \in 1..Len(stream') : stream'[i].conn <= sink.conn
      <3>1. /\ Len(stream') = n /\ \A i \in 1..n : stream'[i] = stream[i]
            /\ Len(stream) \in Nat
        BY <1>a, <2>1, CutSeq DEF TrafficTyped
      <3>2. \A i \in 1..n : i \in 1..Len(stream)
        BY <3>1
      <3> QED
        BY <1>a, <3>1, <3>2
    <2> QED
      BY <1>0, <1>a, <1>d, <2>2, <2>3 DEF LineInv
  <1>1. ASSUME NEW c \in CPUs, Handles(c) PROVE LineInv'
    BY <1>b, <1>1, HandlesKeeps
  <1>2. CASE Walks
    BY <1>b, <1>2, WalksKeeps
  <1>3. CASE PrintVolume
    <2>1. UNCHANGED <<buffer, whole>>
      BY <1>3 DEF PrintVolume, serverVars
    <2>2. UNCHANGED linkVars \/ Emit(VolNow)
      BY <1>3 DEF PrintVolume, VolNow
    <2>3. VolNow \in Line
      BY <1>a, LinesTyped DEF Line
    <2> QED
      BY <1>b, <1>c, <2>1, <2>2, <2>3 DEF linkVars
  <1>9. CASE Stat
    <2>1. UNCHANGED <<buffer, whole>> /\ Emit(StatRead)
      BY <1>9 DEF Stat, serverVars, StatRead
    <2>2. StatRead \in Line
      BY <1>a, LinesTyped DEF Line
    <2> QED
      BY <1>c, <2>1, <2>2
  <1>10. CASE Evict
    BY <1>b, <1>10 DEF Evict, serverVars, linkVars
  <1>4. CASE Read
    <2>1. /\ BufferFits(buffer') /\ Linked(buffer'.pieces, stream')
          /\ buffer'.conn <= sink.conn /\ whole' = TRUE
          /\ AtLineEnd(buffer.pieces, stream) => AtLineEnd(buffer'.pieces, stream')
      BY <1>4, PieceJoined
    <2>2. sink' = sink
      BY <1>4 DEF Read
    <2>3. \A i \in 1..Len(stream') : stream'[i].conn <= sink.conn
      <3>1. /\ Len(stream') = Len(stream) - 1 /\ Len(stream) \in Nat
            /\ \A i \in 1..(Len(stream) - 1) : stream'[i] = stream[i + 1]
        BY <1>4, <1>a, PieceRead
      <3>2. \A i \in 1..(Len(stream) - 1) : i + 1 \in 1..Len(stream)
        BY <3>1
      <3> QED
        BY <1>a, <3>1, <3>2
    <2> QED
      BY <1>0, <1>a, <2>1, <2>2, <2>3 DEF LineInv
  <1>5. CASE Crash
    <2>1. /\ sink' = [sink EXCEPT !.state = "down"] /\ sink \in SinkType /\ Cut
          /\ UNCHANGED <<buffer, whole>>
      BY <1>5, <1>a DEF Crash, TrafficTyped, serverVars
    <2>2. sink'.conn = sink.conn /\ sink'.state = "down"
      BY <2>1 DEF SinkType
    <2> QED
      BY <1>d, <2>1, <2>2
  <1>6. CASE Breaks
    <2>1. /\ sink' = [sink EXCEPT !.state = "dead"] /\ sink \in SinkType /\ Cut
          /\ UNCHANGED <<buffer, whole>>
      BY <1>6, <1>a DEF Breaks, TrafficTyped, serverVars
    <2>2. sink'.conn = sink.conn /\ sink'.state = "dead"
      BY <2>1 DEF SinkType
    <2> QED
      BY <1>d, <2>1, <2>2
  <1>7. CASE ServerRestarts
    <2>1. /\ stream' = <<>> /\ buffer' = [conn |-> 0, pieces |-> <<>>] /\ whole' = whole
          /\ sink' = (IF sink.state = "up" THEN [sink EXCEPT !.state = "dead"] ELSE sink)
      BY <1>7 DEF ServerRestarts, EmptyBuffer
    <2>2. sink'.conn = sink.conn /\ sink'.state # "up" /\ sink.conn \in Nat
      BY <1>a, <2>1 DEF SinkType, TrafficTyped
    <2>3. BufferFits(buffer') /\ Linked(buffer'.pieces, stream') /\ buffer'.conn <= sink'.conn
      BY <2>1, <2>2 DEF BufferFits, Linked
    <2>4. \A i \in 1..Len(stream') : stream'[i].conn <= sink'.conn
      BY <2>1
    <2> QED
      BY <1>0, <1>a, <2>1, <2>2, <2>3, <2>4 DEF LineInv
  <1>8. CASE UNCHANGED trafficVars
    BY <1>b, <1>8 DEF trafficVars, serverVars, linkVars
  <1> QED
    BY <1>1, <1>2, <1>3, <1>4, <1>5, <1>6, <1>7, <1>8, <1>9, <1>10
       DEF TrafficNext, Handles, Walks

\* Every line that the tcp data handler puts together is one line of the tap,
\* for any number of connections that break anywhere and of restarts.
THEOREM LinesAreWhole == TrafficSpec => []LinesWhole
  <1>1. LineInv => LinesWhole
    BY DEF LineInv, LinesWhole
  <1> QED
    BY InitLines, StepLines, <1>1, PTL DEF TrafficSpec

(******************************* the accounting *****************************)

\* A drain that reads and deletes sees no CPU but those in met, two CPUs never
\* meet outside it, and one outside it has missed nothing; the IPv6 counter that
\* print_stats() has read counted all until then.
RaceInv ==
    /\ at \notin {"delete", "print"} => read = 0
    /\ at = "quic" => /\ read6.bytes <= ipv6 /\ read6.total <= total.ipv6
                      /\ ipv6 + read6.total = total.ipv6 + read6.bytes
    /\ at \in {"walk", "delete"} => Accounting \subseteq met
    /\ \A c, d \in Accounting : c # d => c \in met
    /\ \A c \in CPUs : cpu[c] = "stale" => c \in met
    /\ \A c \in CPUs : cpu[c] = "miss" /\ c \notin met => held = 0

\* The bytes that were counted and may still be printed: those that a drain has
\* read, and those of the element unless the drain is about to delete it.
Due == IF at = "delete" THEN read ELSE read + held

\* What a stat line would say now.
Ipv6Now == IF at = "quic" THEN read6 ELSE [bytes |-> ipv6, total |-> total.ipv6]
StatNow ==
    [kind |-> "stat", quic |-> quic, ipv6 |-> Ipv6Now.bytes, held |-> Due,
     total |-> [total EXCEPT !.ipv6 = Ipv6Now.total]]

LEMMA NowTyped == TapTyped => StatNow \in StatLine
  BY DEF TapTyped, Totals, StatNow, StatLine, Ipv6Now, Due

LEMMA NowIs ==
    ASSUME TapTyped
    PROVE  /\ StatNow.quic = quic /\ StatNow.held = Due
           /\ StatNow.ipv6 = Ipv6Now.bytes /\ StatNow.total.ipv6 = Ipv6Now.total
           /\ StatNow.total.quic = total.quic /\ StatNow.total.ipv4 = total.ipv4
           /\ StatNow.total.met = total.met /\ StatNow.total.faults = total.faults
  BY DEF TapTyped, Totals, StatNow

\* What Stat prints is what a stat line would say.
LEMMA StatReadNow ==
    ASSUME TapTyped, RaceInv, at = "quic"
    PROVE  StatRead = StatNow
  <1>1. Due = held /\ Ipv6Now = read6
    BY DEF TapTyped, RaceInv, Due, Ipv6Now
  <1> QED
    BY <1>1 DEF StatRead, StatNow

LEMMA InitRace == TrafficInit => RaceInv
  BY DEF TrafficInit, RaceInv, Accounting

LEMMA RaceHandles ==
    ASSUME TapTyped, RaceInv, NEW c \in CPUs, Handles(c)
    PROVE  RaceInv'
  <1>a. UNCHANGED <<at, read, read6>>
    BY HandlesKeeps
  <1>b. total.ipv6 \in Nat /\ total \in Totals /\ ipv6 \in Nat
    BY DEF TapTyped, Totals
  <1>1. at = "quic" => /\ read6.bytes <= ipv6' /\ read6.total <= total'.ipv6
                       /\ ipv6' + read6.total = total'.ipv6 + read6.bytes
    <2> SUFFICES ASSUME at = "quic"
                 PROVE  /\ read6.bytes <= ipv6' /\ read6.total <= total'.ipv6
                        /\ ipv6' + read6.total = total'.ipv6 + read6.bytes
      OBVIOUS
    <2>1. /\ read6.bytes <= ipv6 /\ read6.total <= total.ipv6
          /\ ipv6 + read6.total = total.ipv6 + read6.bytes
          /\ read6.bytes \in Nat /\ read6.total \in Nat
      BY DEF RaceInv, TapTyped
    <2>2. CASE ipv6' = ipv6 + 1 /\ total'.ipv6 = total.ipv6 + 1
      BY <1>b, <2>1, <2>2
    <2>3. CASE ipv6' = ipv6 /\ total'.ipv6 = total.ipv6
      BY <2>1, <2>3
    <2>4. CASE BumpIpv6(c)
      <3>1. ipv6' = ipv6 + 1
        BY <2>4 DEF BumpIpv6
      <3> QED
        BY <1>b, <2>2, <2>4, <3>1, HandleFields
    <2>5. CASE LookupBytes(c) \/ BumpQuic(c)
      <3>1. ipv6' = ipv6
        BY <2>5 DEF LookupBytes, BumpQuic
      <3> QED
        BY <1>b, <2>3, <2>5, <3>1, HandleFields
    <2>6. CASE Accounts(c)
      <3>1. ipv6' = ipv6
        BY <2>6 DEF Accounts
      <3> QED
        BY <1>b, <2>3, <2>6, <3>1, HandleFields
    <2> QED
      BY <2>4, <2>5, <2>6 DEF Handles, AddBytes, InsertBytes
  <1>2. CASE BumpIpv6(c)
    <2>1. UNCHANGED <<held, cpu, met>>
      BY <1>2 DEF BumpIpv6
    <2> QED
      BY <1>1, <1>a, <2>1 DEF RaceInv, Accounting
  <1>3. CASE LookupBytes(c)
    <2>1. /\ held' = held /\ cpu[c] = "idle"
          /\ cpu' = [cpu EXCEPT ![c] = IF held = 0 THEN "miss" ELSE "hit"]
          /\ cpu \in [CPUs -> CpuType]
          /\ \/ at \notin {"walk", "delete"} /\ Accounting = {} /\ met' = met
             \/ met' = met \cup Accounting \cup {c}
      BY <1>3 DEF LookupBytes, Seen, TapTyped
    <2>2. Accounting' = Accounting \cup {c}
      BY <2>1 DEF Accounting
    <2>3. /\ \A d \in CPUs : d # c => cpu'[d] = cpu[d]
          /\ cpu'[c] \in {"miss", "hit"} /\ (cpu'[c] = "miss" => held = 0)
      BY <2>1
    <2>4. at \in {"walk", "delete"} => Accounting' \subseteq met'
      BY <2>1, <2>2
    <2>5. \A d, e \in Accounting' : d # e => d \in met'
      BY <2>1, <2>2
    <2>6. \A d \in CPUs : cpu'[d] = "stale" => d \in met'
      BY <2>1, <2>3 DEF RaceInv
    <2>7. \A d \in CPUs : cpu'[d] = "miss" /\ d \notin met' => held' = 0
      BY <2>1, <2>3 DEF RaceInv
    <2> QED
      BY <1>1, <1>a, <2>4, <2>5, <2>6, <2>7 DEF RaceInv
  <1>4. ASSUME c \in Accounting, met' = met \ {c},
               cpu'[c] \in {"idle", "bump"},
               \A d \in CPUs : d # c => \/ cpu'[d] = cpu[d]
                                        \/ cpu[d] = "hit" /\ cpu'[d] = "stale"
        PROVE  RaceInv'
    <2>1. Accounting' = Accounting \ {c}
      BY <1>4 DEF Accounting
    <2>2. \A d \in Accounting' : d \in met'
      BY <1>4, <2>1 DEF RaceInv
    <2>3. \A d \in CPUs : cpu'[d] \in {"stale", "miss"} => d \in Accounting'
      BY DEF Accounting
    <2> QED
      BY <1>1, <1>a, <2>2, <2>3 DEF RaceInv
  <1>5. CASE AddBytes(c)
    <2>1. c \in Accounting
      BY <1>5 DEF AddBytes, Accounting
    <2>2. met' = met \ {c} /\ cpu \in [CPUs -> CpuType]
      BY <1>5 DEF AddBytes, Accounts, TapTyped
    <2>3. PICK next \in {"idle", "bump"} : cpu' = [cpu EXCEPT ![c] = next]
      BY <1>5 DEF AddBytes
    <2>4. cpu'[c] = next /\ \A d \in CPUs : d # c => cpu'[d] = cpu[d]
      BY <2>2, <2>3
    <2> QED
      BY <1>4, <2>1, <2>2, <2>4
  <1>6. CASE InsertBytes(c)
    <2>1. c \in Accounting
      BY <1>6 DEF InsertBytes, Accounting
    <2>2. met' = met \ {c} /\ cpu \in [CPUs -> CpuType]
      BY <1>6 DEF InsertBytes, Accounts, TapTyped
    <2>3. PICK next \in {"idle", "bump"} :
              cpu' = [d \in CPUs |-> IF d = c THEN next ELSE Stale(d)]
      BY <1>6 DEF InsertBytes
    <2>4. cpu'[c] = next /\ \A d \in CPUs : d # c => cpu'[d] = Stale(d)
      BY <2>3
    <2> QED
      BY <1>4, <2>1, <2>2, <2>4 DEF Stale
  <1>7. CASE BumpQuic(c)
    <2>1. /\ held' = held /\ met' = met /\ cpu[c] = "bump"
          /\ cpu' = [cpu EXCEPT ![c] = "idle"] /\ cpu \in [CPUs -> CpuType]
      BY <1>7 DEF BumpQuic, TapTyped
    <2>2. cpu'[c] = "idle" /\ \A d \in CPUs : d # c => cpu'[d] = cpu[d]
      BY <2>1
    <2>3. Accounting' = Accounting
      BY <2>1, <2>2 DEF Accounting
    <2> QED
      BY <1>1, <1>a, <2>1, <2>2, <2>3 DEF RaceInv
  <1> QED
    BY <1>2, <1>3, <1>5, <1>6, <1>7 DEF Handles

\* The drain's delete and an eviction leave stale what other CPUs found.
LEMMA RaceEmptied ==
    ASSUME TapTyped, RaceInv, held' = 0, cpu' = [c \in CPUs |-> Stale(c)],
           met' = met, Accounting \subseteq met
    PROVE  /\ Accounting' = Accounting
           /\ \A c \in CPUs : cpu'[c] = "stale" => c \in met'
  <1>1. \A c \in CPUs : cpu'[c] = Stale(c)
    OBVIOUS
  <1>2. Accounting' = Accounting
    BY <1>1 DEF Accounting, Stale
  <1>3. \A c \in CPUs : cpu'[c] = "stale" => c \in Accounting
    BY <1>1 DEF Accounting, Stale
  <1> QED
    BY <1>2, <1>3

LEMMA StepRace ==
    ASSUME TapTyped, RaceInv, [TrafficNext]_trafficVars
    PROVE  RaceInv'
  <1>1. ASSUME NEW c \in CPUs, Handles(c) PROVE RaceInv'
    BY <1>1, RaceHandles
  <1>2. CASE DrainStarts
    <2>1. /\ at = "poll" /\ at' = "walk" /\ met' = met \cup Accounting
          /\ UNCHANGED <<held, cpu, read>>
      BY <1>2 DEF DrainStarts
    <2>2. Accounting' = Accounting
      BY <2>1 DEF Accounting
    <2> QED
      BY <2>1, <2>2 DEF RaceInv
  <1>3. CASE ReadElement
    <2>1. /\ at = "walk" /\ at' \in {"print", "delete"} /\ UNCHANGED <<held, cpu, met>>
      BY <1>3 DEF ReadElement, handleVars
    <2>2. Accounting' = Accounting
      BY <2>1 DEF Accounting
    <2> QED
      BY <2>1, <2>2 DEF RaceInv
  <1>4. CASE DeleteKey
    <2>1. /\ at = "delete" /\ at' = "print" /\ held' = 0 /\ met' = met
          /\ cpu' = [c \in CPUs |-> Stale(c)]
      BY <1>4 DEF DeleteKey
    <2>2. Accounting \subseteq met
      BY <2>1 DEF RaceInv
    <2>3. Accounting' = Accounting /\ \A c \in CPUs : cpu'[c] = "stale" => c \in met'
      BY <2>1, <2>2, RaceEmptied
    <2> QED
      BY <2>1, <2>2, <2>3 DEF RaceInv
  <1>5. CASE PrintVolume
    <2>1. /\ at' \in {"ipv6", "poll"} /\ read' = 0 /\ UNCHANGED <<held, cpu, met>>
      BY <1>5 DEF PrintVolume, handleVars
    <2>2. Accounting' = Accounting
      BY <2>1 DEF Accounting
    <2> QED
      BY <2>1, <2>2 DEF RaceInv
  <1>6. CASE ReadIpv6
    <2>1. /\ at = "ipv6" /\ at' = "quic" /\ read' = read
          /\ read6' = [bytes |-> ipv6, total |-> total.ipv6]
          /\ UNCHANGED <<held, cpu, met, ipv6, total>>
      BY <1>6 DEF ReadIpv6, handleVars
    <2>2. Accounting' = Accounting
      BY <2>1 DEF Accounting
    <2>3. ipv6 \in Nat /\ total.ipv6 \in Nat
      BY DEF TapTyped, Totals
    <2> QED
      BY <2>1, <2>2, <2>3 DEF RaceInv
  <1>7. CASE Stat
    <2>1. /\ at = "quic" /\ at' = "poll" /\ read' = read /\ UNCHANGED <<held, cpu, met>>
      BY <1>7 DEF Stat, handleVars
    <2>2. Accounting' = Accounting
      BY <2>1 DEF Accounting
    <2> QED
      BY <2>1, <2>2 DEF RaceInv
  <1>a. ASSUME UNCHANGED tapVars, total'.ipv6 = total.ipv6 PROVE RaceInv'
    <2>1. Accounting' = Accounting
      BY <1>a DEF tapVars, handleVars, Accounting
    <2> QED
      BY <1>a, <2>1 DEF RaceInv, tapVars, handleVars, loopVars
  <1>b. ASSUME Fault PROVE total'.ipv6 = total.ipv6
    BY <1>b DEF Fault, TapTyped, Totals
  <1>8. CASE Evict
    <2>1. /\ UNCHANGED <<at, read, read6, ipv6>> /\ held' = 0
          /\ met' = met \cup Accounting /\ cpu' = [c \in CPUs |-> Stale(c)]
      BY <1>8 DEF Evict, loopVars
    <2>2. \A c \in CPUs : cpu'[c] = Stale(c)
      BY <2>1
    <2>3. Accounting' = Accounting /\ \A c \in CPUs : cpu'[c] = "stale" => c \in Accounting
      BY <2>2 DEF Accounting, Stale
    <2> QED
      BY <1>b, <1>8, <2>1, <2>3 DEF RaceInv, Evict
  <1>9. CASE Crash
    <2>1. /\ at' = "poll" /\ read' = 0 /\ met' = {} /\ held' = 0
          /\ cpu' = [c \in CPUs |-> "idle"]
      BY <1>9 DEF Crash
    <2>2. \A c \in CPUs : cpu'[c] = "idle"
      BY <2>1
    <2>3. Accounting' = {}
      BY <2>2 DEF Accounting
    <2> QED
      BY <2>1, <2>2, <2>3 DEF RaceInv
  <1>10. CASE Breaks
    BY <1>a, <1>b, <1>10 DEF Breaks
  <1>11. CASE ServerRestarts
    BY <1>a, <1>b, <1>11 DEF ServerRestarts
  <1>12. CASE Read
    BY <1>a, <1>12 DEF Read
  <1>13. CASE UNCHANGED trafficVars
    BY <1>a, <1>13 DEF trafficVars
  <1> QED
    BY <1>1, <1>2, <1>3, <1>4, <1>5, <1>6, <1>7, <1>8, <1>9, <1>10, <1>11, <1>12, <1>13
       DEF TrafficNext, Handles

(********************************* the share ********************************)

\* The server's byte count and last stat line.
Reader == [n : Nat, stat : StatLine \cup {Unknown}]
ReaderNow == [n |-> intervalIpv4Bytes, stat |-> thisStat]

\* What reading a piece makes of them.
Outcome(f, p) ==
    IF p.part = "head" THEN f
    ELSE IF p.line.kind = "vol" THEN [n |-> f.n + p.line.bytes, stat |-> f.stat]
    ELSE [n |-> 0, stat |-> p.line]

\* A counter of value v, when the history of its kind is t, against value a and
\* history c before: counterDelta() is at most what the tap saw, and exactly that
\* if the faults are the same.
Counted(v, t, a, c, fv, fa) ==
    /\ counterDelta(v, a) <= t - c
    /\ fa = fv => v + c = t + a

Later(a, b) ==
    /\ a.total.faults <= b.total.faults /\ a.total.met <= b.total.met
    /\ Counted(b.quic, b.total.quic, a.quic, a.total.quic,
               b.total.faults, a.total.faults)
    /\ Counted(b.ipv6, b.total.ipv6, a.ipv6, a.total.ipv6,
               b.total.faults, a.total.faults)

\* The bytes counted since the last stat line are at most those the tap accounted
\* between that and b, but for what was due then and is at b; and exactly those if
\* no packet in between met another or a drain.
Covers(f, b) ==
    /\ f.n + f.stat.total.ipv4 + b.held <= b.total.ipv4 + f.stat.held
    /\ f.stat.total.met = b.total.met =>
           f.n + f.stat.total.ipv4 + b.held = b.total.ipv4 + f.stat.held

\* The stat line b tells the truth to a server that is at f.
Truthful(f, b) ==
    f.stat # Unknown => /\ Later(f.stat, b)
                        /\ f.stat.total.faults = b.total.faults => Covers(f, b)

Reads(f, p, g) ==
    /\ g = Outcome(f, p)
    /\ p.part = "tail" /\ p.line.kind = "stat" => Truthful(f, p.line)

IsBefore(f, b) == f.stat # Unknown => Later(f.stat, b)

\* The volume that a server at f has not counted at b was lost in the map, if no
\* fault was in between.
UpToDate(f, b, state) ==
    f.stat # Unknown /\ f.stat.total.faults = b.total.faults => state = "up" /\ Covers(f, b)

\* F[i] is where the server will be once it has read i pieces of s; b is what a
\* stat line would say now.
Chained(F, s, b, state) ==
    /\ \A i \in 1..Len(s) : Reads(F[i - 1], s[i], F[i])
    /\ \A i \in 0..Len(s) : IsBefore(F[i], b)
    /\ UpToDate(F[Len(s)], b, state)

ShareInv ==
    /\ TrafficTyped /\ RaceInv
    /\ intervalIpv4Bytes \in Nat /\ thisStat \in StatLine \cup {Unknown}
    /\ thisStat # Unknown => lastQuicBytes = thisStat.quic /\ lastIpv6Bytes = thisStat.ipv6
    /\ ShareAccountsForAll /\ NeverOverstated
    /\ \E F \in [0..Len(stream) -> Reader] :
           F[0] = ReaderNow /\ Chained(F, stream, StatNow, sink.state)

LEMMA CountsMore ==
    ASSUME NEW v \in Nat, NEW t \in Nat, NEW a \in Nat, NEW c \in Nat,
           NEW fv \in Nat, NEW fa \in Nat, NEW v2 \in Nat, NEW t2 \in Nat,
           v <= v2, v2 + t = v + t2, Counted(v, t, a, c, fv, fa)
    PROVE  Counted(v2, t2, a, c, fv, fa)
  BY DEF Counted, counterDelta

LEMMA CountsFault ==
    ASSUME NEW v \in Nat, NEW t \in Nat, NEW a \in Nat, NEW c \in Nat,
           NEW fv \in Nat, NEW fa \in Nat, fa <= fv, Counted(v, t, a, c, fv, fa),
           NEW t2 \in Nat, t <= t2
    PROVE  Counted(v, t, a, c, fv + 1, fa) /\ Counted(0, t2, a, c, fv + 1, fa)
  BY DEF Counted, counterDelta

LEMMA StatTyped ==
    ASSUME NEW a \in StatLine
    PROVE  /\ a.quic \in Nat /\ a.ipv6 \in Nat /\ a.held \in Nat
           /\ a.total.ipv4 \in Nat /\ a.total.ipv6 \in Nat /\ a.total.quic \in Nat
           /\ a.total.faults \in Nat /\ a.total.met \in Nat
  BY DEF StatLine, Totals

LEMMA OutcomeTyped ==
    ASSUME NEW f \in Reader, NEW p \in PieceType
    PROVE  Outcome(f, p) \in Reader
  <1>1. p.part \in {"head", "tail"} /\ p.line \in Line
    BY DEF PieceType
  <1>2. CASE p.part = "head"
    BY <1>2 DEF Outcome
  <1>3. CASE p.part = "tail" /\ p.line.kind = "vol"
    <2>1. p.line \in VolLine
      BY <1>1, <1>3 DEF Line, StatLine
    <2>2. f.n + p.line.bytes \in Nat /\ f.stat \in StatLine \cup {Unknown}
      BY <2>1 DEF Reader, VolLine
    <2>3. Outcome(f, p) = [n |-> f.n + p.line.bytes, stat |-> f.stat]
      BY <1>3 DEF Outcome
    <2> QED
      BY <2>2, <2>3 DEF Reader
  <1>4. CASE p.part = "tail" /\ p.line.kind # "vol"
    <2>1. p.line \in StatLine
      BY <1>1, <1>4 DEF Line, VolLine
    <2>2. Outcome(f, p) = [n |-> 0, stat |-> p.line]
      BY <1>4 DEF Outcome
    <2> QED
      BY <2>1, <2>2 DEF Reader
  <1> QED
    BY <1>1, <1>2, <1>3, <1>4

\* One piece more on its way.
LEMMA ChainPiece ==
    ASSUME NEW s \in Seq(PieceType), NEW F \in [0..Len(s) -> Reader],
           NEW b, NEW state, Chained(F, s, b, state), NEW p \in PieceType,
           NEW d, NEW st, NEW g \in Reader, Reads(F[Len(s)], p, g),
           \A f \in Reader : IsBefore(f, b) => IsBefore(f, d),
           IsBefore(g, d), UpToDate(g, d, st)
    PROVE  \E G \in [0..Len(Append(s, p)) -> Reader] :
               /\ G[0] = F[0] /\ G[Len(s) + 1] = g
               /\ Chained(G, Append(s, p), d, st)
  <1>1. PICK n \in Nat : n = Len(s)
    OBVIOUS
  <1>2. PICK t \in Seq(PieceType) : t = Append(s, p)
    BY PushedPiece
  <1>3. Len(t) = n + 1 /\ t[n + 1] = p /\ \A i \in 1..n : t[i] = s[i]
    BY <1>1, <1>2, PushedPiece
  <1> DEFINE G == [i \in 0..(n + 1) |-> IF i \in 0..n THEN F[i] ELSE g]
  <1>4. /\ G \in [0..(n + 1) -> Reader] /\ G[n + 1] = g
        /\ \A i \in 0..n : G[i] = F[i]
    <2>1. \A i \in 0..n : F[i] \in Reader /\ i \in 0..(n + 1)
      BY <1>1
    <2>2. n + 1 \in 0..(n + 1) /\ ~(n + 1 \in 0..n)
      OBVIOUS
    <2> QED
      BY <2>1, <2>2
  <1> HIDE DEF G
  <1>5. ASSUME NEW i \in 1..(n + 1) PROVE Reads(G[i - 1], t[i], G[i])
    <2>1. CASE i = n + 1
      <3>1. i - 1 = n /\ n \in 0..n
        BY <2>1
      <3> QED
        BY <1>1, <1>3, <1>4, <2>1, <3>1
    <2>2. CASE i # n + 1
      <3>1. i \in 1..n /\ i \in 0..n /\ i - 1 \in 0..n
        BY <2>2
      <3>2. Reads(F[i - 1], s[i], F[i])
        BY <1>1, <3>1 DEF Chained
      <3> QED
        BY <1>3, <1>4, <3>1, <3>2
    <2> QED
      BY <2>1, <2>2
  <1>6. ASSUME NEW i \in 0..(n + 1) PROVE IsBefore(G[i], d)
    <2>1. CASE i = n + 1
      BY <1>4, <2>1
    <2>2. CASE i # n + 1
      <3>1. i \in 0..n
        BY <2>2
      <3>2. IsBefore(F[i], b) /\ F[i] \in Reader
        BY <1>1, <3>1 DEF Chained
      <3> QED
        BY <1>4, <3>1, <3>2
    <2> QED
      BY <2>1, <2>2
  <1>7. UpToDate(G[n + 1], d, st)
    BY <1>4
  <1>8. Chained(G, t, d, st)
    BY <1>3, <1>5, <1>6, <1>7 DEF Chained
  <1>9. G[0] = F[0]
    <2>1. 0 \in 0..n
      OBVIOUS
    <2> QED
      BY <1>4, <2>1
  <1> QED
    BY <1>1, <1>2, <1>3, <1>4, <1>8, <1>9

\* The same pieces, later.
LEMMA ChainLater ==
    ASSUME NEW s \in Seq(PieceType), NEW F \in [0..Len(s) -> Reader],
           NEW b, NEW state, Chained(F, s, b, state),
           NEW d, NEW st,
           \A f \in Reader : IsBefore(f, b) => IsBefore(f, d),
           \A f \in Reader : IsBefore(f, b) /\ UpToDate(f, b, state) => UpToDate(f, d, st)
    PROVE  Chained(F, s, d, st)
  <1>1. Len(s) \in Nat /\ Len(s) \in 0..Len(s)
    OBVIOUS
  <1>2. \A i \in 0..Len(s) : F[i] \in Reader /\ IsBefore(F[i], b)
    BY DEF Chained
  <1>3. UpToDate(F[Len(s)], d, st)
    BY <1>1, <1>2 DEF Chained
  <1>4. \A i \in 0..Len(s) : IsBefore(F[i], d)
    BY <1>2
  <1> QED
    BY <1>3, <1>4 DEF Chained

\* Pieces are cut off, and a fault is counted.
LEMMA ChainCut ==
    ASSUME NEW s \in Seq(PieceType), NEW F \in [0..Len(s) -> Reader],
           NEW b, NEW state, Chained(F, s, b, state), NEW m \in 0..Len(s),
           NEW d, NEW st,
           \A f \in Reader : IsBefore(f, b) => IsBefore(f, d) /\ UpToDate(f, d, st)
    PROVE  \E G \in [0..Len(SubSeq(s, 1, m)) -> Reader] :
               G[0] = F[0] /\ Chained(G, SubSeq(s, 1, m), d, st)
  <1>1. PICK n \in Nat : n = Len(s)
    OBVIOUS
  <1>2. PICK t : t = SubSeq(s, 1, m)
    OBVIOUS
  <1>3. Len(t) = m /\ \A i \in 1..m : t[i] = s[i]
    BY <1>2, CutSeq
  <1>4. m \in Nat /\ m <= n
    BY <1>1
  <1> DEFINE G == [i \in 0..m |-> F[i]]
  <1>5. G \in [0..m -> Reader] /\ \A i \in 0..m : G[i] = F[i] /\ i \in 0..n
    <2>1. \A i \in 0..m : F[i] \in Reader /\ i \in 0..n
      BY <1>1, <1>4
    <2> QED
      BY <2>1
  <1> HIDE DEF G
  <1>6. ASSUME NEW i \in 1..m PROVE Reads(G[i - 1], t[i], G[i])
    <2>1. i \in 1..n /\ i \in 0..m /\ i - 1 \in 0..m
      BY <1>4
    <2>2. Reads(F[i - 1], s[i], F[i])
      BY <1>1, <2>1 DEF Chained
    <2> QED
      BY <1>3, <1>5, <2>1, <2>2
  <1>7. ASSUME NEW i \in 0..m PROVE IsBefore(G[i], d) /\ UpToDate(G[i], d, st)
    <2>1. G[i] = F[i] /\ i \in 0..n
      BY <1>5
    <2>2. F[i] \in Reader /\ IsBefore(F[i], b)
      BY <1>1, <2>1 DEF Chained
    <2> QED
      BY <2>1, <2>2
  <1>8. m \in 0..m /\ 0 \in 0..m
    BY <1>4
  <1>9. Chained(G, t, d, st)
    BY <1>3, <1>6, <1>7, <1>8 DEF Chained
  <1> QED
    BY <1>2, <1>3, <1>5, <1>8, <1>9

\* The first piece is read.
LEMMA ChainTail ==
    ASSUME NEW s \in Seq(PieceType), NEW F \in [0..Len(s) -> Reader],
           NEW b, NEW state, Chained(F, s, b, state),
           NEW t \in Seq(PieceType), s # <<>>, Len(t) = Len(s) - 1,
           \A i \in 1..(Len(s) - 1) : t[i] = s[i + 1]
    PROVE  \E G \in [0..Len(t) -> Reader] :
               G[0] = F[1] /\ Chained(G, t, b, state)
  <1>1. PICK n \in Nat : n = Len(t)
    OBVIOUS
  <1>2. Len(s) = n + 1 /\ \A i \in 1..n : t[i] = s[i + 1]
    <2>1. Len(s) \in Nat
      OBVIOUS
    <2> QED
      BY <1>1, <2>1
  <1> DEFINE G == [i \in 0..n |-> F[i + 1]]
  <1>3. G \in [0..n -> Reader] /\ \A i \in 0..n : G[i] = F[i + 1] /\ i + 1 \in 0..(n + 1)
    <2>1. \A i \in 0..n : i + 1 \in 0..(n + 1)
      OBVIOUS
    <2>2. \A i \in 0..n : F[i + 1] \in Reader
      BY <1>2, <2>1
    <2> QED
      BY <2>1, <2>2
  <1> HIDE DEF G
  <1>4. ASSUME NEW i \in 1..n PROVE Reads(G[i - 1], t[i], G[i])
    <2>1. i + 1 \in 1..(n + 1) /\ i \in 0..n /\ i - 1 \in 0..n /\ (i - 1) + 1 = i /\ (i + 1) - 1 = i
      OBVIOUS
    <2>2. Reads(F[i], s[i + 1], F[i + 1])
      BY <1>2, <2>1 DEF Chained
    <2>3. G[i - 1] = F[i] /\ G[i] = F[i + 1]
      BY <1>3, <2>1
    <2> QED
      BY <1>2, <2>2, <2>3
  <1>5. ASSUME NEW i \in 0..n PROVE IsBefore(G[i], b)
    BY <1>2, <1>3 DEF Chained
  <1>6. n \in 0..n /\ 0 \in 0..n /\ 0 + 1 = 1
    OBVIOUS
  <1>7. UpToDate(G[n], b, state) /\ G[0] = F[1]
    BY <1>2, <1>3, <1>6 DEF Chained
  <1>8. Chained(G, t, b, state)
    BY <1>1, <1>4, <1>5, <1>7 DEF Chained
  <1> QED
    BY <1>1, <1>3, <1>7, <1>8

LEMMA PrintedCounts ==
    ASSUME NEW n \in Nat, NEW i \in Nat, NEW x \in Nat, NEW h \in Nat, NEW k \in Nat,
           NEW l, l = x + h
    PROVE  /\ n + i + l <= k => (n + x) + i + h <= k
           /\ n + i + l = k => (n + x) + i + h = k
  OBVIOUS

LEMMA DrainedIsLater ==
    ASSUME NEW b \in StatLine, NEW h \in Nat, NEW d, d = [b EXCEPT !.held = h], NEW f
    PROVE  /\ d \in StatLine /\ d.total = b.total /\ d.held = h
           /\ IsBefore(f, b) => IsBefore(f, d)
  <1>1. /\ d \in StatLine /\ d.total = b.total /\ d.quic = b.quic /\ d.ipv6 = b.ipv6
        /\ d.held = h
    BY DEF StatLine
  <1> QED
    BY <1>1 DEF IsBefore, Later

LEMMA SameIsLater ==
    ASSUME NEW b \in StatLine
    PROVE  Later(b, b)
  <1>1. /\ b.quic \in Nat /\ b.ipv6 \in Nat /\ b.total.ipv6 \in Nat /\ b.total.quic \in Nat
        /\ b.total.faults \in Nat /\ b.total.met \in Nat
    BY StatTyped
  <1>2. counterDelta(b.quic, b.quic) = 0 /\ counterDelta(b.ipv6, b.ipv6) = 0
    BY <1>1 DEF counterDelta
  <1> QED
    BY <1>1, <1>2 DEF Later, Counted

\* A line is sent: some of the volume that was due, or the counters.
LEMMA ChainLine ==
    ASSUME NEW s \in Seq(PieceType), NEW F \in [0..Len(s) -> Reader],
           NEW b \in StatLine, NEW state, Chained(F, s, b, state),
           NEW h \in PieceType, h.part = "head", NEW t \in PieceType, t.part = "tail",
           NEW d, NEW left \in Nat,
           \/ /\ t.line.kind = "vol" /\ t.line.bytes \in Nat
              /\ b.held = t.line.bytes + left /\ d = [b EXCEPT !.held = left]
           \/ t.line = b /\ d = b
    PROVE  \E G \in [0..Len(Append(Append(s, h), t)) -> Reader] :
               G[0] = F[0] /\ Chained(G, Append(Append(s, h), t), d, "up")
  <1>1. PICK n \in Nat : n = Len(s)
    OBVIOUS
  <1>2. PICK u \in Seq(PieceType) : u = Append(s, h)
    BY PushedPiece
  <1>3. Len(u) = n + 1
    BY <1>1, <1>2, PushedPiece
  <1>4. PICK f \in Reader : f = F[n]
    <2>1. n \in 0..n
      OBVIOUS
    <2> QED
      BY <1>1, <2>1
  <1>5. IsBefore(f, b) /\ UpToDate(f, b, "up")
    <2>1. n \in 0..n
      OBVIOUS
    <2> QED
      BY <1>1, <1>4, <2>1 DEF Chained, UpToDate
  <1>6. \E G \in [0..Len(u) -> Reader] : /\ G[0] = F[0] /\ G[n + 1] = f
                                         /\ Chained(G, u, b, "up")
    <2>1. Reads(F[Len(s)], h, f)
      BY <1>1, <1>4 DEF Reads, Outcome
    <2> QED
      BY <1>1, <1>2, <1>5, <2>1, ChainPiece
  <1>7. PICK G \in [0..Len(u) -> Reader] : /\ G[0] = F[0] /\ G[n + 1] = f
                                           /\ Chained(G, u, b, "up")
    BY <1>6
  <1>8. PICK g \in Reader : g = Outcome(f, t)
    BY OutcomeTyped
  <1>9. Truthful(f, b)
    BY <1>5 DEF Truthful, IsBefore, UpToDate
  <1>10. f.n \in Nat /\ f.stat \in StatLine \cup {Unknown}
    BY DEF Reader
  <1>11. b.held \in Nat /\ b.total.ipv4 \in Nat
    BY StatTyped
  <1>12. /\ Reads(f, t, g) /\ IsBefore(g, d) /\ UpToDate(g, d, "up")
         /\ \A e \in Reader : IsBefore(e, b) => IsBefore(e, d)
    <2>1. CASE /\ t.line.kind = "vol" /\ t.line.bytes \in Nat
               /\ b.held = t.line.bytes + left /\ d = [b EXCEPT !.held = left]
      <3>0. PICK x \in Nat : x = t.line.bytes
        BY <2>1
      <3>1. g = [n |-> f.n + x, stat |-> f.stat]
        BY <1>8, <2>1, <3>0 DEF Outcome
      <3>2. g.n = f.n + x /\ g.stat = f.stat
        BY <3>1
      <3>3. Reads(f, t, g)
        BY <1>8, <2>1 DEF Reads
      <3>4. d.total = b.total /\ d.held = left /\ (IsBefore(f, b) => IsBefore(f, d))
        BY <2>1, DrainedIsLater
      <3>5. IsBefore(g, d)
        BY <1>5, <3>2, <3>4 DEF IsBefore
      <3>6. UpToDate(g, d, "up")
        <4> SUFFICES ASSUME f.stat # Unknown, f.stat.total.faults = b.total.faults
                     PROVE  Covers(g, d)
          BY <3>2, <3>4 DEF UpToDate
        <4>1. Covers(f, b)
          BY <1>5 DEF UpToDate
        <4>2. PICK i \in Nat : i = f.stat.total.ipv4
          BY <1>10, StatTyped
        <4>3. PICK k \in Nat : k = b.total.ipv4 + f.stat.held
          <5>1. f.stat.held \in Nat
            BY <1>10, StatTyped
          <5> QED
            BY <1>11, <5>1
        <4>4. PICK l : l = b.held
          OBVIOUS
        <4>5. l = x + left
          BY <2>1, <3>0, <4>4
        <4>0. PICK n0 \in Nat : n0 = f.n
          BY <1>10
        <4>6. /\ f.n + i + l <= k => (f.n + x) + i + left <= k
              /\ f.n + i + l = k => (f.n + x) + i + left = k
          <5>1. /\ n0 + i + l <= k => (n0 + x) + i + left <= k
                /\ n0 + i + l = k => (n0 + x) + i + left = k
            BY ONLY <4>5, PrintedCounts
          <5> QED
            BY <4>0, <5>1
        <4> QED
          BY <3>2, <3>4, <4>1, <4>2, <4>3, <4>4, <4>6 DEF Covers
      <3>7. \A e \in Reader : IsBefore(e, b) => IsBefore(e, d)
        BY <2>1, DrainedIsLater
      <3> QED
        BY <3>3, <3>5, <3>6, <3>7
    <2>2. CASE t.line = b /\ d = b
      <3>1. b.kind = "stat"
        BY DEF StatLine
      <3>2. g = [n |-> 0, stat |-> b]
        BY <1>8, <2>2, <3>1 DEF Outcome
      <3>3. g.n = 0 /\ g.stat = b
        BY <3>2
      <3>4. Reads(f, t, g)
        BY <1>8, <1>9, <2>2 DEF Reads
      <3>5. IsBefore(g, d)
        BY <2>2, <3>3, SameIsLater DEF IsBefore
      <3>6. UpToDate(g, d, "up")
        <4>1. PICK i \in Nat, l \in Nat : i = b.total.ipv4 /\ l = b.held
          BY <1>11
        <4>2. 0 + i + l = i + l /\ 0 + i + l <= i + l
          OBVIOUS
        <4> QED
          BY <2>2, <3>3, <4>1, <4>2 DEF UpToDate, Covers
      <3> QED
        BY <2>2, <3>4, <3>5, <3>6
    <2> QED
      BY <2>1, <2>2
  <1>13. \E H \in [0..Len(Append(u, t)) -> Reader] :
             H[0] = G[0] /\ Chained(H, Append(u, t), d, "up")
    <2>1. Reads(G[Len(u)], t, g)
      BY <1>3, <1>7, <1>12
    <2> QED
      BY <1>7, <1>12, <2>1, ChainPiece
  <1> QED
    BY <1>2, <1>7, <1>13

\* emit(), for the chain: the line is lost or sent.
LEMMA ChainEmit ==
    ASSUME TrafficTyped,
           NEW F \in [0..Len(stream) -> Reader], NEW b \in StatLine,
           Chained(F, stream, b, sink.state),
           NEW line \in Line, Emit(line), NEW d, NEW left \in Nat,
           \/ /\ line.kind = "vol" /\ line.bytes \in Nat
              /\ b.held = line.bytes + left /\ d = [b EXCEPT !.held = left]
           \/ line = b /\ d = b
    PROVE  \E G \in [0..Len(stream') -> Reader] :
               G[0] = F[0] /\ Chained(G, stream', d, sink'.state)
  <1>1. sink \in SinkType /\ stream \in Seq(PieceType) /\ sink' \in SinkType
    BY EmitTyped DEF TrafficTyped
  <1>2. CASE stream' = stream /\ sink'.state # "up" /\ sink.state # "up"
    <2>1. \A f \in Reader : IsBefore(f, b) => IsBefore(f, d)
      BY DrainedIsLater
    <2>2. d.total = b.total
      BY DrainedIsLater
    <2>3. \A f \in Reader : IsBefore(f, b) /\ UpToDate(f, b, sink.state)
                                => UpToDate(f, d, sink'.state)
      BY <1>2, <2>2 DEF UpToDate
    <2>4. Chained(F, stream, d, sink'.state)
      BY <1>1, <2>1, <2>3, ChainLater
    <2> QED
      BY <1>2, <2>4
  <1>3. CASE /\ sink'.state = "up"
             /\ stream' = stream \o <<PieceOf(sink'.conn, "head", line),
                                      PieceOf(sink'.conn, "tail", line)>>
    <2>1. PICK h : h = PieceOf(sink'.conn, "head", line)
      OBVIOUS
    <2>2. PICK t : t = PieceOf(sink'.conn, "tail", line)
      OBVIOUS
    <2>3. sink'.conn \in Nat
      BY <1>1 DEF SinkType
    <2>4. /\ h \in PieceType /\ h.part = "head"
          /\ t \in PieceType /\ t.part = "tail" /\ t.line = line
      BY <2>1, <2>2, <2>3 DEF PieceOf, PieceType
    <2>5. stream' = Append(Append(stream, h), t)
      BY <1>1, <1>3, <2>1, <2>2, <2>4, TwoPieces
    <2>6. \E G \in [0..Len(Append(Append(stream, h), t)) -> Reader] :
              G[0] = F[0] /\ Chained(G, Append(Append(stream, h), t), d, "up")
      BY <1>1, <2>4, ChainLine
    <2> QED
      BY <1>3, <2>5, <2>6
  <1> QED
    BY <1>1, <1>2, <1>3, Emits

\* A fault, for the chain: what stands before it is before what comes after.
FaultBetween(b, d) ==
    /\ d.total.faults = b.total.faults + 1
    /\ d.total.quic = b.total.quic /\ d.total.met = b.total.met
    /\ \/ d.quic = b.quic /\ d.ipv6 = b.ipv6 /\ d.total.ipv6 = b.total.ipv6
       \/ d.quic = 0 /\ d.ipv6 = 0 /\ b.total.ipv6 <= d.total.ipv6

LEMMA ChainFault ==
    ASSUME NEW b \in StatLine, NEW d \in StatLine, FaultBetween(b, d),
           NEW f \in Reader, NEW st, IsBefore(f, b)
    PROVE  IsBefore(f, d) /\ UpToDate(f, d, st)
  <1> SUFFICES ASSUME f.stat # Unknown
               PROVE  Later(f.stat, d) /\ f.stat.total.faults # d.total.faults
    BY DEF IsBefore, UpToDate
  <1>1. PICK a \in StatLine : a = f.stat
    BY DEF Reader
  <1>2. Later(a, b)
    BY <1>1 DEF IsBefore
  <1>3. /\ a.quic \in Nat /\ a.ipv6 \in Nat /\ a.total.quic \in Nat /\ a.total.ipv6 \in Nat
        /\ a.total.faults \in Nat
        /\ b.quic \in Nat /\ b.ipv6 \in Nat /\ b.total.quic \in Nat /\ b.total.ipv6 \in Nat
        /\ b.total.faults \in Nat /\ d.total.ipv6 \in Nat
    BY StatTyped
  <1>4. a.total.faults <= b.total.faults /\ a.total.met <= b.total.met
    BY <1>2 DEF Later
  <1>5. b.total.quic <= b.total.quic
    BY <1>3
  <1>6. /\ Counted(b.quic, b.total.quic, a.quic, a.total.quic,
                   b.total.faults + 1, a.total.faults)
        /\ Counted(0, b.total.quic, a.quic, a.total.quic,
                   b.total.faults + 1, a.total.faults)
    BY <1>2, <1>3, <1>4, <1>5, CountsFault DEF Later
  <1>7. b.total.ipv6 <= d.total.ipv6 /\ b.total.ipv6 <= b.total.ipv6
    BY <1>3 DEF FaultBetween
  <1>8. /\ Counted(b.ipv6, b.total.ipv6, a.ipv6, a.total.ipv6,
                   b.total.faults + 1, a.total.faults)
        /\ Counted(0, d.total.ipv6, a.ipv6, a.total.ipv6,
                   b.total.faults + 1, a.total.faults)
    BY <1>2, <1>3, <1>4, <1>7, CountsFault DEF Later
  <1>9. d.total.faults = b.total.faults + 1
    BY DEF FaultBetween
  <1>10. a.total.faults <= d.total.faults /\ a.total.faults # d.total.faults
    BY <1>3, <1>4, <1>9
  <1>11. Later(a, d)
    BY <1>4, <1>6, <1>8, <1>9, <1>10 DEF Later, FaultBetween
  <1> QED
    BY <1>1, <1>10, <1>11

\* What accounting does, for the chain: the counters keep up with what was
\* counted, and the volume that is due does not overtake it, nor does it fall
\* behind unless a packet met another or a drain.
Grows(b, d) ==
    /\ b.quic <= d.quic /\ d.quic + b.total.quic = b.quic + d.total.quic
    /\ b.ipv6 <= d.ipv6 /\ d.ipv6 + b.total.ipv6 = b.ipv6 + d.total.ipv6
    /\ b.total.faults = d.total.faults /\ b.total.met <= d.total.met
    /\ d.held + b.total.ipv4 <= b.held + d.total.ipv4
    /\ b.total.met = d.total.met => d.held + b.total.ipv4 = b.held + d.total.ipv4

LEMMA CoversMore ==
    ASSUME NEW k \in Nat, NEW l \in Nat, NEW h \in Nat, NEW g \in Nat,
           NEW i \in Nat, NEW j \in Nat, g + i <= h + j
    PROVE  /\ k + h <= i + l => k + g <= j + l
           /\ k + h = i + l /\ g + i = h + j => k + g = j + l
  OBVIOUS

LEMMA ChainGrows ==
    ASSUME NEW b \in StatLine, NEW d \in StatLine, Grows(b, d),
           NEW f \in Reader, NEW st
    PROVE  /\ IsBefore(f, b) => IsBefore(f, d)
           /\ IsBefore(f, b) /\ UpToDate(f, b, st) => UpToDate(f, d, st)
  <1> SUFFICES ASSUME f.stat # Unknown, Later(f.stat, b)
               PROVE  Later(f.stat, d) /\ (UpToDate(f, b, st) => UpToDate(f, d, st))
    BY DEF IsBefore, UpToDate
  <1>1. PICK a \in StatLine : a = f.stat
    BY DEF Reader
  <1>2. /\ a.quic \in Nat /\ a.ipv6 \in Nat /\ a.total.quic \in Nat /\ a.total.ipv6 \in Nat
        /\ a.total.faults \in Nat /\ a.total.met \in Nat
        /\ b.quic \in Nat /\ b.ipv6 \in Nat /\ b.total.quic \in Nat /\ b.total.ipv6 \in Nat
        /\ b.total.faults \in Nat /\ b.total.met \in Nat
        /\ d.quic \in Nat /\ d.ipv6 \in Nat /\ d.total.quic \in Nat /\ d.total.ipv6 \in Nat
        /\ d.total.met \in Nat
    BY StatTyped
  <1>3. Counted(d.quic, d.total.quic, a.quic, a.total.quic, b.total.faults, a.total.faults)
    <2>1. /\ b.quic <= d.quic /\ d.quic + b.total.quic = b.quic + d.total.quic
          /\ Counted(b.quic, b.total.quic, a.quic, a.total.quic, b.total.faults,
                     a.total.faults)
      BY <1>1 DEF Later, Grows
    <2> QED
      BY <1>2, <2>1, CountsMore
  <1>4. Counted(d.ipv6, d.total.ipv6, a.ipv6, a.total.ipv6, b.total.faults, a.total.faults)
    <2>1. /\ b.ipv6 <= d.ipv6 /\ d.ipv6 + b.total.ipv6 = b.ipv6 + d.total.ipv6
          /\ Counted(b.ipv6, b.total.ipv6, a.ipv6, a.total.ipv6, b.total.faults,
                     a.total.faults)
      BY <1>1 DEF Later, Grows
    <2> QED
      BY <1>2, <2>1, CountsMore
  <1>5. a.total.met <= b.total.met /\ b.total.met <= d.total.met
    BY <1>1 DEF Later, Grows
  <1>6. a.total.met <= d.total.met
    BY <1>2, <1>5
  <1>7. Later(a, d)
    BY <1>1, <1>3, <1>4, <1>6 DEF Later, Grows
  <1>8. ASSUME UpToDate(f, b, st), a.total.faults = d.total.faults
        PROVE  st = "up" /\ Covers(f, d)
    <2>1. st = "up" /\ Covers(f, b)
      BY <1>1, <1>8 DEF UpToDate, Grows
    <2>2. PICK k \in Nat : k = f.n + f.stat.total.ipv4
      <3>1. f.n \in Nat /\ f.stat.total.ipv4 \in Nat
        BY <1>1, StatTyped DEF Reader
      <3> QED
        BY <3>1
    <2>3. PICK l \in Nat : l = f.stat.held
      BY <1>1, StatTyped
    <2>4. PICK h \in Nat, g \in Nat, i \in Nat, j \in Nat :
              h = b.held /\ g = d.held /\ i = b.total.ipv4 /\ j = d.total.ipv4
      BY StatTyped
    <2>5. g + i <= h + j /\ (b.total.met = d.total.met => g + i = h + j)
      BY <2>4 DEF Grows
    <2>6. /\ k + h <= i + l => k + g <= j + l
          /\ k + h = i + l /\ g + i = h + j => k + g = j + l
      BY ONLY <2>2, <2>3, <2>4, <2>5, CoversMore
    <2>7. k + h <= i + l /\ (a.total.met = b.total.met => k + h = i + l)
      BY <1>1, <2>1, <2>2, <2>3, <2>4 DEF Covers
    <2>8. a.total.met = d.total.met => a.total.met = b.total.met /\ b.total.met = d.total.met
      BY <1>2, <1>5
    <2>9. k + g <= j + l /\ (a.total.met = d.total.met => k + g = j + l)
      BY <2>5, <2>6, <2>7, <2>8
    <2> QED
      BY <1>1, <2>1, <2>2, <2>3, <2>4, <2>9 DEF Covers
  <1> QED
    BY <1>1, <1>7, <1>8 DEF UpToDate

\* One step of handle(), for the volume.
LEMMA VolumeGrows ==
    ASSUME TapTyped, RaceInv, NEW c \in CPUs, Handles(c), TapTyped'
    PROVE  /\ total.met <= total'.met
           /\ Due' + total.ipv4 <= Due + total'.ipv4
           /\ total.met = total'.met => Due' + total.ipv4 = Due + total'.ipv4
  <1>1. at' = at /\ read' = read
    BY HandlesKeeps
  <1>2. /\ held \in Nat /\ held' \in Nat /\ read \in Nat /\ total \in Totals
        /\ total.met \in Nat /\ total.ipv4 \in Nat
    BY DEF TapTyped, Totals
  <1>3. CASE BumpIpv6(c) \/ LookupBytes(c) \/ BumpQuic(c)
    <2>1. held' = held
      BY <1>3 DEF BumpIpv6, LookupBytes, BumpQuic
    <2>2. total'.met = total.met /\ total'.ipv4 = total.ipv4
      BY <1>2, <1>3, HandleFields
    <2>3. Due' = Due /\ Due \in Nat
      BY <1>1, <1>2, <2>1 DEF Due
    <2> QED
      BY <1>2, <2>2, <2>3
  <1>4. CASE AddBytes(c) \/ InsertBytes(c)
    <2>1. Accounts(c) /\ held' <= held + 1
      BY <1>2, <1>4 DEF AddBytes, InsertBytes
    <2>2. total'.ipv4 = total.ipv4 + 1
      BY <1>2, <2>1, HandleFields
    <2>3. CASE c \in met
      <3>1. total'.met = total.met + 1
        BY <1>2, <2>1, <2>3, HandleFields
      <3>2. Due' <= Due + 1 /\ Due \in Nat /\ Due' \in Nat
        <4>1. CASE at = "delete"
          BY <1>1, <1>2, <4>1 DEF Due
        <4>2. CASE at # "delete"
          <5>1. Due = read + held /\ Due' = read + held'
            BY <1>1, <4>2 DEF Due
          <5>2. PICK x \in Nat, y \in Nat, z \in Nat : x = read /\ y = held /\ z = held'
            BY <1>2
          <5>3. z <= y + 1
            BY <2>1, <5>2
          <5>4. x + z <= (x + y) + 1 /\ x + y \in Nat /\ x + z \in Nat
            BY <5>3
          <5> QED
            BY <5>1, <5>2, <5>4
        <4> QED
          BY <4>1, <4>2
      <3> QED
        BY <1>2, <2>2, <3>1, <3>2
    <2>4. CASE c \notin met
      <3>1. total'.met = total.met
        BY <1>2, <2>1, <2>4, HandleFields
      <3>2. c \in Accounting
        BY <1>4 DEF AddBytes, InsertBytes, Accounting
      <3>3. at # "delete" /\ cpu[c] # "stale" /\ (cpu[c] = "miss" => held = 0)
        BY <2>4, <3>2 DEF RaceInv
      <3>4. held' = held + 1
        BY <1>2, <1>4, <3>3 DEF AddBytes, InsertBytes
      <3>5. Due' = Due + 1 /\ Due \in Nat
        BY <1>1, <1>2, <3>3, <3>4 DEF Due
      <3> QED
        BY <1>2, <2>2, <3>1, <3>5
    <2> QED
      BY <2>3, <2>4
  <1> QED
    BY <1>3, <1>4 DEF Handles

\* What a stat line would say, after one step of handle().
LEMMA HandlesGrow ==
    ASSUME TapTyped, RaceInv, NEW c \in CPUs, Handles(c), TapTyped'
    PROVE  Grows(StatNow, StatNow')
  <1>1. at' = at /\ read6' = read6
    BY HandlesKeeps
  <1>2. /\ total \in Totals /\ total' \in Totals /\ quic \in Nat /\ ipv6 \in Nat
        /\ total.quic \in Nat /\ total.ipv6 \in Nat
        /\ read6.bytes \in Nat /\ read6.total \in Nat
    BY DEF TapTyped, Totals
  <1>3. total'.faults = total.faults
    BY <1>2, HandleFields DEF Handles, AddBytes, InsertBytes
  <1>4. quic <= quic' /\ quic' + total.quic = quic + total'.quic
    <2>1. CASE BumpQuic(c)
      <3>1. quic' = quic + 1
        BY <2>1 DEF BumpQuic
      <3>2. total'.quic = total.quic + 1
        BY <1>2, <2>1, HandleFields
      <3> QED
        BY <1>2, <3>1, <3>2
    <2>2. CASE BumpIpv6(c) \/ LookupBytes(c) \/ Accounts(c)
      <3>1. quic' = quic
        BY <2>2 DEF BumpIpv6, LookupBytes, Accounts
      <3>2. total'.quic = total.quic
        BY <1>2, <2>2, HandleFields
      <3> QED
        BY <1>2, <3>1, <3>2
    <2> QED
      BY <2>1, <2>2 DEF Handles, AddBytes, InsertBytes
  <1>5. ipv6 <= ipv6' /\ ipv6' + total.ipv6 = ipv6 + total'.ipv6
    <2>1. CASE BumpIpv6(c)
      <3>1. ipv6' = ipv6 + 1
        BY <2>1 DEF BumpIpv6
      <3>2. total'.ipv6 = total.ipv6 + 1
        BY <1>2, <2>1, HandleFields
      <3> QED
        BY <1>2, <3>1, <3>2
    <2>2. CASE BumpQuic(c) \/ LookupBytes(c) \/ Accounts(c)
      <3>1. ipv6' = ipv6
        BY <2>2 DEF BumpQuic, LookupBytes, Accounts
      <3>2. total'.ipv6 = total.ipv6
        BY <1>2, <2>2, HandleFields
      <3> QED
        BY <1>2, <3>1, <3>2
    <2> QED
      BY <2>1, <2>2 DEF Handles, AddBytes, InsertBytes
  <1>6. /\ Ipv6Now.bytes <= Ipv6Now'.bytes
        /\ Ipv6Now'.bytes + Ipv6Now.total = Ipv6Now.bytes + Ipv6Now'.total
    <2>1. CASE at = "quic"
      <3>1. Ipv6Now = read6 /\ Ipv6Now' = read6
        BY <1>1, <2>1 DEF Ipv6Now
      <3> QED
        BY <1>2, <3>1
    <2>2. CASE at # "quic"
      <3>1. /\ Ipv6Now.bytes = ipv6 /\ Ipv6Now.total = total.ipv6
            /\ Ipv6Now'.bytes = ipv6' /\ Ipv6Now'.total = total'.ipv6
        BY <1>1, <2>2 DEF Ipv6Now
      <3> QED
        BY <1>5, <3>1
    <2> QED
      BY <2>1, <2>2
  <1>7. /\ StatNow'.quic = quic' /\ StatNow'.held = Due'
        /\ StatNow'.ipv6 = Ipv6Now'.bytes /\ StatNow'.total.ipv6 = Ipv6Now'.total
        /\ StatNow'.total.quic = total'.quic /\ StatNow'.total.ipv4 = total'.ipv4
        /\ StatNow'.total.met = total'.met /\ StatNow'.total.faults = total'.faults
    BY <1>2 DEF Totals, StatNow
  <1> QED
    BY <1>3, <1>4, <1>6, <1>7, NowIs, VolumeGrows DEF Grows

\* What a stat line would say after a step of a drain, or of print_stats().
LEMMA WalksNow ==
    ASSUME TapTyped, RaceInv, Walks
    PROVE  StatNow' = StatNow
  <1>1. quic' = quic /\ total' = total /\ ipv6' = ipv6
    BY WalksKeeps
  <1>2. held \in Nat /\ read \in Nat
    BY DEF TapTyped
  <1>3. Due' = Due
    BY <1>2 DEF Due, RaceInv, Walks, DrainStarts, ReadElement, DeleteKey, ReadIpv6, handleVars
  <1>4. Ipv6Now' = Ipv6Now
    BY <1>1 DEF Ipv6Now, Walks, DrainStarts, ReadElement, DeleteKey, ReadIpv6
  <1> QED
    BY <1>1, <1>3, <1>4 DEF StatNow

\* The IPv6 packets that were counted while print_stats() read on are for the
\* next line.
LEMMA StatGrows ==
    ASSUME TapTyped, RaceInv, Stat
    PROVE  Grows(StatNow, StatNow')
  <1>1. /\ at = "quic" /\ at' = "poll" /\ UNCHANGED <<quic, ipv6, held, read, total>>
    BY DEF Stat, handleVars
  <1>2. /\ total \in Totals /\ quic \in Nat /\ ipv6 \in Nat /\ held \in Nat /\ read \in Nat
        /\ total.quic \in Nat /\ total.ipv6 \in Nat /\ total.ipv4 \in Nat
        /\ total.met \in Nat
    BY DEF TapTyped, Totals
  <1>3. /\ StatNow'.quic = quic /\ StatNow'.held = Due'
        /\ StatNow'.ipv6 = ipv6 /\ StatNow'.total.ipv6 = total.ipv6
        /\ StatNow'.total.quic = total.quic /\ StatNow'.total.ipv4 = total.ipv4
        /\ StatNow'.total.met = total.met /\ StatNow'.total.faults = total.faults
    BY <1>1, <1>2 DEF Totals, StatNow, Ipv6Now
  <1>4. Due' = Due /\ Due \in Nat
    BY <1>1, <1>2 DEF Due
  <1>5. StatNow.ipv6 = read6.bytes /\ StatNow.total.ipv6 = read6.total
    BY <1>1, NowIs DEF Ipv6Now
  <1>6. read6.bytes <= ipv6 /\ ipv6 + read6.total = read6.bytes + total.ipv6
    <2>1. read6.bytes \in Nat /\ read6.total \in Nat
      BY DEF TapTyped
    <2> QED
      BY <1>1, <1>2, <2>1 DEF RaceInv
  <1> QED
    BY <1>2, <1>3, <1>4, <1>5, <1>6, NowIs DEF Grows

LEMMA SameDifference ==
    ASSUME NEW v \in Nat, NEW t \in Nat, NEW a \in Nat, NEW c \in Nat, v + c = t + a
    PROVE  v - a = t - c
  OBVIOUS

\* What two stat lines and the bytes counted between them say of the share.
LEMMA WholeOfShare ==
    ASSUME NEW v \in Nat, NEW w \in Nat
    PROVE  ShareOf(v, w)[2] = w
  BY DEF ShareOf

LEMMA ShareIsRight ==
    ASSUME NEW f \in Reader, f.stat # Unknown, NEW a \in StatLine, a = f.stat,
           NEW b \in StatLine, Truthful(f, b), NEW share,
           share = ShareOf(counterDelta(b.quic, a.quic) + counterDelta(b.ipv6, a.ipv6),
                           f.n + counterDelta(b.ipv6, a.ipv6))
    PROVE  /\ share[1] <= (b.total.quic - a.total.quic) + (b.total.ipv6 - a.total.ipv6)
           /\ a.total.faults = b.total.faults =>
                  /\ share = ShareOf((b.total.quic - a.total.quic)
                                         + (b.total.ipv6 - a.total.ipv6), share[2])
                  /\ share[2] <= (b.total.ipv4 - a.total.ipv4) + a.held - b.held
                                    + (b.total.ipv6 - a.total.ipv6)
                  /\ b.total.met - a.total.met = 0 =>
                         share[2] = (b.total.ipv4 - a.total.ipv4) + a.held - b.held
                                        + (b.total.ipv6 - a.total.ipv6)
  <1>1. /\ a.quic \in Nat /\ a.ipv6 \in Nat /\ a.total.quic \in Nat /\ a.total.ipv6 \in Nat
        /\ a.total.faults \in Nat /\ a.total.ipv4 \in Nat /\ a.held \in Nat
        /\ b.quic \in Nat /\ b.ipv6 \in Nat /\ b.total.quic \in Nat /\ b.total.ipv6 \in Nat
        /\ b.total.faults \in Nat /\ b.total.ipv4 \in Nat /\ b.held \in Nat
    BY StatTyped
  <1>2. PICK dq : dq = b.total.quic - a.total.quic
    OBVIOUS
  <1>3. PICK d6 : d6 = b.total.ipv6 - a.total.ipv6
    OBVIOUS
  <1>4. PICK cq \in Nat : cq = counterDelta(b.quic, a.quic)
    BY <1>1 DEF counterDelta
  <1>5. PICK c6 \in Nat : c6 = counterDelta(b.ipv6, a.ipv6)
    BY <1>1 DEF counterDelta
  <1>6. PICK n \in Nat : n = f.n
    BY DEF Reader
  <1>7. Later(a, b) /\ (a.total.faults = b.total.faults => Covers(f, b))
    BY DEF Truthful
  <1>8. dq \in Int /\ d6 \in Int /\ cq <= dq /\ c6 <= d6
    BY <1>1, <1>2, <1>3, <1>4, <1>5, <1>7 DEF Later, Counted
  <1>9. share = ShareOf(cq + c6, n + c6)
    BY <1>4, <1>5, <1>6
  <1>10. share[1] <= dq + d6
    <2>1. cq + c6 <= dq + d6 /\ 0 <= dq + d6 /\ cq + c6 \in Nat /\ n + c6 \in Nat
      BY <1>8
    <2>2. CASE n + c6 > 0 /\ cq + c6 <= n + c6
      <3>1. share = <<cq + c6, n + c6>>
        BY <1>9, <2>2 DEF ShareOf
      <3> QED
        BY <2>1, <3>1
    <2>3. CASE n + c6 > 0 /\ ~(cq + c6 <= n + c6)
      <3>1. share = <<n + c6, n + c6>>
        BY <1>9, <2>3 DEF ShareOf
      <3>2. n + c6 <= dq + d6
        BY <2>1, <2>3, <1>8
      <3> QED
        BY <3>1, <3>2
    <2>4. CASE ~(n + c6 > 0)
      <3>1. share = <<0, 0>>
        BY <1>9, <2>4 DEF ShareOf
      <3> QED
        BY <2>1, <3>1
    <2> QED
      BY <2>2, <2>3, <2>4
  <1>11. ASSUME a.total.faults = b.total.faults
         PROVE  /\ share = ShareOf(dq + d6, share[2])
                /\ share[2] <= (b.total.ipv4 - a.total.ipv4) + a.held - b.held + d6
                /\ b.total.met - a.total.met = 0 =>
                       share[2] = (b.total.ipv4 - a.total.ipv4) + a.held - b.held + d6
    <2>1. /\ b.quic + a.total.quic = b.total.quic + a.quic
          /\ b.ipv6 + a.total.ipv6 = b.total.ipv6 + a.ipv6
      BY <1>7, <1>11 DEF Later, Counted
    <2>2. cq = dq
      <3>1. b.quic - a.quic = dq
        <4>1. b.quic + a.total.quic = b.total.quic + a.quic
          BY <2>1
        <4>2. b.quic - a.quic = b.total.quic - a.total.quic
          BY ONLY <1>1, <4>1, SameDifference
        <4> QED
          BY <1>2, <4>2
      <3>2. b.quic >= a.quic
        BY <1>1, <1>8, <3>1
      <3> QED
        BY <1>4, <3>1, <3>2 DEF counterDelta
    <2>3. c6 = d6
      <3>1. b.ipv6 - a.ipv6 = d6
        BY <1>1, <1>3, <2>1, SameDifference
      <3>2. b.ipv6 >= a.ipv6
        BY <1>1, <1>8, <3>1
      <3> QED
        BY <1>5, <3>1, <3>2 DEF counterDelta
    <2>4. share[2] = n + d6 /\ share = ShareOf(dq + d6, n + d6)
      BY <1>9, <2>2, <2>3, WholeOfShare
    <2>5. /\ n + a.total.ipv4 + b.held <= b.total.ipv4 + a.held
          /\ a.total.met = b.total.met => n + a.total.ipv4 + b.held = b.total.ipv4 + a.held
      BY <1>6, <1>7, <1>11 DEF Covers
    <2>6. a.total.met \in Nat /\ b.total.met \in Nat
      BY StatTyped
    <2>7. n + d6 <= (b.total.ipv4 - a.total.ipv4) + a.held - b.held + d6
      BY <1>1, <1>8, <2>5
    <2>8. b.total.met - a.total.met = 0 =>
              n + d6 = (b.total.ipv4 - a.total.ipv4) + a.held - b.held + d6
      BY <1>1, <1>8, <2>5, <2>6
    <2> QED
      BY <2>4, <2>7, <2>8
  <1> QED
    BY <1>2, <1>3, <1>10, <1>11

LEMMA InitShare == TrafficInit => ShareInv
  <1> SUFFICES ASSUME TrafficInit PROVE ShareInv
    OBVIOUS
  <1>1. /\ stream = <<>> /\ intervalIpv4Bytes = 0
        /\ thisStat = Unknown /\ prevStat = Unknown
    BY DEF TrafficInit, ShareInit
  <1>2. ShareAccountsForAll /\ NeverOverstated
    BY <1>1 DEF ShareAccountsForAll, NeverOverstated, Measurable
  <1>3. ReaderNow \in Reader /\ ReaderNow.stat = Unknown
    BY <1>1 DEF ReaderNow, Reader
  <1> DEFINE F == [i \in 0..0 |-> ReaderNow]
  <1>4. Len(stream) = 0 /\ F \in [0..0 -> Reader] /\ F[0] = ReaderNow
    BY <1>1, <1>3
  <1>5. \A i \in 0..0 : F[i] = ReaderNow
    OBVIOUS
  <1> HIDE DEF F
  <1>6. Chained(F, stream, StatNow, sink.state)
    BY <1>3, <1>4, <1>5 DEF Chained, IsBefore, UpToDate
  <1> QED
    BY <1>1, <1>2, <1>4, <1>6, InitTyped, InitRace DEF ShareInv

LEMMA StepShare == ShareInv /\ [TrafficNext]_trafficVars => ShareInv'
  <1> SUFFICES ASSUME ShareInv, [TrafficNext]_trafficVars PROVE ShareInv'
    OBVIOUS
  <1>0. TrafficTyped' /\ RaceInv' /\ TapTyped'
    BY StepTyped, StepRace DEF ShareInv, TrafficTyped
  <1>a. /\ TrafficTyped /\ TapTyped /\ RaceInv /\ stream \in Seq(PieceType)
        /\ intervalIpv4Bytes \in Nat /\ thisStat \in StatLine \cup {Unknown}
        /\ thisStat # Unknown => lastQuicBytes = thisStat.quic /\ lastIpv6Bytes = thisStat.ipv6
        /\ ShareAccountsForAll /\ NeverOverstated
    BY DEF ShareInv, TrafficTyped
  <1>b. PICK F \in [0..Len(stream) -> Reader] :
            F[0] = ReaderNow /\ Chained(F, stream, StatNow, sink.state)
    BY DEF ShareInv
  <1>c. StatNow \in StatLine /\ VolNow \in VolLine
    BY <1>a, LinesTyped, NowTyped
  <1>d. StatNow' \in StatLine
    <2>1. /\ quic' \in Nat /\ ipv6' \in Nat /\ held' \in Nat /\ read' \in Nat
          /\ read6' \in [bytes : Nat, total : Nat] /\ total' \in Totals
      BY <1>0 DEF TapTyped
    <2>2. total'.ipv6 \in Nat
      BY <2>1 DEF Totals
    <2>3. Due' \in Nat
      <3>1. Due' = IF at' = "delete" THEN read' ELSE read' + held'
        BY DEF Due
      <3>2. PICK x \in Nat, y \in Nat : x = read' /\ y = held'
        BY <2>1
      <3>3. x + y \in Nat
        OBVIOUS
      <3> QED
        BY <3>1, <3>2, <3>3
    <2>4. Ipv6Now'.bytes \in Nat /\ Ipv6Now'.total \in Nat
      BY <2>1, <2>2 DEF Ipv6Now
    <2>5. [total' EXCEPT !.ipv6 = Ipv6Now'.total] \in Totals
      BY <2>1, <2>4 DEF Totals
    <2> QED
      BY <2>1, <2>3, <2>4, <2>5 DEF StatNow, StatLine
  <1>e. ASSUME UNCHANGED <<shareVars, prevStat, thisStat>>,
               \E G \in [0..Len(stream') -> Reader] :
                   G[0] = F[0] /\ Chained(G, stream', StatNow', sink'.state)
        PROVE  ShareInv'
    <2>1. ReaderNow' = ReaderNow
      BY <1>e DEF ReaderNow, shareVars
    <2>2. \E G \in [0..Len(stream') -> Reader] :
              G[0] = ReaderNow' /\ Chained(G, stream', StatNow', sink'.state)
      BY <1>b, <1>e, <2>1
    <2>3. ShareAccountsForAll' /\ NeverOverstated'
      BY <1>a, <1>e DEF ShareAccountsForAll, NeverOverstated, Measurable, Between,
         Unmeasured, shareVars
    <2> QED
      BY <1>0, <1>a, <1>e, <2>2, <2>3 DEF ShareInv, shareVars
  <1>h. ASSUME Grows(StatNow, StatNow'),
               UNCHANGED <<shareVars, prevStat, thisStat>>,
               NEW G \in [0..Len(stream') -> Reader], G[0] = F[0],
               Chained(G, stream', StatNow, sink'.state)
        PROVE  ShareInv'
    <2>1. PICK b \in StatLine : b = StatNow
      BY <1>c
    <2>2. PICK d \in StatLine : d = StatNow'
      BY <1>d
    <2>3. Grows(b, d)
      BY <1>h, <2>1, <2>2
    <2>4. PICK st : st = sink'.state
      OBVIOUS
    <2>5. ASSUME NEW f \in Reader
          PROVE  /\ IsBefore(f, b) => IsBefore(f, d)
                 /\ IsBefore(f, b) /\ UpToDate(f, b, st) => UpToDate(f, d, st)
      BY <2>3, ChainGrows
    <2>6. PICK u \in Seq(PieceType) : u = stream'
      BY <1>0 DEF TrafficTyped
    <2>7. Chained(G, u, d, st)
      <3>1. Chained(G, u, b, st) /\ G \in [0..Len(u) -> Reader]
        BY <1>h, <2>1, <2>4, <2>6
      <3> QED
        BY <2>5, <3>1, ChainLater
    <2> QED
      BY <1>e, <1>h, <2>2, <2>4, <2>6, <2>7
  <1>1. ASSUME NEW c \in CPUs, Handles(c) PROVE ShareInv'
    <2>1. UNCHANGED <<shareVars, prevStat, thisStat, stream, sink>>
      BY <1>1, HandlesKeeps
    <2>2. Grows(StatNow, StatNow')
      BY <1>0, <1>1, <1>a, HandlesGrow
    <2> QED
      BY <1>b, <1>h, <2>1, <2>2
  <1>2. CASE Walks
    <2>1. UNCHANGED <<shareVars, prevStat, thisStat, stream, sink>> /\ StatNow' = StatNow
      BY <1>2, <1>a, WalksKeeps, WalksNow
    <2> QED
      BY <1>b, <1>e, <2>1
  <1>3. CASE PrintVolume
    <2>1. /\ UNCHANGED <<shareVars, prevStat, thisStat, quic, ipv6, total, held, read6>>
          /\ at = "print" /\ at' \in {"ipv6", "poll"} /\ read' = 0
          /\ \/ read = 0 /\ UNCHANGED <<sink, stream>>
             \/ Emit(VolNow)
      BY <1>3 DEF PrintVolume, serverVars, linkVars, handleVars, VolNow
    <2>2. held \in Nat /\ read \in Nat
      BY <1>a DEF TapTyped
    <2>3. Due = read + held /\ Due' = held /\ Ipv6Now' = Ipv6Now
      BY <2>1, <2>2 DEF Due, Ipv6Now
    <2>4. StatNow' = [StatNow EXCEPT !.held = held]
      BY <2>1, <2>3 DEF StatNow
    <2>5. StatNow.held = read + held
      BY <2>3 DEF StatNow
    <2>6. CASE read = 0 /\ UNCHANGED <<sink, stream>>
      <3>1. StatNow' = StatNow
        BY <2>1, <2>2, <2>3, <2>6 DEF StatNow
      <3> QED
        BY <1>b, <1>e, <2>1, <2>6, <3>1
    <2>7. CASE Emit(VolNow)
      <3>1. VolNow.kind = "vol" /\ VolNow.bytes = read /\ VolNow \in Line
        BY <1>c DEF VolNow, Line
      <3>2. PICK b \in StatLine : b = StatNow
        BY <1>c
      <3>3. PICK d : d = StatNow'
        OBVIOUS
      <3>4. PICK line \in Line : line = VolNow
        BY <3>1
      <3>5. PICK left \in Nat : left = held
        BY <2>2
      <3>6. /\ line.kind = "vol" /\ line.bytes \in Nat /\ b.held = line.bytes + left
            /\ d = [b EXCEPT !.held = left] /\ Emit(line)
            /\ Chained(F, stream, b, sink.state)
        BY <1>b, <2>2, <2>4, <2>5, <2>7, <3>1, <3>2, <3>3, <3>4, <3>5
      <3>7. \E G \in [0..Len(stream') -> Reader] :
                G[0] = F[0] /\ Chained(G, stream', d, sink'.state)
        BY <1>a, <3>6, ChainEmit
      <3> QED
        BY <1>e, <2>1, <3>3, <3>7
    <2> QED
      BY <2>1, <2>6, <2>7
  <1>i. CASE Stat
    <2>1. /\ UNCHANGED <<shareVars, prevStat, thisStat>> /\ at = "quic" /\ Emit(StatRead)
      BY <1>i DEF Stat, serverVars, StatRead
    <2>2. PICK b \in StatLine : b = StatNow
      BY <1>c
    <2>3. b \in Line /\ Emit(b) /\ Chained(F, stream, b, sink.state)
      BY <1>a, <1>b, <2>1, <2>2, StatReadNow DEF Line
    <2>4. \E G \in [0..Len(stream') -> Reader] :
              G[0] = F[0] /\ Chained(G, stream', b, sink'.state)
      <3>1. 0 \in Nat
        OBVIOUS
      <3> QED
        BY <1>a, <2>3, <3>1, ChainEmit
    <2>5. Grows(StatNow, StatNow')
      BY <1>a, <1>i, StatGrows
    <2> QED
      BY <1>h, <2>1, <2>2, <2>4, <2>5
  <1>4. CASE Read
    <2>1. PICK p \in PieceType : p = stream[1]
      BY <1>4, <1>a, PieceRead
    <2>2. /\ Len(stream) \in Nat /\ Len(stream) >= 1 /\ stream # <<>>
          /\ stream' \in Seq(PieceType) /\ Len(stream') = Len(stream) - 1
          /\ \A i \in 1..(Len(stream) - 1) : stream'[i] = stream[i + 1]
      <3>1. stream # <<>>
        BY <1>4 DEF Read
      <3> QED
        BY <1>4, <1>a, <3>1, PieceRead
    <2>3. /\ \/ p.part = "head" /\ UNCHANGED <<shareVars, prevStat, thisStat>>
             \/ p.part = "tail" /\ HandleLine(p.line)
          /\ UNCHANGED <<tapVars, total, sink>>
      BY <1>4, <1>a, <2>1, ReadTyped DEF Read
    <2>4. StatNow' = StatNow
      BY <2>3 DEF StatNow, Ipv6Now, Due, tapVars, handleVars, loopVars
    <2>5. \E G \in [0..Len(stream') -> Reader] :
              G[0] = F[1] /\ Chained(G, stream', StatNow, sink.state)
      BY <1>a, <1>b, <2>2, ChainTail
    <2>6. Reads(ReaderNow, p, F[1]) /\ ReaderNow \in Reader
      <3>1. 1 \in 1..Len(stream) /\ 1 - 1 = 0 /\ 0 \in 0..Len(stream)
        BY <2>2
      <3>2. Reads(F[1 - 1], stream[1], F[1])
        BY <1>b, <3>1 DEF Chained
      <3> QED
        BY <1>b, <2>1, <3>1, <3>2
    <2>7. /\ F[1] = ReaderNow'
          /\ intervalIpv4Bytes' \in Nat /\ thisStat' \in StatLine \cup {Unknown}
          /\ thisStat' # Unknown =>
                 lastQuicBytes' = thisStat'.quic /\ lastIpv6Bytes' = thisStat'.ipv6
          /\ ShareAccountsForAll' /\ NeverOverstated'
      <3>0. F[1] = Outcome(ReaderNow, p)
        BY <2>6 DEF Reads
      <3>1. CASE p.part = "head" /\ UNCHANGED <<shareVars, prevStat, thisStat>>
        <4>1. ReaderNow' = ReaderNow
          BY <3>1 DEF ReaderNow, shareVars
        <4>2. ShareAccountsForAll' /\ NeverOverstated'
          BY <1>a, <3>1 DEF ShareAccountsForAll, NeverOverstated, Measurable, Between,
         Unmeasured, shareVars
        <4> QED
          BY <1>a, <3>0, <3>1, <4>1, <4>2 DEF Outcome, shareVars
      <3>2. CASE /\ p.part = "tail" /\ p.line.kind = "vol"
                 /\ AddVolume(p.line.bytes) /\ UNCHANGED <<prevStat, thisStat>>
        <4>1. p.line.bytes \in Nat
          BY <3>2 DEF PieceType, Line, VolLine, StatLine
        <4>2. /\ intervalIpv4Bytes' = intervalIpv4Bytes + p.line.bytes
              /\ UNCHANGED <<unmeasuredShare, lastQuicBytes, lastIpv6Bytes>>
          BY <3>2 DEF AddVolume
        <4>3. ReaderNow' = [n |-> intervalIpv4Bytes + p.line.bytes, stat |-> thisStat]
          BY <3>2, <4>2 DEF ReaderNow
        <4>4. Outcome(ReaderNow, p) = [n |-> intervalIpv4Bytes + p.line.bytes, stat |-> thisStat]
          BY <3>2 DEF ReaderNow, Outcome
        <4>5. ShareAccountsForAll' /\ NeverOverstated'
          BY <1>a, <3>2, <4>2 DEF ShareAccountsForAll, NeverOverstated, Measurable, Between, Unmeasured
        <4> QED
          BY <1>a, <3>0, <3>2, <4>1, <4>2, <4>3, <4>4, <4>5
      <3>3. CASE /\ p.part = "tail" /\ p.line.kind = "stat"
                 /\ onStat(p.line.quic, p.line.ipv6)
                 /\ prevStat' = thisStat /\ thisStat' = p.line
        <4>1. PICK b \in StatLine : b = p.line
          BY <3>3 DEF PieceType, Line, VolLine
        <4>2. /\ lastQuicBytes' = b.quic /\ lastIpv6Bytes' = b.ipv6 /\ intervalIpv4Bytes' = 0
              /\ thisStat' = b /\ prevStat' = thisStat
          BY <3>3, <4>1 DEF onStat
        <4>3. F[1] = ReaderNow'
          <5>1. ReaderNow' = [n |-> 0, stat |-> b]
            BY <4>2 DEF ReaderNow
          <5>2. Outcome(ReaderNow, p) = [n |-> 0, stat |-> b]
            BY <3>3, <4>1 DEF Outcome
          <5> QED
            BY <3>0, <5>1, <5>2
        <4>4. ASSUME thisStat # Unknown
              PROVE  /\ unmeasuredShare'[1] <= (b.total.quic - thisStat.total.quic)
                                               + (b.total.ipv6 - thisStat.total.ipv6)
                     /\ thisStat.total.faults = b.total.faults =>
                            /\ unmeasuredShare' =
                                   ShareOf((b.total.quic - thisStat.total.quic)
                                               + (b.total.ipv6 - thisStat.total.ipv6),
                                           unmeasuredShare'[2])
                            /\ unmeasuredShare'[2] <=
                                   (b.total.ipv4 - thisStat.total.ipv4) + thisStat.held - b.held
                                       + (b.total.ipv6 - thisStat.total.ipv6)
                            /\ b.total.met - thisStat.total.met = 0 =>
                                   unmeasuredShare'[2] =
                                       (b.total.ipv4 - thisStat.total.ipv4) + thisStat.held
                                           - b.held + (b.total.ipv6 - thisStat.total.ipv6)
          <5>1. PICK a \in StatLine : a = thisStat
            BY <1>a, <4>4
          <5>2. lastQuicBytes = a.quic /\ lastIpv6Bytes = a.ipv6
            BY <1>a, <4>4, <5>1
          <5>3. lastQuicBytes # Unknown /\ lastIpv6Bytes # Unknown
            BY <5>2, StatTyped, ShareAssumption DEF ShareAssumption
          <5>4. unmeasuredShare' =
                    ShareOf(counterDelta(b.quic, a.quic) + counterDelta(b.ipv6, a.ipv6),
                            intervalIpv4Bytes + counterDelta(b.ipv6, a.ipv6))
            BY <3>3, <4>1, <5>2, <5>3 DEF onStat
          <5>5. PICK f \in Reader : f = ReaderNow
            BY <2>6
          <5>6. f.n = intervalIpv4Bytes /\ f.stat = a /\ f.stat # Unknown
            BY <4>4, <5>1, <5>5 DEF ReaderNow
          <5>7. Truthful(f, b)
            BY <2>6, <3>3, <4>1, <5>5 DEF Reads
          <5>8. PICK share : share = unmeasuredShare'
            OBVIOUS
          <5>9. share = ShareOf(counterDelta(b.quic, a.quic) + counterDelta(b.ipv6, a.ipv6),
                                f.n + counterDelta(b.ipv6, a.ipv6))
            BY <5>4, <5>6, <5>8
          <5> QED
            BY <5>1, <5>6, <5>7, <5>8, <5>9, ShareIsRight
        <4>5. ShareAccountsForAll'
          BY <4>2, <4>4 DEF ShareAccountsForAll, Measurable, Between, Unmeasured
        <4>6. NeverOverstated'
          BY <4>2, <4>4 DEF NeverOverstated, Measurable, Between, Unmeasured
        <4> QED
          BY <4>2, <4>3, <4>5, <4>6
      <3> QED
        BY <2>3, <3>1, <3>2, <3>3 DEF HandleLine
    <2>8. \E G \in [0..Len(stream') -> Reader] :
              G[0] = ReaderNow' /\ Chained(G, stream', StatNow', sink'.state)
      BY <2>3, <2>4, <2>5, <2>7
    <2> QED
      BY <1>0, <2>7, <2>8 DEF ShareInv
  <1>f. ASSUME Fault,
               \/ UNCHANGED <<quic, ipv6, at, read6>>
               \/ quic' = 0 /\ ipv6' = 0 /\ at' = "poll"
        PROVE  \A f \in Reader : IsBefore(f, StatNow) =>
                   IsBefore(f, StatNow') /\ UpToDate(f, StatNow', sink'.state)
    <2>1. PICK b \in StatLine : b = StatNow
      BY <1>c
    <2>2. PICK d \in StatLine : d = StatNow'
      BY <1>d
    <2>3. /\ total \in Totals /\ total' \in Totals
          /\ total' = [total EXCEPT !.faults = total.faults + 1]
      BY <1>f, <1>a, FaultCounted DEF TapTyped
    <2>4. /\ total'.faults = total.faults + 1 /\ total'.quic = total.quic
          /\ total'.met = total.met /\ total'.ipv6 = total.ipv6 /\ total.ipv6 \in Nat
      BY <2>3 DEF Totals
    <2>5. /\ b.quic = quic /\ b.ipv6 = Ipv6Now.bytes /\ b.total.ipv6 = Ipv6Now.total
          /\ b.total.quic = total.quic /\ b.total.met = total.met
          /\ b.total.faults = total.faults
      BY <1>a, <2>1, NowIs
    <2>6. /\ d.quic = quic' /\ d.ipv6 = Ipv6Now'.bytes /\ d.total.ipv6 = Ipv6Now'.total
          /\ d.total.quic = total'.quic /\ d.total.met = total'.met
          /\ d.total.faults = total'.faults
      BY <2>2, <2>3 DEF Totals, StatNow
    <2>7. FaultBetween(b, d)
      <3>1. CASE UNCHANGED <<quic, ipv6, at, read6>>
        <4>1. Ipv6Now' = Ipv6Now
          BY <2>4, <3>1 DEF Ipv6Now
        <4> QED
          BY <2>4, <2>5, <2>6, <3>1, <4>1 DEF FaultBetween
      <3>2. CASE quic' = 0 /\ ipv6' = 0 /\ at' = "poll"
        <4>1. Ipv6Now'.bytes = 0 /\ Ipv6Now'.total = total.ipv6
          BY <2>4, <3>2 DEF Ipv6Now
        <4>2. Ipv6Now.total <= total.ipv6
          BY <1>a, <2>4 DEF Ipv6Now, RaceInv
        <4> QED
          BY <2>4, <2>5, <2>6, <3>2, <4>1, <4>2 DEF FaultBetween
      <3> QED
        BY <1>f, <3>1, <3>2
    <2> SUFFICES ASSUME NEW f \in Reader, IsBefore(f, b)
                 PROVE  IsBefore(f, d) /\ UpToDate(f, d, sink'.state)
      BY <2>1, <2>2
    <2> QED
      BY <2>7, ChainFault
  <1>g. ASSUME Fault, Cut,
               \/ UNCHANGED <<quic, ipv6, at, read6>>
               \/ quic' = 0 /\ ipv6' = 0 /\ at' = "poll"
        PROVE  \E G \in [0..Len(stream') -> Reader] :
                   G[0] = F[0] /\ Chained(G, stream', StatNow', sink'.state)
    <2>1. PICK m \in 0..Len(stream) : stream' = SubSeq(stream, 1, m)
      BY <1>g DEF Cut
    <2>2. PICK b \in StatLine : b = StatNow
      BY <1>c
    <2>3. PICK d \in StatLine : d = StatNow'
      BY <1>d
    <2>4. \A f \in Reader : IsBefore(f, b) => IsBefore(f, d) /\ UpToDate(f, d, sink'.state)
      BY <1>f, <1>g, <2>2, <2>3
    <2>5. Chained(F, stream, b, sink.state)
      BY <1>b, <2>2
    <2>6. \E G \in [0..Len(SubSeq(stream, 1, m)) -> Reader] :
              G[0] = F[0] /\ Chained(G, SubSeq(stream, 1, m), d, sink'.state)
      BY <1>a, <2>4, <2>5, ChainCut
    <2> QED
      BY <2>1, <2>3, <2>6
  <1>j. CASE Evict
    <2>1. /\ UNCHANGED <<shareVars, prevStat, thisStat, quic, ipv6, at, read6, stream, sink>>
          /\ Fault
      BY <1>j DEF Evict, serverVars, linkVars, loopVars
    <2>2. \A f \in Reader : IsBefore(f, StatNow) =>
              IsBefore(f, StatNow') /\ UpToDate(f, StatNow', sink'.state)
      BY <1>f, <2>1
    <2>3. PICK b \in StatLine, d \in StatLine : b = StatNow /\ d = StatNow'
      BY <1>c, <1>d
    <2>4. Chained(F, stream, d, sink'.state)
      <3>1. /\ \A f \in Reader : IsBefore(f, b) => IsBefore(f, d)
            /\ \A f \in Reader : IsBefore(f, b) /\ UpToDate(f, b, sink.state)
                                     => UpToDate(f, d, sink'.state)
        BY <2>2, <2>3
      <3>2. Chained(F, stream, b, sink.state)
        BY <1>b, <2>3
      <3> QED
        BY <1>a, <3>1, <3>2, ChainLater
    <2> QED
      BY <1>e, <2>1, <2>3, <2>4
  <1>5. CASE Crash
    <2>1. UNCHANGED <<shareVars, prevStat, thisStat>> /\ Fault /\ Cut
          /\ quic' = 0 /\ ipv6' = 0 /\ at' = "poll"
      BY <1>5 DEF Crash, serverVars
    <2> QED
      BY <1>e, <1>g, <2>1
  <1>6. CASE Breaks
    <2>1. /\ UNCHANGED <<shareVars, prevStat, thisStat, quic, ipv6, at, read6>>
          /\ Fault /\ Cut
      BY <1>6 DEF Breaks, serverVars, tapVars, handleVars, loopVars
    <2> QED
      BY <1>e, <1>g, <2>1
  <1>7. CASE ServerRestarts
    <2>1. /\ stream' = <<>> /\ intervalIpv4Bytes' = 0
          /\ thisStat' = Unknown /\ prevStat' = Unknown
      BY <1>7 DEF ServerRestarts
    <2>2. ShareAccountsForAll' /\ NeverOverstated'
      BY <2>1 DEF ShareAccountsForAll, NeverOverstated, Measurable
    <2>3. ReaderNow' \in Reader /\ ReaderNow'.stat = Unknown
      BY <2>1 DEF ReaderNow, Reader
    <2>4. PICK r \in Reader : r = ReaderNow'
      BY <2>3
    <2> DEFINE G == [i \in 0..0 |-> r]
    <2>5. Len(stream') = 0 /\ G \in [0..0 -> Reader] /\ G[0] = ReaderNow'
      BY <2>1, <2>4
    <2>6. \A i \in 0..0 : G[i] = r
      OBVIOUS
    <2> HIDE DEF G
    <2>7. Chained(G, stream', StatNow', sink'.state)
      <3>1. r.stat = Unknown
        BY <2>3, <2>4
      <3>2. \A i \in 1..Len(stream') : Reads(G[i - 1], stream'[i], G[i])
        BY <2>5
      <3> QED
        BY <2>5, <2>6, <3>1, <3>2 DEF Chained, IsBefore, UpToDate
    <2> QED
      BY <1>0, <2>1, <2>2, <2>5, <2>7 DEF ShareInv
  <1>8. CASE UNCHANGED trafficVars
    <2>1. UNCHANGED <<shareVars, prevStat, thisStat, stream, sink>> /\ StatNow' = StatNow
      BY <1>8 DEF trafficVars, serverVars, linkVars, tapVars, handleVars,
         loopVars, StatNow, Ipv6Now, Due
    <2> QED
      BY <1>b, <1>e, <2>1
  <1> QED
    BY <1>1, <1>2, <1>3, <1>4, <1>5, <1>6, <1>7, <1>8, <1>i, <1>j
       DEF TrafficNext, Handles, Walks

\* Without a fault between two stat lines, what onStat() computes of the second is
\* the share of the QUIC and IPv6 bytes that handle() counted between them in what
\* the drains took of the volume, which is at most what handle() accounted, up to
\* what the map held at either end; and all of it if no packet of the interval met
\* a drain or another CPU while it was accounted.
THEOREM ShareAccounts == TrafficSpec => []ShareAccountsForAll
  <1>1. ShareInv => ShareAccountsForAll
    BY DEF ShareInv
  <1> QED
    BY InitShare, StepShare, <1>1, PTL DEF TrafficSpec

\* Whatever breaks, crashes or restarts in between, onStat() counts at most the
\* QUIC and IPv6 bytes the tap saw between the two lines it compares.
THEOREM ShareIsNotOverstated == TrafficSpec => []NeverOverstated
  <1>1. ShareInv => NeverOverstated
    BY DEF ShareInv
  <1> QED
    BY InitShare, StepShare, <1>1, PTL DEF TrafficSpec
=============================================================================
