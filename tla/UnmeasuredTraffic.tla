-------------------------- MODULE UnmeasuredTraffic --------------------------
(***************************************************************************)
(* The unmeasured share from the packet to the server: handle() counts     *)
(* packets on every CPU (tap/src/downlink.bpf.c), the tap's main loop      *)
(* drains the volume once a second and prints the counters after every     *)
(* tenth drain (run_live() in tap/src/main.c), its sink sends the lines    *)
(* over TCP, and the server (stream/src/index.ts) puts the pieces together *)
(* again and turns the lines into a share (TrafficShare).                  *)
(*                                                                         *)
(* An IPv4 packet is accounted in steps: a lookup in bytes_by_dst, an add  *)
(* through the pointer or an insert, and then the QUIC counter.  A drain   *)
(* reads, deletes and prints, and a stat line reads one counter after the  *)
(* other.  Nothing excludes any of these from the others, so the map loses *)
(* bytes.  One destination; what the drain does with several, and a walk   *)
(* that an eviction makes start over, are in TapVolume.                    *)
(*                                                                         *)
(* A line travels as two pieces.  A connection that breaks delivers some   *)
(* of what was sent on it, cut anywhere; the sink finds out later, at a    *)
(* send that fails, and connects again at some later line.  The lines      *)
(* printed meanwhile are lost.  The server reads what it has of an old     *)
(* connection before it accepts a new one.  A server that restarts starts  *)
(* from nothing; so does a tap, whose machine may be lost with it.         *)
(*                                                                         *)
(* Packets of one byte.  MaxEvents bounds packets and faults together,     *)
(* MaxDrains the drains of a tap.  A counter, kept per CPU, is read and    *)
(* added up in one step.  met, total, prevStat, thisStat and whole are     *)
(* history: a stat line carries, besides its counters, what was true when  *)
(* it was printed.                                                         *)
(***************************************************************************)
EXTENDS TrafficShare, Integers, Sequences

CONSTANTS CPUs,           \* that run handle()
          StatEvery,      \* drains per stat line: ++ticks % 10 == 0
          MaxEvents, MaxDrains

ASSUME UnmeasuredAssumption ==
    /\ StatEvery \in Nat \ {0}
    /\ MaxEvents \in Nat /\ MaxDrains \in Nat

VARIABLES
    quic, ipv6,     \* DL_ST_QUIC_BYTES and DL_ST_IPV6_BYTES
    held,           \* bytes_by_dst: the bytes of its element, 0 without one
    cpu,            \* what each CPU's handle() found, or is about to count
    met,            \* the CPUs whose accounting overlaps another's or a drain
    at,             \* where run_live() is in drain_bytes() or print_stats()
    read,           \* drain_bytes(): what was read and is not yet printed
    read6,          \* print_stats(): the IPv6 counter, and what it counted
    ticks,          \* drains so far
    sink,           \* sink_fd: [conn, state], "down", "up", or "dead": it broke
    stream,         \* pieces on their way to the server: [conn, part, line]
    buffer,         \* the server's, of a line that is not complete: [conn, pieces]
    total,          \* all the tap ever counted, and the faults so far
    prevStat, thisStat, \* the last two stat lines the server read
    whole           \* every line it read was one line of the tap

handleVars == <<quic, ipv6, held, cpu, met>>
loopVars == <<at, read, read6, ticks>>
tapVars == <<handleVars, loopVars>>
linkVars == <<sink, stream>>
serverVars == <<shareVars, buffer, prevStat, thisStat, whole>>
trafficVars == <<serverVars, tapVars, linkVars, total>>

EmptyBuffer == [conn |-> 0, pieces |-> <<>>]

TrafficInit ==
    /\ ShareInit
    /\ quic = 0 /\ ipv6 = 0 /\ held = 0
    /\ cpu = [c \in CPUs |-> "idle"] /\ met = {}
    /\ at = "poll" /\ read = 0 /\ read6 = [bytes |-> 0, total |-> 0] /\ ticks = 0
    /\ sink = [conn |-> 0, state |-> "down"] /\ stream = <<>> /\ buffer = EmptyBuffer
    /\ total = [packets |-> 0, ipv4 |-> 0, ipv6 |-> 0, quic |-> 0, met |-> 0, faults |-> 0]
    /\ prevStat = Unknown /\ thisStat = Unknown /\ whole = TRUE

(********************************* handle() *******************************)

\* The CPUs between the lookup in bytes_by_dst and the add or insert.
Accounting == {c \in CPUs : cpu[c] \in {"hit", "stale", "miss"}}

\* The element that a CPU found is not in the map any more.
Stale(c) == IF cpu[c] = "hit" THEN "stale" ELSE cpu[c]

Seen(c) ==
    /\ cpu[c] = "idle"
    /\ total.packets + total.faults < MaxEvents

\* An IPv6 packet is counted by its bytes.
BumpIpv6(c) ==
    /\ Seen(c)
    /\ ipv6' = ipv6 + 1
    /\ total' = [total EXCEPT !.packets = @ + 1, !.ipv6 = @ + 1]
    /\ UNCHANGED <<serverVars, linkVars, loopVars, quic, held, cpu, met>>

\* An IPv4 packet: bpf_map_lookup_elem(&bytes_by_dst).
LookupBytes(c) ==
    /\ Seen(c)
    /\ cpu' = [cpu EXCEPT ![c] = IF held = 0 THEN "miss" ELSE "hit"]
    /\ met' = IF at \in {"walk", "delete"} \/ Accounting # {}
              THEN met \cup Accounting \cup {c} ELSE met
    /\ total' = [total EXCEPT !.packets = @ + 1]
    /\ UNCHANGED <<serverVars, linkVars, loopVars, quic, ipv6, held>>

\* Whether QUIC or not is looked at after the volume.
Accounts(c) ==
    /\ met' = met \ {c}
    /\ total' = [total EXCEPT !.ipv4 = @ + 1, !.met = IF c \in met THEN @ + 1 ELSE @]
    /\ UNCHANGED <<serverVars, linkVars, loopVars, quic, ipv6>>

\* __sync_fetch_and_add(bp, len).  An element that left the map takes the bytes
\* with it, unless it has been put to use again.
AddBytes(c) ==
    /\ \/ cpu[c] \in {"hit", "stale"} /\ held > 0 /\ held' = held + 1
       \/ cpu[c] = "stale" /\ UNCHANGED held
    /\ \E next \in {"idle", "bump"} : cpu' = [cpu EXCEPT ![c] = next]
    /\ Accounts(c)

\* bpf_map_update_elem(..., BPF_ANY): in place of what another CPU inserted.
InsertBytes(c) ==
    /\ cpu[c] = "miss"
    /\ held' = 1
    /\ \E next \in {"idle", "bump"} :
           cpu' = [d \in CPUs |-> IF d = c THEN next ELSE Stale(d)]
    /\ Accounts(c)

\* bump(DL_ST_QUIC_BYTES, len)
BumpQuic(c) ==
    /\ cpu[c] = "bump"
    /\ cpu' = [cpu EXCEPT ![c] = "idle"]
    /\ quic' = quic + 1
    /\ total' = [total EXCEPT !.quic = @ + 1]
    /\ UNCHANGED <<serverVars, linkVars, loopVars, ipv6, held, met>>

(******************************** run_live() ******************************)

Piece(part, line) == [conn |-> sink'.conn, part |-> part, line |-> line]
Sent(line) == stream' = stream \o <<Piece("head", line), Piece("tail", line)>>

\* emit() and sink_connect(): a sink that is down connects, or loses the line as
\* it is too early or nobody listens; on a connection that broke, a line is
\* still taken, or finds that it broke.
Emit(line) ==
    \/ sink.state = "up" /\ UNCHANGED sink /\ Sent(line)
    \/ /\ sink.state = "down"
       /\ sink' = [conn |-> sink.conn + 1, state |-> "up"]
       /\ Sent(line)
    \/ sink.state # "up" /\ UNCHANGED linkVars
    \/ /\ sink.state = "dead" /\ sink' = [sink EXCEPT !.state = "down"]
       /\ UNCHANGED stream

\* drain_bytes(), once a second.
DrainStarts ==
    /\ at = "poll" /\ ticks < MaxDrains
    /\ at' = "walk"
    /\ met' = met \cup Accounting
    /\ UNCHANGED <<serverVars, linkVars, quic, ipv6, held, cpu, read, read6, ticks, total>>

\* bpf_map_get_next_key() and bpf_map_lookup_elem()
ReadElement ==
    /\ at = "walk"
    /\ read' = held
    /\ at' = IF held = 0 THEN "print" ELSE "delete"
    /\ UNCHANGED <<serverVars, linkVars, handleVars, read6, ticks, total>>

\* bpf_map_delete_elem(): with all that was added since.
DeleteKey ==
    /\ at = "delete"
    /\ held' = 0 /\ cpu' = [c \in CPUs |-> Stale(c)]
    /\ at' = "print"
    /\ UNCHANGED <<serverVars, linkVars, quic, ipv6, met, read, read6, ticks, total>>

\* emit("vol ..."), of what was read, if anything; after every StatEvery-th
\* drain a stat line is due.
PrintVolume ==
    /\ at = "print"
    /\ IF read = 0 THEN UNCHANGED linkVars
       ELSE Emit([kind |-> "vol", bytes |-> read])
    /\ read' = 0 /\ ticks' = ticks + 1
    /\ at' = IF ticks' % StatEvery = 0 THEN "ipv6" ELSE "poll"
    /\ UNCHANGED <<serverVars, handleVars, read6, total>>

\* print_stats() reads the counters in the order of their numbers, ...
ReadIpv6 ==
    /\ at = "ipv6" /\ at' = "quic"
    /\ read6' = [bytes |-> ipv6, total |-> total.ipv6]
    /\ UNCHANGED <<serverVars, linkVars, handleVars, read, ticks, total>>

\* ... that of QUIC last of the two, and prints them.
Stat ==
    /\ at = "quic" /\ at' = "poll"
    /\ Emit([kind |-> "stat", quic |-> quic, ipv6 |-> read6.bytes, held |-> held,
             total |-> [total EXCEPT !.ipv6 = read6.total]])
    /\ read6' = [bytes |-> 0, total |-> 0]
    /\ UNCHANGED <<serverVars, handleVars, read, ticks, total>>

(********************************* faults *********************************)

Fault ==
    /\ total.packets + total.faults < MaxEvents
    /\ total' = [total EXCEPT !.faults = @ + 1]

\* An insert of another destination evicts this one, with its bytes.
Evict ==
    /\ Fault /\ held > 0
    /\ held' = 0 /\ cpu' = [c \in CPUs |-> Stale(c)]
    /\ met' = met \cup Accounting
    /\ UNCHANGED <<serverVars, linkVars, loopVars, quic, ipv6>>

\* What is on its way is cut off somewhere.
Cut == \E n \in 0..Len(stream) : stream' = SubSeq(stream, 1, n)

\* The tap dies: its maps, which the next one does not share, and its connection.
Crash ==
    /\ Fault /\ Cut
    /\ sink' = [sink EXCEPT !.state = "down"]
    /\ quic' = 0 /\ ipv6' = 0 /\ held' = 0
    /\ cpu' = [c \in CPUs |-> "idle"] /\ met' = {}
    /\ at' = "poll" /\ read' = 0 /\ read6' = [bytes |-> 0, total |-> 0] /\ ticks' = 0
    /\ UNCHANGED serverVars

\* The connection breaks.
Breaks ==
    /\ sink.state = "up" /\ Fault /\ Cut
    /\ sink' = [sink EXCEPT !.state = "dead"]
    /\ UNCHANGED <<serverVars, tapVars>>

\* The server is started again.
ServerRestarts ==
    /\ Fault /\ stream' = <<>>
    /\ sink' = IF sink.state = "up" THEN [sink EXCEPT !.state = "dead"] ELSE sink
    /\ unmeasuredShare' = <<0, 0>> /\ intervalIpv4Bytes' = 0
    /\ lastQuicBytes' = Unknown /\ lastIpv6Bytes' = Unknown
    /\ buffer' = EmptyBuffer /\ prevStat' = Unknown /\ thisStat' = Unknown
    /\ UNCHANGED <<tapVars, whole>>

(******************************** the server ******************************)

\* Mutation of Buffered: one buffer for all connections.
BufferedShared(conn) == buffer.pieces

\* The buffer of a connection's own data handler.
Buffered(conn) == IF buffer.conn = conn THEN buffer.pieces ELSE <<>>

\* handleLine() of a vol or a stat line.
HandleLine(line) ==
    \/ /\ line.kind = "vol"
       /\ AddVolume(line.bytes)
       /\ UNCHANGED <<prevStat, thisStat>>
    \/ /\ line.kind = "stat"
       /\ onStat(line.quic, line.ipv6)
       /\ prevStat' = thisStat /\ thisStat' = line

\* socket.on("data"): the pieces up to the newline are a line.
Read ==
    /\ stream # <<>> /\ stream' = Tail(stream)
    /\ LET piece  == Head(stream)
           pieces == Append(Buffered(piece.conn), piece)
       IN  \/ /\ piece.part = "head"
              /\ buffer' = [conn |-> piece.conn, pieces |-> pieces]
              /\ UNCHANGED <<shareVars, prevStat, thisStat, whole>>
           \/ /\ piece.part = "tail"
              /\ buffer' = EmptyBuffer
              /\ whole' = (whole /\ pieces = <<[piece EXCEPT !.part = "head"], piece>>)
              /\ HandleLine(piece.line)
    /\ UNCHANGED <<tapVars, sink, total>>

TrafficNext ==
    \/ \E c \in CPUs : \/ BumpIpv6(c) \/ LookupBytes(c) \/ AddBytes(c)
                       \/ InsertBytes(c) \/ BumpQuic(c)
    \/ DrainStarts \/ ReadElement \/ DeleteKey \/ PrintVolume \/ ReadIpv6 \/ Stat
    \/ Evict \/ Crash \/ Breaks \/ ServerRestarts \/ Read

TrafficSpec == TrafficInit /\ [][TrafficNext]_trafficVars

(******************************** properties *******************************)

\* What the tap counted of a kind between the last two stat lines.
Between(kind) == thisStat.total[kind] - prevStat.total[kind]
Unmeasured == Between("quic") + Between("ipv6")
Measurable == prevStat # Unknown

\* Without a fault in between, the share is that of the QUIC and IPv6 bytes in
\* the interval's bytes, up to the volume that the map held at either end.  Races
\* of the CPUs with the drain and each other can only lose volume, which
\* overstates the share; and it is exact if no packet of the interval met a
\* drain or another CPU while its volume was accounted.
ShareAccountsForAll ==
    Measurable /\ prevStat.total.faults = thisStat.total.faults =>
        LET all     == Between("ipv4") + prevStat.held - thisStat.held + Between("ipv6")
            counted == unmeasuredShare[2]
        IN  /\ unmeasuredShare = ShareOf(Unmeasured, counted)
            /\ counted <= all
            /\ Between("met") = 0 => counted = all

\* Whatever is lost, evicted or restarted, the server never counts more
\* unmeasured bytes than the tap did between the lines it read.
NeverOverstated == Measurable => unmeasuredShare[1] <= Unmeasured

\* However connections break, and whatever is cut off, the server never takes
\* what is left of a line for the start of another.
LinesWhole == whole
=============================================================================
