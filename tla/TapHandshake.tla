---------------------------- MODULE TapHandshake ----------------------------
(***************************************************************************)
(* Latency samples in the tap: the TCP part of handle() in                 *)
(* tap/src/downlink.bpf.c.                                                 *)
(*                                                                         *)
(* An outgoing SYN stores its time and sequence number under its flow; the *)
(* SYN-ACK that acknowledges it takes the entry out and makes a sample,    *)
(* which the per-destination debounce lets pass or not.  CPUs run the      *)
(* program concurrently, one map operation at a time.  The NIC hashes the  *)
(* incoming packets of a flow to one CPU, OnCpu[flow]; an outgoing SYN may *)
(* run anywhere and is one step.  Every destination here is the same one,  *)
(* the debounce being per destination, and the maps do not overflow.       *)
(*                                                                         *)
(* Times are 64-bit in the code and WORD values wide here: a difference of *)
(* two wraps.  In replay mode the clock is the packet's time stamp, which  *)
(* may go backwards.  MaxTime, MaxSyns and MaxSynAcks bound a behaviour.   *)
(***************************************************************************)
EXTENDS TapProgram, FiniteSets, Integers, Sequences

CONSTANTS Flows, Seqs,
          OnCpu,             \* [Flows -> CPUs]
          rl_window_ns, DL_RTT_MAX_NS, WORD,
          RingSize,          \* events the ring buffer holds
          MaxTime, MaxSyns, MaxSynAcks

ASSUME HandshakeAssumption ==
    /\ OnCpu \in [Flows -> CPUs]
    /\ Seqs \subseteq Nat /\ None \notin Nat
    /\ rl_window_ns \in Nat /\ DL_RTT_MAX_NS \in Nat /\ RingSize \in Nat
    /\ MaxTime \in Nat /\ MaxSyns \in Nat /\ MaxSynAcks \in Nat
    /\ WORD \in Nat /\ 2 * MaxTime < WORD /\ rl_window_ns <= MaxTime
    /\ DL_RTT_MAX_NS <= MaxTime

VARIABLES
    replay_mode, \* set before the program is loaded
    clock,       \* now_ns()
    flows,       \* flow -> [ts, seq] of its SYN, or None
    ratelimit,   \* time of the destination's last event, or None
    ring,        \* events in the ring buffer
    cpu,         \* the SYN-ACK each CPU is at: [pc, flow, seq, sent, at]
    syns,        \* every SYN sent, [flow, seq, at], and their number (history)
    synAcks,     \* SYN-ACKs so far (bound)
    events,      \* every event emitted: [flow, seq, sent, at, dt] (history)
    attempts,    \* times the debounce let something pass (history)
    limited,     \* times it did not (history)
    overlap      \* two CPUs were between lookup and update at once (history)

handshakeVars == <<replay_mode, clock, flows, ratelimit, ring, cpu, syns, synAcks, events,
                   attempts, limited, overlap>>

Time == 0..MaxTime
IdleCpu == [pc |-> "idle", flow |-> None, seq |-> None, sent |-> None, at |-> None]
Minus(a, b) == (a - b) % WORD     \* __u64 subtraction

HandshakeInit ==
    /\ replay_mode \in BOOLEAN
    /\ clock = 0
    /\ flows = [f \in Flows |-> None]
    /\ ratelimit = None /\ ring = 0
    /\ cpu = [c \in CPUs |-> IdleCpu]
    /\ syns = <<>> /\ synAcks = 0 /\ events = <<>>
    /\ attempts = {} /\ limited = {} /\ overlap = FALSE

\* Replay runs the program for one packet after the other, and consumes its
\* event in between.
MayHandle(c) ==
    /\ cpu[c].pc = "idle"
    /\ replay_mode => ring = 0 /\ \A d \in CPUs : cpu[d].pc = "idle"

\* tc egress: a SYN is sent, again or for the first time.
Syn(f, s) ==
    /\ Len(syns) < MaxSyns /\ \E c \in CPUs : MayHandle(c)
    /\ flows' = [flows EXCEPT ![f] = [ts |-> clock, seq |-> s]]
    /\ syns' = Append(syns, [flow |-> f, seq |-> s, at |-> clock])
    /\ UNCHANGED <<clock, ratelimit, ring, cpu, synAcks, events, attempts,
                   limited, overlap>>

\* v && ack_seq == v->seq + 1
Matches(f, s) == flows[f] # None /\ flows[f].seq = s

\* tc ingress: the SYN-ACK for sequence number s, if it closes a sample.  A
\* SYN-ACK may come late or twice.
SynAck(f, s) ==
    /\ synAcks < MaxSynAcks /\ MayHandle(OnCpu[f])
    /\ \E i \in 1..Len(syns) : syns[i].flow = f /\ syns[i].seq = s
    /\ Matches(f, s)
    /\ synAcks' = synAcks + 1
    /\ cpu' = [cpu EXCEPT ![OnCpu[f]] =
                  [pc |-> "match", flow |-> f, seq |-> s, sent |-> flows[f].ts,
                   at |-> None]]
    /\ UNCHANGED <<clock, flows, ratelimit, ring, syns, events, attempts,
                   limited, overlap>>

\* !(now <= sent_at || dt > DL_RTT_MAX_NS)
InRange(now, sent) == now > sent /\ Minus(now, sent) <= DL_RTT_MAX_NS

\* Mutation of TakeEntry: the flow stays.
TakeEntryKeeps(c) ==
    /\ cpu[c].pc = "match"
    /\ cpu' = [cpu EXCEPT ![c] = IF InRange(clock, @.sent)
                  THEN [@ EXCEPT !.pc = "debounce", !.at = clock] ELSE IdleCpu]
    /\ UNCHANGED <<clock, flows, ratelimit, ring, syns, synAcks, events,
                   attempts, limited, overlap>>

\* The clock is read and the flow deleted, whatever it holds by now.
TakeEntry(c) ==
    /\ cpu[c].pc = "match"
    /\ flows' = [flows EXCEPT ![cpu[c].flow] = None]
    /\ cpu' = [cpu EXCEPT ![c] = IF InRange(clock, @.sent)
                  THEN [@ EXCEPT !.pc = "debounce", !.at = clock] ELSE IdleCpu]
    /\ UNCHANGED <<clock, ratelimit, ring, syns, synAcks, events, attempts,
                   limited, overlap>>

\* last && now - *last < rl_window_ns
Limits(now) == ratelimit # None /\ Minus(now, ratelimit) < rl_window_ns

Debounce(c) ==
    /\ cpu[c].pc = "debounce"
    /\ overlap' = (overlap \/ \E d \in CPUs \ {c} : cpu[d].pc # "idle")
    /\ IF Limits(cpu[c].at)
       THEN /\ cpu' = [cpu EXCEPT ![c] = IdleCpu]
            /\ limited' = limited \cup {cpu[c].at}
       ELSE /\ cpu' = [cpu EXCEPT ![c].pc = "update"]
            /\ UNCHANGED limited
    /\ UNCHANGED <<clock, flows, ratelimit, ring, syns, synAcks, events, attempts>>

\* Mutation of UpdateLimit: the first event alone starts a window.
UpdateLimitOnce(c) ==
    /\ cpu[c].pc = "update"
    /\ ratelimit' = IF ratelimit = None THEN cpu[c].at ELSE ratelimit
    /\ attempts' = attempts \cup {cpu[c].at}
    /\ cpu' = [cpu EXCEPT ![c].pc = "reserve"]
    /\ UNCHANGED <<clock, flows, ring, syns, synAcks, events, limited, overlap>>

UpdateLimit(c) ==
    /\ cpu[c].pc = "update"
    /\ ratelimit' = cpu[c].at
    /\ attempts' = attempts \cup {cpu[c].at}
    /\ cpu' = [cpu EXCEPT ![c].pc = "reserve"]
    /\ UNCHANGED <<clock, flows, ring, syns, synAcks, events, limited, overlap>>

\* bpf_ringbuf_reserve() and submit; a full ring drops the sample, and the
\* destination stays silent for the window all the same.
Submit(c) ==
    /\ cpu[c].pc = "reserve"
    /\ cpu' = [cpu EXCEPT ![c] = IdleCpu]
    /\ IF ring < RingSize
       THEN /\ ring' = ring + 1
            /\ events' = Append(events,
                  [flow |-> cpu[c].flow, seq |-> cpu[c].seq, sent |-> cpu[c].sent,
                   at |-> cpu[c].at, dt |-> Minus(cpu[c].at, cpu[c].sent)])
       ELSE UNCHANGED <<ring, events>>
    /\ UNCHANGED <<clock, flows, ratelimit, syns, synAcks, attempts, limited,
                   overlap>>

\* The main loop polls the ring buffer.
Consume ==
    /\ ring > 0 /\ ring' = ring - 1
    /\ UNCHANGED <<clock, flows, ratelimit, cpu, syns, synAcks, events,
                   attempts, limited, overlap>>

\* CLOCK_MONOTONIC goes on; the time stamps of a capture are what they are.
\* A replay sets the time between two packets, never within one.
TimePasses ==
    /\ \E t \in Time :
          /\ IF replay_mode THEN \A c \in CPUs : cpu[c].pc = "idle"
                            ELSE t = clock + 1
          /\ clock' = t
    /\ UNCHANGED <<flows, ratelimit, ring, cpu, syns, synAcks, events,
                   attempts, limited, overlap>>

HandshakeNext ==
    /\ \/ \E f \in Flows, s \in Seqs : Syn(f, s) \/ SynAck(f, s)
       \/ \E c \in CPUs : TakeEntry(c) \/ Debounce(c) \/ UpdateLimit(c) \/ Submit(c)
       \/ Consume \/ TimePasses
    /\ UNCHANGED replay_mode

HandshakeSpec == HandshakeInit /\ [][HandshakeNext]_handshakeVars

(******************************** properties *******************************)

SynOf(e) == [flow |-> e.flow, seq |-> e.seq, at |-> e.sent]

\* A latency is the time between one SYN and the SYN-ACK that acknowledges it,
\* positive and at most 10 s, and a SYN gives at most one, however often a port
\* pair is used again, a SYN or a SYN-ACK is sent again, or a capture goes back
\* in time.
SampleOfOneHandshake ==
    \A i \in 1..Len(events) :
        LET e == events[i]
        IN  /\ e.dt = e.at - e.sent /\ e.dt > 0 /\ e.dt <= DL_RTT_MAX_NS
            /\ Cardinality({j \in 1..Len(events) : SynOf(events[j]) = SynOf(e)})
                 <= Cardinality({k \in 1..Len(syns) : syns[k] = SynOf(e)})

Spaced == \A i, j \in 1..Len(events) :
              i < j => events[j].at - events[i].at >= rl_window_ns

\* Unless two CPUs handle SYN-ACKs of a destination at the same time, its
\* events are at least the window apart; none is suppressed but within the
\* window of one that was let through.  With two CPUs both may pass: the look
\* at the last time and its update are two map operations.
SpacedAlone ==
    /\ ~overlap /\ ~replay_mode => Spaced
    /\ \A t \in limited : \E a \in attempts : a <= t /\ t - a < rl_window_ns
=============================================================================
