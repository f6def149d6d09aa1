----------------------------- MODULE Tap_proofs -----------------------------
(***************************************************************************)
(* Proofs about the tap.                                                   *)
(*                                                                         *)
(* TapAttach: for any number of taps, crashes, failed starts and stops, a  *)
(* lone tap sees both directions or leaves none behind.                    *)
(*                                                                         *)
(* TapHandshake: for any flows, CPUs and times, and in replay too, every   *)
(* latency sample is of one SYN and its SYN-ACK, and the debounce spaces   *)
(* the events of a destination as long as two CPUs do not meet in it.      *)
(*                                                                         *)
(* TapVolume: for any destinations, elements and CPUs, what is printed and *)
(* what the map holds is no more than what was seen, and the same of every *)
(* destination when nothing overlapped and nothing was evicted.            *)
(***************************************************************************)
EXTENDS TapAttach, TapHandshake, TapVolume, FiniteSetTheorems, SequenceTheorems, TLAPS

(********************************* filters *********************************)

Places == {"off", "create", "attach_in", "attach_eg", "loop", "detach_in",
           "detach_eg", "destroy", "down", "stopped"}

AttachTypeOK ==
    /\ pc \in [Taps -> Places]
    /\ filter \in [Dirs -> Taps \cup {None}]
    /\ alone \in BOOLEAN

\* While no two taps ever ran at once, at most one runs now.
OneRuns == alone => \A t, u \in Taps : Running(t) /\ Running(u) => t = u

\* What a lone tap has attached, and what it has left to detach.
FiltersFollow ==
    alone => \A t \in Taps :
        /\ pc[t] \in {"attach_eg", "loop"} => filter["ingress"] = t
        /\ pc[t] = "loop" => filter["egress"] = t
        /\ pc[t] \in {"detach_eg", "destroy"} => filter["ingress"] = None
        /\ pc[t] = "destroy" => filter["egress"] = None

AttachInv == AttachTypeOK /\ OneRuns /\ FiltersFollow

LEMMA InitAttachInv == AttachInit => AttachInv
BY DEF AttachInit, AttachInv, AttachTypeOK, OneRuns, FiltersFollow, Running, Dirs, Places

LEMMA InvIsWhole == AttachInv => LoneTapIsWhole
BY DEF AttachInv, FiltersFollow, LoneTapIsWhole, Dirs

\* A step of a tap that runs: the others do not run, if it is alone, and their
\* filters are of no matter.
LEMMA RunnerKeepsInv ==
    ASSUME AttachInv, NEW t \in Taps, Running(t), NEW to \in Places,
           pc' = [pc EXCEPT ![t] = to], alone' = alone,
           filter' \in [Dirs -> Taps \cup {None}],
           to \in {"attach_eg", "loop"} => filter'["ingress"] = t,
           to = "loop" => filter'["egress"] = t,
           to \in {"detach_eg", "destroy"} => filter'["ingress"] = None,
           to = "destroy" => filter'["egress"] = None
    PROVE  AttachInv'
<1>1. AttachTypeOK'
  BY DEF AttachInv, AttachTypeOK
<1>2. \A u \in Taps : pc'[u] = IF u = t THEN to ELSE pc[u]
  BY DEF AttachInv, AttachTypeOK
<1>3. ASSUME alone PROVE \A u \in Taps \ {t} : ~Running(u) /\ ~Running(u)'
  BY <1>2, <1>3 DEF AttachInv, OneRuns, Running
<1>4. OneRuns'
  BY <1>3 DEF OneRuns
<1>5. FiltersFollow'
  <2>1. SUFFICES ASSUME alone, NEW u \in Taps
                 PROVE  /\ pc'[u] \in {"attach_eg", "loop"} => filter'["ingress"] = u
                        /\ pc'[u] = "loop" => filter'["egress"] = u
                        /\ pc'[u] \in {"detach_eg", "destroy"} => filter'["ingress"] = None
                        /\ pc'[u] = "destroy" => filter'["egress"] = None
    BY DEF FiltersFollow
  <2>2. CASE u = t
    BY <1>2, <2>2
  <2>3. CASE u # t
    <3>1. pc'[u] \in {"off", "down", "stopped"}
      BY <1>3, <2>1, <2>3 DEF Running
    <3> QED
      BY <3>1
  <2> QED
    BY <2>2, <2>3
<1> QED
  BY <1>1, <1>4, <1>5 DEF AttachInv

LEMMA StepAttachInv == AttachInv /\ [AttachNext]_attachVars => AttachInv'
<1>1. SUFFICES ASSUME AttachInv, [AttachNext]_attachVars PROVE AttachInv'
  OBVIOUS
<1>2. /\ pc \in [Taps -> Places] /\ filter \in [Dirs -> Taps \cup {None}]
      /\ alone \in BOOLEAN
  BY <1>1 DEF AttachInv, AttachTypeOK
<1>3. ASSUME UNCHANGED <<pc, filter, alone>> PROVE AttachInv'
  BY <1>1, <1>3 DEF AttachInv, AttachTypeOK, OneRuns, FiltersFollow, Running
<1>4. ASSUME NEW t \in Taps, Start(t) PROVE AttachInv'
  <2>1. /\ pc' = [pc EXCEPT ![t] = "create"] /\ filter' = filter
        /\ alone' => alone /\ \A u \in Taps : ~Running(u)
        /\ alone' \in BOOLEAN
    BY <1>2, <1>4 DEF Start, Goto
  <2>2. AttachTypeOK'
    BY <1>2, <2>1 DEF AttachTypeOK, Places
  <2>3. \A u \in Taps : pc'[u] = IF u = t THEN "create" ELSE pc[u]
    BY <1>2, <2>1
  <2>4. ASSUME alone' PROVE \A u \in Taps \ {t} : pc'[u] \in {"off", "down", "stopped"}
    BY <2>1, <2>3, <2>4 DEF Running
  <2>5. OneRuns'
    BY <2>4 DEF OneRuns, Running
  <2>6. FiltersFollow'
    <3>1. ASSUME alone', NEW u \in Taps
          PROVE  pc'[u] \in {"create", "off", "down", "stopped"}
      BY <2>3, <2>4, <3>1
    <3> QED
      BY <3>1 DEF FiltersFollow
  <2> QED
    BY <2>2, <2>5, <2>6 DEF AttachInv
<1>5. ASSUME NEW t \in Taps, Create(t) PROVE AttachInv'
  <2>1. Running(t) /\ pc' = [pc EXCEPT ![t] = "attach_in"]
    BY <1>5 DEF Create, Goto, Running
  <2> QED
    BY <1>1, <1>2, <1>5, <2>1, RunnerKeepsInv DEF Create, Places
<1>6. ASSUME NEW t \in Taps, NEW to \in {"stopped", "down"}, Running(t),
             pc' = [pc EXCEPT ![t] = to], alone' = alone,
             filter' \in [Dirs -> Taps \cup {None}]
      PROVE  AttachInv'
  BY <1>1, <1>6, RunnerKeepsInv DEF Places
<1>7. ASSUME NEW t \in Taps, CreateFails(t) \/ Crash(t) PROVE AttachInv'
  <2>1. PICK to \in {"stopped", "down"} : pc' = [pc EXCEPT ![t] = to]
    BY <1>7 DEF CreateFails, Crash, Goto
  <2>2. Running(t) /\ alone' = alone /\ filter' = filter
    BY <1>7 DEF CreateFails, Crash, Goto, Running
  <2> QED
    BY <1>2, <1>6, <2>1, <2>2
<1>8. ASSUME NEW t \in Taps, AttachIngress(t) PROVE AttachInv'
  <2>1. Running(t) /\ alone' = alone
    BY <1>8 DEF AttachIngress, Attach, Running
  <2>2. CASE qdisc /\ filter["ingress"] = None
    <3>1. /\ pc' = [pc EXCEPT ![t] = "attach_eg"]
          /\ filter' = [filter EXCEPT !["ingress"] = t]
      BY <1>8, <2>2 DEF AttachIngress, Attach
    <3>2. filter' \in [Dirs -> Taps \cup {None}] /\ filter'["ingress"] = t
      BY <1>2, <3>1 DEF Dirs
    <3> QED
      BY <1>1, <2>1, <3>1, <3>2, RunnerKeepsInv DEF Places
  <2>3. CASE ~(qdisc /\ filter["ingress"] = None)
    <3>1. pc' = [pc EXCEPT ![t] = "detach_in"] /\ filter' = filter
      BY <1>8, <2>3 DEF AttachIngress, Attach
    <3> QED
      BY <1>1, <1>2, <2>1, <3>1, RunnerKeepsInv DEF Places
  <2> QED
    BY <2>2, <2>3
<1>9. ASSUME NEW t \in Taps, AttachEgress(t) PROVE AttachInv'
  <2>1. pc[t] = "attach_eg" /\ Running(t) /\ alone' = alone
    BY <1>9 DEF AttachEgress, Attach, Running
  <2>2. CASE qdisc /\ filter["egress"] = None
    <3>1. /\ pc' = [pc EXCEPT ![t] = "loop"]
          /\ filter' = [filter EXCEPT !["egress"] = t]
      BY <1>9, <2>2 DEF AttachEgress, Attach
    <3>2. /\ filter' \in [Dirs -> Taps \cup {None}]
          /\ filter'["egress"] = t /\ filter'["ingress"] = filter["ingress"]
      BY <1>2, <3>1 DEF Dirs
    <3>3. CASE alone
      <4>1. filter["ingress"] = t
        BY <1>1, <2>1, <3>3 DEF AttachInv, FiltersFollow
      <4> QED
        BY <1>1, <2>1, <3>1, <3>2, <4>1, RunnerKeepsInv DEF Places
    <3>4. CASE ~alone
      BY <1>2, <2>1, <3>1, <3>2, <3>4
      DEF AttachInv, AttachTypeOK, OneRuns, FiltersFollow, Places
    <3> QED
      BY <3>3, <3>4
  <2>3. CASE ~(qdisc /\ filter["egress"] = None)
    <3>1. pc' = [pc EXCEPT ![t] = "detach_in"] /\ filter' = filter
      BY <1>9, <2>3 DEF AttachEgress, Attach
    <3> QED
      BY <1>1, <1>2, <2>1, <3>1, RunnerKeepsInv DEF Places
  <2> QED
    BY <2>2, <2>3
<1>10. ASSUME NEW t \in Taps, LeaveLoop(t) \/ PollFails(t) PROVE AttachInv'
  <2>1. Running(t) /\ pc' = [pc EXCEPT ![t] = "detach_in"]
    BY <1>10 DEF LeaveLoop, PollFails, Goto, Running
  <2> QED
    BY <1>1, <1>2, <1>10, <2>1, RunnerKeepsInv DEF LeaveLoop, PollFails, Places
<1>11. ASSUME NEW t \in Taps, DetachIngress(t) PROVE AttachInv'
  <2>1. /\ Running(t) /\ pc' = [pc EXCEPT ![t] = "detach_eg"] /\ alone' = alone
        /\ filter' = [filter EXCEPT !["ingress"] = None]
    BY <1>11 DEF DetachIngress, Detach, Goto, Running
  <2>2. filter' \in [Dirs -> Taps \cup {None}] /\ filter'["ingress"] = None
    BY <1>2, <2>1 DEF Dirs
  <2> QED
    BY <1>1, <2>1, <2>2, RunnerKeepsInv DEF Places
<1>12. ASSUME NEW t \in Taps, DetachEgress(t) PROVE AttachInv'
  <2>1. /\ pc[t] = "detach_eg" /\ Running(t) /\ alone' = alone
        /\ pc' = [pc EXCEPT ![t] = "destroy"]
        /\ filter' = [filter EXCEPT !["egress"] = None]
    BY <1>12 DEF DetachEgress, Detach, Goto, Running
  <2>2. /\ filter' \in [Dirs -> Taps \cup {None}]
        /\ filter'["egress"] = None /\ filter'["ingress"] = filter["ingress"]
    BY <1>2, <2>1 DEF Dirs
  <2>3. CASE alone
    <3>1. filter["ingress"] = None
      BY <1>1, <2>1, <2>3 DEF AttachInv, FiltersFollow
    <3> QED
      BY <1>1, <2>1, <2>2, <3>1, RunnerKeepsInv DEF Places
  <2>4. CASE ~alone
    BY <1>2, <2>1, <2>2, <2>4
    DEF AttachInv, AttachTypeOK, OneRuns, FiltersFollow, Places
  <2> QED
    BY <2>3, <2>4
<1>13. ASSUME NEW t \in Taps, Destroy(t) PROVE AttachInv'
  <2>1. PICK to \in {"stopped", "down"} : pc' = [pc EXCEPT ![t] = to]
    BY <1>13 DEF Destroy, Goto
  <2>2. Running(t) /\ alone' = alone
    BY <1>13 DEF Destroy, Goto, Running
  <2>3. filter' \in [Dirs -> Taps \cup {None}]
    BY <1>2, <1>13 DEF Destroy
  <2> QED
    BY <1>6, <2>1, <2>2, <2>3
<1>14. ASSUME NEW t \in Taps, Signal(t) PROVE AttachInv'
  BY <1>3, <1>14 DEF Signal
<1>15. CASE UNCHANGED attachVars
  BY <1>3, <1>15 DEF attachVars
<1> QED
  BY <1>1, <1>4, <1>5, <1>7, <1>8, <1>9, <1>10, <1>11, <1>12, <1>13, <1>14, <1>15
  DEF AttachNext, TapStep

\* For any number of taps, crashes and stops: a tap that was never joined by
\* another sees both directions while it runs, and has cleared both when it ends,
\* whatever those before it left.
THEOREM LoneTapWhole == AttachSpec => []LoneTapIsWhole
<1>1. AttachInit => AttachInv
  BY InitAttachInv
<1>2. AttachInv /\ [AttachNext]_attachVars => AttachInv'
  BY StepAttachInv
<1>3. AttachInv => LoneTapIsWhole
  BY InvIsWhole
<1> QED
  BY <1>1, <1>2, <1>3, PTL DEF AttachSpec

(***************************** types of samples ****************************)

Entry == [ts : Time, seq : Seqs]
Handshake == [flow : Flows, seq : Seqs, at : Time]
Event == [flow : Flows, seq : Seqs, sent : Time, at : Time, dt : Nat]

\* What a CPU may be at.
Records == [pc : {"idle", "match", "debounce", "update", "reserve"},
            flow : Flows \cup {None}, seq : Seqs \cup {None},
            sent : Time \cup {None}, at : Time \cup {None}]

\* A SYN-ACK under way: on the CPU of its flow, and in range once it is timed.
AtWork(r) ==
    /\ r.flow \in Flows /\ r.seq \in Seqs /\ r.sent \in Time
    /\ r.pc # "match" => /\ r.at \in Time /\ r.at > r.sent
                         /\ r.at - r.sent <= DL_RTT_MAX_NS

HandshakeTypeOK ==
    /\ replay_mode \in BOOLEAN /\ clock \in Time /\ ring \in Nat
    /\ flows \in [Flows -> Entry \cup {None}]
    /\ ratelimit \in Time \cup {None}
    /\ cpu \in [CPUs -> Records]
    /\ \A c \in CPUs : cpu[c].pc # "idle" => AtWork(cpu[c]) /\ OnCpu[cpu[c].flow] = c
    /\ syns \in Seq(Handshake) /\ events \in Seq(Event)
    /\ attempts \subseteq Time /\ limited \subseteq Time /\ overlap \in BOOLEAN

(********************************* samples *********************************)

\* The SYNs, and the events, of one handshake.
SynsOf(x) == {k \in 1..Len(syns) : syns[k] = x}
EventsOf(x) == {j \in 1..Len(events) : SynOf(events[j]) = x}

\* The sample of x is under way on the CPU of its flow ...
OnItsWay(x) ==
    LET r == cpu[OnCpu[x.flow]]
    IN  r.pc # "idle" /\ r.flow = x.flow /\ r.seq = x.seq /\ r.sent = x.at

\* ... or x is in the table, and no SYN-ACK that matched before will take it out.
InTable(x) ==
    LET r == cpu[OnCpu[x.flow]]
    IN  /\ flows[x.flow] # None /\ flows[x.flow] = [ts |-> x.at, seq |-> x.seq]
        /\ ~(r.pc = "match" /\ r.flow = x.flow)

One(b) == IF b THEN 1 ELSE 0

\* A handshake has no more events, samples under way and entries than SYNs.
Once ==
    \A x \in Handshake :
        Cardinality(EventsOf(x)) + One(OnItsWay(x)) + One(InTable(x))
            <= Cardinality(SynsOf(x))

EventsInRange ==
    \A i \in 1..Len(events) :
        LET e == events[i]
        IN  e.dt = e.at - e.sent /\ e.dt > 0 /\ e.dt <= DL_RTT_MAX_NS

(********************************* spacing *********************************)

Timed(c) == cpu[c].pc \in {"debounce", "update", "reserve"}
Passed(c) == cpu[c].pc \in {"update", "reserve"}

\* The times of samples, of the last event and of the clock are in order, and
\* a sample that passed keeps its distance from every event ...
Together ==
    /\ Spaced
    /\ ratelimit # None => ratelimit <= clock
    /\ \A i \in 1..Len(events) : ratelimit # None /\ events[i].at <= ratelimit
    /\ \A c \in CPUs : Timed(c) =>
          /\ cpu[c].at <= clock
          /\ ratelimit # None => ratelimit <= cpu[c].at
    /\ \A c \in CPUs : \A d \in CPUs \ {c} :
          Passed(c) => ~Passed(d) /\ (Timed(d) => cpu[c].at <= cpu[d].at)
    /\ \A c \in CPUs : cpu[c].pc = "update" /\ ratelimit # None =>
          cpu[c].at - ratelimit >= rl_window_ns
    /\ \A c \in CPUs : cpu[c].pc = "reserve" =>
          /\ ratelimit = cpu[c].at
          /\ \A i \in 1..Len(events) : cpu[c].at - events[i].at >= rl_window_ns

\* ... live, and as long as no two CPUs were between look and update.
InStep == ~overlap /\ ~replay_mode => Together

LimitedNear ==
    /\ \A t \in limited : \E a \in attempts : a <= t /\ t - a < rl_window_ns
    /\ ratelimit # None => ratelimit \in attempts

LEMMA WordWide ==
    /\ MaxTime \in Nat /\ WORD \in Nat /\ rl_window_ns \in Nat
    /\ DL_RTT_MAX_NS \in Nat /\ MaxTime < WORD /\ rl_window_ns <= MaxTime
    /\ DL_RTT_MAX_NS <= MaxTime /\ Time \subseteq Nat /\ None \notin Time
    /\ MaxTime + rl_window_ns < WORD
    /\ \A t \in Time : t <= MaxTime
  BY HandshakeAssumption DEF Time

\* The difference of two times, and of two in the wrong order.
LEMMA Differences ==
    ASSUME NEW a \in Time, NEW b \in Time
    PROVE  /\ a >= b => Minus(a, b) = a - b
           /\ a < b => Minus(a, b) >= rl_window_ns
  <1>1. a \in Nat /\ b \in Nat /\ a <= MaxTime /\ b <= MaxTime
    BY WordWide
  <1>2. CASE a >= b
    <2>1. a - b \in Nat /\ a - b < WORD
      BY <1>1, <1>2, WordWide
    <2>2. (a - b) % WORD = a - b
      BY <2>1, WordWide
    <2> QED
      BY <1>1, <1>2, <2>2 DEF Minus
  <1>3. CASE a < b
    <2>1. a - b \in Int /\ a - b < 0 /\ -WORD <= a - b
      BY <1>1, <1>3, WordWide
    <2>2. (a - b) % WORD = a - b + WORD
      BY <2>1, WordWide
    <2>3. a - b + WORD >= rl_window_ns
      BY <1>1, WordWide
    <2> QED
      BY <1>1, <1>3, <2>2, <2>3 DEF Minus
  <1> QED
    BY <1>1, <1>2, <1>3

\* A step of CPU c alone.
LEMMA CpuStep ==
    ASSUME HandshakeTypeOK, NEW c \in CPUs, NEW r \in Records,
           cpu' = [cpu EXCEPT ![c] = r]
    PROVE  /\ cpu' \in [CPUs -> Records] /\ cpu'[c] = r
           /\ \A d \in CPUs \ {c} : cpu'[d] = cpu[d]
  BY DEF HandshakeTypeOK, Records

LEMMA HandshakeInitType == HandshakeInit => HandshakeTypeOK
  <1> SUFFICES ASSUME HandshakeInit PROVE HandshakeTypeOK
    OBVIOUS
  <1>1. 0 \in Time
    BY WordWide DEF Time
  <1>2. IdleCpu \in Records /\ IdleCpu.pc = "idle"
    BY DEF IdleCpu, Records
  <1> QED
    BY <1>1, <1>2, EmptySeq DEF HandshakeInit, HandshakeTypeOK, Records

\* What each step of a CPU leaves in cpu[c].
LEMMA TakeEntryCpu ==
    ASSUME HandshakeTypeOK, NEW c \in CPUs, TakeEntry(c)
    PROVE  /\ AtWork(cpu[c]) /\ cpu[c].pc = "match"
           /\ cpu[c].flow \in Flows /\ OnCpu[cpu[c].flow] = c
           /\ cpu' \in [CPUs -> Records]
           /\ \A d \in CPUs \ {c} : cpu'[d] = cpu[d]
           /\ \/ cpu'[c] = IdleCpu
              \/ /\ AtWork(cpu'[c]) /\ cpu'[c].pc = "debounce"
                 /\ cpu'[c].flow = cpu[c].flow /\ cpu'[c].seq = cpu[c].seq
                 /\ cpu'[c].sent = cpu[c].sent /\ cpu'[c].at = clock
  <1> DEFINE r == [cpu[c] EXCEPT !.pc = "debounce", !.at = clock]
  <1>1. cpu[c] \in Records /\ clock \in Time
    BY DEF HandshakeTypeOK, Records
  <1>2. AtWork(cpu[c]) /\ cpu[c].pc = "match" /\ OnCpu[cpu[c].flow] = c
    BY DEF TakeEntry, HandshakeTypeOK
  <1>3. /\ r \in Records /\ r.pc = "debounce" /\ r.flow = cpu[c].flow
        /\ r.seq = cpu[c].seq /\ r.sent = cpu[c].sent /\ r.at = clock
    BY <1>1 DEF Records
  <1>4. IdleCpu \in Records
    BY DEF IdleCpu, Records
  <1>5. cpu' = [cpu EXCEPT ![c] = IF InRange(clock, cpu[c].sent) THEN r ELSE IdleCpu]
    BY DEF TakeEntry
  <1>6. ASSUME InRange(clock, cpu[c].sent) PROVE AtWork(r)
    <2> DEFINE t == cpu[c].sent
    <2>1. t \in Time /\ cpu[c].flow \in Flows /\ cpu[c].seq \in Seqs
      BY <1>2 DEF AtWork
    <2>2. clock > t /\ Minus(clock, t) <= DL_RTT_MAX_NS
      BY <1>6 DEF InRange
    <2>3. Minus(clock, t) = clock - t
      <3> HIDE DEF t
      <3>1. clock >= t
        BY <1>1, <2>1, <2>2, WordWide
      <3> QED
        BY <1>1, <2>1, <3>1, Differences
    <2> HIDE DEF t
    <2>4. clock - t <= DL_RTT_MAX_NS
      BY <2>2, <2>3
    <2>5. r.sent = t
      BY <1>3 DEF t
    <2> HIDE DEF r
    <2> QED
      BY <1>1, <1>3, <2>1, <2>2, <2>4, <2>5 DEF AtWork
  <1> HIDE DEF r
  <1>7. CASE InRange(clock, cpu[c].sent)
    <2>1. cpu' = [cpu EXCEPT ![c] = r]
      BY <1>5, <1>7
    <2>2. AtWork(r)
      BY <1>6, <1>7
    <2>3. /\ cpu' \in [CPUs -> Records] /\ cpu'[c] = r
          /\ \A d \in CPUs \ {c} : cpu'[d] = cpu[d]
      BY <1>3, <2>1, CpuStep
    <2> QED
      BY <1>2, <1>3, <2>2, <2>3 DEF AtWork
  <1>8. CASE ~InRange(clock, cpu[c].sent)
    <2>1. cpu' = [cpu EXCEPT ![c] = IdleCpu]
      BY <1>5, <1>8
    <2> QED
      BY <1>2, <1>4, <2>1, CpuStep DEF AtWork
  <1> QED
    BY <1>7, <1>8

\* A later step of CPU c: it goes on to pc p, or is done.
LEMMA LaterCpu ==
    ASSUME HandshakeTypeOK, NEW c \in CPUs, NEW p \in {"update", "reserve"},
           cpu[c].pc \in {"debounce", "update", "reserve"},
           \/ cpu' = [cpu EXCEPT ![c] = IdleCpu]
           \/ cpu' = [cpu EXCEPT ![c].pc = p]
    PROVE  /\ AtWork(cpu[c]) /\ cpu[c].at \in Time /\ cpu[c].at > cpu[c].sent
           /\ cpu[c].at - cpu[c].sent <= DL_RTT_MAX_NS
           /\ cpu[c].flow \in Flows /\ OnCpu[cpu[c].flow] = c
           /\ cpu' \in [CPUs -> Records]
           /\ \A d \in CPUs \ {c} : cpu'[d] = cpu[d]
           /\ cpu' = [cpu EXCEPT ![c] = IdleCpu] => cpu'[c] = IdleCpu
           /\ cpu' = [cpu EXCEPT ![c].pc = p] =>
                 /\ cpu'[c].pc = p /\ AtWork(cpu'[c])
                 /\ cpu'[c].flow = cpu[c].flow /\ cpu'[c].seq = cpu[c].seq
                 /\ cpu'[c].sent = cpu[c].sent /\ cpu'[c].at = cpu[c].at
  <1> DEFINE r == [cpu[c] EXCEPT !.pc = p]
  <1>1. cpu[c] \in Records
    BY DEF HandshakeTypeOK, Records
  <1>2. AtWork(cpu[c]) /\ OnCpu[cpu[c].flow] = c
    BY DEF HandshakeTypeOK
  <1>3. /\ r \in Records /\ r.pc = p /\ r.flow = cpu[c].flow
        /\ r.seq = cpu[c].seq /\ r.sent = cpu[c].sent /\ r.at = cpu[c].at
    BY <1>1 DEF Records
  <1>4. IdleCpu \in Records
    BY DEF IdleCpu, Records
  <1>5. AtWork(r)
    BY <1>2, <1>3 DEF AtWork
  <1>6. [cpu EXCEPT ![c].pc = p] = [cpu EXCEPT ![c] = r]
    BY DEF HandshakeTypeOK
  <1>7. /\ cpu[c].at \in Time /\ cpu[c].at > cpu[c].sent
        /\ cpu[c].at - cpu[c].sent <= DL_RTT_MAX_NS /\ cpu[c].flow \in Flows
    BY <1>2 DEF AtWork
  <1>8. /\ cpu' \in [CPUs -> Records]
        /\ \A d \in CPUs \ {c} : cpu'[d] = cpu[d]
        /\ cpu' = [cpu EXCEPT ![c] = IdleCpu] => cpu'[c] = IdleCpu
        /\ cpu' = [cpu EXCEPT ![c] = r] => cpu'[c] = r
    <2> HIDE DEF r
    <2>1. CASE cpu' = [cpu EXCEPT ![c] = IdleCpu]
      BY <1>4, <1>6, <2>1, CpuStep
    <2>2. CASE cpu' = [cpu EXCEPT ![c] = r]
      BY <1>3, <2>2, CpuStep
    <2> QED
      BY <1>6, <2>1, <2>2
  <1> HIDE DEF r
  <1> QED
    BY <1>2, <1>3, <1>5, <1>6, <1>7, <1>8

\* Typed CPUs after a step of CPU c.
LEMMA CpusTyped ==
    ASSUME HandshakeTypeOK, NEW c \in CPUs, cpu' \in [CPUs -> Records],
           \A d \in CPUs \ {c} : cpu'[d] = cpu[d],
           cpu'[c].pc # "idle" => AtWork(cpu'[c]) /\ OnCpu[cpu'[c].flow] = c
    PROVE  \A d \in CPUs :
              cpu'[d].pc # "idle" => AtWork(cpu'[d]) /\ OnCpu[cpu'[d].flow] = d
  BY DEF HandshakeTypeOK

LEMMA SynAckCpu ==
    ASSUME HandshakeTypeOK, NEW f \in Flows, NEW s \in Seqs, SynAck(f, s)
    PROVE  /\ OnCpu[f] \in CPUs /\ cpu[OnCpu[f]].pc = "idle"
           /\ cpu' \in [CPUs -> Records] /\ AtWork(cpu'[OnCpu[f]])
           /\ cpu'[OnCpu[f]].pc = "match" /\ cpu'[OnCpu[f]].flow = f
           /\ cpu'[OnCpu[f]].seq = s /\ cpu'[OnCpu[f]].sent = flows[f].ts
           /\ \A d \in CPUs \ {OnCpu[f]} : cpu'[d] = cpu[d]
           /\ flows[f] # None
           /\ flows[f] = [ts |-> flows[f].ts, seq |-> s] /\ flows[f].ts \in Time
  <1> DEFINE r == [pc |-> "match", flow |-> f, seq |-> s, sent |-> flows[f].ts,
                   at |-> None]
  <1>1. OnCpu[f] \in CPUs
    BY HandshakeAssumption
  <1>2. /\ flows[f] # None /\ flows[f].seq = s /\ cpu[OnCpu[f]].pc = "idle"
        /\ cpu' = [cpu EXCEPT ![OnCpu[f]] = r]
    BY DEF SynAck, Matches, MayHandle
  <1>3. flows[f] \in Entry
    BY <1>2 DEF HandshakeTypeOK
  <1>4. flows[f].ts \in Time /\ flows[f] = [ts |-> flows[f].ts, seq |-> s]
    BY <1>2, <1>3 DEF Entry
  <1>5. r \in Records /\ AtWork(r)
    BY <1>4 DEF Records, AtWork
  <1>6. r.pc = "match" /\ r.flow = f /\ r.seq = s /\ r.sent = flows[f].ts
    OBVIOUS
  <1> HIDE DEF r
  <1>7. /\ cpu' \in [CPUs -> Records] /\ cpu'[OnCpu[f]] = r
        /\ \A d \in CPUs \ {OnCpu[f]} : cpu'[d] = cpu[d]
    BY <1>1, <1>2, <1>5, CpuStep
  <1> QED
    BY <1>1, <1>2, <1>4, <1>5, <1>6, <1>7

\* The event that CPU c submits, if the ring has room.
EventAt(c) ==
    [flow |-> cpu[c].flow, seq |-> cpu[c].seq, sent |-> cpu[c].sent,
     at |-> cpu[c].at, dt |-> Minus(cpu[c].at, cpu[c].sent)]

LEMMA SubmitEvent ==
    ASSUME HandshakeTypeOK, NEW c \in CPUs, Submit(c)
    PROVE  /\ EventAt(c) \in Event
           /\ EventAt(c).dt = EventAt(c).at - EventAt(c).sent
           /\ EventAt(c).dt > 0 /\ EventAt(c).dt <= DL_RTT_MAX_NS
           /\ events' = events \/ events' = Append(events, EventAt(c))
           /\ events' \in Seq(Event)
  <1> DEFINE a == cpu[c].at
             b == cpu[c].sent
  <1>1. /\ AtWork(cpu[c]) /\ a \in Time /\ a > b /\ a - b <= DL_RTT_MAX_NS
        /\ b \in Time /\ cpu[c].flow \in Flows /\ cpu[c].seq \in Seqs
    BY DEF Submit, HandshakeTypeOK, AtWork
  <1>2. events' = events \/ events' = Append(events, EventAt(c))
    BY DEF Submit, EventAt
  <1>3. /\ EventAt(c).at = a /\ EventAt(c).sent = b /\ EventAt(c).dt = Minus(a, b)
        /\ EventAt(c).flow = cpu[c].flow /\ EventAt(c).seq = cpu[c].seq
        /\ EventAt(c) = [flow |-> cpu[c].flow, seq |-> cpu[c].seq, sent |-> b,
                         at |-> a, dt |-> Minus(a, b)]
    BY DEF EventAt
  <1> HIDE DEF a, b
  <1>4. Minus(a, b) = a - b /\ a - b \in Nat /\ a - b > 0
    <2>1. a \in Nat /\ b \in Nat /\ a >= b
      BY <1>1, WordWide
    <2> QED
      BY <1>1, <2>1, Differences
  <1>5. EventAt(c) \in Event
    BY <1>1, <1>3, <1>4 DEF Event
  <1>6. events' \in Seq(Event)
    <2>1. events \in Seq(Event)
      BY DEF HandshakeTypeOK
    <2>2. Append(events, EventAt(c)) \in Seq(Event)
      BY <1>5, <2>1, AppendProperties
    <2> QED
      BY <1>2, <2>1, <2>2
  <1> QED
    BY <1>1, <1>2, <1>3, <1>4, <1>5, <1>6

LEMMA HandshakeStepType == HandshakeTypeOK /\ [HandshakeNext]_handshakeVars => HandshakeTypeOK'
  <1> SUFFICES ASSUME HandshakeTypeOK, [HandshakeNext]_handshakeVars
               PROVE  HandshakeTypeOK'
    OBVIOUS
  <1>1. ASSUME NEW f \in Flows, NEW s \in Seqs, Syn(f, s), UNCHANGED replay_mode
        PROVE  HandshakeTypeOK'
    <2>1. [ts |-> clock, seq |-> s] \in Entry
      BY DEF Entry, HandshakeTypeOK
    <2>2. [flow |-> f, seq |-> s, at |-> clock] \in Handshake
      BY DEF Handshake, HandshakeTypeOK
    <2>3. syns' \in Seq(Handshake)
      BY <1>1, <2>2, AppendProperties DEF Syn, HandshakeTypeOK
    <2>4. flows' \in [Flows -> Entry \cup {None}]
      BY <1>1, <2>1 DEF Syn, HandshakeTypeOK
    <2> QED
      BY <1>1, <2>3, <2>4 DEF Syn, HandshakeTypeOK
  <1>2. ASSUME NEW f \in Flows, NEW s \in Seqs, SynAck(f, s), UNCHANGED replay_mode
        PROVE  HandshakeTypeOK'
    <2>1. /\ OnCpu[f] \in CPUs /\ cpu' \in [CPUs -> Records]
          /\ AtWork(cpu'[OnCpu[f]]) /\ cpu'[OnCpu[f]].flow = f
          /\ \A d \in CPUs \ {OnCpu[f]} : cpu'[d] = cpu[d]
      BY <1>2, SynAckCpu
    <2>2. \A d \in CPUs :
              cpu'[d].pc # "idle" => AtWork(cpu'[d]) /\ OnCpu[cpu'[d].flow] = d
      BY <2>1, CpusTyped
    <2> QED
      BY <1>2, <2>1, <2>2 DEF SynAck, HandshakeTypeOK, AtWork
  <1>3. ASSUME NEW c \in CPUs, TakeEntry(c), UNCHANGED replay_mode
        PROVE  HandshakeTypeOK'
    <2>1. /\ cpu' \in [CPUs -> Records] /\ cpu[c].flow \in Flows
          /\ \A d \in CPUs \ {c} : cpu'[d] = cpu[d]
          /\ cpu'[c].pc # "idle" => AtWork(cpu'[c]) /\ OnCpu[cpu'[c].flow] = c
      <3>1. IdleCpu.pc = "idle"
        BY DEF IdleCpu
      <3> QED
        BY <1>3, <3>1, TakeEntryCpu
    <2>2. \A d \in CPUs :
              cpu'[d].pc # "idle" => AtWork(cpu'[d]) /\ OnCpu[cpu'[d].flow] = d
      BY <2>1, CpusTyped
    <2>3. flows' \in [Flows -> Entry \cup {None}]
      BY <1>3 DEF TakeEntry, HandshakeTypeOK
    <2> QED
      BY <1>3, <2>1, <2>2, <2>3 DEF TakeEntry, HandshakeTypeOK, AtWork
  <1>4. ASSUME NEW c \in CPUs, Debounce(c), UNCHANGED replay_mode
        PROVE  HandshakeTypeOK'
    <2>1. /\ cpu' \in [CPUs -> Records] /\ cpu[c].at \in Time
          /\ \A d \in CPUs \ {c} : cpu'[d] = cpu[d]
          /\ cpu'[c].pc # "idle" => AtWork(cpu'[c]) /\ OnCpu[cpu'[c].flow] = c
      <3>1. cpu[c].pc \in {"debounce", "update", "reserve"}
        BY <1>4 DEF Debounce
      <3>2. \/ cpu' = [cpu EXCEPT ![c] = IdleCpu]
            \/ cpu' = [cpu EXCEPT ![c].pc = "update"]
        BY <1>4 DEF Debounce
      <3>3. IdleCpu.pc = "idle"
        BY DEF IdleCpu
      <3> QED
        BY <3>1, <3>2, <3>3, LaterCpu
    <2>2. \A d \in CPUs :
              cpu'[d].pc # "idle" => AtWork(cpu'[d]) /\ OnCpu[cpu'[d].flow] = d
      BY <2>1, CpusTyped
    <2> QED
      BY <1>4, <2>1, <2>2 DEF Debounce, HandshakeTypeOK, AtWork
  <1>5. ASSUME NEW c \in CPUs, UpdateLimit(c), UNCHANGED replay_mode
        PROVE  HandshakeTypeOK'
    <2>1. /\ cpu' \in [CPUs -> Records] /\ cpu[c].at \in Time
          /\ \A d \in CPUs \ {c} : cpu'[d] = cpu[d]
          /\ cpu'[c].pc # "idle" => AtWork(cpu'[c]) /\ OnCpu[cpu'[c].flow] = c
      <3>1. cpu[c].pc \in {"debounce", "update", "reserve"}
        BY <1>5 DEF UpdateLimit
      <3>2. \/ cpu' = [cpu EXCEPT ![c] = IdleCpu]
            \/ cpu' = [cpu EXCEPT ![c].pc = "reserve"]
        BY <1>5 DEF UpdateLimit
      <3>3. IdleCpu.pc = "idle"
        BY DEF IdleCpu
      <3> QED
        BY <3>1, <3>2, <3>3, LaterCpu
    <2>2. \A d \in CPUs :
              cpu'[d].pc # "idle" => AtWork(cpu'[d]) /\ OnCpu[cpu'[d].flow] = d
      BY <2>1, CpusTyped
    <2> QED
      BY <1>5, <2>1, <2>2 DEF UpdateLimit, HandshakeTypeOK, AtWork
  <1>6. ASSUME NEW c \in CPUs, Submit(c), UNCHANGED replay_mode
        PROVE  HandshakeTypeOK'
    <2>1. /\ cpu' \in [CPUs -> Records]
          /\ \A d \in CPUs \ {c} : cpu'[d] = cpu[d]
          /\ cpu'[c].pc # "idle" => AtWork(cpu'[c]) /\ OnCpu[cpu'[c].flow] = c
      <3>1. cpu[c].pc \in {"debounce", "update", "reserve"}
        BY <1>6 DEF Submit
      <3>2. \/ cpu' = [cpu EXCEPT ![c] = IdleCpu]
            \/ cpu' = [cpu EXCEPT ![c].pc = "reserve"]
        BY <1>6 DEF Submit
      <3>3. IdleCpu.pc = "idle"
        BY DEF IdleCpu
      <3> QED
        BY <3>1, <3>2, <3>3, LaterCpu
    <2>2. \A d \in CPUs :
              cpu'[d].pc # "idle" => AtWork(cpu'[d]) /\ OnCpu[cpu'[d].flow] = d
      BY <2>1, CpusTyped
    <2>3. events' \in Seq(Event) /\ ring' \in Nat
      <3>1. ring' = ring \/ ring' = ring + 1
        BY <1>6 DEF Submit
      <3>2. ring \in Nat
        BY DEF HandshakeTypeOK
      <3> QED
        BY <1>6, <3>1, <3>2, SubmitEvent
    <2> QED
      BY <1>6, <2>1, <2>2, <2>3 DEF Submit, HandshakeTypeOK, AtWork
  <1>7. ASSUME Consume, UNCHANGED replay_mode PROVE HandshakeTypeOK'
    BY <1>7 DEF Consume, HandshakeTypeOK, AtWork
  <1>8. ASSUME TimePasses, UNCHANGED replay_mode PROVE HandshakeTypeOK'
    BY <1>8 DEF TimePasses, HandshakeTypeOK, AtWork
  <1>9. ASSUME UNCHANGED handshakeVars PROVE HandshakeTypeOK'
    BY <1>9 DEF handshakeVars, HandshakeTypeOK, AtWork
  <1> QED
    BY <1>1, <1>2, <1>3, <1>4, <1>5, <1>6, <1>7, <1>8, <1>9 DEF HandshakeNext

(********************************* samples *********************************)

\* The SYNs and the events of a handshake, after one of them more or none.
LEMMA Counts ==
    ASSUME HandshakeTypeOK, NEW x
    PROVE  /\ IsFiniteSet(SynsOf(x)) /\ Cardinality(SynsOf(x)) \in Nat
           /\ IsFiniteSet(EventsOf(x)) /\ Cardinality(EventsOf(x)) \in Nat
  <1>1. Len(syns) \in Nat /\ Len(events) \in Nat
    BY DEF HandshakeTypeOK
  <1>2. IsFiniteSet(1..Len(syns)) /\ IsFiniteSet(1..Len(events))
    BY <1>1, FS_Interval
  <1>3. SynsOf(x) \subseteq 1..Len(syns) /\ EventsOf(x) \subseteq 1..Len(events)
    BY DEF SynsOf, EventsOf
  <1>4. IsFiniteSet(SynsOf(x)) /\ IsFiniteSet(EventsOf(x))
    BY <1>2, <1>3, FS_Subset
  <1> QED
    BY <1>4, FS_CardinalityType

LEMMA SynsGrow ==
    ASSUME HandshakeTypeOK, NEW h \in Handshake, syns' = Append(syns, h), NEW x
    PROVE  /\ x = h => Cardinality(SynsOf(x)') = Cardinality(SynsOf(x)) + 1
           /\ x # h => SynsOf(x)' = SynsOf(x)
  <1> DEFINE n == Len(syns)
  <1>1. syns \in Seq(Handshake) /\ n \in Nat
    BY DEF HandshakeTypeOK
  <1>2. /\ Len(syns') = n + 1 /\ syns'[n + 1] = h
        /\ \A k \in 1..n : syns'[k] = syns[k]
    BY <1>1, AppendProperties
  <1>3. 1..(n + 1) = 1..n \cup {n + 1} /\ n + 1 \notin 1..n
    BY <1>1
  <1>4. /\ SynsOf(x)' = {k \in 1..(n + 1) : syns'[k] = x}
        /\ SynsOf(x) = {k \in 1..n : syns[k] = x}
    BY <1>2 DEF SynsOf
  <1> HIDE DEF n
  <1>5. CASE x = h
    <2>1. SynsOf(x)' = SynsOf(x) \cup {n + 1} /\ n + 1 \notin SynsOf(x)
      BY <1>2, <1>3, <1>4, <1>5
    <2> QED
      BY <1>5, <2>1, Counts, FS_AddElement
  <1>6. CASE x # h
    BY <1>2, <1>3, <1>4, <1>6
  <1> QED
    BY <1>5, <1>6

LEMMA EventsGrow ==
    ASSUME HandshakeTypeOK, NEW e \in Event, events' = Append(events, e), NEW x
    PROVE  /\ x = SynOf(e) => Cardinality(EventsOf(x)') = Cardinality(EventsOf(x)) + 1
           /\ x # SynOf(e) => EventsOf(x)' = EventsOf(x)
  <1> DEFINE n == Len(events)
  <1>1. events \in Seq(Event) /\ n \in Nat
    BY DEF HandshakeTypeOK
  <1>2. /\ Len(events') = n + 1 /\ events'[n + 1] = e
        /\ \A k \in 1..n : events'[k] = events[k]
    BY <1>1, AppendProperties
  <1>3. 1..(n + 1) = 1..n \cup {n + 1} /\ n + 1 \notin 1..n
    BY <1>1
  <1>4. /\ EventsOf(x)' = {k \in 1..(n + 1) : SynOf(events'[k]) = x}
        /\ EventsOf(x) = {k \in 1..n : SynOf(events[k]) = x}
    BY <1>2 DEF EventsOf
  <1>5. /\ SynOf(events'[n + 1]) = SynOf(e)
        /\ \A k \in 1..n : SynOf(events'[k]) = SynOf(events[k])
    BY <1>2
  <1> HIDE DEF n
  <1>6. CASE x = SynOf(e)
    <2>1. EventsOf(x)' = EventsOf(x) \cup {n + 1} /\ n + 1 \notin EventsOf(x)
      BY <1>3, <1>4, <1>5, <1>6
    <2> QED
      BY <1>6, <2>1, Counts, FS_AddElement
  <1>7. CASE x # SynOf(e)
    BY <1>3, <1>4, <1>5, <1>7
  <1> QED
    BY <1>6, <1>7

\* A step that sends no SYN and submits no event keeps Once when a sample can
\* only go on its way from the table.
LEMMA OnceMoved ==
    ASSUME HandshakeTypeOK, Once, UNCHANGED <<syns, events>>,
           \A x \in Handshake :
              /\ InTable(x)' => InTable(x)
              /\ OnItsWay(x)' => OnItsWay(x) \/ (InTable(x) /\ ~InTable(x)')
    PROVE  Once'
  <1> SUFFICES ASSUME NEW x \in Handshake
               PROVE  Cardinality(EventsOf(x)') + One(OnItsWay(x)') + One(InTable(x)')
                         <= Cardinality(SynsOf(x)')
    BY DEF Once
  <1>1. EventsOf(x)' = EventsOf(x) /\ SynsOf(x)' = SynsOf(x)
    BY DEF EventsOf, SynsOf
  <1>2. One(OnItsWay(x)') + One(InTable(x)') <= One(OnItsWay(x)) + One(InTable(x))
    BY DEF One
  <1>3. /\ One(OnItsWay(x)) \in Nat /\ One(InTable(x)) \in Nat
        /\ One(OnItsWay(x)') \in Nat /\ One(InTable(x)') \in Nat
    BY DEF One
  <1>4. Cardinality(EventsOf(x)) + One(OnItsWay(x)) + One(InTable(x))
           <= Cardinality(SynsOf(x))
    BY DEF Once
  <1> QED
    BY <1>1, <1>2, <1>3, <1>4, Counts

LEMMA HandshakeFields ==
    ASSUME NEW x \in Handshake
    PROVE  /\ x.flow \in Flows /\ x.seq \in Seqs /\ x.at \in Time
           /\ x = [flow |-> x.flow, seq |-> x.seq, at |-> x.at]
           /\ OnCpu[x.flow] \in CPUs
  BY HandshakeAssumption DEF Handshake

LEMMA SynOnce ==
    ASSUME HandshakeTypeOK, Once, NEW f \in Flows, NEW s \in Seqs, Syn(f, s)
    PROVE  Once'
  <1> SUFFICES ASSUME NEW x \in Handshake
               PROVE  Cardinality(EventsOf(x)') + One(OnItsWay(x)') + One(InTable(x)')
                         <= Cardinality(SynsOf(x)')
    BY DEF Once
  <1> DEFINE h == [flow |-> f, seq |-> s, at |-> clock]
             e == Cardinality(EventsOf(x))
             n == Cardinality(SynsOf(x))
  <1>1. h \in Handshake /\ syns' = Append(syns, h)
    BY DEF Syn, Handshake, HandshakeTypeOK
  <1>2. EventsOf(x)' = EventsOf(x) /\ OnItsWay(x)' = OnItsWay(x)
    BY DEF Syn, EventsOf, OnItsWay
  <1>3. /\ One(OnItsWay(x)) \in Nat /\ One(InTable(x)) \in 0..1
        /\ One(InTable(x)') \in 0..1 /\ e \in Nat /\ n \in Nat
    BY Counts DEF One
  <1>4. e + One(OnItsWay(x)) + One(InTable(x)) <= n
    BY DEF Once
  <1>5. CASE x = h
    <2>1. Cardinality(SynsOf(x)') = n + 1
      BY <1>1, <1>5, SynsGrow
    <2> HIDE DEF e, n
    <2>2. e + One(OnItsWay(x)) + One(InTable(x)') <= n + 1
      BY <1>3, <1>4
    <2> QED
      BY <1>2, <2>1, <2>2 DEF e
  <1>6. CASE x # h
    <2>1. SynsOf(x)' = SynsOf(x)
      BY <1>1, <1>6, SynsGrow
    <2>2. InTable(x)' => InTable(x)
      <3>1. CASE x.flow = f
        <4>1. flows'[f] = [ts |-> clock, seq |-> s]
          BY DEF Syn, HandshakeTypeOK
        <4>2. ~(x.at = clock /\ x.seq = s)
          BY <1>6, <3>1, HandshakeFields
        <4>3. flows'[f] # [ts |-> x.at, seq |-> x.seq]
          BY <4>1, <4>2
        <4> QED
          BY <3>1, <4>3 DEF InTable
      <3>2. CASE x.flow # f
        <4>1. flows'[x.flow] = flows[x.flow] /\ cpu' = cpu
          BY <3>2, HandshakeFields DEF Syn, HandshakeTypeOK
        <4> QED
          BY <4>1 DEF InTable
      <3> QED
        BY <3>1, <3>2
    <2>3. One(InTable(x)') <= One(InTable(x))
      BY <2>2 DEF One
    <2> HIDE DEF e, n
    <2>4. e + One(OnItsWay(x)) + One(InTable(x)') <= n
      BY <1>3, <1>4, <2>3
    <2> QED
      BY <1>2, <2>1, <2>4 DEF e, n
  <1> QED
    BY <1>5, <1>6

LEMMA SynAckOnce ==
    ASSUME HandshakeTypeOK, Once, NEW f \in Flows, NEW s \in Seqs, SynAck(f, s)
    PROVE  Once'
  <1>1. /\ cpu[OnCpu[f]].pc = "idle" /\ cpu'[OnCpu[f]].pc = "match"
        /\ cpu'[OnCpu[f]].flow = f /\ cpu'[OnCpu[f]].seq = s
        /\ cpu'[OnCpu[f]].sent = flows[f].ts
        /\ \A d \in CPUs \ {OnCpu[f]} : cpu'[d] = cpu[d]
        /\ flows[f] # None /\ flows[f] = [ts |-> flows[f].ts, seq |-> s]
    BY SynAckCpu
  <1>2. UNCHANGED <<syns, events, flows>>
    BY DEF SynAck
  <1>3. ASSUME NEW x \in Handshake
        PROVE  /\ InTable(x)' => InTable(x)
               /\ OnItsWay(x)' => OnItsWay(x) \/ (InTable(x) /\ ~InTable(x)')
    <2>1. CASE OnCpu[x.flow] # OnCpu[f]
      BY <1>1, <1>2, <2>1, HandshakeFields DEF InTable, OnItsWay
    <2>2. CASE OnCpu[x.flow] = OnCpu[f] /\ x.flow # f
      BY <1>1, <1>2, <2>2 DEF InTable, OnItsWay
    <2>3. CASE x.flow = f
      <3>1. ~InTable(x)'
        BY <1>1, <2>3 DEF InTable
      <3>2. ASSUME OnItsWay(x)' PROVE InTable(x)
        <4>1. s = x.seq /\ flows[f].ts = x.at
          BY <1>1, <2>3, <3>2 DEF OnItsWay
        <4>2. flows[f] = [ts |-> x.at, seq |-> x.seq]
          BY <1>1, <4>1
        <4> QED
          BY <1>1, <2>3, <4>2 DEF InTable
      <3> QED
        BY <3>1, <3>2
    <2> QED
      BY <2>1, <2>2, <2>3
  <1> QED
    BY <1>2, <1>3, OnceMoved

LEMMA TakeEntryOnce ==
    ASSUME HandshakeTypeOK, Once, NEW c \in CPUs, TakeEntry(c)
    PROVE  Once'
  <1> DEFINE f == cpu[c].flow
  <1>1. /\ cpu[c].pc = "match" /\ f \in Flows /\ OnCpu[f] = c
        /\ \A d \in CPUs \ {c} : cpu'[d] = cpu[d]
        /\ \/ cpu'[c] = IdleCpu
           \/ /\ cpu'[c].pc = "debounce" /\ cpu'[c].flow = f
              /\ cpu'[c].seq = cpu[c].seq /\ cpu'[c].sent = cpu[c].sent
    BY TakeEntryCpu
  <1>2. UNCHANGED <<syns, events>> /\ flows'[f] = None
    BY <1>1 DEF TakeEntry, HandshakeTypeOK
  <1>3. \A g \in Flows \ {f} : flows'[g] = flows[g]
    BY DEF TakeEntry, HandshakeTypeOK
  <1>4. IdleCpu.pc = "idle"
    BY DEF IdleCpu
  <1>5. ASSUME NEW x \in Handshake
        PROVE  /\ InTable(x)' => InTable(x)
               /\ OnItsWay(x)' => OnItsWay(x)
    <2>1. CASE OnCpu[x.flow] # c
      <3>1. x.flow # f
        BY <1>1, <2>1
      <3>2. flows'[x.flow] = flows[x.flow] /\ cpu'[OnCpu[x.flow]] = cpu[OnCpu[x.flow]]
        BY <1>1, <1>3, <2>1, <3>1, HandshakeFields
      <3> QED
        BY <3>2 DEF InTable, OnItsWay
    <2>2. CASE OnCpu[x.flow] = c /\ x.flow # f
      <3>1. flows'[x.flow] = flows[x.flow]
        BY <1>3, <2>2, HandshakeFields
      <3>2. ~OnItsWay(x)'
        BY <1>1, <1>4, <2>2 DEF OnItsWay
      <3>3. InTable(x)' => InTable(x)
        BY <1>1, <2>2, <3>1 DEF InTable
      <3> QED
        BY <3>2, <3>3
    <2>3. CASE x.flow = f
      <3>1. ~InTable(x)'
        BY <1>2, <2>3 DEF InTable
      <3>2. OnItsWay(x)' => OnItsWay(x)
        BY <1>1, <1>4, <2>3 DEF OnItsWay
      <3> QED
        BY <3>1, <3>2
    <2> QED
      BY <2>1, <2>2, <2>3
  <1> QED
    BY <1>2, <1>5, OnceMoved

\* The later steps of CPU c leave the table alone.
LEMMA LaterOnce ==
    ASSUME HandshakeTypeOK, NEW c \in CPUs, UNCHANGED flows,
           cpu[c].pc \in {"debounce", "update", "reserve"},
           \/ cpu' = [cpu EXCEPT ![c] = IdleCpu]
           \/ cpu' = [cpu EXCEPT ![c].pc = "update"]
           \/ cpu' = [cpu EXCEPT ![c].pc = "reserve"],
           NEW x \in Handshake
    PROVE  /\ InTable(x)' => InTable(x)
           /\ OnItsWay(x)' => OnItsWay(x)
  <1>1. IdleCpu.pc = "idle"
    BY DEF IdleCpu
  <1>2. /\ \A d \in CPUs \ {c} : cpu'[d] = cpu[d]
        /\ \/ cpu'[c].pc = "idle"
           \/ /\ cpu'[c].pc # "match" /\ cpu'[c].flow = cpu[c].flow
              /\ cpu'[c].seq = cpu[c].seq /\ cpu'[c].sent = cpu[c].sent
    <2>1. CASE cpu' = [cpu EXCEPT ![c] = IdleCpu]
      BY <1>1, <2>1, LaterCpu
    <2>2. ASSUME NEW p \in {"update", "reserve"}, cpu' = [cpu EXCEPT ![c].pc = p]
          PROVE  /\ \A d \in CPUs \ {c} : cpu'[d] = cpu[d]
                 /\ cpu'[c].pc # "match" /\ cpu'[c].flow = cpu[c].flow
                 /\ cpu'[c].seq = cpu[c].seq /\ cpu'[c].sent = cpu[c].sent
      BY <2>2, LaterCpu
    <2> QED
      BY <2>1, <2>2
  <1>3. cpu[c].pc # "idle" /\ cpu[c].pc # "match"
    OBVIOUS
  <1>4. CASE OnCpu[x.flow] = c
    BY <1>2, <1>3, <1>4 DEF InTable, OnItsWay
  <1>5. CASE OnCpu[x.flow] # c
    BY <1>2, <1>5, HandshakeFields DEF InTable, OnItsWay
  <1> QED
    BY <1>4, <1>5

LEMMA SubmitOnce ==
    ASSUME HandshakeTypeOK, Once, NEW c \in CPUs, Submit(c)
    PROVE  Once'
  <1>1. /\ cpu[c].pc = "reserve" /\ UNCHANGED flows /\ UNCHANGED syns
        /\ cpu' = [cpu EXCEPT ![c] = IdleCpu]
    BY DEF Submit
  <1>2. \A x \in Handshake : (InTable(x)' => InTable(x)) /\ (OnItsWay(x)' => OnItsWay(x))
    BY <1>1, LaterOnce
  <1>3. CASE events' = events
    BY <1>1, <1>2, <1>3, OnceMoved
  <1>4. CASE events' = Append(events, EventAt(c))
    <2> SUFFICES ASSUME NEW x \in Handshake
                 PROVE  Cardinality(EventsOf(x)') + One(OnItsWay(x)') + One(InTable(x)')
                           <= Cardinality(SynsOf(x)')
      BY DEF Once
    <2> DEFINE e == Cardinality(EventsOf(x))
               n == Cardinality(SynsOf(x))
    <2>1. /\ One(OnItsWay(x)) \in 0..1 /\ One(OnItsWay(x)') \in 0..1
          /\ One(InTable(x)) \in 0..1 /\ One(InTable(x)') \in 0..1
          /\ e \in Nat /\ n \in Nat
      BY Counts DEF One
    <2>2. e + One(OnItsWay(x)) + One(InTable(x)) <= n
      BY DEF Once
    <2>3. SynsOf(x)' = SynsOf(x)
      BY <1>1 DEF SynsOf
    <2>4. EventAt(c) \in Event
      BY SubmitEvent
    <2>5. One(InTable(x)') <= One(InTable(x)) /\ One(OnItsWay(x)') <= One(OnItsWay(x))
      BY <1>2 DEF One
    <2>6. CASE x = SynOf(EventAt(c))
      <3>1. Cardinality(EventsOf(x)') = e + 1
        BY <1>4, <2>4, <2>6, EventsGrow
      <3>2. /\ x.flow = cpu[c].flow /\ x.seq = cpu[c].seq /\ x.at = cpu[c].sent
            /\ OnCpu[x.flow] = c
        BY <1>1, <2>6 DEF SynOf, EventAt, HandshakeTypeOK
      <3>3. OnItsWay(x)
        BY <1>1, <3>2 DEF OnItsWay
      <3>4. cpu'[c].pc = "idle"
        BY <1>1 DEF HandshakeTypeOK, IdleCpu
      <3>5. ~OnItsWay(x)'
        BY <3>2, <3>4 DEF OnItsWay
      <3>6. One(OnItsWay(x)) = 1 /\ One(OnItsWay(x)') = 0
        BY <3>3, <3>5 DEF One
      <3> HIDE DEF e, n
      <3>7. (e + 1) + One(OnItsWay(x)') + One(InTable(x)') <= n
        BY <2>1, <2>2, <2>5, <3>6
      <3> QED
        BY <2>3, <3>1, <3>7 DEF n
    <2>7. CASE x # SynOf(EventAt(c))
      <3>1. Cardinality(EventsOf(x)') = e
        BY <1>4, <2>4, <2>7, EventsGrow
      <3> HIDE DEF e, n
      <3>2. e + One(OnItsWay(x)') + One(InTable(x)') <= n
        BY <2>1, <2>2, <2>5
      <3> QED
        BY <2>3, <3>1, <3>2 DEF n
    <2> QED
      BY <2>6, <2>7
  <1> QED
    BY <1>3, <1>4, SubmitEvent

LEMMA StepOnce ==
    ASSUME HandshakeTypeOK, Once, [HandshakeNext]_handshakeVars
    PROVE  Once'
  <1>1. ASSUME NEW c \in CPUs, Debounce(c) PROVE Once'
    <2>1. /\ cpu[c].pc \in {"debounce", "update", "reserve"}
          /\ UNCHANGED flows /\ UNCHANGED <<syns, events>>
          /\ \/ cpu' = [cpu EXCEPT ![c] = IdleCpu]
             \/ cpu' = [cpu EXCEPT ![c].pc = "update"]
      BY <1>1 DEF Debounce
    <2> QED
      BY <2>1, LaterOnce, OnceMoved
  <1>2. ASSUME NEW c \in CPUs, UpdateLimit(c) PROVE Once'
    <2>1. /\ cpu[c].pc \in {"debounce", "update", "reserve"}
          /\ UNCHANGED flows /\ UNCHANGED <<syns, events>>
          /\ cpu' = [cpu EXCEPT ![c].pc = "reserve"]
      BY <1>2 DEF UpdateLimit
    <2> QED
      BY <2>1, LaterOnce, OnceMoved
  <1>3. ASSUME Consume \/ TimePasses \/ UNCHANGED handshakeVars PROVE Once'
    <2>1. UNCHANGED <<syns, events>> /\ UNCHANGED flows /\ UNCHANGED cpu
      BY <1>3 DEF Consume, TimePasses, handshakeVars
    <2>2. \A x \in Handshake : InTable(x)' = InTable(x) /\ OnItsWay(x)' = OnItsWay(x)
      BY <2>1 DEF InTable, OnItsWay
    <2> QED
      BY <2>1, <2>2, OnceMoved
  <1> QED
    BY <1>1, <1>2, <1>3, SynOnce, SynAckOnce, TakeEntryOnce, SubmitOnce DEF HandshakeNext

\* What the steps of the program leave alone.
LEMMA Frame ==
    ASSUME [HandshakeNext]_handshakeVars
    PROVE  /\ \/ \E c \in CPUs : Submit(c)
              \/ UNCHANGED events
           /\ \/ \E c \in CPUs : Debounce(c) \/ UpdateLimit(c)
              \/ UNCHANGED <<ratelimit, attempts, limited>>
           /\ (overlap => overlap') /\ (replay_mode' = replay_mode)
  <1>1. ASSUME NEW f \in Flows, NEW s \in Seqs, Syn(f, s) \/ SynAck(f, s)
        PROVE  UNCHANGED <<ratelimit, attempts, limited, events, overlap>>
    BY <1>1 DEF Syn, SynAck
  <1>2. ASSUME NEW c \in CPUs, TakeEntry(c)
        PROVE  UNCHANGED <<ratelimit, attempts, limited, events, overlap>>
    BY <1>2 DEF TakeEntry
  <1>3. ASSUME NEW c \in CPUs, Debounce(c)
        PROVE  UNCHANGED events /\ (overlap => overlap')
    BY <1>3 DEF Debounce
  <1>4. ASSUME NEW c \in CPUs, UpdateLimit(c)
        PROVE  UNCHANGED <<events, overlap>>
    BY <1>4 DEF UpdateLimit
  <1>5. ASSUME NEW c \in CPUs, Submit(c)
        PROVE  UNCHANGED <<ratelimit, attempts, limited, overlap>>
    BY <1>5 DEF Submit
  <1>6. ASSUME Consume \/ TimePasses \/ UNCHANGED handshakeVars
        PROVE  UNCHANGED <<ratelimit, attempts, limited, events, overlap>>
    BY <1>6 DEF Consume, TimePasses, handshakeVars
  <1>7. replay_mode' = replay_mode
    BY DEF HandshakeNext, handshakeVars
  <1> QED
    BY <1>1, <1>2, <1>3, <1>4, <1>5, <1>6, <1>7 DEF HandshakeNext

LEMMA StepEvents ==
    ASSUME HandshakeTypeOK, EventsInRange, [HandshakeNext]_handshakeVars
    PROVE  EventsInRange'
  <1>1. ASSUME NEW c \in CPUs, Submit(c) PROVE EventsInRange'
    <2>1. CASE events' = events
      BY <2>1 DEF EventsInRange
    <2>2. CASE events' = Append(events, EventAt(c))
      <3>1. /\ Len(events') = Len(events) + 1 /\ events'[Len(events) + 1] = EventAt(c)
            /\ \A k \in 1..Len(events) : events'[k] = events[k]
            /\ Len(events) \in Nat
        BY <2>2, AppendProperties DEF HandshakeTypeOK
      <3>2. /\ EventAt(c).dt = EventAt(c).at - EventAt(c).sent
            /\ EventAt(c).dt > 0 /\ EventAt(c).dt <= DL_RTT_MAX_NS
        BY <1>1, SubmitEvent
      <3>3. ASSUME NEW i \in 1..Len(events')
            PROVE  /\ events'[i].dt = events'[i].at - events'[i].sent
                   /\ events'[i].dt > 0 /\ events'[i].dt <= DL_RTT_MAX_NS
        <4>1. CASE i = Len(events) + 1
          BY <3>1, <3>2, <4>1
        <4>2. CASE i \in 1..Len(events)
          <5>1. events'[i] = events[i]
            BY <3>1, <4>2
          <5> QED
            BY <4>2, <5>1 DEF EventsInRange
        <4> QED
          BY <3>1, <4>1, <4>2
      <3> QED
        BY <3>3 DEF EventsInRange
    <2> QED
      BY <1>1, <2>1, <2>2, SubmitEvent
  <1>2. ASSUME events' = events PROVE EventsInRange'
    BY <1>2 DEF EventsInRange
  <1> QED
    BY <1>1, <1>2, Frame

(********************************* spacing *********************************)

LEMMA StepLimited ==
    ASSUME HandshakeTypeOK, LimitedNear, [HandshakeNext]_handshakeVars
    PROVE  LimitedNear'
  <1>1. ASSUME NEW c \in CPUs, Debounce(c) PROVE LimitedNear'
    <2>1. UNCHANGED <<ratelimit, attempts>>
      BY <1>1 DEF Debounce
    <2>2. CASE Limits(cpu[c].at)
      <3> DEFINE t == cpu[c].at
      <3>1. /\ ratelimit # None /\ Minus(t, ratelimit) < rl_window_ns
            /\ limited' = limited \cup {t}
        BY <1>1, <2>2 DEF Limits, Debounce
      <3>2. t \in Time /\ ratelimit \in Time
        BY <1>1, <3>1 DEF Debounce, HandshakeTypeOK, AtWork
      <3> HIDE DEF t
      <3>3. ratelimit <= t /\ t - ratelimit < rl_window_ns
        <4>1. t \in Nat /\ ratelimit \in Nat
          BY <3>2, WordWide
        <4>2. CASE t < ratelimit
          <5>1. Minus(t, ratelimit) >= rl_window_ns /\ Minus(t, ratelimit) \in Int
            BY <3>2, <4>2, Differences, WordWide DEF Minus
          <5> QED
            BY <3>1, <5>1, WordWide
        <4>3. CASE t >= ratelimit
          <5>1. Minus(t, ratelimit) = t - ratelimit
            BY <3>2, <4>3, Differences
          <5> QED
            BY <3>1, <4>1, <4>3, <5>1
        <4> QED
          BY <4>1, <4>2, <4>3
      <3>4. ratelimit \in attempts
        BY <3>1 DEF LimitedNear
      <3> QED
        BY <2>1, <3>1, <3>3, <3>4 DEF LimitedNear
    <2>3. CASE ~Limits(cpu[c].at)
      BY <1>1, <2>1, <2>3 DEF Debounce, LimitedNear
    <2> QED
      BY <2>2, <2>3
  <1>2. ASSUME NEW c \in CPUs, UpdateLimit(c) PROVE LimitedNear'
    BY <1>2 DEF UpdateLimit, LimitedNear
  <1>3. ASSUME UNCHANGED <<ratelimit, attempts, limited>> PROVE LimitedNear'
    BY <1>3 DEF LimitedNear
  <1> QED
    BY <1>1, <1>2, <1>3, Frame

LEMMA TimesAreNumbers ==
    ASSUME HandshakeTypeOK
    PROVE  /\ clock \in Nat
           /\ ratelimit # None => ratelimit \in Nat
           /\ \A i \in 1..Len(events) : events[i].at \in Nat
           /\ \A c \in CPUs : Timed(c) => cpu[c].at \in Time /\ cpu[c].at \in Nat
  <1>1. \A i \in 1..Len(events) : events[i] \in Event
    BY ElementOfSeq DEF HandshakeTypeOK
  <1>2. \A i \in 1..Len(events) : events[i].at \in Time
    BY <1>1 DEF Event
  <1> QED
    BY <1>2, WordWide DEF HandshakeTypeOK, Timed, AtWork

LEMMA TogetherSame ==
    ASSUME Together, UNCHANGED <<events, ratelimit, clock>>,
           \A c \in CPUs : Timed(c)' => cpu'[c] = cpu[c]
    PROVE  Together'
  <1>1. \A c \in CPUs : /\ Timed(c)' => Timed(c) /\ cpu'[c] = cpu[c]
                        /\ Passed(c)' => Passed(c)
                        /\ cpu'[c].pc = "update" => cpu[c].pc = "update"
                        /\ cpu'[c].pc = "reserve" => cpu[c].pc = "reserve"
    BY DEF Timed, Passed
  <1>2. \A c \in CPUs : Passed(c) => Timed(c)
    BY DEF Timed, Passed
  <1>3. Spaced'
    BY DEF Together, Spaced
  <1>4. \A c \in CPUs : Timed(c)' =>
          /\ cpu'[c].at <= clock'
          /\ ratelimit' # None => ratelimit' <= cpu'[c].at
    BY <1>1 DEF Together
  <1>5. \A c \in CPUs : \A d \in CPUs \ {c} :
          Passed(c)' => ~Passed(d)' /\ (Timed(d)' => cpu'[c].at <= cpu'[d].at)
    BY <1>1, <1>2 DEF Together, Passed, Timed
  <1>6. /\ \A c \in CPUs : cpu'[c].pc = "update" => cpu'[c] = cpu[c]
        /\ \A c \in CPUs : cpu'[c].pc = "reserve" => cpu'[c] = cpu[c]
    BY DEF Timed
  <1>7. /\ \A c \in CPUs : cpu'[c].pc = "update" /\ ratelimit' # None =>
              cpu'[c].at - ratelimit' >= rl_window_ns
        /\ \A c \in CPUs : cpu'[c].pc = "reserve" =>
              /\ ratelimit' = cpu'[c].at
              /\ \A i \in 1..Len(events') : cpu'[c].at - events'[i].at >= rl_window_ns
    BY <1>6 DEF Together
  <1> QED
    BY <1>3, <1>4, <1>5, <1>7 DEF Together

LEMMA TakeEntryTogether ==
    ASSUME HandshakeTypeOK, Together, NEW c \in CPUs, TakeEntry(c)
    PROVE  Together'
  <1>1. UNCHANGED <<events, ratelimit, clock>>
    BY DEF TakeEntry
  <1>2. \A d \in CPUs \ {c} : cpu'[d] = cpu[d]
    BY TakeEntryCpu
  <1>3. CASE cpu'[c] = IdleCpu
    <2>1. \A d \in CPUs : Timed(d)' => cpu'[d] = cpu[d]
      BY <1>2, <1>3 DEF Timed, IdleCpu
    <2> QED
      BY <1>1, <2>1, TogetherSame
  <1>4. CASE cpu'[c].pc = "debounce" /\ cpu'[c].at = clock
    <2>1. /\ Timed(c)' /\ ~Passed(c)'
          /\ \A d \in CPUs \ {c} : Timed(d)' = Timed(d) /\ Passed(d)' = Passed(d)
          /\ \A d \in CPUs : Passed(d) => Timed(d)
      BY <1>2, <1>4 DEF Timed, Passed
    <2>2. Spaced' /\ ratelimit' = ratelimit /\ clock' = clock /\ events' = events
      BY <1>1 DEF Together, Spaced
    <2>3. \A d \in CPUs : Timed(d)' =>
            /\ cpu'[d].at <= clock'
            /\ ratelimit' # None => ratelimit' <= cpu'[d].at
      <3>1. clock <= clock
        BY TimesAreNumbers
      <3> QED
        BY <1>2, <1>4, <2>1, <2>2, <3>1 DEF Together
    <2>4. ASSUME NEW a \in CPUs, NEW d \in CPUs \ {a}, Passed(a)'
          PROVE  ~Passed(d)' /\ (Timed(d)' => cpu'[a].at <= cpu'[d].at)
      <3>1. a # c /\ Passed(a) /\ cpu'[a] = cpu[a] /\ cpu[a].at <= clock
        BY <1>2, <2>1, <2>4 DEF Together
      <3>2. CASE d = c
        BY <1>4, <2>1, <3>1, <3>2
      <3>3. CASE d # c
        BY <1>2, <2>1, <3>1, <3>3 DEF Together
      <3> QED
        BY <3>2, <3>3
    <2>5. \A d \in CPUs : cpu'[d].pc \in {"update", "reserve"} => cpu'[d] = cpu[d]
      BY <1>2, <1>4
    <2> QED
      BY <1>1, <2>2, <2>3, <2>4, <2>5 DEF Together
  <1> QED
    BY <1>3, <1>4, TakeEntryCpu

LEMMA DebounceTogether ==
    ASSUME HandshakeTypeOK, Together, NEW c \in CPUs, Debounce(c), ~overlap'
    PROVE  Together'
  <1>1. UNCHANGED <<events, ratelimit, clock>> /\ cpu[c].pc = "debounce" /\ Timed(c)
    BY DEF Debounce, Timed
  <1>2. \A d \in CPUs \ {c} : cpu[d].pc = "idle"
    BY DEF Debounce
  <1>3. CASE cpu' = [cpu EXCEPT ![c] = IdleCpu]
    <2>1. \A d \in CPUs \ {c} : cpu'[d] = cpu[d]
      BY <1>1, <1>3, LaterCpu
    <2>2. cpu'[c] = IdleCpu
      BY <1>1, <1>3, LaterCpu
    <2>3. \A d \in CPUs : Timed(d)' => cpu'[d] = cpu[d]
      BY <2>1, <2>2 DEF Timed, IdleCpu
    <2> QED
      BY <1>1, <2>3, TogetherSame
  <1>4. CASE cpu' = [cpu EXCEPT ![c].pc = "update"] /\ ~Limits(cpu[c].at)
    <2> DEFINE t == cpu[c].at
    <2>1. /\ \A d \in CPUs \ {c} : cpu'[d] = cpu[d]
          /\ cpu'[c].pc = "update" /\ cpu'[c].at = t
      BY <1>1, <1>4, LaterCpu
    <2>2. \A d \in CPUs \ {c} : cpu'[d].pc = "idle"
      BY <1>2, <2>1
    <2>3. \A d \in CPUs \ {c} : ~Timed(d)' /\ ~Passed(d)'
      BY <2>2 DEF Timed, Passed
    <2>4. Spaced' /\ ratelimit' = ratelimit /\ clock' = clock /\ events' = events
      BY <1>1 DEF Together, Spaced
    <2>5. t <= clock /\ (ratelimit # None => ratelimit <= t)
      BY <1>1 DEF Together
    <2>6. \A d \in CPUs : Timed(d)' =>
            /\ cpu'[d].at <= clock'
            /\ ratelimit' # None => ratelimit' <= cpu'[d].at
      BY <2>1, <2>3, <2>4, <2>5
    <2>7. t \in Time
      BY <1>1, TimesAreNumbers
    <2> HIDE DEF t
    <2>8. ASSUME ratelimit # None PROVE t - ratelimit >= rl_window_ns
      <3>1. ratelimit \in Time
        BY <2>8 DEF HandshakeTypeOK
      <3>2. t \in Nat /\ ratelimit \in Nat /\ ratelimit <= t
        BY <2>5, <2>7, <2>8, <3>1, WordWide
      <3>3. Minus(t, ratelimit) = t - ratelimit
        BY <2>7, <3>1, <3>2, Differences
      <3>4. ~(Minus(t, ratelimit) < rl_window_ns)
        BY <1>4, <2>8 DEF Limits, t
      <3> QED
        BY <3>2, <3>3, <3>4, WordWide
    <2>9. \A d \in CPUs : cpu'[d].pc = "update" => d = c
      BY <2>2
    <2>10. \A d \in CPUs : cpu'[d].pc # "reserve"
      BY <2>1, <2>2
    <2>11. \A d \in CPUs : cpu'[d].pc = "update" /\ ratelimit' # None =>
             cpu'[d].at - ratelimit' >= rl_window_ns
      BY <2>1, <2>4, <2>8, <2>9
    <2>12. \A a \in CPUs : \A d \in CPUs \ {a} :
             Passed(a)' => ~Passed(d)' /\ (Timed(d)' => cpu'[a].at <= cpu'[d].at)
      BY <2>3
    <2> QED
      BY <2>4, <2>6, <2>10, <2>11, <2>12 DEF Together
  <1> QED
    BY <1>3, <1>4 DEF Debounce

LEMMA UpdateTogether ==
    ASSUME HandshakeTypeOK, Together, NEW c \in CPUs, UpdateLimit(c)
    PROVE  Together'
  <1> DEFINE t == cpu[c].at
  <1>1. /\ UNCHANGED <<events, clock>> /\ cpu[c].pc = "update" /\ Timed(c) /\ Passed(c)
        /\ ratelimit' = t
    BY DEF UpdateLimit, Timed, Passed
  <1>2. /\ \A d \in CPUs \ {c} : cpu'[d] = cpu[d]
        /\ cpu'[c].pc = "reserve" /\ cpu'[c].at = t
    <2>1. cpu' = [cpu EXCEPT ![c].pc = "reserve"]
      BY DEF UpdateLimit
    <2> QED
      BY <1>1, <2>1, LaterCpu
  <1>3. t \in Time /\ t \in Nat /\ t # None /\ t <= clock
    BY <1>1, TimesAreNumbers, WordWide DEF Together
  <1>4. /\ \A d \in CPUs \ {c} : /\ Timed(d)' = Timed(d) /\ Passed(d)' = Passed(d)
                                 /\ ~Passed(d) /\ (Timed(d) => t <= cpu[d].at)
        /\ \A d \in CPUs \ {c} : cpu'[d].pc \notin {"update", "reserve"}
    BY <1>1, <1>2 DEF Timed, Passed, Together
  <1>5. \A d \in CPUs : Timed(d) => cpu[d].at <= clock
    BY DEF Together
  <1>6. ASSUME NEW i \in 1..Len(events)
        PROVE  events[i].at <= t /\ t - events[i].at >= rl_window_ns
    <2> DEFINE e == events[i].at
    <2>1. ratelimit # None /\ e <= ratelimit /\ t - ratelimit >= rl_window_ns
      BY <1>1, <1>6 DEF Together
    <2>2. e \in Nat /\ ratelimit \in Nat
      BY <1>6, <2>1, TimesAreNumbers
    <2>3. e <= t /\ t - e >= rl_window_ns
      <3> HIDE DEF e, t
      <3> QED
        BY <1>3, <2>1, <2>2, WordWide
    <2> QED
      BY <2>3
  <1> HIDE DEF t
  <1>7. Spaced' /\ events' = events /\ clock' = clock
    BY <1>1 DEF Together, Spaced
  <1>8. \A d \in CPUs : Timed(d)' =>
          /\ cpu'[d].at <= clock'
          /\ ratelimit' # None => ratelimit' <= cpu'[d].at
    <2>1. t <= t
      BY <1>3
    <2> QED
      BY <1>1, <1>2, <1>3, <1>4, <1>5, <1>7, <2>1
  <1>9. \A a \in CPUs : \A d \in CPUs \ {a} :
          Passed(a)' => ~Passed(d)' /\ (Timed(d)' => cpu'[a].at <= cpu'[d].at)
    BY <1>2, <1>4
  <1>10. \A d \in CPUs : cpu'[d].pc # "update"
    BY <1>2, <1>4
  <1>11. \A d \in CPUs : cpu'[d].pc = "reserve" =>
           /\ ratelimit' = cpu'[d].at
           /\ \A i \in 1..Len(events') : cpu'[d].at - events'[i].at >= rl_window_ns
    BY <1>1, <1>2, <1>4, <1>6, <1>7
  <1>12. \A i \in 1..Len(events') : ratelimit' # None /\ events'[i].at <= ratelimit'
    BY <1>1, <1>3, <1>6, <1>7
  <1> QED
    BY <1>1, <1>3, <1>7, <1>8, <1>9, <1>10, <1>11, <1>12 DEF Together

LEMMA SubmitTogether ==
    ASSUME HandshakeTypeOK, Together, NEW c \in CPUs, Submit(c)
    PROVE  Together'
  <1> DEFINE t == cpu[c].at
             n == Len(events)
  <1>1. UNCHANGED <<ratelimit, clock>> /\ cpu[c].pc = "reserve" /\ Timed(c) /\ Passed(c)
    BY DEF Submit, Timed, Passed
  <1>2. (\A d \in CPUs \ {c} : cpu'[d] = cpu[d]) /\ cpu'[c] = IdleCpu
    <2>1. cpu' = [cpu EXCEPT ![c] = IdleCpu]
      BY DEF Submit
    <2> QED
      BY <1>1, <2>1, LaterCpu
  <1>3. \A d \in CPUs : Timed(d)' => d # c /\ cpu'[d] = cpu[d]
    BY <1>2 DEF Timed, IdleCpu
  <1>4. CASE events' = events
    BY <1>1, <1>3, <1>4, TogetherSame
  <1>5. CASE events' = Append(events, EventAt(c))
    <2>1. /\ n \in Nat /\ Len(events') = n + 1 /\ events'[n + 1].at = t
          /\ \A i \in 1..n : events'[i] = events[i]
      BY <1>5, AppendProperties DEF HandshakeTypeOK, EventAt
    <2>2. /\ ratelimit = t /\ \A i \in 1..n : t - events[i].at >= rl_window_ns
          /\ t \in Time /\ t \in Nat /\ t # None
      BY <1>1, TimesAreNumbers, WordWide DEF Together
    <2>3. \A i \in 1..n : ratelimit # None /\ events[i].at <= ratelimit
      BY DEF Together
    <2> HIDE DEF t, n
    <2>4. ASSUME NEW i \in 1..Len(events')
          PROVE  ratelimit' # None /\ events'[i].at <= ratelimit'
      <3>1. CASE i = n + 1
        <4>1. t <= t
          BY <2>2
        <4> QED
          BY <1>1, <2>1, <2>2, <3>1, <4>1
      <3>2. CASE i \in 1..n
        BY <1>1, <2>1, <2>3, <3>2
      <3> QED
        BY <2>1, <3>1, <3>2
    <2>5. ASSUME NEW i \in 1..Len(events'), NEW j \in 1..Len(events'), i < j
          PROVE  events'[j].at - events'[i].at >= rl_window_ns
      <3>1. CASE j = n + 1
        <4>1. i \in 1..n
          BY <2>1, <2>5, <3>1
        <4> QED
          BY <2>1, <2>2, <3>1, <4>1
      <3>2. CASE j \in 1..n
        <4>1. i \in 1..n
          BY <2>1, <2>5, <3>2
        <4> QED
          BY <2>1, <2>5, <3>2, <4>1 DEF Together, Spaced, n
      <3> QED
        BY <2>1, <3>1, <3>2
    <2>6. Spaced'
      BY <2>5 DEF Spaced
    <2>7. \A d \in CPUs : Timed(d)' => Timed(d) /\ cpu'[d] = cpu[d]
      BY <1>3 DEF Timed
    <2>8. \A d \in CPUs : Timed(d)' =>
            /\ cpu'[d].at <= clock'
            /\ ratelimit' # None => ratelimit' <= cpu'[d].at
      BY <1>1, <2>7 DEF Together
    <2>9. \A d \in CPUs : ~Passed(d)'
      <3>1. \A d \in CPUs \ {c} : ~Passed(d)
        BY <1>1 DEF Together
      <3> QED
        BY <1>2, <3>1 DEF Passed, IdleCpu
    <2>10. \A d \in CPUs : cpu'[d].pc \notin {"update", "reserve"}
      BY <2>9 DEF Passed
    <2>11. ratelimit' # None => ratelimit' <= clock'
      BY <1>1 DEF Together
    <2> QED
      BY <2>4, <2>6, <2>8, <2>9, <2>10, <2>11 DEF Together
  <1> QED
    BY <1>4, <1>5, SubmitEvent

LEMMA ClockTogether ==
    ASSUME HandshakeTypeOK, Together, TimePasses, ~replay_mode
    PROVE  Together'
  <1>1. UNCHANGED <<ratelimit, events, cpu>> /\ clock' = clock + 1
    BY DEF TimePasses
  <1>2. Spaced'
    BY <1>1 DEF Together, Spaced
  <1>3. \A c \in CPUs : Timed(c)' = Timed(c) /\ Passed(c)' = Passed(c)
    BY <1>1 DEF Timed, Passed
  <1>4. ratelimit' # None => ratelimit' <= clock'
    BY <1>1, TimesAreNumbers DEF Together
  <1>5. ASSUME NEW c \in CPUs, Timed(c)
        PROVE  /\ cpu[c].at <= clock + 1
               /\ ratelimit # None => ratelimit <= cpu[c].at
    <2>1. cpu[c].at \in Nat /\ cpu[c].at <= clock /\ clock \in Nat
      BY <1>5, TimesAreNumbers DEF Together
    <2>2. \A a, b \in Nat : a <= b => a <= b + 1
      OBVIOUS
    <2> QED
      BY <1>5, <2>1, <2>2 DEF Together
  <1> QED
    BY <1>1, <1>2, <1>3, <1>4, <1>5 DEF Together

LEMMA StepInStep ==
    ASSUME HandshakeTypeOK, InStep, [HandshakeNext]_handshakeVars
    PROVE  InStep'
  <1> SUFFICES ASSUME ~overlap', ~replay_mode' PROVE Together'
    BY DEF InStep
  <1>3. ~overlap /\ ~replay_mode
    BY Frame
  <1>4. Together
    BY <1>3 DEF InStep
  <1>5. ASSUME NEW f \in Flows, NEW s \in Seqs, SynAck(f, s) PROVE Together'
    <2>1. UNCHANGED <<events, ratelimit, clock>>
      BY <1>5 DEF SynAck
    <2>2. \A d \in CPUs : Timed(d)' => cpu'[d] = cpu[d]
      BY <1>5, SynAckCpu DEF Timed
    <2> QED
      BY <1>4, <2>1, <2>2, TogetherSame
  <1>6. ASSUME UNCHANGED <<events, ratelimit, clock>>, cpu' = cpu PROVE Together'
    BY <1>4, <1>6, TogetherSame
  <1>7. ASSUME NEW f \in Flows, NEW s \in Seqs, Syn(f, s) PROVE Together'
    BY <1>6, <1>7 DEF Syn
  <1>8. ASSUME Consume \/ UNCHANGED handshakeVars PROVE Together'
    BY <1>6, <1>8 DEF Consume, handshakeVars
  <1> QED
    BY <1>3, <1>4, <1>5, <1>7, <1>8, TakeEntryTogether, DebounceTogether,
       UpdateTogether, SubmitTogether, ClockTogether DEF HandshakeNext

(******************************** theorems *********************************)

SampleInv == HandshakeTypeOK /\ Once /\ EventsInRange /\ InStep /\ LimitedNear

LEMMA SampleInit == HandshakeInit => SampleInv
  <1> SUFFICES ASSUME HandshakeInit PROVE SampleInv
    OBVIOUS
  <1>1. /\ HandshakeTypeOK /\ syns = <<>> /\ events = <<>> /\ ratelimit = None
        /\ limited = {} /\ \A c \in CPUs : cpu[c] = IdleCpu
        /\ \A f \in Flows : flows[f] = None
    BY HandshakeInitType DEF HandshakeInit
  <1>2. Len(events) = 0 /\ Len(syns) = 0 /\ 1..0 = {} /\ IdleCpu.pc = "idle"
    BY <1>1, EmptySeq DEF IdleCpu
  <1>3. EventsInRange /\ LimitedNear
    BY <1>1, <1>2 DEF EventsInRange, LimitedNear
  <1>4. InStep
    BY <1>1, <1>2 DEF InStep, Together, Spaced, Timed, Passed
  <1>5. Once
    <2> SUFFICES ASSUME NEW x \in Handshake
                 PROVE  Cardinality(EventsOf(x)) + One(OnItsWay(x)) + One(InTable(x))
                           <= Cardinality(SynsOf(x))
      BY DEF Once
    <2>1. EventsOf(x) = {} /\ SynsOf(x) = {}
      BY <1>2 DEF EventsOf, SynsOf
    <2>2. ~OnItsWay(x) /\ ~InTable(x)
      BY <1>1, <1>2, HandshakeFields DEF OnItsWay, InTable
    <2>3. One(OnItsWay(x)) = 0 /\ One(InTable(x)) = 0 /\ Cardinality({}) = 0
      BY <2>2, FS_EmptySet DEF One
    <2> QED
      BY <2>1, <2>3
  <1> QED
    BY <1>1, <1>3, <1>4, <1>5 DEF SampleInv

LEMMA SampleInvariant == HandshakeSpec => []SampleInv
  <1>1. SampleInv /\ [HandshakeNext]_handshakeVars => SampleInv'
    BY HandshakeStepType, StepOnce, StepEvents, StepInStep, StepLimited DEF SampleInv
  <1> QED
    BY <1>1, SampleInit, PTL DEF HandshakeSpec

\* Whatever the flows, the sequence numbers and the CPUs they hash to: every
\* event of the kernel program times one SYN and its SYN-ACK, positive and in
\* range, and no SYN gives two, also with several CPUs at it and with a clock
\* that a replayed capture sets back.
THEOREM SamplesAreOfOneHandshake == HandshakeSpec => []SampleOfOneHandshake
  <1>1. SampleInv => SampleOfOneHandshake
    <2> SUFFICES ASSUME SampleInv, NEW i \in 1..Len(events)
                 PROVE  /\ events[i].dt = events[i].at - events[i].sent
                        /\ events[i].dt > 0 /\ events[i].dt <= DL_RTT_MAX_NS
                        /\ Cardinality(EventsOf(SynOf(events[i])))
                              <= Cardinality(SynsOf(SynOf(events[i])))
      BY DEF SampleOfOneHandshake, EventsOf, SynsOf
    <2> DEFINE x == SynOf(events[i])
    <2>1. events[i] \in Event
      BY ElementOfSeq DEF SampleInv, HandshakeTypeOK
    <2>2. x \in Handshake
      BY <2>1 DEF SynOf, Handshake, Event
    <2> HIDE DEF x
    <2>3. Cardinality(EventsOf(x)) + One(OnItsWay(x)) + One(InTable(x))
             <= Cardinality(SynsOf(x))
      BY <2>2 DEF SampleInv, Once
    <2>4. One(OnItsWay(x)) \in Nat /\ One(InTable(x)) \in Nat
      BY DEF One
    <2>5. /\ Cardinality(EventsOf(x)) \in Nat /\ Cardinality(SynsOf(x)) \in Nat
      BY Counts DEF SampleInv
    <2>6. Cardinality(EventsOf(x)) <= Cardinality(SynsOf(x))
      BY <2>3, <2>4, <2>5
    <2> QED
      BY <2>6 DEF x, SampleInv, EventsInRange
  <1> QED
    BY <1>1, SampleInvariant, PTL

\* As long as no two CPUs were between the look at a destination's last event
\* and its update, live events are the window apart; and what the debounce
\* suppresses, in a replay too, is within the window after one it let through.
THEOREM EventsSpacedAlone == HandshakeSpec => []SpacedAlone
  <1>1. SampleInv => SpacedAlone
    BY DEF SampleInv, InStep, Together, LimitedNear, SpacedAlone
  <1> QED
    BY <1>1, SampleInvariant, PTL
(********************************* volume **********************************)

Reading == [dst : Dsts, bytes : Nat]
Phases == {"idle", "next", "read", "delete", "print"}

VolumeTyped ==
    /\ elem \in [Dsts -> Elements \cup {None}]
    /\ bytes \in [Elements -> Nat]
    /\ acct \in [CPUs -> [pc : {"idle", "insert", "add"}, dst : Dsts \cup {None},
                          ptr : Elements \cup {None}]]
    /\ \A c \in CPUs : /\ acct[c].pc # "idle" => acct[c].dst \in Dsts
                       /\ acct[c].pc = "add" => acct[c].ptr \in Elements
    /\ drain \in Phases
    /\ key \in Dsts \cup {None} /\ (drain = "read" => key \in Dsts)
    /\ v \in Seq(Reading) /\ (drain = "idle" => v = <<>>)
    /\ done \in 0..Len(v) /\ (drain \in {"next", "read"} => done = 0)
    /\ seen \in [Dsts -> Nat] /\ emitted \in [Dsts -> Nat]
    /\ raced \in BOOLEAN /\ evicted \subseteq Phases

\* No two keys share an element.
OneOwner == \A d, e \in Dsts : elem[d] # None /\ elem[d] = elem[e] => d = e

\* No key was evicted during a drain.
OnTime == evicted \subseteq {"idle"}

InOrder(w) == \A i, j \in 1..Len(w) : i < j => w[i].dst < w[j].dst

\* A walk that does not start over reads every key once, in order.
WalkInOrder ==
    OnTime =>
        /\ InOrder(v)
        /\ drain = "next" /\ key = None => v = <<>>
        /\ drain = "next" /\ key # None =>
              /\ elem[key] # None
              /\ \A i \in 1..Len(v) : v[i].dst <= key
        /\ drain = "read" =>
              /\ elem[key] # None
              /\ \A i \in 1..Len(v) : v[i].dst < key

\* What the walk read of d, behind the first n of it.
In(w, n, d) == \E i \in (n + 1)..Len(w) : w[i].dst = d
Read(w, n, d) ==
    IF In(w, n, d) THEN w[CHOOSE i \in (n + 1)..Len(w) : w[i].dst = d].bytes ELSE 0

\* What is printed, what is read but not printed, and what is neither.
ToPrint(d) == Read(v, IF drain = "print" THEN done ELSE 0, d)
InMap(d) ==
    IF elem[d] = None \/ (drain # "print" /\ In(v, done, d)) THEN 0 ELSE bytes[elem[d]]
ShareOf(d) == emitted[d] + ToPrint(d) + InMap(d)
Share == [d \in Dsts |-> ShareOf(d)]

InFlight(c) == acct[c].pc # "idle"
OfDst(d) == \E c \in CPUs : InFlight(c) /\ acct[c].dst = d

\* Nothing is counted twice.
NoneInvented == OnTime => Total(Share) + Busy <= Total(seen)

\* Without overlap, one packet at most is under way, and all is counted.
NoneLost ==
    ~raced =>
        /\ OnTime
        /\ \A c, e \in CPUs : InFlight(c) /\ InFlight(e) => c = e
        /\ \A c \in CPUs : InFlight(c) =>
              /\ drain = "idle"
              /\ acct[c].pc = "add" => elem[acct[c].dst] = acct[c].ptr
              /\ acct[c].pc = "insert" => elem[acct[c].dst] = None
        /\ evicted = {} =>
              \A d \in Dsts : seen[d] = Share[d] + IF OfDst(d) THEN 1 ELSE 0

VolumeInv == VolumeTyped /\ OneOwner /\ WalkInOrder /\ NoneInvented /\ NoneLost

\* What Total counts.
Units(f) == UNION {{d} \X (1..f[d]) : d \in Dsts}

LEMMA UnitIs ==
    ASSUME NEW f \in [Dsts -> Nat], NEW d, NEW n
    PROVE  <<d, n>> \in Units(f) <=> d \in Dsts /\ n \in 1..f[d]
BY DEF Units

LEMMA UnitsArePairs ==
    ASSUME NEW f \in [Dsts -> Nat], NEW u \in Units(f)
    PROVE  u = <<u[1], u[2]>> /\ u[1] \in Dsts /\ u[2] \in 1..f[u[1]]
BY DEF Units

LEMMA UnitsFinite ==
    ASSUME NEW f \in [Dsts -> Nat]
    PROVE  IsFiniteSet(Units(f)) /\ Total(f) = Cardinality(Units(f)) /\ Total(f) \in Nat
<1>1. \A d \in Dsts : IsFiniteSet({d} \X (1..f[d]))
  <2>1. SUFFICES ASSUME NEW d \in Dsts PROVE IsFiniteSet({d} \X (1..f[d]))
    OBVIOUS
  <2>2. IsFiniteSet({d})
    BY FS_Singleton
  <2>3. 1 \in Int /\ f[d] \in Int
    OBVIOUS
  <2>4. IsFiniteSet(1..f[d])
    BY <2>3, FS_Interval
  <2> QED
    BY <2>2, <2>4, FS_Product
<1>2. IsFiniteSet({{d} \X (1..f[d]) : d \in Dsts})
  <2>1. PICK g : g = [d \in Dsts |-> {d} \X (1..f[d])]
    OBVIOUS
  <2>2. g \in Surjection(Dsts, {{d} \X (1..f[d]) : d \in Dsts})
    BY <2>1 DEF Surjection
  <2> QED
    BY <2>2, VolumeAssumption, FS_Surjection
<1> QED
  BY <1>1, <1>2, FS_UNION, FS_CardinalityType DEF Units, Total

LEMMA TotalGrows ==
    ASSUME NEW f \in [Dsts -> Nat], NEW g \in [Dsts -> Nat], \A d \in Dsts : f[d] <= g[d]
    PROVE  Total(f) <= Total(g)
<1>1. Units(f) \subseteq Units(g)
  BY DEF Units
<1> QED
  BY <1>1, UnitsFinite, FS_Subset

\* One more of x, and no more of the others.
LEMMA TotalAdds ==
    ASSUME NEW f \in [Dsts -> Nat], NEW g \in [Dsts -> Nat], NEW x \in Dsts,
           \A d \in Dsts : g[d] = f[d] + IF d = x THEN 1 ELSE 0
    PROVE  Total(g) = Total(f) + 1
<1>1. <<x, f[x] + 1>> \notin Units(f)
  BY UnitIs
<1>2. Units(g) = Units(f) \cup {<<x, f[x] + 1>>}
  <2>1. ASSUME NEW u \in Units(g) PROVE u \in Units(f) \cup {<<x, f[x] + 1>>}
    <3>0. PICK d \in Dsts : u \in {d} \X (1..g[d])
      BY <2>1 DEF Units
    <3>1. PICK n \in 1..g[d] : u = <<d, n>>
      BY <3>0
    <3>2. n \in 1..f[d] \/ (d = x /\ n = f[x] + 1)
      OBVIOUS
    <3> QED
      BY <3>1, <3>2, UnitIs
  <2>2. ASSUME NEW u \in Units(f) PROVE u \in Units(g)
    <3>0. PICK d \in Dsts : u \in {d} \X (1..f[d])
      BY <2>2 DEF Units
    <3>1. PICK n \in 1..f[d] : u = <<d, n>>
      BY <3>0
    <3>2. n \in 1..g[d]
      OBVIOUS
    <3> QED
      BY <3>1, <3>2, UnitIs
  <2>3. <<x, f[x] + 1>> \in Units(g)
    <3>1. f[x] + 1 \in 1..g[x]
      OBVIOUS
    <3> QED
      BY <3>1, UnitIs
  <2> QED
    BY <2>1, <2>2, <2>3
<1> QED
  BY <1>1, <1>2, UnitsFinite, FS_AddElement

LEMMA TotalAddsAtMost ==
    ASSUME NEW f \in [Dsts -> Nat], NEW g \in [Dsts -> Nat], NEW x \in Dsts,
           \A d \in Dsts : g[d] <= f[d] + IF d = x THEN 1 ELSE 0
    PROVE  Total(g) <= Total(f) + 1
<1>1. PICK h : h = [d \in Dsts |-> f[d] + IF d = x THEN 1 ELSE 0]
  OBVIOUS
<1>2. h \in [Dsts -> Nat] /\ \A d \in Dsts : h[d] = f[d] + IF d = x THEN 1 ELSE 0
  BY <1>1
<1>3. Total(h) = Total(f) + 1
  BY <1>2, TotalAdds
<1> QED
  BY <1>2, <1>3, TotalGrows

LEMMA ReadingTyped ==
    /\ \A r \in Reading : r.dst \in Dsts /\ r.dst \in Nat /\ r.bytes \in Nat
    /\ \A w \in Seq(Reading), i \in Nat : i \in 1..Len(w) =>
          w[i] \in Reading /\ w[i].dst \in Dsts /\ w[i].dst \in Nat /\ w[i].bytes \in Nat
<1>1. \A r \in Reading : r.dst \in Dsts /\ r.dst \in Nat /\ r.bytes \in Nat
  BY VolumeAssumption DEF Reading
<1>2. \A w \in Seq(Reading), i \in Nat : i \in 1..Len(w) => w[i] \in Reading
  OBVIOUS
<1> QED
  BY <1>1, <1>2

LEMMA ReadTyped ==
    ASSUME NEW w \in Seq(Reading), NEW n \in Nat, NEW d
    PROVE  Read(w, n, d) \in Nat
<1>1. CASE In(w, n, d)
  <2>1. PICK i \in (n + 1)..Len(w) : i = CHOOSE j \in (n + 1)..Len(w) : w[j].dst = d
    BY <1>1, Zenon DEF In
  <2>2. i \in 1..Len(w)
    OBVIOUS
  <2>3. w[i] \in Reading
    BY <2>2
  <2> QED
    BY <1>1, <2>1, <2>3 DEF Read, Reading
<1>2. CASE ~In(w, n, d)
  BY <1>2 DEF Read
<1> QED
  BY <1>1, <1>2

LEMMA ReadIs ==
    ASSUME NEW w \in Seq(Reading), InOrder(w), NEW n \in Nat, NEW i \in (n + 1)..Len(w)
    PROVE  In(w, n, w[i].dst) /\ Read(w, n, w[i].dst) = w[i].bytes
<1>1. In(w, n, w[i].dst)
  BY DEF In
<1>2. PICK k \in (n + 1)..Len(w) :
        /\ k = CHOOSE j \in (n + 1)..Len(w) : w[j].dst = w[i].dst
        /\ w[k].dst = w[i].dst
  BY <1>1, Zenon DEF In
<1>3. k \in 1..Len(w) /\ i \in 1..Len(w)
  OBVIOUS
<1>4. w[k] \in Reading /\ w[i] \in Reading
  BY <1>3
<1>5. w[k].dst \in Nat /\ w[i].dst \in Nat
  BY <1>4, VolumeAssumption DEF Reading
<1>6. k = i
  BY <1>2, <1>3, <1>5 DEF InOrder
<1> QED
  BY <1>1, <1>2, <1>6 DEF Read

\* What is read next was not read before.
LEMMA ReadMore ==
    ASSUME NEW w \in Seq(Reading), InOrder(w), NEW r \in Reading,
           \A i \in 1..Len(w) : w[i].dst < r.dst
    PROVE  /\ Append(w, r) \in Seq(Reading) /\ InOrder(Append(w, r))
           /\ Len(Append(w, r)) = Len(w) + 1
           /\ ~In(w, 0, r.dst) /\ In(Append(w, r), 0, r.dst)
           /\ Read(Append(w, r), 0, r.dst) = r.bytes
           /\ \A d : d # r.dst => /\ In(Append(w, r), 0, d) <=> In(w, 0, d)
                                  /\ Read(Append(w, r), 0, d) = Read(w, 0, d)
           /\ \A i \in 1..Len(Append(w, r)) : Append(w, r)[i].dst <= r.dst
<1>1. PICK u : u = Append(w, r)
  OBVIOUS
<1>2. /\ u \in Seq(Reading) /\ Len(u) = Len(w) + 1 /\ Len(w) \in Nat
      /\ \A i \in 1..Len(w) : u[i] = w[i]
      /\ u[Len(w) + 1] = r
  BY <1>1, AppendProperties
<1>3. r.dst \in Nat /\ r.bytes \in Nat /\ \A i \in 1..Len(w) : w[i].dst \in Nat
  BY ReadingTyped
<1>4. InOrder(u)
  <2>1. SUFFICES ASSUME NEW i \in 1..Len(u), NEW j \in 1..Len(u), i < j
                 PROVE  u[i].dst < u[j].dst
    BY DEF InOrder
  <2>2. i \in 1..Len(w)
    BY <1>2, <2>1
  <2>3. CASE j \in 1..Len(w)
    BY <1>2, <2>1, <2>2, <2>3 DEF InOrder
  <2>4. CASE j = Len(w) + 1
    BY <1>2, <2>2, <2>4
  <2> QED
    BY <1>2, <2>3, <2>4
<1>5. ~In(w, 0, r.dst)
  BY <1>3 DEF In
<1>6. 0 \in Nat /\ Len(u) \in (0 + 1)..Len(u)
  BY <1>2
<1>7. In(u, 0, r.dst) /\ Read(u, 0, r.dst) = r.bytes
  BY <1>2, <1>4, <1>6, ReadIs
<1>8. ASSUME NEW d, d # r.dst
      PROVE  (In(u, 0, d) <=> In(w, 0, d)) /\ Read(u, 0, d) = Read(w, 0, d)
  <2>1. ASSUME NEW i \in (0 + 1)..Len(w), w[i].dst = d
        PROVE  /\ In(u, 0, d) /\ In(w, 0, d)
               /\ Read(u, 0, d) = w[i].bytes /\ Read(w, 0, d) = w[i].bytes
    <3>1. i \in (0 + 1)..Len(u) /\ u[i] = w[i]
      BY <1>2
    <3> QED
      BY <1>2, <1>4, <2>1, <3>1, ReadIs
  <2>2. ASSUME NEW i \in (0 + 1)..Len(u), u[i].dst = d
        PROVE  i \in (0 + 1)..Len(w) /\ w[i].dst = d
    BY <1>2, <1>8, <2>2
  <2>3. CASE In(w, 0, d)
    BY <2>1, <2>3 DEF In
  <2>4. CASE ~In(w, 0, d)
    <3>1. ~In(u, 0, d)
      BY <2>2, <2>4 DEF In
    <3> QED
      BY <2>4, <3>1 DEF Read
  <2> QED
    BY <2>3, <2>4
<1>9. ASSUME NEW i \in 1..Len(u) PROVE u[i].dst <= r.dst
  <2>1. CASE i = Len(w) + 1
    <3>1. u[i].dst = r.dst
      BY <1>2, <2>1
    <3> QED
      BY <1>3, <3>1
  <2>2. CASE i \in 1..Len(w)
    <3>1. u[i].dst = w[i].dst /\ w[i].dst < r.dst /\ w[i].dst \in Nat
      BY <1>2, <1>3, <2>2
    <3> QED
      BY <1>3, <3>1
  <2> QED
    BY <1>2, <2>1, <2>2
<1> QED
  BY <1>1, <1>2, <1>4, <1>5, <1>7, <1>8, <1>9

\* Behind the next entry is the rest, without it.
LEMMA ReadRest ==
    ASSUME NEW w \in Seq(Reading), InOrder(w), NEW n \in Nat, n < Len(w)
    PROVE  /\ ~In(w, n + 1, w[n + 1].dst)
           /\ In(w, n, w[n + 1].dst) /\ Read(w, n, w[n + 1].dst) = w[n + 1].bytes
           /\ \A d : d # w[n + 1].dst =>
                 (In(w, n + 1, d) <=> In(w, n, d)) /\ Read(w, n + 1, d) = Read(w, n, d)
<1>1. n + 1 \in (n + 1)..Len(w) /\ n + 1 \in 1..Len(w) /\ Len(w) \in Nat /\ n + 1 \in Nat
  OBVIOUS
<1>2. \A i \in 1..Len(w) : w[i].dst \in Nat
  BY ReadingTyped
<1>3. ~In(w, n + 1, w[n + 1].dst)
  <2>1. SUFFICES ASSUME NEW i \in (n + 1 + 1)..Len(w), w[i].dst = w[n + 1].dst
                 PROVE  FALSE
    BY DEF In
  <2>2. i \in 1..Len(w) /\ n + 1 < i
    OBVIOUS
  <2> QED
    BY <1>1, <1>2, <2>1, <2>2 DEF InOrder
<1>4. In(w, n, w[n + 1].dst) /\ Read(w, n, w[n + 1].dst) = w[n + 1].bytes
  BY <1>1, ReadIs
<1>5. ASSUME NEW d, d # w[n + 1].dst
      PROVE  (In(w, n + 1, d) <=> In(w, n, d)) /\ Read(w, n + 1, d) = Read(w, n, d)
  <2>1. ASSUME NEW i \in (n + 1 + 1)..Len(w), w[i].dst = d
        PROVE  /\ In(w, n + 1, d) /\ In(w, n, d)
               /\ Read(w, n + 1, d) = w[i].bytes /\ Read(w, n, d) = w[i].bytes
    <3>1. i \in (n + 1)..Len(w)
      OBVIOUS
    <3> QED
      BY <1>1, <2>1, <3>1, ReadIs
  <2>2. ASSUME NEW i \in (n + 1)..Len(w), w[i].dst = d
        PROVE  i \in (n + 1 + 1)..Len(w)
    BY <1>5, <2>2
  <2>3. CASE In(w, n + 1, d)
    BY <2>1, <2>3 DEF In
  <2>4. CASE ~In(w, n + 1, d)
    <3>1. ~In(w, n, d)
      BY <2>2, <2>4 DEF In
    <3> QED
      BY <2>4, <3>1 DEF Read
  <2> QED
    BY <2>3, <2>4
<1> QED
  BY <1>3, <1>4, <1>5

LEMMA ReadAll ==
    ASSUME NEW w, NEW n, NEW d, (n + 1)..Len(w) = {}
    PROVE  ~In(w, n, d) /\ Read(w, n, d) = 0
<1>1. ~In(w, n, d)
  BY DEF In
<1> QED
  BY <1>1 DEF Read

LEMMA ReadEmpty == \A d : ~In(<<>>, 0, d) /\ Read(<<>>, 0, d) = 0
<1>1. (0 + 1)..Len(<<>>) = {}
  OBVIOUS
<1> QED
  BY ONLY <1>1, ReadAll

AcctType == [pc : {"idle", "insert", "add"}, dst : Dsts \cup {None}, ptr : Elements \cup {None}]

LEMMA IdleTyped == IdleAcct \in AcctType /\ IdleAcct.pc = "idle"
BY DEF IdleAcct, AcctType

LEMMA InitVolume == VolumeInit => VolumeInv
<1>1. SUFFICES ASSUME VolumeInit PROVE VolumeInv
  OBVIOUS
<1>2. IdleAcct \in AcctType
  BY DEF IdleAcct, AcctType
<1>3. VolumeTyped
  <2>1. acct \in [CPUs -> AcctType] /\ \A c \in CPUs : acct[c].pc = "idle"
    BY <1>1, <1>2 DEF VolumeInit, IdleAcct
  <2>2. v \in Seq(Reading) /\ Len(v) = 0 /\ done \in 0..Len(v)
    BY <1>1 DEF VolumeInit
  <2> QED
    BY <1>1, <2>1, <2>2 DEF VolumeInit, VolumeTyped, Phases, AcctType
<1>4. OneOwner
  BY <1>1 DEF VolumeInit, OneOwner
<1>5. WalkInOrder
  <2>1. Len(v) = 0
    BY <1>1 DEF VolumeInit
  <2> QED
    BY <1>1, <2>1 DEF VolumeInit, WalkInOrder, InOrder
<1>6. \A c \in CPUs : ~InFlight(c)
  <2>1. acct = [c \in CPUs |-> IdleAcct]
    BY <1>1 DEF VolumeInit
  <2>2. ASSUME NEW c \in CPUs PROVE ~InFlight(c)
    <3>1. acct[c] = IdleAcct
      BY <2>1
    <3>2. acct[c].pc = "idle"
      BY <3>1, IdleTyped
    <3> QED
      BY <3>2, Zenon DEF InFlight
  <2> QED
    BY <2>2, Zenon
<1>7. \A d \in Dsts : Share[d] = 0 /\ seen[d] = 0
  <2>1. SUFFICES ASSUME NEW d \in Dsts PROVE ShareOf(d) = 0 /\ seen[d] = 0
    BY DEF Share
  <2>2. v = <<>> /\ done = 0 /\ drain = "idle" /\ elem[d] = None /\ emitted[d] = 0 /\ seen[d] = 0
    BY <1>1 DEF VolumeInit
  <2>3. Read(v, 0, d) = 0
    BY <2>2, ReadEmpty
  <2>4. ToPrint(d) = 0
    BY <2>2, <2>3 DEF ToPrint
  <2>5. InMap(d) = 0
    BY <2>2 DEF InMap
  <2> QED
    BY <2>2, <2>4, <2>5 DEF ShareOf
<1>8. NoneInvented
  <2>1. Busy = 0
    <3>1. {c \in CPUs : acct[c].pc # "idle"} = {}
      BY <1>6 DEF InFlight
    <3> QED
      BY <3>1, FS_EmptySet DEF Busy
  <2>2. Share = seen
    BY <1>1, <1>7 DEF VolumeInit, Share
  <2>3. Total(seen) \in Nat
    BY <1>3, UnitsFinite DEF VolumeTyped
  <2> QED
    BY <2>1, <2>2, <2>3 DEF NoneInvented
<1>9. NoneLost
  <2>1. OnTime /\ \A d \in Dsts : ~OfDst(d)
    BY <1>1, <1>6 DEF VolumeInit, OnTime, OfDst
  <2> QED
    BY <1>6, <1>7, <2>1 DEF NoneLost
<1> QED
  BY <1>3, <1>4, <1>5, <1>8, <1>9 DEF VolumeInv

\* The packet paths of one CPU leave the drain alone, and give its step a place.
LEMMA AcctStep ==
    ASSUME VolumeTyped, NEW c \in CPUs, NEW a \in AcctType,
           acct' = [acct EXCEPT ![c] = a],
           a.pc # "idle" => a.dst \in Dsts, a.pc = "add" => a.ptr \in Elements
    PROVE  /\ acct' \in [CPUs -> AcctType]
           /\ acct'[c] = a /\ \A e \in CPUs \ {c} : acct'[e] = acct[e]
           /\ \A e \in CPUs : /\ acct'[e].pc # "idle" => acct'[e].dst \in Dsts
                              /\ acct'[e].pc = "add" => acct'[e].ptr \in Elements
<1>1. acct \in [CPUs -> AcctType]
  BY DEF VolumeTyped, AcctType
<1>2. acct'[c] = a /\ (\A e \in CPUs \ {c} : acct'[e] = acct[e]) /\ acct' \in [CPUs -> AcctType]
  BY <1>1
<1> QED
  BY <1>2 DEF VolumeTyped

LEMMA LookupAcct ==
    ASSUME VolumeTyped, NEW c \in CPUs, NEW dst \in Dsts, LookupBytes(c, dst)
    PROVE  \E a \in AcctType :
              /\ acct' = [acct EXCEPT ![c] = a] /\ a.dst = dst /\ a.ptr = elem[dst]
              /\ a.pc = IF elem[dst] = None THEN "insert" ELSE "add"
<1>1. PICK a : a = [pc |-> IF elem[dst] = None THEN "insert" ELSE "add",
                    dst |-> dst, ptr |-> elem[dst]]
  OBVIOUS
<1>2. elem[dst] \in Elements \cup {None}
  BY DEF VolumeTyped
<1>3. a \in AcctType /\ a.dst = dst /\ a.ptr = elem[dst]
      /\ a.pc = IF elem[dst] = None THEN "insert" ELSE "add"
  BY <1>1, <1>2 DEF AcctType
<1>4. acct' = [acct EXCEPT ![c] = a]
  BY <1>1 DEF LookupBytes
<1> QED
  BY <1>3, <1>4

\* An insert takes an element that no other key has afterwards.
Given(c, e, from) ==
    /\ from # acct[c].dst /\ acct[c].dst \in Dsts
    /\ bytes' = [bytes EXCEPT ![e] = 1]
    /\ evicted' = IF from = None THEN evicted ELSE evicted \cup {drain}
    /\ elem' = [d \in Dsts |-> IF d = acct[c].dst THEN e
                               ELSE IF d = from THEN None ELSE elem[d]]
    /\ \A d \in Dsts : elem[d] = e => d = from

LEMMA InsertIs ==
    ASSUME VolumeTyped, OneOwner, NEW c \in CPUs, InsertBytes(c)
    PROVE  \E e \in Elements, from \in Dsts \cup {None} : Given(c, e, from)
<1>1. PICK a \in Allocations(acct[c].dst) :
        /\ bytes' = [bytes EXCEPT ![a[1]] = 1]
        /\ evicted' = IF a[2] = None THEN evicted ELSE evicted \cup {drain}
        /\ elem' = [d \in Dsts |-> IF d = acct[c].dst THEN a[1]
                                   ELSE IF d = a[2] THEN None ELSE elem[d]]
  BY DEF InsertBytes
<1>2. acct[c].dst \in Dsts
  BY DEF InsertBytes, VolumeTyped
<1>3. CASE Free # {}
  <2>1. PICK e \in Free : a = <<e, None>>
    BY <1>1, <1>3 DEF Allocations
  <2>2. e \in Elements /\ \A d \in Dsts : elem[d] # e
    BY <2>1 DEF Free
  <2>3. a[1] = e /\ a[2] = None /\ None \notin Dsts
    BY <2>1, VolumeAssumption
  <2>4. None # acct[c].dst /\ \A d \in Dsts : elem[d] = e => d = None
    BY <1>2, <2>2, <2>3
  <2>5. Given(c, e, None)
    BY <1>1, <1>2, <2>3, <2>4 DEF Given
  <2> QED
    BY <2>2, <2>5
<1>4. CASE Free = {}
  <2>1. PICK from \in Resident \ {acct[c].dst} : a = <<elem[from], from>>
    BY <1>1, <1>4 DEF Allocations
  <2>2. from \in Dsts /\ from # acct[c].dst /\ elem[from] # None /\ elem[from] \in Elements
    BY <2>1 DEF Resident, VolumeTyped
  <2>3. a[1] = elem[from] /\ a[2] = from
    BY <2>1
  <2>4. \A d \in Dsts : elem[d] = elem[from] => d = from
    BY <2>2 DEF OneOwner
  <2>5. Given(c, elem[from], from)
    BY <1>1, <1>2, <2>2, <2>3, <2>4 DEF Given
  <2> QED
    BY <2>2, <2>5
<1> QED
  BY <1>3, <1>4

LEMMA StepTyped == VolumeInv /\ [VolumeNext]_volumeVars => VolumeTyped'
<1>1. SUFFICES ASSUME VolumeInv, [VolumeNext]_volumeVars PROVE VolumeTyped'
  OBVIOUS
<1>2. VolumeTyped /\ OneOwner
  BY <1>1 DEF VolumeInv
<1>3. ASSUME NEW c \in CPUs, NEW dst \in Dsts, LookupBytes(c, dst) PROVE VolumeTyped'
  <2>1. PICK a \in AcctType : acct' = [acct EXCEPT ![c] = a] /\ a.dst = dst /\ a.ptr = elem[dst]
                              /\ a.pc = IF elem[dst] = None THEN "insert" ELSE "add"
    BY <1>2, <1>3, LookupAcct
  <2>2. a.pc = "add" => a.ptr \in Elements
    BY <1>2, <2>1 DEF VolumeTyped
  <2>3. /\ acct' \in [CPUs -> AcctType]
        /\ \A e \in CPUs : /\ acct'[e].pc # "idle" => acct'[e].dst \in Dsts
                           /\ acct'[e].pc = "add" => acct'[e].ptr \in Elements
    BY <1>2, <2>1, <2>2, AcctStep
  <2>4. seen' \in [Dsts -> Nat] /\ raced' \in BOOLEAN
    BY <1>2, <1>3 DEF LookupBytes, VolumeTyped
  <2> QED
    BY <1>2, <1>3, <2>3, <2>4 DEF LookupBytes, VolumeTyped, AcctType, mapVars, drainVars
<1>4. ASSUME NEW c \in CPUs, AddBytes(c) PROVE VolumeTyped'
  <2>1. /\ acct' \in [CPUs -> AcctType]
        /\ \A e \in CPUs : /\ acct'[e].pc # "idle" => acct'[e].dst \in Dsts
                           /\ acct'[e].pc = "add" => acct'[e].ptr \in Elements
    BY <1>2, <1>4, IdleTyped, AcctStep DEF AddBytes
  <2>2. bytes' \in [Elements -> Nat]
    BY <1>2, <1>4 DEF AddBytes, VolumeTyped
  <2> QED
    BY <1>2, <1>4, <2>1, <2>2 DEF AddBytes, VolumeTyped, AcctType, drainVars
<1>5. ASSUME NEW c \in CPUs, InsertBytes(c) PROVE VolumeTyped'
  <2>1. /\ acct' \in [CPUs -> AcctType]
        /\ \A e \in CPUs : /\ acct'[e].pc # "idle" => acct'[e].dst \in Dsts
                           /\ acct'[e].pc = "add" => acct'[e].ptr \in Elements
    BY <1>2, <1>5, IdleTyped, AcctStep DEF InsertBytes
  <2>2. PICK e \in Elements, from \in Dsts \cup {None} : Given(c, e, from)
    BY <1>2, <1>5, InsertIs
  <2>3. bytes' \in [Elements -> Nat]
    BY <1>2, <2>2 DEF Given, VolumeTyped
  <2>4. elem' \in [Dsts -> Elements \cup {None}]
    BY <1>2, <2>2 DEF Given, VolumeTyped
  <2>5. evicted' \subseteq Phases
    BY <1>2, <2>2 DEF Given, VolumeTyped
  <2> QED
    BY <1>2, <1>5, <2>1, <2>3, <2>4, <2>5 DEF InsertBytes, VolumeTyped, AcctType, drainVars
<1>6. CASE DrainStarts
  <2>1. v' \in Seq(Reading) /\ Len(v') = 0 /\ done' \in 0..Len(v')
    BY <1>6 DEF DrainStarts
  <2> QED
    BY <1>2, <1>6, <2>1 DEF DrainStarts, VolumeTyped, mapVars, Phases
<1>7. CASE GetNextKey
  BY <1>2, <1>7 DEF GetNextKey, KeysAhead, Resident, VolumeTyped, mapVars, Phases
<1>8. CASE ReadElement
  <2>1. v' \in Seq(Reading) /\ Len(v') \in Nat /\ key \in Dsts
    <3>1. key \in Dsts
      BY <1>2, <1>8 DEF ReadElement, VolumeTyped
    <3>2. elem[key] # None => [dst |-> key, bytes |-> bytes[elem[key]]] \in Reading
      BY <1>2, <3>1 DEF VolumeTyped, Reading
    <3>3. v' \in Seq(Reading)
      BY <1>2, <1>8, <3>2, AppendProperties DEF ReadElement, VolumeTyped
    <3> QED
      BY <3>1, <3>3
  <2>2. done' = 0 /\ done' \in 0..Len(v')
    BY <1>2, <1>8, <2>1 DEF ReadElement, VolumeTyped
  <2> QED
    BY <1>2, <1>8, <2>1, <2>2 DEF ReadElement, VolumeTyped, mapVars, Phases
<1>9. CASE DeleteKey
  <2>1. done' \in 0..Len(v)
    BY <1>2, <1>9 DEF DeleteKey, VolumeTyped
  <2>2. elem' \in [Dsts -> Elements \cup {None}]
    BY <1>2, <1>9 DEF DeleteKey, VolumeTyped
  <2> QED
    BY <1>2, <1>9, <2>1, <2>2 DEF DeleteKey, VolumeTyped
<1>10. CASE DrainSorts
  BY <1>2, <1>10 DEF DrainSorts, VolumeTyped, mapVars, Phases
<1>11. CASE PrintVolume
  <2>1. done' \in 0..Len(v) /\ done + 1 \in Nat /\ done + 1 \in 1..Len(v)
    BY <1>2, <1>11 DEF PrintVolume, VolumeTyped
  <2>2. v[done + 1].dst \in Dsts /\ v[done + 1].bytes \in Nat
    BY <1>2, <2>1, ReadingTyped DEF VolumeTyped
  <2>3. emitted' \in [Dsts -> Nat]
    BY <1>2, <1>11, <2>2 DEF PrintVolume, VolumeTyped
  <2> QED
    BY <1>2, <1>11, <2>1, <2>3 DEF PrintVolume, VolumeTyped, mapVars
<1>12. CASE DrainEnds
  <2>1. v' \in Seq(Reading) /\ Len(v') = 0 /\ done' \in 0..Len(v')
    BY <1>12 DEF DrainEnds
  <2> QED
    BY <1>2, <1>12, <2>1 DEF DrainEnds, VolumeTyped, mapVars, Phases
<1>13. CASE UNCHANGED volumeVars
  BY <1>2, <1>13 DEF volumeVars, mapVars, drainVars, VolumeTyped
<1> QED
  BY <1>1, <1>3, <1>4, <1>5, <1>6, <1>7, <1>8, <1>9, <1>10, <1>11, <1>12, <1>13 DEF VolumeNext

LEMMA StepOwner == VolumeInv /\ [VolumeNext]_volumeVars => OneOwner'
<1>1. SUFFICES ASSUME VolumeInv, [VolumeNext]_volumeVars PROVE OneOwner'
  OBVIOUS
<1>2. VolumeTyped /\ OneOwner
  BY <1>1 DEF VolumeInv
<1>3. ASSUME NEW c \in CPUs, InsertBytes(c) PROVE OneOwner'
  <2>1. PICK e \in Elements, from \in Dsts \cup {None} : Given(c, e, from)
    BY <1>2, <1>3, InsertIs
  <2> QED
    BY <1>2, <2>1, VolumeAssumption DEF Given, OneOwner
<1>4. CASE DeleteKey
  <2>1. \A d \in Dsts : elem'[d] = elem[d] \/ elem'[d] = None
    BY <1>2, <1>4 DEF DeleteKey, VolumeTyped
  <2> QED
    BY <1>2, <2>1 DEF OneOwner
<1>5. CASE UNCHANGED elem
  BY <1>2, <1>5 DEF OneOwner
<1>6. ASSUME NEW c \in CPUs, AddBytes(c) \/ \E dst \in Dsts : LookupBytes(c, dst)
      PROVE  UNCHANGED elem
  BY <1>6 DEF AddBytes, LookupBytes, mapVars
<1>7. ASSUME DrainStarts \/ GetNextKey \/ ReadElement \/ DrainSorts \/ PrintVolume \/ DrainEnds
             \/ UNCHANGED volumeVars
      PROVE  UNCHANGED elem
  BY <1>7 DEF DrainStarts, GetNextKey, ReadElement, DrainSorts, PrintVolume, DrainEnds,
              volumeVars, mapVars
<1> QED
  BY <1>1, <1>3, <1>4, <1>5, <1>6, <1>7 DEF VolumeNext

LEMMA EvictedGrows ==
    ASSUME VolumeInv, [VolumeNext]_volumeVars
    PROVE  /\ evicted \subseteq evicted'
           /\ OnTime' => OnTime
<1>1. evicted \subseteq evicted'
  <2>1. ASSUME NEW c \in CPUs, InsertBytes(c) PROVE evicted \subseteq evicted'
    BY <2>1 DEF InsertBytes
  <2>2. ASSUME NEW c \in CPUs, AddBytes(c) \/ \E dst \in Dsts : LookupBytes(c, dst)
        PROVE  UNCHANGED evicted
    BY <2>2 DEF AddBytes, LookupBytes
  <2>3. ASSUME DrainStarts \/ GetNextKey \/ ReadElement \/ DeleteKey \/ DrainSorts
               \/ PrintVolume \/ DrainEnds \/ UNCHANGED volumeVars
        PROVE  UNCHANGED evicted
    BY <2>3 DEF DrainStarts, GetNextKey, ReadElement, DeleteKey, DrainSorts, PrintVolume,
                DrainEnds, volumeVars
  <2> QED
    BY <2>1, <2>2, <2>3 DEF VolumeNext
<1> QED
  BY <1>1 DEF OnTime

\* In time means that the drain loses no key to an insert.
LEMMA InsertInTime ==
    ASSUME VolumeInv, OnTime', NEW c \in CPUs, NEW e \in Elements,
           NEW from \in Dsts \cup {None}, Given(c, e, from), drain # "idle"
    PROVE  /\ from = None /\ \A d \in Dsts : elem[d] # e
           /\ \A d \in Dsts : elem'[d] = IF d = acct[c].dst THEN e ELSE elem[d]
<1>1. from = None
  BY DEF Given, OnTime
<1> QED
  BY <1>1, VolumeAssumption DEF Given

LEMMA StepWalk == VolumeInv /\ [VolumeNext]_volumeVars => WalkInOrder'
<1>1. SUFFICES ASSUME VolumeInv, [VolumeNext]_volumeVars, OnTime' PROVE WalkInOrder'
  BY DEF WalkInOrder
<1>2. VolumeTyped /\ OneOwner /\ OnTime
  BY <1>1, EvictedGrows DEF VolumeInv
<1>3. /\ InOrder(v)
      /\ drain = "next" /\ key = None => v = <<>>
      /\ drain = "next" /\ key # None =>
            /\ elem[key] # None
            /\ \A i \in 1..Len(v) : v[i].dst <= key
      /\ drain = "read" =>
            /\ elem[key] # None
            /\ \A i \in 1..Len(v) : v[i].dst < key
  BY <1>1, <1>2 DEF VolumeInv, WalkInOrder
<1>4. CASE UNCHANGED <<elem, drain, key, v>>
  BY <1>3, <1>4 DEF WalkInOrder
<1>5. ASSUME NEW c \in CPUs, AddBytes(c) \/ \E dst \in Dsts : LookupBytes(c, dst)
      PROVE  UNCHANGED <<elem, drain, key, v>>
  BY <1>5 DEF AddBytes, LookupBytes, mapVars, drainVars
<1>6. ASSUME NEW c \in CPUs, InsertBytes(c) PROVE WalkInOrder'
  <2>1. PICK e \in Elements, from \in Dsts \cup {None} : Given(c, e, from)
    BY <1>2, <1>6, InsertIs
  <2>2. UNCHANGED <<drain, key, v>>
    BY <1>6 DEF InsertBytes, drainVars
  <2>3. ASSUME drain # "idle", key # None, elem[key] # None PROVE elem'[key] # None
    <3>1. key \in Dsts
      BY <1>2, <2>3 DEF VolumeTyped
    <3>2. elem'[key] = IF key = acct[c].dst THEN e ELSE elem[key]
      BY <1>1, <2>1, <2>3, <3>1, InsertInTime
    <3> QED
      BY <2>3, <3>2, VolumeAssumption
  <2>4. drain = "read" => key # None
    BY <1>2, VolumeAssumption DEF VolumeTyped
  <2> QED
    BY <1>3, <2>2, <2>3, <2>4 DEF WalkInOrder
<1>7. CASE DrainStarts
  <2>1. v' = <<>> /\ drain' = "next" /\ key' = None
    BY <1>7 DEF DrainStarts
  <2>2. InOrder(<<>>)
    BY DEF InOrder
  <2> QED
    BY <2>1, <2>2 DEF WalkInOrder
<1>8. CASE GetNextKey
  <2>1. UNCHANGED <<elem, v>>
    BY <1>8 DEF GetNextKey, mapVars
  <2>2. CASE drain' = "delete"
    BY <1>3, <2>1, <2>2 DEF WalkInOrder
  <2>3. CASE drain' = "read" /\ key' \in KeysAhead
    <3>1. key' \in Dsts /\ elem[key'] # None
      BY <2>3 DEF KeysAhead, Resident
    <3>2. ASSUME NEW i \in 1..Len(v) PROVE v[i].dst < key'
      <4>1. drain = "next" /\ v # <<>>
        BY <1>8, <3>2 DEF GetNextKey
      <4>2. key \in Dsts /\ key \in Resident /\ v[i].dst <= key
        BY <1>2, <1>3, <3>2, <4>1 DEF VolumeTyped, Resident
      <4>3. key # None /\ key' > key
        BY <2>3, <4>2, VolumeAssumption DEF KeysAhead
      <4>4. v[i].dst \in Nat /\ key \in Nat /\ key' \in Nat
        BY <1>2, <3>1, <3>2, <4>2, ReadingTyped, VolumeAssumption DEF VolumeTyped
      <4> QED
        BY <4>2, <4>3, <4>4
    <3> QED
      BY <1>3, <2>1, <2>3, <3>1, <3>2 DEF WalkInOrder
  <2> QED
    BY <1>8, <2>2, <2>3 DEF GetNextKey
<1>9. CASE ReadElement
  <2>1. /\ drain = "read" /\ drain' = "next" /\ UNCHANGED <<elem, key>>
        /\ key \in Dsts /\ elem[key] # None /\ \A i \in 1..Len(v) : v[i].dst < key
    BY <1>2, <1>3, <1>9 DEF ReadElement, VolumeTyped, mapVars
  <2>2. PICK r \in Reading : r.dst = key /\ v' = Append(v, r)
    <3>1. elem[key] \in Elements
      BY <1>2, <2>1 DEF VolumeTyped
    <3>2. bytes[elem[key]] \in Nat
      BY <1>2, <3>1 DEF VolumeTyped
    <3>3. PICK r : r = [dst |-> key, bytes |-> bytes[elem[key]]]
      OBVIOUS
    <3>4. r \in Reading /\ r.dst = key
      BY <2>1, <3>2, <3>3 DEF Reading
    <3> QED
      BY <1>9, <2>1, <3>3, <3>4 DEF ReadElement
  <2>3. \A i \in 1..Len(v) : v[i].dst < r.dst
    BY <2>1, <2>2
  <2>4. v \in Seq(Reading) /\ InOrder(v)
    BY <1>2, <1>3 DEF VolumeTyped
  <2>5. InOrder(v') /\ \A i \in 1..Len(v') : v'[i].dst <= r.dst
    BY <2>2, <2>3, <2>4, ReadMore
  <2>6. key # None
    BY <2>1, VolumeAssumption
  <2> QED
    BY <2>1, <2>2, <2>5, <2>6 DEF WalkInOrder
<1>10. CASE drain' \notin {"next", "read"} /\ InOrder(v')
  BY <1>10 DEF WalkInOrder
<1>11. ASSUME DeleteKey \/ DrainSorts \/ PrintVolume \/ DrainEnds
       PROVE  drain' \notin {"next", "read"} /\ InOrder(v')
  <2>1. InOrder(<<>>)
    BY DEF InOrder
  <2> QED
    BY <1>3, <1>11, <2>1 DEF DeleteKey, DrainSorts, PrintVolume, DrainEnds
<1>12. CASE UNCHANGED volumeVars
  BY <1>4, <1>12 DEF volumeVars, mapVars, drainVars
<1> QED
  BY <1>1, <1>4, <1>5, <1>6, <1>7, <1>8, <1>9, <1>10, <1>11, <1>12 DEF VolumeNext

LEMMA ShareTyped == VolumeTyped => Share \in [Dsts -> Nat] /\ \A d \in Dsts : InMap(d) \in Nat
<1>1. SUFFICES ASSUME VolumeTyped, NEW d \in Dsts PROVE ShareOf(d) \in Nat /\ InMap(d) \in Nat
  BY DEF Share
<1>2. ToPrint(d) \in Nat
  <2>1. v \in Seq(Reading) /\ done \in Nat /\ 0 \in Nat
    BY <1>1 DEF VolumeTyped
  <2>2. Read(v, done, d) \in Nat /\ Read(v, 0, d) \in Nat
    BY ONLY <2>1, ReadTyped
  <2> QED
    BY <2>2 DEF ToPrint
<1>3. InMap(d) \in Nat
  BY <1>1 DEF InMap, VolumeTyped
<1>4. emitted[d] \in Nat
  BY <1>1 DEF VolumeTyped
<1> QED
  BY <1>2, <1>3, <1>4 DEF ShareOf

\* The drain moves bytes from the map to its list, and from there to the tap's
\* output.
LEMMA DrainKeepsShare ==
    ASSUME VolumeInv, OnTime,
           DrainStarts \/ GetNextKey \/ ReadElement \/ DeleteKey \/ DrainSorts
           \/ PrintVolume \/ DrainEnds
    PROVE  Share' = Share
<1>1. SUFFICES ASSUME NEW d \in Dsts PROVE ShareOf(d)' = ShareOf(d)
  BY DEF Share
<1>2. VolumeTyped
  BY DEF VolumeInv
<1>3. v \in Seq(Reading) /\ InOrder(v) /\ Len(v) \in Nat /\ done \in Nat /\ done <= Len(v)
      /\ drain \in Phases
  BY <1>2 DEF VolumeInv, VolumeTyped, WalkInOrder
<1>4. CASE DrainStarts \/ DrainEnds
  <2>1. /\ v' = <<>> /\ done' = 0 /\ drain' # "print" /\ UNCHANGED <<elem, bytes, emitted>>
    BY <1>4 DEF DrainStarts, DrainEnds, mapVars
  <2>2. ToPrint(d)' = 0
    BY <2>1, ReadEmpty DEF ToPrint
  <2>3. ToPrint(d) = 0
    <3>1. CASE DrainStarts
      <4>1. v = <<>> /\ drain = "idle"
        BY <1>2, <3>1 DEF DrainStarts, VolumeTyped
      <4> QED
        BY <4>1, ReadEmpty DEF ToPrint
    <3>2. CASE DrainEnds
      <4>1. (done + 1)..Len(v) = {} /\ drain = "print"
        BY <1>3, <3>2 DEF DrainEnds
      <4>2. Read(v, done, d) = 0
        BY ONLY <4>1, ReadAll
      <4> QED
        BY <4>1, <4>2 DEF ToPrint
    <3> QED
      BY <1>4, <3>1, <3>2
  <2>4. InMap(d)' = IF elem[d] = None THEN 0 ELSE bytes[elem[d]]
    BY <2>1, ReadEmpty DEF InMap
  <2>5. InMap(d) = IF elem[d] = None THEN 0 ELSE bytes[elem[d]]
    <3>1. CASE DrainStarts
      <4>1. v = <<>> /\ ~In(<<>>, done, d)
        BY <1>2, <1>3, <3>1 DEF DrainStarts, VolumeTyped, In
      <4> QED
        BY <4>1 DEF InMap
    <3>2. CASE DrainEnds
      BY <3>2 DEF DrainEnds, InMap
    <3> QED
      BY <1>4, <3>1, <3>2
  <2> QED
    BY <2>1, <2>2, <2>3, <2>4, <2>5 DEF ShareOf
<1>5. CASE GetNextKey
  <2>1. /\ UNCHANGED <<v, done, elem, bytes, emitted>>
        /\ drain # "print" /\ drain' # "print"
    BY <1>5 DEF GetNextKey, mapVars
  <2>2. ToPrint(d)' = ToPrint(d) /\ InMap(d)' = InMap(d)
    BY <2>1 DEF ToPrint, InMap
  <2> QED
    BY <2>1, <2>2 DEF ShareOf
<1>6. CASE ReadElement
  <2>1. /\ drain = "read" /\ drain' = "next" /\ UNCHANGED <<elem, bytes, emitted, done>>
        /\ key \in Dsts /\ elem[key] # None /\ \A i \in 1..Len(v) : v[i].dst < key
        /\ done = 0
    BY <1>2, <1>6 DEF ReadElement, VolumeInv, WalkInOrder, VolumeTyped, mapVars
  <2>2. PICK r \in Reading : r.dst = key /\ r.bytes = bytes[elem[key]] /\ v' = Append(v, r)
    <3>1. elem[key] \in Elements
      BY <1>2, <2>1 DEF VolumeTyped
    <3>2. bytes[elem[key]] \in Nat
      BY <1>2, <3>1 DEF VolumeTyped
    <3>3. PICK r : r = [dst |-> key, bytes |-> bytes[elem[key]]]
      OBVIOUS
    <3>4. r \in Reading /\ r.dst = key /\ r.bytes = bytes[elem[key]]
      BY <2>1, <3>2, <3>3 DEF Reading
    <3> QED
      BY <1>6, <2>1, <3>3, <3>4 DEF ReadElement
  <2>3. \A i \in 1..Len(v) : v[i].dst < r.dst
    BY <2>1, <2>2
  <2>4. /\ ~In(v, 0, key) /\ In(v', 0, key) /\ Read(v', 0, key) = bytes[elem[key]]
        /\ d # key => (In(v', 0, d) <=> In(v, 0, d)) /\ Read(v', 0, d) = Read(v, 0, d)
    BY <1>3, <2>2, <2>3, ReadMore
  <2>5. /\ ToPrint(d)' = Read(v', 0, d) /\ ToPrint(d) = Read(v, 0, d)
    BY <2>1 DEF ToPrint
  <2>6. /\ InMap(d)' = IF elem[d] = None \/ In(v', 0, d) THEN 0 ELSE bytes[elem[d]]
        /\ InMap(d) = IF elem[d] = None \/ In(v, 0, d) THEN 0 ELSE bytes[elem[d]]
    BY <2>1 DEF InMap
  <2>7. CASE d = key
    <3>1. Read(v, 0, d) = 0
      BY <2>4, <2>7 DEF Read
    <3>2. ToPrint(d)' = InMap(d) /\ InMap(d)' = 0 /\ ToPrint(d) = 0
      BY <2>1, <2>4, <2>5, <2>6, <2>7, <3>1
    <3>3. InMap(d) \in Nat /\ emitted[d] \in Nat
      BY <1>2, ShareTyped DEF VolumeTyped
    <3> QED
      BY <2>1, <3>2, <3>3 DEF ShareOf
  <2>8. CASE d # key
    <3>1. ToPrint(d)' = ToPrint(d) /\ InMap(d)' = InMap(d)
      BY <2>4, <2>5, <2>6, <2>8
    <3> QED
      BY <2>1, <3>1 DEF ShareOf
  <2> QED
    BY <2>7, <2>8
<1>7. CASE DeleteKey
  <2>1. /\ drain = "delete" /\ done < Len(v) /\ done' = done + 1
        /\ elem' = [elem EXCEPT ![v[done + 1].dst] = None]
        /\ UNCHANGED <<drain, v, bytes, emitted>>
    BY <1>7 DEF DeleteKey
  <2>2. /\ ~In(v, done + 1, v[done + 1].dst) /\ In(v, done, v[done + 1].dst)
        /\ d # v[done + 1].dst => (In(v, done + 1, d) <=> In(v, done, d))
    BY <1>3, <2>1, ReadRest
  <2>3. ToPrint(d)' = ToPrint(d)
    BY <2>1 DEF ToPrint
  <2>4. elem'[d] = IF d = v[done + 1].dst THEN None ELSE elem[d]
    BY <1>2, <2>1 DEF VolumeTyped
  <2>5. InMap(d)' = InMap(d)
    BY <2>1, <2>2, <2>4 DEF InMap
  <2> QED
    BY <2>1, <2>3, <2>5 DEF ShareOf
<1>8. CASE DrainSorts
  <2>1. /\ drain = "delete" /\ done = Len(v) /\ drain' = "print" /\ done' = 0
        /\ UNCHANGED <<elem, bytes, v, emitted>>
    BY <1>8 DEF DrainSorts, mapVars
  <2>2. ToPrint(d)' = ToPrint(d)
    BY <2>1 DEF ToPrint
  <2>3. (done + 1)..Len(v) = {}
    BY <1>3, <2>1
  <2>4. ~In(v, done, d)
    BY ONLY <2>3, ReadAll
  <2>5. InMap(d)' = InMap(d)
    BY <2>1, <2>4 DEF InMap
  <2> QED
    BY <2>1, <2>2, <2>5 DEF ShareOf
<1>9. CASE PrintVolume
  <2>1. /\ drain = "print" /\ done < Len(v) /\ done' = done + 1
        /\ emitted' = [emitted EXCEPT ![v[done + 1].dst] = @ + v[done + 1].bytes]
        /\ UNCHANGED <<drain, v, elem, bytes>>
    BY <1>9 DEF PrintVolume, mapVars
  <2>2. InMap(d)' = InMap(d)
    BY <2>1 DEF InMap
  <2>3. ToPrint(d) = Read(v, done, d) /\ ToPrint(d)' = Read(v, done + 1, d)
    BY <2>1 DEF ToPrint
  <2>4. /\ ~In(v, done + 1, v[done + 1].dst) /\ Read(v, done, v[done + 1].dst) = v[done + 1].bytes
        /\ d # v[done + 1].dst => Read(v, done + 1, d) = Read(v, done, d)
    BY <1>3, <2>1, ReadRest
  <2>5. CASE d = v[done + 1].dst
    <3>1. ToPrint(d)' = 0 /\ ToPrint(d) = v[done + 1].bytes
      BY <2>3, <2>4, <2>5 DEF Read
    <3>2. emitted'[d] = emitted[d] + v[done + 1].bytes
      BY <1>2, <2>1, <2>5 DEF VolumeTyped
    <3>3. done + 1 \in Nat /\ done + 1 \in 1..Len(v)
      BY <1>3, <2>1
    <3>4. v[done + 1].bytes \in Nat /\ emitted[d] \in Nat /\ InMap(d) \in Nat
      BY <1>2, <1>3, <3>3, ReadingTyped, ShareTyped DEF VolumeTyped
    <3> QED
      BY <2>2, <3>1, <3>2, <3>4 DEF ShareOf
  <2>6. CASE d # v[done + 1].dst
    <3>1. emitted'[d] = emitted[d] /\ ToPrint(d)' = ToPrint(d)
      BY <1>2, <2>1, <2>3, <2>4, <2>6 DEF VolumeTyped
    <3> QED
      BY <2>2, <3>1 DEF ShareOf
  <2> QED
    BY <2>5, <2>6
<1> QED
  BY <1>4, <1>5, <1>6, <1>7, <1>8, <1>9

LEMMA BusyIs ==
    /\ Busy \in Nat
    /\ Busy = 0 => \A c \in CPUs : ~InFlight(c)
<1>1. PICK S : S = {c \in CPUs : acct[c].pc # "idle"}
  OBVIOUS
<1>2. IsFiniteSet(S) /\ Busy = Cardinality(S)
  BY <1>1, VolumeAssumption, FS_Subset DEF Busy
<1>3. Busy \in Nat /\ (Busy = 0 => S = {})
  BY <1>2, FS_CardinalityType, FS_EmptySet
<1> QED
  BY <1>1, <1>3 DEF InFlight

LEMMA BusyNext == Busy' \in Nat
<1>1. PICK S : S = {c \in CPUs : acct'[c].pc # "idle"}
  OBVIOUS
<1>2. IsFiniteSet(S) /\ Busy' = Cardinality(S)
  BY <1>1, VolumeAssumption, FS_Subset DEF Busy
<1> QED
  BY <1>2, FS_CardinalityType

LEMMA ShareNext == VolumeTyped' => Share' \in [Dsts -> Nat]
<1>1. SUFFICES ASSUME VolumeTyped', NEW d \in Dsts PROVE ShareOf(d)' \in Nat
  BY DEF Share
<1>2. ToPrint(d)' \in Nat
  <2>1. v' \in Seq(Reading) /\ done' \in Nat /\ 0 \in Nat
    BY <1>1 DEF VolumeTyped
  <2>2. Read(v', done', d) \in Nat /\ Read(v', 0, d) \in Nat
    BY ONLY <2>1, ReadTyped
  <2> QED
    BY <2>2 DEF ToPrint
<1>3. InMap(d)' \in Nat
  <2>1. elem'[d] # None => elem'[d] \in Elements
    BY <1>1 DEF VolumeTyped
  <2>2. elem'[d] # None => bytes'[elem'[d]] \in Nat
    BY <1>1, <2>1 DEF VolumeTyped
  <2> QED
    BY <2>2 DEF InMap
<1>4. emitted'[d] \in Nat
  BY <1>1 DEF VolumeTyped
<1> QED
  BY <1>2, <1>3, <1>4 DEF ShareOf

LEMMA BusyAdds ==
    ASSUME NEW c \in CPUs, ~InFlight(c), InFlight(c)',
           \A e \in CPUs \ {c} : acct'[e] = acct[e]
    PROVE  Busy' = Busy + 1
<1>1. PICK S : S = {e \in CPUs : acct[e].pc # "idle"}
  OBVIOUS
<1>2. PICK T : T = {e \in CPUs : acct'[e].pc # "idle"}
  OBVIOUS
<1>3. T = S \cup {c} /\ c \notin S
  BY <1>1, <1>2 DEF InFlight
<1>4. IsFiniteSet(S)
  BY <1>1, VolumeAssumption, FS_Subset
<1> QED
  <2>1. Busy = Cardinality(S) /\ Busy' = Cardinality(T)
    BY <1>1, <1>2 DEF Busy
  <2>2. Cardinality(S \cup {c}) = Cardinality(S) + 1
    BY <1>3, <1>4, FS_AddElement
  <2> QED
    BY <1>3, <2>1, <2>2

LEMMA BusyDrops ==
    ASSUME NEW c \in CPUs, InFlight(c), ~InFlight(c)',
           \A e \in CPUs \ {c} : acct'[e] = acct[e]
    PROVE  Busy = Busy' + 1
<1>1. PICK S : S = {e \in CPUs : acct[e].pc # "idle"}
  OBVIOUS
<1>2. PICK T : T = {e \in CPUs : acct'[e].pc # "idle"}
  OBVIOUS
<1>3. S = T \cup {c} /\ c \notin T
  BY <1>1, <1>2 DEF InFlight
<1>4. IsFiniteSet(T)
  BY <1>2, VolumeAssumption, FS_Subset
<1> QED
  <2>1. Busy = Cardinality(S) /\ Busy' = Cardinality(T)
    BY <1>1, <1>2 DEF Busy
  <2>2. Cardinality(T \cup {c}) = Cardinality(T) + 1
    BY <1>3, <1>4, FS_AddElement
  <2> QED
    BY <1>3, <2>1, <2>2

\* Steps of the drain, and steps that stutter: all that the books are about stays.
LEMMA BooksStay ==
    ASSUME VolumeInv, OnTime' => OnTime, OnTime => Share' = Share, UNCHANGED <<acct, seen, evicted>>,
           ~raced' => /\ ~raced
                      /\ \A c \in CPUs : ~InFlight(c)
    PROVE  NoneInvented' /\ NoneLost'
<1>1. Busy' = Busy
  BY DEF Busy
<1>2. NoneInvented'
  <2>1. CASE OnTime
    <3>1. Share' = Share /\ seen' = seen
      BY <2>1
    <3>2. Total(Share') = Total(Share) /\ Total(seen') = Total(seen)
      BY <3>1
    <3> QED
      BY <1>1, <2>1, <3>2 DEF VolumeInv, NoneInvented, OnTime
  <2>2. CASE ~OnTime
    BY <2>2 DEF NoneInvented
  <2> QED
    BY <2>1, <2>2
<1>3. NoneLost'
  <2>1. SUFFICES ASSUME ~raced' PROVE NoneLost'
    BY DEF NoneLost
  <2>2. ~raced /\ \A c \in CPUs : ~InFlight(c) /\ ~InFlight(c)'
    BY <2>1 DEF InFlight
  <2>3. OnTime /\ OnTime' /\ Share' = Share
    BY <2>2 DEF VolumeInv, NoneLost, OnTime
  <2>4. \A d \in Dsts : ~OfDst(d) /\ ~OfDst(d)'
    BY <2>2 DEF OfDst
  <2>5. evicted' = {} => \A d \in Dsts : seen'[d] = Share'[d] + IF OfDst(d)' THEN 1 ELSE 0
    BY <2>2, <2>3, <2>4 DEF VolumeInv, NoneLost
  <2> QED
    BY <2>2, <2>3, <2>5 DEF NoneLost
<1> QED
  BY <1>2, <1>3

LEMMA LookupBooks ==
    ASSUME VolumeInv, NEW c \in CPUs, NEW dst \in Dsts, LookupBytes(c, dst)
    PROVE  NoneInvented' /\ NoneLost'
<1>1. VolumeTyped
  BY DEF VolumeInv
<1>2. PICK a \in AcctType : acct' = [acct EXCEPT ![c] = a] /\ a.dst = dst /\ a.ptr = elem[dst]
                            /\ a.pc = IF elem[dst] = None THEN "insert" ELSE "add"
  BY <1>1, LookupAcct
<1>3. acct'[c] = a /\ \A e \in CPUs \ {c} : acct'[e] = acct[e]
  BY <1>1, <1>2 DEF VolumeTyped
<1>4. ~InFlight(c) /\ InFlight(c)'
  BY <1>2, <1>3 DEF InFlight, LookupBytes
<1>5. Busy' = Busy + 1 /\ Busy \in Nat
  BY <1>3, <1>4, BusyAdds, BusyIs
<1>6. UNCHANGED <<elem, bytes, drain, done, v, emitted, evicted>>
      /\ seen' = [seen EXCEPT ![dst] = @ + 1]
      /\ raced' = (raced \/ Busy > 0 \/ drain # "idle")
  BY DEF LookupBytes, mapVars, drainVars
<1>7. Share' = Share
  BY <1>6 DEF Share, ShareOf, ToPrint, InMap
<1>8. seen \in [Dsts -> Nat] /\ seen' \in [Dsts -> Nat]
      /\ \A d \in Dsts : seen'[d] = seen[d] + IF d = dst THEN 1 ELSE 0
  BY <1>1, <1>6 DEF VolumeTyped
<1>9. NoneInvented'
  <2>1. SUFFICES ASSUME OnTime PROVE Total(Share') + Busy' <= Total(seen')
    BY <1>6 DEF NoneInvented, OnTime
  <2>2. Total(Share) + Busy <= Total(seen)
    BY <2>1 DEF VolumeInv, NoneInvented
  <2>3. Total(seen') = Total(seen) + 1 /\ Total(seen) \in Nat
    BY <1>8, TotalAdds, UnitsFinite
  <2>4. Total(Share') = Total(Share) /\ Total(Share) \in Nat
    BY <1>1, <1>7, ShareTyped, UnitsFinite
  <2> QED
    BY <1>5, <2>2, <2>3, <2>4
<1>10. NoneLost'
  <2>1. SUFFICES ASSUME ~raced' PROVE NoneLost'
    BY DEF NoneLost
  <2>2. ~raced /\ Busy = 0 /\ drain = "idle"
    <3>1. ~raced /\ ~(Busy > 0) /\ drain = "idle"
      BY <1>6, <2>1, Zenon
    <3> QED
      BY <1>5, <3>1
  <2>3. \A e \in CPUs : ~InFlight(e)
    BY <2>2, BusyIs
  <2>4. \A e \in CPUs : InFlight(e)' => e = c
    BY <1>3, <2>3 DEF InFlight
  <2>5. \A d \in Dsts : ~OfDst(d) /\ (OfDst(d)' <=> d = dst)
    BY <1>2, <1>3, <1>4, <2>3, <2>4 DEF OfDst
  <2>6. OnTime'
    BY <1>6, <2>2 DEF VolumeInv, NoneLost, OnTime
  <2>7. ASSUME evicted' = {}, NEW d \in Dsts
        PROVE  seen'[d] = Share'[d] + IF OfDst(d)' THEN 1 ELSE 0
    <3>1. seen[d] = Share[d] + 0
      BY <1>6, <2>2, <2>5, <2>7 DEF VolumeInv, NoneLost
    <3>2. Share[d] \in Nat
      BY <1>1, ShareTyped
    <3> QED
      BY <1>7, <1>8, <2>5, <3>1, <3>2
  <2>8. /\ drain' = "idle"
        /\ acct'[c].pc = "add" => elem'[acct'[c].dst] = acct'[c].ptr
        /\ acct'[c].pc = "insert" => elem'[acct'[c].dst] = None
    BY <1>2, <1>3, <1>6, <2>2
  <2> QED
    BY <2>4, <2>6, <2>7, <2>8 DEF NoneLost
<1> QED
  BY <1>9, <1>10

\* A packet is accounted for: at most one more is in the books, and exactly one
\* of its destination if nothing overlapped.
LEMMA AccountedBooks ==
    ASSUME VolumeInv, VolumeTyped', NEW c \in CPUs, InFlight(c), acct' = [acct EXCEPT ![c] = IdleAcct],
           OnTime' => OnTime, UNCHANGED <<seen, raced>>,
           OnTime' => Total(Share') <= Total(Share) + 1,
           ~raced => /\ OnTime'
                     /\ evicted' = {} =>
                           /\ evicted = {}
                           /\ \A d \in Dsts :
                                 Share'[d] = Share[d] + IF d = acct[c].dst THEN 1 ELSE 0
    PROVE  NoneInvented' /\ NoneLost'
<1>1. VolumeTyped
  BY DEF VolumeInv
<1>2. acct'[c] = IdleAcct /\ \A e \in CPUs \ {c} : acct'[e] = acct[e]
  BY <1>1 DEF VolumeTyped
<1>3. ~InFlight(c)'
  BY <1>2, IdleTyped DEF InFlight
<1>4. Busy = Busy' + 1 /\ Busy' \in Nat
  <2>1. Busy = Busy' + 1
    BY <1>2, <1>3, BusyDrops
  <2>2. Busy' \in Nat
    BY BusyNext
  <2> QED
    BY <2>1, <2>2
<1>5. NoneInvented'
  <2>1. SUFFICES ASSUME OnTime' PROVE Total(Share') + Busy' <= Total(seen')
    BY DEF NoneInvented
  <2>2. Total(Share) + Busy <= Total(seen)
    BY <2>1 DEF VolumeInv, NoneInvented
  <2>3. Total(Share') <= Total(Share) + 1
    BY <2>1
  <2>4. Total(seen') = Total(seen) /\ Total(seen) \in Nat
    BY <1>1, UnitsFinite DEF VolumeTyped
  <2>5. Total(Share) \in Nat /\ Total(Share') \in Nat
    <3>1. Share \in [Dsts -> Nat]
      BY <1>1, ShareTyped
    <3>2. Share' \in [Dsts -> Nat]
      BY ShareNext
    <3> QED
      BY <3>1, <3>2, UnitsFinite
  <2> QED
    BY <1>4, <2>2, <2>3, <2>4, <2>5
<1>6. NoneLost'
  <2>1. SUFFICES ASSUME ~raced PROVE NoneLost'
    BY DEF NoneLost
  <2>2. \A e \in CPUs : InFlight(e) => e = c
    BY <2>1 DEF VolumeInv, NoneLost
  <2>3. \A e \in CPUs : ~InFlight(e)'
    <3>1. ASSUME NEW e \in CPUs \ {c} PROVE ~InFlight(e)'
      BY <1>2, <2>2, <3>1 DEF InFlight
    <3> QED
      BY <1>3, <3>1
  <2>4. \A d \in Dsts : ~OfDst(d)' /\ (OfDst(d) <=> d = acct[c].dst)
    BY <2>2, <2>3 DEF OfDst
  <2>5. ASSUME evicted' = {}, NEW d \in Dsts
        PROVE  seen'[d] = Share'[d] + IF OfDst(d)' THEN 1 ELSE 0
    <3>1. seen[d] = Share[d] + IF OfDst(d) THEN 1 ELSE 0
      BY <2>1, <2>5 DEF VolumeInv, NoneLost
    <3>2. Share'[d] = Share[d] + IF d = acct[c].dst THEN 1 ELSE 0
      BY <2>1, <2>5
    <3>3. Share[d] \in Nat
      BY <1>1, ShareTyped
    <3> QED
      BY <2>4, <3>1, <3>2, <3>3
  <2>6. OnTime'
    BY <2>1
  <2> QED
    BY <2>3, <2>5, <2>6 DEF NoneLost
<1> QED
  BY <1>5, <1>6

\* Where the books of a destination are when the drain leaves them alone.
LEMMA SameEntries ==
    ASSUME UNCHANGED <<drain, done, v, emitted>>, NEW d \in Dsts, NEW n \in Nat,
           VolumeTyped, InMap(d)' <= InMap(d) + n, VolumeTyped'
    PROVE  /\ Share'[d] <= Share[d] + n
           /\ InMap(d)' = InMap(d) + n => Share'[d] = Share[d] + n
<1>1. Share[d] = ShareOf(d) /\ Share'[d] = ShareOf(d)'
  BY DEF Share
<1>2. ToPrint(d)' = ToPrint(d)
  BY DEF ToPrint
<1>3. PICK x \in Nat : x = emitted[d] + ToPrint(d)
  <2>1. emitted[d] \in Nat /\ v \in Seq(Reading) /\ done \in Nat /\ 0 \in Nat
    BY DEF VolumeTyped
  <2>2. Read(v, done, d) \in Nat /\ Read(v, 0, d) \in Nat
    BY ONLY <2>1, ReadTyped
  <2>3. ToPrint(d) \in Nat
    BY <2>2 DEF ToPrint
  <2> QED
    BY <2>1, <2>3
<1>4. InMap(d) \in Nat
  BY ShareTyped
<1>5. InMap(d)' \in Nat
  <2>1. elem'[d] # None => elem'[d] \in Elements
    BY DEF VolumeTyped
  <2>2. elem'[d] # None => bytes'[elem'[d]] \in Nat
    BY <2>1 DEF VolumeTyped
  <2> QED
    BY <2>2 DEF InMap
<1>6. ShareOf(d) = x + InMap(d)
  BY <1>3 DEF ShareOf
<1>7. ShareOf(d)' = x + InMap(d)'
  BY <1>2, <1>3 DEF ShareOf
<1> QED
  BY <1>1, <1>4, <1>5, <1>6, <1>7

LEMMA AddBooks ==
    ASSUME VolumeInv, VolumeTyped', NEW c \in CPUs, AddBytes(c)
    PROVE  NoneInvented' /\ NoneLost'
<1>1. VolumeTyped /\ OneOwner
  BY DEF VolumeInv
<1>2. PICK e \in Elements, dst \in Dsts : e = acct[c].ptr /\ dst = acct[c].dst
  BY <1>1 DEF AddBytes, VolumeTyped
<1>3. /\ UNCHANGED <<elem, drain, done, v, emitted, evicted, seen, raced>>
      /\ acct' = [acct EXCEPT ![c] = IdleAcct]
      /\ bytes' = [bytes EXCEPT ![e] = @ + 1]
      /\ InFlight(c)
  BY <1>2 DEF AddBytes, drainVars, InFlight
<1>4. ASSUME NEW d \in Dsts
      PROVE  /\ elem[d] # e => InMap(d)' = InMap(d)
             /\ elem[d] = e => InMap(d)' <= InMap(d) + 1
             /\ elem[d] = e /\ v = <<>> => InMap(d)' = InMap(d) + 1
  <2>1. InMap(d)' = IF elem[d] = None \/ (drain # "print" /\ In(v, done, d)) THEN 0
                    ELSE bytes'[elem[d]]
    BY <1>3 DEF InMap
  <2>2. elem[d] # None => elem[d] \in Elements /\ bytes[elem[d]] \in Nat
    BY <1>1 DEF VolumeTyped
  <2>3. elem[d] # None => bytes'[elem[d]] = bytes[elem[d]] + IF elem[d] = e THEN 1 ELSE 0
    BY <1>1, <1>3, <2>2 DEF VolumeTyped
  <2>4. v = <<>> => ~In(v, done, d)
    <3>1. done \in Nat /\ Len(<<>>) = 0
      BY <1>1 DEF VolumeTyped
    <3> QED
      BY <3>1 DEF In
  <2>5. e # None
    BY <1>2, VolumeAssumption
  <2> QED
    BY <2>1, <2>2, <2>3, <2>4, <2>5 DEF InMap
<1>5. ASSUME NEW d \in Dsts
      PROVE  /\ elem[d] # e => Share'[d] = Share[d]
             /\ elem[d] = e => Share'[d] <= Share[d] + 1
             /\ elem[d] = e /\ v = <<>> => Share'[d] = Share[d] + 1
  <2>1. InMap(d) \in Nat /\ Share[d] \in Nat
    BY <1>1, ShareTyped
  <2>2. ASSUME elem[d] # e PROVE Share'[d] = Share[d]
    <3>1. InMap(d)' = InMap(d) + 0 /\ 0 \in Nat
      BY <1>4, <2>1, <2>2
    <3>2. InMap(d)' <= InMap(d) + 0
      BY <2>1, <3>1
    <3>3. Share'[d] = Share[d] + 0
      BY <1>1, <1>3, <3>1, <3>2, SameEntries
    <3> QED
      BY <2>1, <3>3
  <2>3. ASSUME elem[d] = e
        PROVE  Share'[d] <= Share[d] + 1 /\ (v = <<>> => Share'[d] = Share[d] + 1)
    <3>1. InMap(d)' <= InMap(d) + 1 /\ 1 \in Nat
      BY <1>4, <2>3
    <3> QED
      BY <1>1, <1>3, <1>4, <2>3, <3>1, SameEntries
  <2> QED
    BY <2>2, <2>3
<1>6. Share \in [Dsts -> Nat] /\ Share' \in [Dsts -> Nat]
  BY <1>1, ShareTyped, ShareNext
<1>7. Total(Share') <= Total(Share) + 1
  <2>1. CASE \E x \in Dsts : elem[x] = e
    <3>1. PICK x \in Dsts : elem[x] = e
      BY <2>1
    <3>2. \A d \in Dsts : elem[d] = e => d = x
      BY <1>1, <1>2, <3>1, VolumeAssumption DEF OneOwner
    <3>3. \A d \in Dsts : Share'[d] <= Share[d] + IF d = x THEN 1 ELSE 0
      BY <1>5, <1>6, <3>1, <3>2
    <3> QED
      BY <1>6, <3>3, TotalAddsAtMost
  <2>2. CASE ~\E x \in Dsts : elem[x] = e
    <3>1. \A d \in Dsts : Share'[d] <= Share[d]
      BY <1>5, <1>6, <2>2
    <3>2. Total(Share') <= Total(Share) /\ Total(Share) \in Nat /\ Total(Share') \in Nat
      BY <1>6, <3>1, TotalGrows, UnitsFinite
    <3> QED
      BY <3>2
  <2> QED
    BY <2>1, <2>2
<1>8. ASSUME ~raced
      PROVE  OnTime' /\ \A d \in Dsts : Share'[d] = Share[d] + IF d = dst THEN 1 ELSE 0
  <2>1. OnTime /\ drain = "idle" /\ elem[dst] = e
    BY <1>2, <1>3, <1>8 DEF VolumeInv, NoneLost, AddBytes
  <2>2. v = <<>>
    BY <1>1, <2>1 DEF VolumeTyped
  <2>3. \A d \in Dsts : elem[d] = e <=> d = dst
    BY <1>1, <1>2, <2>1, VolumeAssumption DEF OneOwner
  <2>4. OnTime'
    BY <1>3, <2>1 DEF OnTime
  <2>5. ASSUME NEW d \in Dsts PROVE Share'[d] = Share[d] + IF d = dst THEN 1 ELSE 0
    <3>1. Share[d] \in Nat
      BY <1>6
    <3> QED
      BY <1>5, <2>2, <2>3, <3>1
  <2> QED
    BY <2>4, <2>5
<1>9. OnTime' => OnTime
  BY <1>3 DEF OnTime
<1> QED
  BY <1>2, <1>3, <1>7, <1>8, <1>9, AccountedBooks

LEMMA InsertBooks ==
    ASSUME VolumeInv, VolumeTyped', NEW c \in CPUs, InsertBytes(c), OnTime' => OnTime
    PROVE  NoneInvented' /\ NoneLost'
<1>1. VolumeTyped /\ OneOwner
  BY DEF VolumeInv
<1>2. PICK e \in Elements, from \in Dsts \cup {None} : Given(c, e, from)
  BY <1>1, InsertIs
<1>3. PICK dst \in Dsts : dst = acct[c].dst
  BY <1>2 DEF Given
<1>4. /\ UNCHANGED <<drain, done, v, emitted, seen, raced>>
      /\ acct' = [acct EXCEPT ![c] = IdleAcct]
      /\ InFlight(c)
  BY DEF InsertBytes, drainVars, InFlight
<1>5. /\ from # dst /\ \A d \in Dsts : elem[d] = e => d = from
      /\ \A d \in Dsts : elem'[d] = IF d = dst THEN e ELSE IF d = from THEN None ELSE elem[d]
      /\ \A x \in Elements : bytes'[x] = IF x = e THEN 1 ELSE bytes[x]
      /\ evicted' = IF from = None THEN evicted ELSE evicted \cup {drain}
      /\ e # None
  BY <1>1, <1>2, <1>3, VolumeAssumption DEF Given, VolumeTyped
<1>6. ASSUME NEW d \in Dsts
      PROVE  /\ d # dst => InMap(d)' <= InMap(d)
             /\ d # dst /\ d # from => InMap(d)' = InMap(d)
             /\ d = dst => InMap(d)' <= InMap(d) + 1
             /\ d = dst /\ elem[d] = None /\ v = <<>> => InMap(d)' = InMap(d) + 1
  <2>1. InMap(d)' = IF elem'[d] = None \/ (drain # "print" /\ In(v, done, d)) THEN 0
                    ELSE bytes'[elem'[d]]
    BY <1>4 DEF InMap
  <2>2. elem[d] # None => elem[d] \in Elements /\ bytes[elem[d]] \in Nat
    BY <1>1 DEF VolumeTyped
  <2>3. InMap(d) \in Nat
    BY <1>1, ShareTyped
  <2>4. ASSUME d # dst, d # from PROVE InMap(d)' = InMap(d)
    BY <1>5, <2>1, <2>2, <2>4 DEF InMap
  <2>5. ASSUME d = from PROVE InMap(d)' <= InMap(d)
    <3>1. InMap(d)' = 0
      BY <1>5, <2>1, <2>5
    <3> QED
      BY <2>3, <3>1
  <2>6. ASSUME d = dst PROVE InMap(d)' <= InMap(d) + 1
    <3>1. InMap(d)' \in {0, 1}
      BY <1>5, <2>1, <2>6
    <3> QED
      BY <2>3, <3>1
  <2>7. ASSUME d = dst, elem[d] = None, v = <<>> PROVE InMap(d)' = InMap(d) + 1
    <3>1. done \in Nat /\ Len(<<>>) = 0
      BY <1>1 DEF VolumeTyped
    <3>2. ~In(v, done, d)
      BY <2>7, <3>1 DEF In
    <3>3. InMap(d)' = 1
      BY <1>5, <2>1, <2>7, <3>2
    <3>4. InMap(d) = 0
      BY <2>7 DEF InMap
    <3> QED
      BY <3>3, <3>4
  <2>8. d # dst => InMap(d)' <= InMap(d)
    BY <2>3, <2>4, <2>5
  <2> QED
    BY <2>4, <2>6, <2>7, <2>8
<1>7. Share \in [Dsts -> Nat] /\ Share' \in [Dsts -> Nat]
  BY <1>1, ShareTyped, ShareNext
<1>8. ASSUME NEW d \in Dsts
      PROVE  /\ d # dst => Share'[d] <= Share[d]
             /\ d # dst /\ d # from => Share'[d] = Share[d]
             /\ d = dst => Share'[d] <= Share[d] + 1
             /\ d = dst /\ elem[d] = None /\ v = <<>> => Share'[d] = Share[d] + 1
  <2>1. InMap(d) \in Nat /\ Share[d] \in Nat /\ Share'[d] \in Nat
    BY <1>1, <1>7, ShareTyped
  <2>2. ASSUME d # dst
        PROVE  Share'[d] <= Share[d] /\ (d # from => Share'[d] = Share[d])
    <3>1. InMap(d)' <= InMap(d) + 0 /\ 0 \in Nat /\ (d # from => InMap(d)' = InMap(d) + 0)
      BY <1>6, <2>1, <2>2
    <3>2. Share'[d] <= Share[d] + 0 /\ (d # from => Share'[d] = Share[d] + 0)
      BY <1>1, <1>4, <3>1, SameEntries
    <3> QED
      BY <2>1, <3>2
  <2>3. ASSUME d = dst
        PROVE  /\ Share'[d] <= Share[d] + 1
               /\ elem[d] = None /\ v = <<>> => Share'[d] = Share[d] + 1
    <3>1. InMap(d)' <= InMap(d) + 1 /\ 1 \in Nat
      BY <1>6, <2>3
    <3> QED
      BY <1>1, <1>4, <1>6, <2>3, <3>1, SameEntries
  <2> QED
    BY <2>2, <2>3
<1>9. Total(Share') <= Total(Share) + 1
  <2>1. ASSUME NEW d \in Dsts PROVE Share'[d] <= Share[d] + IF d = dst THEN 1 ELSE 0
    <3>1. Share[d] \in Nat /\ Share'[d] \in Nat
      BY <1>7
    <3> QED
      BY <1>8, <3>1
  <2> QED
    BY <1>7, <2>1, TotalAddsAtMost
<1>10. ASSUME ~raced
       PROVE  /\ OnTime'
              /\ evicted' = {} =>
                    /\ evicted = {}
                    /\ \A d \in Dsts : Share'[d] = Share[d] + IF d = dst THEN 1 ELSE 0
  <2>1. OnTime /\ drain = "idle" /\ elem[dst] = None
    BY <1>3, <1>4, <1>10 DEF VolumeInv, NoneLost, InsertBytes
  <2>2. v = <<>>
    BY <1>1, <2>1 DEF VolumeTyped
  <2>3. OnTime'
    BY <1>5, <2>1 DEF OnTime
  <2>4. ASSUME evicted' = {}
        PROVE  evicted = {} /\ from = None
    BY <1>5, <2>4
  <2>5. ASSUME evicted' = {}, NEW d \in Dsts
        PROVE  Share'[d] = Share[d] + IF d = dst THEN 1 ELSE 0
    <3>1. Share[d] \in Nat
      BY <1>7
    <3>2. d # from
      BY <2>4, <2>5, VolumeAssumption
    <3> QED
      BY <1>8, <2>1, <2>2, <3>1, <3>2
  <2> QED
    BY <2>3, <2>4, <2>5
<1> QED
  BY <1>3, <1>4, <1>9, <1>10, AccountedBooks

LEMMA DrainBooks ==
    ASSUME VolumeInv, OnTime' => OnTime,
           DrainStarts \/ GetNextKey \/ ReadElement \/ DeleteKey \/ DrainSorts
           \/ PrintVolume \/ DrainEnds
    PROVE  NoneInvented' /\ NoneLost'
<1>1. OnTime => Share' = Share
  BY DrainKeepsShare
<1>2. UNCHANGED <<acct, seen, evicted>>
  BY DEF DrainStarts, GetNextKey, ReadElement, DeleteKey, DrainSorts, PrintVolume, DrainEnds
<1>3. ASSUME ~raced' PROVE ~raced /\ \A c \in CPUs : ~InFlight(c)
  <2>1. CASE DrainStarts
    <3>1. ~raced /\ ~(Busy > 0)
      BY <1>3, <2>1, Zenon DEF DrainStarts
    <3>2. Busy = 0
      BY <3>1, BusyIs
    <3> QED
      BY <3>1, <3>2, BusyIs
  <2>2. CASE ~DrainStarts
    <3>1. ~raced /\ drain # "idle"
      BY <1>3, <2>2 DEF GetNextKey, ReadElement, DeleteKey, DrainSorts, PrintVolume, DrainEnds
    <3> QED
      BY <3>1 DEF VolumeInv, NoneLost
  <2> QED
    BY <2>1, <2>2
<1> QED
  BY <1>1, <1>2, <1>3, BooksStay

LEMMA StutterBooks ==
    ASSUME VolumeInv, UNCHANGED volumeVars
    PROVE  NoneInvented' /\ NoneLost'
<1>1. UNCHANGED <<elem, bytes, acct, drain, done, v, emitted, evicted, seen, raced>>
  BY DEF volumeVars, mapVars, drainVars
<1>2. Share' = Share /\ Busy' = Busy
  BY <1>1 DEF Share, ShareOf, ToPrint, InMap, Busy
<1>3. NoneInvented'
  <2>1. Total(Share') = Total(Share) /\ Total(seen') = Total(seen)
    BY <1>1, <1>2
  <2> QED
    BY <1>1, <1>2, <2>1 DEF VolumeInv, NoneInvented, OnTime
<1>4. /\ \A c \in CPUs : InFlight(c)' <=> InFlight(c)
      /\ \A d \in Dsts : OfDst(d)' <=> OfDst(d)
  BY <1>1 DEF InFlight, OfDst
<1>5. NoneLost'
  BY <1>1, <1>2, <1>4 DEF VolumeInv, NoneLost, OnTime
<1> QED
  BY <1>3, <1>5

LEMMA StepVolume == VolumeInv /\ [VolumeNext]_volumeVars => VolumeInv'
<1>1. SUFFICES ASSUME VolumeInv, [VolumeNext]_volumeVars PROVE VolumeInv'
  OBVIOUS
<1>2. VolumeTyped' /\ OneOwner' /\ WalkInOrder' /\ (OnTime' => OnTime)
  BY <1>1, StepTyped, StepOwner, StepWalk, EvictedGrows
<1>3. ASSUME NEW c \in CPUs, NEW dst \in Dsts, LookupBytes(c, dst)
      PROVE  NoneInvented' /\ NoneLost'
  BY <1>1, <1>3, LookupBooks
<1>4. ASSUME NEW c \in CPUs, AddBytes(c) PROVE NoneInvented' /\ NoneLost'
  BY <1>1, <1>2, <1>4, AddBooks
<1>5. ASSUME NEW c \in CPUs, InsertBytes(c) PROVE NoneInvented' /\ NoneLost'
  BY <1>1, <1>2, <1>5, InsertBooks
<1>6. ASSUME DrainStarts \/ GetNextKey \/ ReadElement \/ DeleteKey \/ DrainSorts
             \/ PrintVolume \/ DrainEnds
      PROVE  NoneInvented' /\ NoneLost'
  BY <1>1, <1>2, <1>6, DrainBooks
<1>7. NoneInvented' /\ NoneLost'
  BY <1>1, <1>3, <1>4, <1>5, <1>6, StutterBooks DEF VolumeNext
<1> QED
  BY <1>2, <1>7 DEF VolumeInv

LEMMA VolumeIsBalanced == VolumeInv => VolumeBalances
<1>1. SUFFICES ASSUME VolumeInv, drain = "idle" PROVE VolumeBalances
  BY DEF VolumeBalances, Quiet
<1>2. VolumeTyped /\ v = <<>>
  BY <1>1 DEF VolumeInv, VolumeTyped
<1>3. Share = Accounted
  <2>1. SUFFICES ASSUME NEW d \in Dsts PROVE ShareOf(d) = emitted[d] + Held[d]
    BY DEF Share, Accounted
  <2>2. ToPrint(d) = 0
    BY <1>1, <1>2, ReadEmpty DEF ToPrint
  <2>3. InMap(d) = Held[d]
    <3>1. ~In(<<>>, done, d)
      <4>1. done \in Nat /\ Len(<<>>) = 0
        BY <1>2 DEF VolumeTyped
      <4> QED
        BY <4>1 DEF In
    <3> QED
      BY <1>2, <3>1 DEF InMap, Held
  <2>4. emitted[d] \in Nat
    BY <1>2 DEF VolumeTyped
  <2> QED
    BY <2>2, <2>3, <2>4 DEF ShareOf
<1>4. Share \in [Dsts -> Nat] /\ Total(Share) \in Nat /\ Total(seen) \in Nat
  BY <1>2, ShareTyped, UnitsFinite DEF VolumeTyped
<1>5. ASSUME OnTime PROVE Total(Accounted) <= Total(seen)
  <2>1. Total(Share) + Busy <= Total(seen) /\ Busy \in Nat
    BY <1>1, <1>5, BusyIs DEF VolumeInv, NoneInvented
  <2>2. Total(Share) <= Total(seen)
    BY <1>4, <2>1
  <2> QED
    BY <1>3, <2>2
<1>6. ASSUME Busy = 0, ~raced, evicted = {} PROVE seen = Accounted
  <2>1. \A d \in Dsts : ~OfDst(d)
    BY <1>6, BusyIs DEF OfDst
  <2>2. ASSUME NEW d \in Dsts PROVE seen[d] = Share[d]
    <3>1. seen[d] = Share[d] + 0
      BY <1>1, <1>6, <2>1 DEF VolumeInv, NoneLost
    <3> QED
      BY <1>4, <3>1
  <2>3. seen \in [Dsts -> Nat]
    BY <1>2 DEF VolumeTyped
  <2> QED
    BY <1>3, <1>4, <2>2, <2>3
<1> QED
  BY <1>5, <1>6 DEF VolumeBalances, Quiet, OnTime

\* For any destinations, elements and CPUs: the races of the CPUs with the drain
\* invent no byte unless a key is evicted during it, and lose none without overlap.
THEOREM VolumeIsKept == VolumeSpec => []VolumeBalances
<1>1. VolumeInv /\ [VolumeNext]_volumeVars => VolumeInv'
  BY StepVolume
<1> QED
  BY InitVolume, <1>1, VolumeIsBalanced, PTL DEF VolumeSpec
=============================================================================
