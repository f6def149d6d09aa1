---------------------------- MODULE TrafficShare ----------------------------
(***************************************************************************)
(* The stream server's estimate of the share of traffic it cannot measure  *)
(* (QUIC and IPv6): the byte count of onVol(), counterDelta() and onStat() *)
(* in stream/src/index.ts.  The share is the pair <<part, whole>>;         *)
(* <<0, 0>> stands for the 0 that onStat() sets without any traffic.       *)
(***************************************************************************)
EXTENDS Naturals

CONSTANT Unknown     \* undefined: no stat line was seen yet

ASSUME ShareAssumption == Unknown \notin Nat

VARIABLES unmeasuredShare, intervalIpv4Bytes, lastQuicBytes, lastIpv6Bytes

shareVars == <<unmeasuredShare, intervalIpv4Bytes, lastQuicBytes, lastIpv6Bytes>>

ShareInit ==
    /\ unmeasuredShare = <<0, 0>> /\ intervalIpv4Bytes = 0
    /\ lastQuicBytes = Unknown /\ lastIpv6Bytes = Unknown

\* onVol(): every volume line counts, whatever becomes of its entity.
AddVolume(bytes) ==
    /\ intervalIpv4Bytes' = intervalIpv4Bytes + bytes
    /\ UNCHANGED <<unmeasuredShare, lastQuicBytes, lastIpv6Bytes>>

\* Mutation of counterDelta: a counter that restarted counts from where it was.
counterDeltaNoReset(value, previous) ==
    IF value >= previous THEN value - previous ELSE previous

\* counterDelta(): a counter below its last value has started again from 0.
counterDelta(value, previous) ==
    IF value >= previous THEN value - previous ELSE value

\* intervalTotal > 0 ? Math.min(1, part / whole) : 0
ShareOf(part, whole) ==
    IF whole > 0 THEN <<IF part <= whole THEN part ELSE whole, whole>> ELSE <<0, 0>>

\* Mutation of onStat: the interval is not restarted.
onStatKeepsInterval(quic, ipv6) ==
    /\ unmeasuredShare' =
          IF lastQuicBytes # Unknown /\ lastIpv6Bytes # Unknown
          THEN ShareOf(counterDelta(quic, lastQuicBytes) + counterDelta(ipv6, lastIpv6Bytes),
                       intervalIpv4Bytes + counterDelta(ipv6, lastIpv6Bytes))
          ELSE unmeasuredShare
    /\ lastQuicBytes' = quic /\ lastIpv6Bytes' = ipv6
    /\ UNCHANGED intervalIpv4Bytes

\* onStat(): the share since the stat line before; the first one is the
\* baseline.  Volume is counted from here again.
onStat(quic, ipv6) ==
    /\ unmeasuredShare' =
          IF lastQuicBytes # Unknown /\ lastIpv6Bytes # Unknown
          THEN ShareOf(counterDelta(quic, lastQuicBytes) + counterDelta(ipv6, lastIpv6Bytes),
                       intervalIpv4Bytes + counterDelta(ipv6, lastIpv6Bytes))
          ELSE unmeasuredShare
    /\ lastQuicBytes' = quic /\ lastIpv6Bytes' = ipv6
    /\ intervalIpv4Bytes' = 0
=============================================================================
