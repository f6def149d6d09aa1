-------------------------- MODULE MC_StreamServer --------------------------
(* StreamServer with one address that may be folded into a city, for TLC. *)
EXTENDS StreamServer

CONSTANTS ip1, rA, rNone, c1

CityKey(route, ip) == IF route = rA THEN "A" ELSE ip
RoundedKeys == Ips \X {Rounded(r) : r \in Rtts}
=============================================================================
