--------------------------- MODULE MC_EntityTable ---------------------------
(* EntityTable with two cities and an answer that has no city, for TLC. *)
EXTENDS EntityTable

CONSTANTS ip1, ip2,                 \* addresses
          rA, rB,                   \* routes to the cities A and B
          rNone, rUnknown           \* a route without a city; "unknown"

CityKey(route, ip) ==
    CASE route = rA -> "A" [] route = rB -> "B" [] OTHER -> ip

Symmetric == Permutations({ip1, ip2})
=============================================================================
