------------------------- MODULE MC_TopologyReload -------------------------
(* TopologyReload with three stations and an island, for TLC. *)
EXTENDS TopologyReload

\* The second edition lost a station and two cables and gained another cable:
\* the same numbers are other nodes, and the IXP is on no backbone.
LandingsOf(edition) ==
    IF edition = 1 THEN <<"s1", "s2", "s3", "i1", "i2">> ELSE <<"s2", "s3">>
CablesOf(edition) == IF edition = 1 THEN <<"k1", "k2", "k4">> ELSE <<"k1", "k3">>
OneIxp == <<"x1">>
StationsOf(cable) ==
    CASE cable = "k1" -> <<"s1", "s2", "s3">> [] cable = "k2" -> <<"s1", "s3">>
      [] cable = "k3" -> <<"s2", "s3">>       [] OTHER -> <<"s1", "s2">>
Links == {<<"x1", "s1">>, <<"s1", "s3">>, <<"i1", "i2">>}

\* Home is at the IXP, "a" on the island and "b" at the second station.
NearestFirst(city) ==
    CASE city = "home" -> <<"x1", "s1", "s2", "s3", "i1", "i2">>
      [] city = "a" -> <<"i1", "i2", "s1", "s3", "s2", "x1">>
      [] OTHER -> <<"s2", "s3", "s1", "x1", "i2", "i1">>
Nearby(city) ==
    CASE city = "home" -> {"x1", "s1", "s2"}
      [] city = "a" -> {"i1", "i2", "s1"}
      [] OTHER -> {"s2", "s3"}
GcOf(city) == IF city = "a" THEN 2 ELSE 1
IxpOf(ixp) == 1
=============================================================================
