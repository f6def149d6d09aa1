---------------------------- MODULE MC_TripStore ----------------------------
(* TripStore on a small store, for TLC. *)
EXTENDS TripStore
=============================================================================
