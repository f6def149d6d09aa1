-------------------------- MODULE MC_ClientQueues --------------------------
(* ClientQueues with small queues, for TLC. *)
EXTENDS ClientQueues, TLC

Symmetric == Permutations(Clients)
=============================================================================
