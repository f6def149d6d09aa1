-------------------------- MODULE MC_ResolverPool --------------------------
(* ResolverPool on small pools, for TLC. *)
EXTENDS ResolverPool
=============================================================================
