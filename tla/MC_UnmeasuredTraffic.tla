------------------------ MODULE MC_UnmeasuredTraffic ------------------------
(* UnmeasuredTraffic for TLC: the CPUs are interchangeable. *)
EXTENDS UnmeasuredTraffic, TLC

Symmetry == Permutations(CPUs)
=============================================================================
