----------------------------- MODULE TapProgram -----------------------------
(***************************************************************************)
(* What the models of the tap's BPF program (tap/src/downlink.bpf.c) and   *)
(* of its loader (tap/src/main.c) have in common: the CPUs that may run    *)
(* handle() at the same time, and the null pointer.  The three protocols   *)
(* of the tap, TapVolume, TapHandshake and TapAttach, share no variable.   *)
(***************************************************************************)
CONSTANTS CPUs, None
=============================================================================
