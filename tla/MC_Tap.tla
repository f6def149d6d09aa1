------------------------------- MODULE MC_Tap -------------------------------
(***************************************************************************)
(* The three protocols of the tap, for TLC.  They share no variable, so    *)
(* that a behaviour takes one of them, part, and leaves the others as they *)
(* start.                                                                  *)
(***************************************************************************)
EXTENDS TapVolume, TapHandshake, TapAttach, TLC

CONSTANTS f1, f2, cpu1, cpu2

VARIABLE part   \* "volume", "handshake" or "attach"

vars == <<part, volumeVars, handshakeVars, attachVars>>

\* Two flows, each on a CPU of its own.
SpreadOut == f1 :> cpu1 @@ f2 :> cpu2

Init ==
    /\ part \in {"volume", "handshake", "attach"}
    /\ VolumeInit /\ HandshakeInit /\ AttachInit
    /\ part # "handshake" => ~replay_mode
    /\ part # "attach" => ~qdisc

Next ==
    /\ UNCHANGED part
    /\ \/ part = "volume" /\ VolumeNext /\ UNCHANGED <<handshakeVars, attachVars>>
       \/ part = "handshake" /\ HandshakeNext /\ UNCHANGED <<volumeVars, attachVars>>
       \/ part = "attach" /\ AttachNext /\ UNCHANGED <<volumeVars, handshakeVars>>

\* AttachFairSpec's fairness; the other two parts need none.
Spec ==
    /\ Init /\ [][Next]_vars
    /\ \A t \in Taps :
          WF_vars(/\ part = "attach" /\ pc[t] # "off" /\ TapStep(t)
                  /\ UNCHANGED <<part, volumeVars, handshakeVars>>)
=============================================================================
