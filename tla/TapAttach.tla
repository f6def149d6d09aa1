------------------------------ MODULE TapAttach ------------------------------
(***************************************************************************)
(* How tap processes share a network interface: run_live() in              *)
(* tap/src/main.c around its main loop.                                    *)
(*                                                                         *)
(* A tap creates the clsact qdisc or finds it there, attaches a filter to  *)
(* each direction at handle 1, priority 1, runs, and on every way out      *)
(* detaches what is at that handle and priority in both directions, and    *)
(* the qdisc if it created it.  The kernel refuses a filter where one is   *)
(* (external: attach has no BPF_TC_F_REPLACE), keeps filters of a process  *)
(* that died, and drops all filters with the qdisc.                        *)
(*                                                                         *)
(* docker-compose.yml restarts a tap that ends without being stopped.      *)
(* MaxCrashes bounds crashes, failed creations and failed polls together,  *)
(* MaxStops the stops.                                                     *)
(***************************************************************************)
EXTENDS TapProgram, Naturals

CONSTANTS Taps,          \* tap processes that may use the interface
          MaxCrashes, MaxStops

ASSUME AttachAssumption ==
    None \notin Taps /\ MaxCrashes \in Nat /\ MaxStops \in Nat

VARIABLES
    qdisc,       \* clsact exists
    filter,      \* direction -> the tap whose program is at 1/1, or None
    pc,          \* where each tap is in run_live()
    created,     \* its variable created
    err,         \* its variable err is not 0
    stop,        \* it was told to stop
    crashes, stops,
    alone        \* no two taps ever ran at once (history)

attachVars == <<qdisc, filter, pc, created, err, stop, crashes, stops, alone>>

Dirs == {"ingress", "egress"}
Running(t) == pc[t] \notin {"off", "down", "stopped"}

AttachInit ==
    /\ qdisc \in BOOLEAN
    /\ filter = [d \in Dirs |-> None]
    /\ pc = [t \in Taps |-> "off"]
    /\ created = [t \in Taps |-> FALSE]
    /\ err = [t \in Taps |-> FALSE]
    /\ stop = [t \in Taps |-> FALSE]
    /\ crashes = 0 /\ stops = 0 /\ alone = TRUE

Goto(t, from, to) == pc[t] = from /\ pc' = [pc EXCEPT ![t] = to]

\* The container starts, for the first time or again.
Start(t) ==
    /\ Goto(t, "off", "create") \/ Goto(t, "down", "create")
    /\ created' = [created EXCEPT ![t] = FALSE]
    /\ err' = [err EXCEPT ![t] = FALSE]
    /\ alone' = (alone /\ \A u \in Taps : ~Running(u))
    /\ UNCHANGED <<qdisc, filter, stop, crashes, stops>>

\* bpf_tc_hook_create(): -EEXIST is as good as 0.
Create(t) ==
    /\ Goto(t, "create", "attach_in")
    /\ qdisc' = TRUE
    /\ created' = [created EXCEPT ![t] = ~qdisc]
    /\ UNCHANGED <<filter, err, stop, crashes, stops, alone>>

\* No interface, no permission: run_live() returns before it holds anything.
CreateFails(t) ==
    /\ crashes < MaxCrashes /\ crashes' = crashes + 1
    /\ Goto(t, "create", IF stop[t] THEN "stopped" ELSE "down")
    /\ UNCHANGED <<qdisc, filter, created, err, stop, stops, alone>>

\* Mutation of Attach: the error is not looked at.
AttachUnchecked(t, dir, from, to) ==
    /\ Goto(t, from, to)
    /\ filter' = IF qdisc /\ filter[dir] = None
                 THEN [filter EXCEPT ![dir] = t] ELSE filter
    /\ UNCHANGED <<qdisc, created, err, stop, crashes, stops, alone>>

\* bpf_tc_attach(): fails where a filter is, or without a qdisc.
Attach(t, dir, from, to) ==
    /\ pc[t] = from
    /\ IF qdisc /\ filter[dir] = None
       THEN /\ filter' = [filter EXCEPT ![dir] = t]
            /\ pc' = [pc EXCEPT ![t] = to]
            /\ UNCHANGED err
       ELSE /\ pc' = [pc EXCEPT ![t] = "detach_in"]
            /\ err' = [err EXCEPT ![t] = TRUE]
            /\ UNCHANGED filter
    /\ UNCHANGED <<qdisc, created, stop, crashes, stops, alone>>

AttachIngress(t) == Attach(t, "ingress", "attach_in", "attach_eg")
AttachEgress(t)  == Attach(t, "egress", "attach_eg", "loop")

\* SIGINT or SIGTERM, from whoever wants it to stop.
Signal(t) ==
    /\ Running(t) /\ ~stop[t] /\ stops < MaxStops
    /\ stop' = [stop EXCEPT ![t] = TRUE]
    /\ stops' = stops + 1
    /\ UNCHANGED <<qdisc, filter, pc, created, err, crashes, alone>>

\* while (!stop) is over.
LeaveLoop(t) ==
    /\ stop[t] /\ Goto(t, "loop", "detach_in")
    /\ UNCHANGED <<qdisc, filter, created, err, stop, crashes, stops, alone>>

\* ring_buffer__poll() fails, other than by a signal: the loop is left, and the
\* tap restarted, for it was not told to stop.
PollFails(t) ==
    /\ crashes < MaxCrashes /\ crashes' = crashes + 1
    /\ Goto(t, "loop", "detach_in")
    /\ UNCHANGED <<qdisc, filter, created, err, stop, stops, alone>>

\* bpf_tc_detach() by handle and priority: it takes whatever is there.
Detach(t, dir, from, to) ==
    /\ Goto(t, from, to)
    /\ filter' = [filter EXCEPT ![dir] = None]
    /\ UNCHANGED <<qdisc, created, err, stop, crashes, stops, alone>>

\* Mutation of DetachEgress: a failed start skips it.
DetachEgressUnlessErr(t) ==
    /\ Goto(t, "detach_eg", "destroy")
    /\ filter' = IF err[t] THEN filter ELSE [filter EXCEPT !["egress"] = None]
    /\ UNCHANGED <<qdisc, created, err, stop, crashes, stops, alone>>

DetachIngress(t) == Detach(t, "ingress", "detach_in", "detach_eg")
DetachEgress(t)  == Detach(t, "egress", "detach_eg", "destroy")

\* if (created) bpf_tc_hook_destroy(); the process ends.
Destroy(t) ==
    /\ Goto(t, "destroy", IF stop[t] THEN "stopped" ELSE "down")
    /\ qdisc' = (qdisc /\ ~created[t])
    /\ filter' = IF created[t] THEN [d \in Dirs |-> None] ELSE filter
    /\ UNCHANGED <<created, err, stop, crashes, stops, alone>>

\* SIGKILL, the OOM killer, a bug: nothing is cleaned up.
Crash(t) ==
    /\ Running(t) /\ crashes < MaxCrashes
    /\ pc' = [pc EXCEPT ![t] = IF stop[t] THEN "stopped" ELSE "down"]
    /\ crashes' = crashes + 1
    /\ UNCHANGED <<qdisc, filter, created, err, stop, stops, alone>>

TapStep(t) ==
    \/ Start(t) \/ Create(t) \/ AttachIngress(t) \/ AttachEgress(t)
    \/ LeaveLoop(t) \/ DetachIngress(t) \/ DetachEgress(t) \/ Destroy(t)

AttachNext ==
    \E t \in Taps :
        TapStep(t) \/ Signal(t) \/ CreateFails(t) \/ PollFails(t) \/ Crash(t)

AttachSpec == AttachInit /\ [][AttachNext]_attachVars

\* Fairness: a running process goes on, and the supervisor starts a tap again
\* that was started once; nobody has to start it the first time.
AttachFairSpec ==
    /\ AttachSpec
    /\ \A t \in Taps : WF_attachVars(pc[t] # "off" /\ TapStep(t))

(******************************** properties *******************************)

\* A lone tap that reports sees both directions: with one filter alone it would
\* track SYNs without answers, or answers without SYNs.  One that stops or fails
\* to start leaves no filter behind, not even those of one that crashed before
\* it.
LoneTapIsWhole ==
    alone => \A t \in Taps : \A d \in Dirs :
        /\ pc[t] = "loop" => filter[d] = t
        /\ pc[t] = "destroy" => filter[d] = None

\* However often it crashes, a lone tap that is not stopped reports in the end:
\* a start that finds the filters of the last one fails and removes them, the
\* start after that succeeds.
Heals ==
    \A t \in Taps :
        <>(pc[t] # "off") =>
            <>[](pc[t] = "loop") \/ <>(stop[t] \/ ~alone)
=============================================================================
