---------------------------- MODULE StreamServer ----------------------------
(***************************************************************************)
(* The stream server as one process (stream/src/index.ts): the resolve     *)
(* cache, the entity table, the traffic share and the client queues on     *)
(* Node's event loop.                                                      *)
(*                                                                         *)
(* An event is a chunk of tap lines, a fetch that settles, the interval    *)
(* timer, or something a client does.  onRtt() suspends at                 *)
(* `await resolve()`: on a fetch in flight it resumes when that settles;   *)
(* on one that is answered it resumes when the chunk is read, after the    *)
(* lines that follow it in the chunk.  Between two events every            *)
(* continuation that is ready has run.                                     *)
(*                                                                         *)
(* RTTs are in half milliseconds, so that rounding to whole ones is seen.  *)
(***************************************************************************)
EXTENDS ResolveCache, EntityTable, TrafficShare, ClientQueues

CONSTANT StatValues     \* counter values a stat line may carry

VARIABLES
    answer,      \* the route each answered fetch returned
    waiting,     \* onRtt() calls suspended on a fetch in flight
    ready,       \* onRtt() calls whose continuation is due, in order
    draining,    \* continuations run; no line is read in between
    sentFrames   \* what every frame broadcast says of its entities (history)

loopVars   == <<answer, waiting, ready, draining, sentFrames>>
serverVars == <<cacheVars, tableVars, shareVars, clientVars, loopVars>>

ServerInit ==
    /\ CacheInit /\ TableInit /\ ShareInit /\ ClientInit
    /\ answer = <<>> /\ waiting = <<>> /\ ready = <<>> /\ draining = FALSE
    /\ sentFrames = <<>>

\* Math.max(1, Math.round(rttMs)) of half milliseconds
Rounded(rtt) == IF (rtt + 1) \div 2 >= 1 THEN (rtt + 1) \div 2 ELSE 1

\* Mutation of CacheKey: the latency is not part of the key.
CacheKeyOfIp(ip, rtt) == <<ip, 1>>

CacheKey(ip, rtt) == <<ip, Rounded(rtt)>>

Settled(r) == fetches[r].state # "pending"

\* A chunk may bring a line unless the continuations after the last one run.
ReadLine == ~draining /\ CountLine

\* handleLine() of an rtt line: onRtt() up to its await.
RttArrives(ip, rtt) ==
    /\ ReadLine
    /\ \E r \in 1..MaxFetches :
          LET call == [ip |-> ip, rtt |-> rtt, fetch |-> r]
          IN  /\ Resolve(CacheKey(ip, rtt), r)
              /\ IF r \in Fetches /\ Settled(r)
                 THEN ready' = Append(ready, call) /\ UNCHANGED waiting
                 ELSE waiting' = Append(waiting, call) /\ UNCHANGED ready
              /\ answer' = IF r \in Fetches THEN answer ELSE Append(answer, Unknown)
    /\ UNCHANGED <<entities, dstToKey, now, frame, folded,
                   shareVars, clientVars, draining, sentFrames>>

\* handleLine() of a vol line: onVol().
VolArrives(ip, bytes) ==
    /\ ReadLine
    /\ AddVolume(bytes)
    /\ ApplyVol(ip, bytes)
    /\ UNCHANGED <<cacheVars, clientVars, loopVars>>

\* handleLine() of a stat line: onStat().
StatArrives(quic, ipv6) ==
    /\ ReadLine
    /\ onStat(quic, ipv6)
    /\ UNCHANGED <<cacheVars, entities, dstToKey, now, frame, folded,
                   clientVars, loopVars>>

\* onRtt() after its await.
Resume ==
    /\ ready # <<>>
    /\ LET call == Head(ready)
       IN  ApplyRtt(call.ip, call.rtt, answer[call.fetch])
    /\ ready' = Tail(ready)
    /\ draining' = (Len(ready) > 1)
    /\ UNCHANGED <<cacheVars, lines, shareVars, clientVars, answer, waiting,
                   sentFrames>>

\* A new event starts when every continuation has run.
EventStarts == ready = <<>>

Awaiting(r) ==
    Filtered(waiting, {i \in 1..Len(waiting) : waiting[i].fetch = r})
AwaitingOther(r) ==
    Filtered(waiting, {i \in 1..Len(waiting) : waiting[i].fetch # r})

\* A fetch is answered: everything that awaits it is due, in order.
Answered(r, route) ==
    /\ EventStarts
    /\ FetchOk(r)
    /\ answer' = [answer EXCEPT ![r] = route]
    /\ ready' = Awaiting(r)
    /\ waiting' = AwaitingOther(r)
    /\ draining' = (Awaiting(r) # <<>>)
    /\ UNCHANGED <<tableVars, shareVars, clientVars, sentFrames>>

\* Mutation of Failed: .catch() is missing, the callers hang.
FailedStrands(r) ==
    /\ EventStarts
    /\ FetchFails(r)
    /\ UNCHANGED <<tableVars, shareVars, clientVars, loopVars>>

\* A fetch fails: its callers return without a trace.
Failed(r) ==
    /\ EventStarts
    /\ FetchFails(r)
    /\ waiting' = AwaitingOther(r)
    /\ UNCHANGED <<tableVars, shareVars, clientVars, answer, ready, draining,
                   sentFrames>>

\* The interval timer, and the broadcast of what it found.
Timer ==
    /\ EventStarts
    /\ Tick
    /\ IF Out = <<>>
       THEN UNCHANGED <<clientVars, sentFrames>>
       ELSE /\ \E o \in [Clients -> Outcome] : Broadcast(o)
            /\ sentFrames' = Append(sentFrames, SaidOf(Survivors))
    /\ UNCHANGED <<cacheVars, lines, shareVars, answer, waiting, ready, draining>>

ClientEvent ==
    /\ EventStarts /\ ClientEnv
    /\ UNCHANGED <<cacheVars, tableVars, shareVars, loopVars>>

TimePasses ==
    /\ EventStarts /\ Elapse
    /\ UNCHANGED <<cacheVars, lines, shareVars, clientVars, loopVars>>

ServerNext ==
    \/ \E ip \in Ips, rtt \in Rtts : RttArrives(ip, rtt)
    \/ \E ip \in Ips, bytes \in Volumes : VolArrives(ip, bytes)
    \/ \E quic, ipv6 \in StatValues : StatArrives(quic, ipv6)
    \/ Resume
    \/ \E r \in Fetches : Failed(r) \/ \E route \in Routes : Answered(r, route)
    \/ Timer \/ ClientEvent \/ TimePasses

ServerSpec == ServerInit /\ [][ServerNext]_serverVars

Settles(r) == r \in Fetches /\ (Failed(r) \/ \E route \in Routes : Answered(r, route))

\* Fairness: AbortSignal.timeout(5000) settles every fetch, and the event loop
\* runs every continuation that is due.
ServerFairSpec ==
    /\ ServerSpec
    /\ WF_serverVars(Resume)
    /\ \A r \in 1..MaxFetches : WF_serverVars(Settles(r))

(******************************** properties *******************************)

\* What an entity shows is one measurement and the answer to that measurement:
\* its route was resolved for the rounded RTT it shows and for an address of
\* this entity, however lines and answers overtake each other.
RouteAnswersRtt ==
    \A i \in 1..Len(entities) :
        LET e == entities[i]
        IN  \E r \in Fetches :
                /\ answer[r] = e.val.route
                /\ fetches[r].key[2] = Rounded(e.val.lastRtt)
                /\ KeyOf(e.val.route, fetches[r].key[1]) = e.key

\* A client that was there from the start and lost no frame has been told the
\* current state of everything that is not about to be sent.
CaughtUp(c) ==
    /\ readyState[c] = "open" /\ joined[c] = 0
    /\ dropped[c] = 0 /\ cleared[c] = 0
    /\ queue[c] = <<>> /\ buffer[c] = <<>>

ClientSeesTable ==
    \A c \in clients : CaughtUp(c) =>
        \A i \in 1..Len(entities) :
            LET e == entities[i]
                about == {f \in Range(received[c]) :
                             e.key \in DOMAIN sentFrames[f.seq]}
            IN  ~e.val.dirty =>
                    \E f \in about :
                        /\ \A g \in about : g.seq <= f.seq
                        /\ sentFrames[f.seq][e.key] = Said(e)

\* Every rtt line is applied or given up on; none waits for ever.
LinesSettle == (waiting # <<>>) ~> (waiting = <<>> /\ ready = <<>>)
=============================================================================
