# Downlink in TLA+

A verification project for [Downlink](../src/README.md): TLA+ modules of the
parts of the system that keep state and run concurrently, TLC configurations
that check them on small instances, and TLAPS proofs of what holds for every
instance. Paths below are relative to `src/`.

```
gateway's NIC -> tap (eBPF + loader) --TCP lines--> stream server --WebSocket--> kiosk
                                                        |                         |
                                                        +-------> resolver <------+
                                                                 (pool -> PostGIS)
```

## Inventory

| Component | State it keeps | Operations | Talks to |
|---|---|---|---|
| **tap, kernel** `tap/src/downlink.bpf.c` | maps `flows`, `ratelimit`, `bytes_by_dst`, `stats`, ring buffer `events` | `handle()` per packet, on every CPU | the loader, through the maps and the ring |
| **tap, loader** `tap/src/main.c` | clsact qdisc and two filters it attached, sink connection, `ticks` | `run_live()`, `run_replay()`, `drain_bytes()`, `print_stats()`, `emit()` | kernel; stream server over TCP |
| **stream server** `stream/src/index.ts` | `resolveCache`, `entities`, `dstToKey`, unmeasured share, `clients` with queues | `handleLine()` (`onRtt`, `onVol`, `onStat`), fetch answers, 125 ms timer, client events | tap, resolver over HTTP, kiosks |
| **resolver, pool** `resolver/server.py` | LIFO queue of connections | `borrow()`, `call()` on a thread per request | Postgres |
| **resolver, inference** `resolver/resolve.py` | per connection the numbers of the routable nodes, and the home node | `resolve()`, `between()`, candidate routes, fallbacks | PostGIS, geolocation file |
| **topology** `resolver/load_cables.py`, `topo/sql/01_schema.sql` | raw tables and the graph in PostGIS | reload of the raw tables, `dl_build_graph()`, validation | read by every resolver |
| **kiosk, trip store** `phase4/src/trips.ts` | trips and their vertices in fixed arrays, GPU payload | `add`, `prune`, `clear`, `data` | called by the animation frame |
| **kiosk, application** `phase4/src/App.tsx` | socket, mode, pending entities, traced route, labels; the atlas: network, check boxes, selected cable; the map's layers and camera | feed, timers, animation frame, effects, map events | stream server, trace panel, trip store, map |
| **kiosk, trace panel** `phase4/src/trace.tsx` | status, routes, snapshot downloads, current request | lookups, fallback, way back to live | resolver, static snapshots |
| **kiosk, keystone** `phase4/src/keystone.ts` | corners, saved calibration | drag, save, reset, the homography | local storage |
| **kiosk, drawing** `phase4/src/labels.ts`, `geo.ts` | none | `placeLabel()`, `unwrapPath()`, `isPathEndpoint()` | called by the application |

What is hard, and what makes each part correct:

* **tap.** CPUs run `handle()` at the same time, and the loader's drain reads and
  deletes what they write, each in several map operations. A sample must belong
  to one handshake; bytes may be lost to races but must not be invented. A tap
  that is killed leaves its filters attached, and the next one finds them.
* **stream server.** One thread, but every rtt line is suspended at
  `await resolve()`: lines overtake each other, answers come in any order, a
  promise is evicted while it is in flight, and its late failure deletes a
  younger entry. Frames carry only what changed, so a change that is not marked
  is never shown. Every table and queue is at its limit most of the time.
* **pool.** Handler threads share a few connections that die together. No
  connection may serve two threads, none may leak, none may be lost to the pool.
* **topology.** Connections autocommit, so a load is a long row of transactions
  under which lookups go on, and a lookup is several statements. What a Resolver
  keeps about the graph outlives the graph.
* **kiosk.** Lookups overlap and are aborted; their fallbacks run regardless.
  Live entities and traced routes compete for one wall. The map, the network it
  shows and the choices of the user come in any order, and an effect runs only
  when its dependency list names what changed. Lines and labels of a route are
  worked out in pieces that have to fit together on a globe and on a screen.
* **keystone.** Handles are dragged by any number of pointers, each with its own
  listeners on the window, with keys in between.

The hazards at their lines are in [PROJECT.json](PROJECT.json).

## Modules

| Module | Models | State and actions |
|---|---|---|
| `ConnectionLease` | what the pool promises | each connection is outside, idle or leased to one thread; `Open`, `Lease`, `Return`, `Drop` |
| `ResolverPool` | `borrow()` and `call()` | a `pc` per handler thread; `Get`, `Connect`/`ConnectFails`, `InitDone`/`InitFails` (the two halves of `build()`), `RunReturns`, ..., `Evict`, `Put`, `Leave` are the statements between which another thread can run; Postgres restarts, refuses, cancels |
| `TopologyReload` | `load_cables.py` and `dl_build_graph()` next to `resolve.py` | the tables, the rows still to load, what a Resolver keeps; one action per statement or row: `StartLoad`, `InsertCable`, ..., `BuildGraph`, `LoadBreaks`; `Connect`, `FindHome`, `FindDestination`, `Round` |
| `InsertionMap` | JavaScript `Map` (external) and `capped()` | operators on sequences of `[key, val]` |
| `ResolveCache` | `resolve()` | promises as fetch numbers; `Hit`, `Miss`, `FetchOk`, `FetchFails` |
| `EntityTable` | `onRtt()` after its await, `onVol()`, the timer | `ApplyRtt`, `ApplyVol`, `Tick` |
| `TrafficShare` | `onStat()`, `counterDelta()` | `onStat`, `AddVolume` |
| `ClientQueues` | connection handler, `broadcast()`, `flush()` | `Connect`, `Closed`, `Broadcast`; the network is `Receive`, `Closing` |
| `StreamServer` | the event loop that composes the four before | one action per event and per continuation |
| `UnmeasuredTraffic` | `TrafficShare` fed by the tap's counters, through `emit()` and the server's line buffers | `LookupBytes`, `AddBytes`/`InsertBytes`, `BumpQuic`, `BumpIpv6` on every CPU; `DrainStarts`, `ReadElement`, `DeleteKey`, `PrintVolume`, `ReadIpv6`, `Stat` of the loop; `Evict`, `Breaks`, `Crash`, `ServerRestarts`; `Read`, of one half of a line |
| `TapProgram` | what the three modules of the tap have in common | the CPUs, the null pointer |
| `TapVolume` | `bytes_by_dst` between CPUs and drain | `LookupBytes`, `AddBytes`/`InsertBytes`; `GetNextKey`, `ReadElement`, `DeleteKey`, `DrainSorts`, `PrintVolume`, `DrainEnds` |
| `TapHandshake` | the SYN/SYN-ACK path, live and in replay | `Syn`, `SynAck`, `TakeEntry`, `Debounce`, `UpdateLimit`, `Submit` |
| `TapAttach` | start, stop and crash of taps on one interface | the statements of `run_live()` around its loop, and a poll that fails |
| `TripStore` | the trip store | `Add`, `Prune`, `Clear`, `Data` |
| `Kiosk` | trace panel, live feed and the wall | lookups step by step, tabs, socket, animation frame |
| `LabelLayout` | `labels.ts` | `placeLabel`, an operator |
| `RouteDrawing` | `candidates()`, `trace()`, the label loop of `App.tsx`, `geo.ts` | operators from an answer to lines, places and label boxes |
| `Workspace` | atlas, tabs and camera, with the routes that `RouteDrawing` draws | the panel's handlers, `MapLoads`, `FetchOk` (also of a network that is kept with an error), `FetchFails`, and `Effects`, which runs every effect that is due |
| `Homography` | the matrices of `keystone.ts` | operators on integer matrices |
| `Keystone` | corners, handles, keys and storage | `PointerDown`, `PointerMove`, `PointerUp`, `KeyK`, `KeyR`, `Resize`, `Reload` |

The modules ending in `_proofs` hold the proofs; the `MC_` modules give the constants of a run their values. Definitions named in a comment
that begins "Mutation of" are deliberately wrong versions of the definition
after them: with one in its place, a property of the run has to fail. They are
part of no specification.

Abstractions: a route is a model value (label, path and confidence with it), a
frame its number and drop count, a packet one byte, a counter of several CPUs one
number that is read in one step, a lookup its number, a trip's vertex the trip and index it was written for. A mean is the sequence of values
it is the mean of. Geometry is a constant: which stations lie on a cable, which
are nearest to a city. Points that the resolver takes for one (at most 50 m apart,
without a handoff) are one point. An abort or a settled promise takes effect, with every
continuation it makes due, before the next event, as JavaScript's microtasks do.
External code is modelled from how `src/` uses it: the kernel's LRU hash (fixed
elements, evicts some key when none is free, `get_next_key` starts over on a
lost key), tc (refuses a second filter at a handle, keeps those of dead
processes), `ws`, Postgres, Node's event loop, React (a handler's changes are
rendered at once, effects that are due run some time later, in the order of the
source), the projection of the map and the size of a text (constants). A lookup
that `Workspace` takes in is one of `Kiosk`'s that ended: the two meet in
`trace()`. The server is taken to read what it has of an old connection before
it accepts a new one. Variables marked "history" in
the modules are read by properties only.

## Runs

| Run | Question | Bounds, and why they are enough |
|---|---|---|
| `ResolverPool` | exclusive use, no leak, lazy building, a dead connection costs one attempt, calls return, refinement of `ConnectionLease` | 2 threads on 1 slot, so that one waits for the other, and on 2; 2 restarts, so that a retry meets another one; requests, refused connects and cancelled statements without a bound; 4 connections: 2 in the pool's hands and 2 that failed builds left behind |
| `ResolverPool_restart` | does one restart fail a call? | 2 threads on 2 slots, one restart and no other fault |
| `TopologyReload` | what lookups see of loads | two editions of at most five stations and three cables, one station an island, whose numbers mean different nodes; two loads; two losses of a connection or a load; every fallback of a lookup occurs, from a kept backbone and from a fresh one |
| `StreamServer` | cache, table, share and clients on the event loop | one address that answers fold into a city or not, two latencies, a cache of one: three lines and three fetches evict a promise in flight, ask again, and let the first fail late |
| `EntityTable` | the table alone, larger | up to 3 entities on 2 places, 2 addresses on 1; 4 ticks around a window of 1 and a retention of 2 |
| `ClientQueues` | slow clients | queues of 2, buffers of 1, 5 frames overflow a stalled client twice |
| `UnmeasuredTraffic` | the share and the lines it is made of, through faults | 3 packets or faults in all, on 2 CPUs, so that two packets meet each other, a drain, or a fault; 2 drains, each followed by a stat line, so that two lines are compared; a fault is an eviction, a break of the connection anywhere in what is on its way, a crash of the tap or a restart of the server, with the lines the sink loses until it connects again |
| `Tap` | do races invent or lose bytes? are samples sound? do taps recover? The three protocols share no variable, and a behaviour takes one of them | volume: 2 CPUs, 3 destinations on 2 elements, so that inserts evict with and without a race, 4 packets, 2 drains, and the walk may start over; handshake: 2 flows of one destination on 2 CPUs, 3 SYNs and 3 SYN-ACKs, so that a port pair is used again and either is repeated, a ring of 1 that is full, a longest latency of 1; attach: 2 taps, 3 crashes, failed starts or failed polls, 2 stops, with and without a foreign qdisc |
| `TripStore` | a full store | 3 trips or 7 vertices; 2, 4 or too few points, durations 1 and 3, so that trips expire out of order and either limit bites first |
| `Kiosk` | overlapping lookups and the live feed | 3 lookups of 2 cities: a snapshot is shared, superseded and found rejected |
| `Workspace` | map and panel in step, routes drawn whole | 2 layers, 2 cables; routes through up to 3 of 6 stations around a globe of 8 units, one station at the antimeridian, which routes cross within a segment or between two, two of one name, one without; answers of up to 4 routes, some invalid; a screen that is full with the badge and two or three labels, and 8 rows (64 in the code), so that a label also finds none |
| `Keystone` | calibration and its transform | a window and its turned form, 3 points for the pointers, inside and outside it, 2 moves, which make a trapezoid or drag two handles onto one point; every set of handles may be held |

Deadlock is checked in both runs of the pool, `TopologyReload`, `Kiosk`,
`Workspace` and `Keystone`, where requests, lookups, clicks and keys are not
bounded. Every other model stops when the bound on its environment (packets,
lines, frames, time) is used up.

What the properties say:

* *Pool.* `ExclusiveUse` and `NothingLeaks` relate every thread's connection, the
  queue and the set of open connections; the only other place an open one has is
  the exception of a `build()` that failed after `connect()`, and nothing is left
  there when the call is over. `LazyBuild` is what the LIFO order is
  for. `DeadCostsOnce`: attempts wasted on dead connections, and those still to
  be wasted, never exceed the connections that died. `CallsReturn` is about every
  wait at `get()`, under the conditions of [Fairness](#fairness). `ImplementsLease`
  maps a connection to "idle", the thread that holds it, or "outside", where one
  is before it is opened, after it is closed, and when a `build()` left it
  behind; so the bound on the size counts what is in the pool's hands.
* *Topology.* `GraphOfOneEdition`: whatever happens to loads, lookups run on the
  graph of one edition in full. `FreshAnswersRoute`: a Resolver made since the
  last build finds a route between any two cities near its backbone, between the
  stations the answer names. `SubmarineIsNamed`: cables lose their names only
  in lookups during a load or after one that broke off.
* *Stream.* `RouteAnswersRtt`: an entity never combines one measurement with
  the answer to another. `SingleFlight` and `AnswersStay` hold up to the two
  things an eviction in flight can do, which they name; `SingleFlight` also says
  that no failure is cached. `ClientSeesTable`: whatever is not dirty was shown
  to every client that lost nothing. `OnlyIdleLeave` and `VolumeFollowsRoute` are
  about which entity goes and which one volume is credited to. `LinesSettle`:
  every rtt line is applied or given up on. `MemoryBounded`, `NewestInOrder`,
  `LossIsCounted` describe a slow client. `ShareAccountsForAll`: between
  two stat lines without a fault in between, every QUIC and IPv6 byte counts, in
  a volume that may be too small, because the volume map loses what is added
  between the drain's read and its delete and what two CPUs insert over each
  other; without such a meeting it is what the tap saw, up to what the map held
  at either line. `NeverOverstated` survives lost lines and restarts; `LinesWhole`: no
  line is put together from pieces of two, wherever a connection is cut.
* *Tap.* `VolumeBalances`: races lose bytes but invent none, and without overlap
  nothing is lost but by evictions. Its conditions name the only ways in which
  the accounting may be off: an eviction during a drain, which makes the walk
  start over and read a key twice, an overlap, and any eviction. `SampleOfOneHandshake`: a latency is that of one handshake, said
  once, and never wraps. `SpacedAlone` is limited to one CPU at a time in live
  mode (see below). `LoneTapIsWhole`, `Heals`: one direction alone is never left,
  and a crashed tap reports again after at most one failed start.
* *Kiosk.* `PackedInCapacity`, `PayloadDrawsTrips` and `OverstayBounded` are what
  the fixed arrays must guarantee. `WallShowsPanel` keeps live traffic and traced
  routes apart; `SupersededOnlyFallsBack` and `LoadingEnds` are about aborted
  lookups.
* *Atlas and drawing.* `MapFollowsPanel`: once no effect is due, layers, filter,
  click handlers and camera are those of the panel, whatever came first.
  `AtlasArrives`: who opens the atlas gets it or is told. `LinesJoin`: the
  segments of a route, each unwrapped on its own, meet on the path that is
  unwrapped as a whole, without a streak at the antimeridian. `PlacesAreStops`:
  the numbered places are the panel's stops, in its order, once each.
  `LabelsApart` is about the label loop, not one call: each label keeps clear of
  those before it and on the screen, unless no row has room.
* *Keystone.* `WallIsStored`: at rest the wall shows what a reload would bring
  back. `MatrixMapsCorners`: the CSS matrix, multiplied out as a browser does,
  takes each corner of the window to its handle, for every four points no three
  of which are on a line.

### Disagreements with what the repository says

* `ResolverPool_restart`: `resolver/server.py:71-73` says the second attempt of
  a call gets a fresh connection. After one restart it may get another dead one,
  put back by another thread in between, and the call fails.

Met while modelling, in the models, and without a run of their own:

* `resolver/server.py:25-26` says the pool bounds Postgres connections. A
  `build()` that fails after `connect()` (`resolver/resolve.py:568`: no
  geolocation file, no table, a cancelled statement) leaves its connection to
  CPython's finaliser, which closes it when the exception is dropped, and
  `borrow()` has put the slot back by then: for that moment another thread may
  open one more than `POOL_SIZE`. Hence "left behind" in `NothingLeaks`.
* `tap/src/main.c:153-154` says each byte is emitted exactly once; bytes that a
  CPU adds between the drain's read and its delete (`:182`) are not, hence the
  condition of `VolumeBalances`. They are missing in the share's denominator
  too, hence "at most" in `ShareAccountsForAll`.
* `resolver/load_cables.py:101` says the graph is validated before anything runs
  on it; it was committed at `:97`, and a failed validation leaves it in place.
* A Resolver computes its backbone once (`resolver/resolve.py:142`), while a load
  numbers the nodes again from 1 (`topo/sql/01_schema.sql:135`): until its
  connection dies it looks for routes from stations that took over old numbers.
  One made before the first load keeps an empty backbone and answers every
  lookup with a great circle, or an anycast address without an exchange in reach
  with a `TypeError` (`resolver/resolve.py:466`).
  Hence "fresh" in `FreshAnswersRoute`.
* `tap/src/downlink.bpf.c:38-39` promises one RTT event per destination per
  window; two CPUs may both pass the debounce (hence the condition of
  `SpacedAlone`).
* A tap that fails to start detaches the filters of a tap that runs
  (`tap/src/main.c:394`), hence "lone" in `LoneTapIsWhole` and `Heals`.
* Expired trips are kept behind older, longer ones (`phase4/src/trips.ts:119`),
  hence the bound of `OverstayBounded`.
* A snapshot whose download failed is not asked for again
  (`phase4/src/trace.tsx:92`), and a superseded lookup whose snapshot fails puts
  its great circle on the wall (`phase4/src/trace.tsx:202`).
* `README.md:120-121` says `k` saves a calibration. The code saves at every
  release of a pointer (`phase4/src/App.tsx:577`), and `k` only shows and hides
  the handles.
* Two pointers drag both of their handles to one point, since each handle's
  listeners hear every pointer (`phase4/src/App.tsx:579`); the transform of such
  corners is degenerate, hence the condition of `MatrixMapsCorners`.
* A lookup that ends while the atlas is open takes the camera to its routes
  (`phase4/src/App.tsx:714`), and so does a click on the open tab to the world
  (`:653`), while the cable stays selected: hence `led` in `MapFollowsPanel`.
* After a failed download of the network the data tab shows "Loading…" until it
  is opened again (`phase4/src/trace.tsx:406`): hence `AtlasArrives` is about the
  atlas alone.
* A label without a free place is put over others (`phase4/src/labels.ts:27`).
* An alternative that is not valid takes one of the two slots
  (`phase4/src/trace.tsx:88`): it is filtered after the slice.
* Nothing but the next broadcast flushes a queue (`stream/src/index.ts:238`): the
  last frames before a quiet spell reach a slow client with the next change.

## Fairness

* `PoolFairSpec`: a handler thread takes the steps in which it waits for nobody
  (`Evict`, `Put`, `Leave`), and `get()` returns if a slot stays queued. The rest
  is a condition of `CallsReturn`. Postgres answers what a thread waits for, be
  it with an error (`PostgresAnswers`): `connect()` sets neither a connect nor a
  statement timeout (`resolver/resolve.py:558-564`), so a Postgres that hangs
  holds the slot, and with all slots the resolver. And `get()` does not pass a
  thread over for ever (strong fairness): Python's `queue` promises no order
  among the threads that wait, and requests are not bounded. Without either the
  property fails. Postgres may otherwise fail for ever: the call then returns
  with an error.
* `ServerFairSpec`: every fetch settles, because of `AbortSignal.timeout(5000)`,
  and due continuations run, because Node empties its microtask queue before the
  next event. Nothing is assumed of lines, timers or clients.
* `AttachFairSpec` (`Spec` in `MC_Tap`): a running tap goes on, and one that ended without being told
  to is started again (`restart: unless-stopped` in `docker-compose.yml`). No tap
  has to be started in the first place.
* `KioskFairSpec`: the browser settles every request with an answer or an error.
* `WorkspaceFairSpec`: the same of the network's download, and React runs the
  effects that are due. Nothing is assumed of the map, which may never load.

## Proofs

Every theorem holds for every value of the constants, under these assumptions,
which TLC evaluates on the runs:

| Assumption | Says |
|---|---|
| `PoolAssumption` | threads and connections are finite sets, `POOL_SIZE` is a positive number; `NONE` is no connection, and the two owners that are not threads are not; the number of restarts is bounded |
| `ClientAssumption` | queues and buffers hold at least one |
| `CacheAssumption`, `TableAssumption` | caches and tables hold at least one; the window is no longer than the retention; a route that can be drawn is a route |
| `ShareAssumption`, `UnmeasuredAssumption` | `Unknown` is no number; a stat line comes after some positive number of drains; the bounds are numbers |
| `HandshakeAssumption` | every flow has a CPU; the machine word holds twice the largest time; window and latency bound are times; `None` is no number |
| `VolumeAssumption`, `AttachAssumption` | destinations and CPUs are finite sets; `None` is no destination, element or tap |
| `StoreAssumption` | a path may have two points, and the longest fits an empty store |
| `KioskAssumption`, `KeystoneAssumption` | there is a source city; points and windows are pairs of integers, a window has an extent |
| `TopologyAssumption` | the rows of the files and the stations of a cable are sequences; `NearestTo` lists every node's name; `None` is none of the data |
| `GraphAssumption` | the files of an edition make an edge: others fail the validation |
| `WorkspaceAssumption` | the submarine layer is one of the layers, no cable is "none"; the estimate is valid and has no segments |
| `DrawingAssumption`, `LayoutAssumption` | a circle has an even, positive number of units; the rows of boxes, the gap and the offset are numbers, with at least one row |
| `AnswerAssumption` | routes have the shape that `_routes()` gives them: a segment begins at the place, and with the name, where the one before it ends; they follow one another along the path, which may write the place where two meet twice (180° and -180°), and may begin with points on the meridian of the source city |
| `ScreenAssumption` | boxes are in whole pixels, and each label by itself fits the screen |

| Theorem | Says |
|---|---|
| `ResolverPool_proofs!TypeCorrect` | `PoolSpec => []PoolTypeOK` |
| `ResolverPool_proofs!SlotsAreConserved` | no path through `borrow()` and `call()` loses or doubles a slot |
| `ResolverPool_proofs!UseIsExclusive`, `NoConnectionLeaks` | `ExclusiveUse`, `NothingLeaks` |
| `ResolverPool_proofs!PoolIsALease` | `PoolSpec => ImplementsLease`, the refinement of `ConnectionLease`: with at most `POOL_SIZE` connections lent or queued |
| `ResolverPool_proofs!DeadFailOnce`, `ConnectionsAreLazy` | `DeadCostsOnce`, `LazyBuild` |
| `ClientQueues_proofs!TypeCorrect` | `ClientSpec => []ClientTypeOK` |
| `ClientQueues_proofs!MemoryIsBounded`, `LossesAreCounted`, `NewestArriveInOrder` | `MemoryBounded`, `LossIsCounted`, `NewestInOrder` |
| `StreamServer_proofs!OneFetchPerKey`, `AnswersAreKept` | `SingleFlight` and the action property `AnswersStay`, of the whole server |
| `StreamServer_proofs!VolumeStaysWithAddress`, `LeaversWereIdle` | `VolumeFollowsRoute` and the action property `OnlyIdleLeave`, of the table |
| `StreamServer_proofs!TableKeepsItsPromises` | the same two of the whole server |
| `StreamServer_proofs!EntityShowsItsAnswer`, `ClientsSeeTable` | `RouteAnswersRtt`, `ClientSeesTable` |
| `UnmeasuredTraffic_proofs!LinesAreWhole` | `LinesWhole` |
| `UnmeasuredTraffic_proofs!ShareAccounts`, `ShareIsNotOverstated` | `ShareAccountsForAll`, `NeverOverstated` |
| `Tap_proofs!VolumeIsKept` | `VolumeBalances` |
| `Tap_proofs!SamplesAreOfOneHandshake`, `EventsSpacedAlone` | `SampleOfOneHandshake`, `SpacedAlone` |
| `Tap_proofs!LoneTapWhole` | `LoneTapIsWhole` |
| `TopologyReload_proofs!GraphIsOneEdition` | `GraphOfOneEdition` |
| `TopologyReload_proofs!FreshLookupsRoute`, `CablesKeepTheirNames` | `FreshAnswersRoute`, `SubmarineIsNamed` |
| `Kiosk_proofs!StoreStaysPacked`, `PayloadIsOfTrips`, `NoTripOverstays` | `PackedInCapacity`, `PayloadDrawsTrips`, `OverstayBounded` of the trip store |
| `Kiosk_proofs!WallIsOfPanel`, `AbortedFallBack` | `WallShowsPanel`, and the action property `SupersededOnlyFallsBack` |
| `Kiosk_proofs!CornersTyped`, `StoredIsShown`, `MatrixIsExact` | the types of `Keystone`, `WallIsStored`, `MatrixMapsCorners` |
| `Workspace_proofs!MapIsInStep` | `MapFollowsPanel` |
| `Workspace_proofs!RouteIsShown` | a route on the map is the answer of a lookup, one of its candidates chosen |
| `Workspace_proofs!LinesAreJoined`, `PlacesFollowStops`, `LabelsKeepApart` | `LinesJoin`, `PlacesAreStops`, `LabelsApart` |

`TypeCorrect`, `CornersTyped`, `SlotsAreConserved` and `RouteIsShown` are proved
only; every other theorem states a property that a run checks too.

*Pool.* `ExclusiveUse` and `NothingLeaks` are not inductive one by one: that a
thread which is lent a connection shares it with nobody depends on its having
been in the queue once, and that a connection may be built on what is open. The
inductive invariant says for every connection that it has exactly one place, if
it is open, and none otherwise: a thread, a position of the queue, or the
exception of a thread whose `build()` left it behind. Each
action moves a connection from one place to one other, or opens or closes it.
Conservation of slots counts the queue and the threads between `get()` and
`put()`, with lemmas on the cardinality of the holders when one is added or
removed.

On that invariant rest three more. For the refinement, the owner that the
mapping chooses is the one thread that holds the connection, so `Get`, `Connect`,
`InitFails`, `Evict` and `Put` are `Lease`, `Open`, `Drop`, `Drop` and `Return` of
a connection, or move an empty slot and none of it shows; `Leave`, which closes
what is outside, does not show either. That `Connect` finds room is a matter of
counting: the connections in the pool's hands are in the queue and with the
*other* holders, and slots are conserved. For `DeadCostsOnce` the dead connections that have yet
to fail an attempt, in `build()` or in a query, lose one element with each that
fails, gain at most what was
alive when Postgres goes, and grow by no other step. `LazyBuild` needs that `peak` bounds
the holders: the queue is never shorter than `POOL_SIZE - peak`, so `put()` never
reaches below that.

*Clients.* `MemoryBounded` needs that what is pushed fits after the excess is
shifted, and that `flush()` never sends beyond the high-water mark; both are
lemmas on the lengths of `Trimmed`, `Pushed` and `Flushed`. `LossIsCounted` is
kept by a balance for each open client: a broadcast adds one to the left side,
and on the right the frame pushed, the frames shifted (to `dropped`), sent (to
the buffer) or cleared (to `cleared`) add up to one; a client that connects
starts with both sides zero because nothing was queued for it before. For
`NewestInOrder` what was received, what is in the buffer and the queue are put
one after the other, and the order is stated pair by pair, so that shifting
frames out of the middle keeps it. The queue of an open client has no gap, and
that the last frame's count is exact is the balance again, read when the frame
was pushed.

*Stream server.* A cache entry is the youngest fetch of its key: a fetch starts
only when the key has no entry, so an older one in flight was evicted, which is
what `SingleFlight` says; a failure that deletes a younger entry is one of
those, and with the cap the only way an answer leaves. The table's invariant is
that a key is in `entities` once, that no entity was heard from in the future, and
that every address in `dstToKey` is where it was last folded; that the cap takes the
one heard from least recently is a lemma on `ApplyRtt`. Lines are applied when
their answers come, but each application is one step of the table.
`RouteAnswersRtt` needs that a line that waits remembers what it measured and
that the route it brings is its own fetch's. `ClientSeesTable` rests on the last
frame that speaks of an entity: if the entity is not dirty that frame tells what
it is. By the balance of the clients one that has lost nothing and has nothing
on its way received every frame, so also that one.

*Unmeasured share.* That no line is put together from two needs an order on what
is on its way: a tail follows its head, a sink that is up is at the end of a line,
and connections are numbered upwards, so that a head whose tail is lost is
followed by pieces of another connection alone. The two statements about the
share foretell, for every piece on its way, what the server will have counted
when it has read it: there is a sequence of counts that agrees with the lines
between. What `counterDelta()` yields is at most what the tap counted since the stat
line before, and equal to it when no fault came between. For the volume a stat
line is compared with the state it is printed in: what was printed since, and
what is due yet (in the map, or read and about to be deleted, then not yet
printed), is at most what was accounted since and due then, and equal if no
packet met anything. `RaceInv` says who meets: a CPU between its lookup and its
add or insert is in `met` as soon as a second one or a drain is between its own, so
outside `met` the element that was found is the one in the map. The loop reads
the IPv6 counter a step before the QUIC counter, so the proof freezes it there.

*Tap.* With no second tap ever beside it, a tap that runs is the only one that
moves filters. The inductive invariant says at each place of `run_live()` which
filters it has attached or has left to detach; what a crashed predecessor left
makes its attach fail, and both detaches follow whatever failed.

For the handshake the invariant counts: the events of a SYN, its sample if one is
under way on the CPU of its flow, and its entry if it is in the table and about
to stay there, are together no more than the SYNs sent. A step moves one of
the three to the next. Every time fits half the word, so a difference of two in
the wrong order is out of range. As long as no two
CPUs have met in the debounce, what is in `ratelimit` is not before the last
event of the destination, so the window counts from there.

For the volume each destination has a share: what was printed, what was read
and is not yet printed, and what the map holds and is not about to be deleted. A drain
moves bytes between the three and changes no share, as long as its walk goes on
in order and reads no key twice, and only an eviction makes it start over. An
add or an insert adds one to one share at most, and the packet was seen before.
A packet without overlap is in exactly one share. Sums are cardinalities of sets
of pairs, so that they are compared by subsets, without induction over the
destinations.

*Topology.* The graph is built from the raw tables, so the inductive invariant
follows a load: the rows inserted and the rows left are together those of the
load's edition, first of the cables, then of the landings, while the cables stay
as they are. A load that breaks off says nothing of the tables, and the next one
empties them before it fills them. Lookups touch none of this.

For `FreshAnswersRoute` what a Resolver made since the last build keeps is of the graph
that is there, through every statement of a lookup, and its two stations lie in
one component. That they have a route is a fact about finite graphs: of the sets
of edges that link two nodes (no set that is closed under them separates the
two), one with the least number of edges is a path, for each of its edges is the
only one that crosses some cut, and cuts of two edges at one node lie on either
side of it. Cables lose their names when the raw table lacks them, which it does
between the start of a load and the end of its cables, and after a load that broke off.

*Trip store.* Where a trip starts is the sum of the widths before it, as a count of
places, so that dropping a prefix moves everything by one number; each trip has
its own vertices there, and unless the store is dirty the payload is a copy of
them. Times are in the order of the trips, and after a prune the front is alive:
whatever is behind a longer trip in front started no earlier than it.

*Keystone.* With the types, `WallIsStored` is inductive but for a drag: a move
changes the corners and not what is stored, so the invariant speaks of the time
when no handle is held, and the release that ends it saves. "r" in between
clears the storage, and a move after it is saved by the release again.
`MatrixMapsCorners` is algebra: the columns of a matrix are three of the points
times the areas of the triangles that the fourth forms with the other two, which
takes the fourth to the sum of the three; no area is zero when no three corners
are on a line; and the window's matrix times its adjugate is a factor times the
identity, which the division by the third coordinate removes.

*Workspace.* `MapFollowsPanel` speaks of the moments when no effect is due, the
inductive invariant of every moment: an effect that is *not* due has nothing to
do. For an event this is one lemma on `Commit`: what is not made due depends on
nothing that changed. For `Effects` it needs that the visibility effect is due
whenever the sources effect is, because layers are hidden when they are added,
and only the visibility effect, which runs after, shows them.

*Route drawing.* As a state invariant it is enough that what the map shows is the
picture of a lookup's answer (`RouteIsShown`); the rest is about the operators of
`RouteDrawing` and `LabelLayout`, for any answer. That their recursive functions
have a value at all takes a proof: a function that follows the equation up to a
number can be extended by one more value (`RecursionHasValue`), and what holds
first, and from each number to the next, holds of all (`Stepwise`). Both are
about sets, not operators, so that they can be cited.

For `LinesJoin`: `unwrapPath()` takes each point to the one of its longitudes that is
nearest to the point before. So two sequences of the same points that begin at
one longitude stay together, and a segment that begins where the path is goes
along it; it ends where the next begins, also if the path has that point twice.
For `PlacesAreStops`: every end of a segment has a position in the panel's list,
which never goes down along the route, and the places are the first ends of
their names, so they come in the order of that list. For `LabelsApart`: a box that
is clamped is on the screen when it fits at all, and of the tries that are free
there is a least one.

*Kiosk.* `WallShowsPanel` is inductive: whoever takes the wall clears it first,
and a tick adds nothing but the trips of what is shown by hand.
`SupersededOnlyFallsBack` needs that an aborted lookup is not waiting for the
service any more: the abort settles its request, so of the two ways onto the
wall only the one after the snapshot is left to it.

Where an argument needs a least number or a least set, the proofs take it from
the well-foundedness of the numbers (`NatLessThanWellFounded`, `WFMin`), since
theorems of induction that take an operator cannot be cited.

Only model-checked: liveness (`CallsReturn`, `LinesSettle`, `Heals`,
`LoadingEnds`, `AtlasArrives`), which the prover does not treat under fairness.
Every invariant and every action property that the passing runs check is also
the statement of a theorem.

## Not modelled

* Confidence, labels and the points of routes in `resolver/resolve.py`; in the
  schema, the split of cables at the antimeridian and the distances themselves.
* Parsing of packet headers and of the values of lines and frames; the server's
  limit of 1 MB on a line that never ends.
* Great circles (`gcArc()`, `resolver/geo.py`), rounding (`Float32Array`, matrix
  entries below 1e-10), shaders (`TripsLayer.ts`), CSS, the landing markers, the
  status panel: functions of floating-point numbers, or styling, without state.
  The homography is modelled in integers, where it is exact.
* The recorded routes that `App.tsx` replays, and the arcs of live entities.
* The check of a candidate's values (`phase4/src/trace.tsx:52`) beyond whether it
  is valid.
* The load generator `stream/src/loadtest.ts`, the tests, and the export, fixture
  and capture tools: sequential scripts; the tests were read as statements of
  what the program should do.

## Plan

What would add most from here: `RouteChoice`, the assembly of segments, handoffs
and signatures in `_routes()` of `resolver/resolve.py` as functions, checked
against a reference definition, from which `AnswerAssumption` would follow as a
theorem.
