--------------------------- MODULE TopologyReload ---------------------------
(***************************************************************************)
(* The topology in PostGIS: a load (resolver/load_cables.py and            *)
(* dl_build_graph() of topo/sql/01_schema.sql) next to a Resolver that     *)
(* answers lookups (resolver/resolve.py).                                  *)
(*                                                                         *)
(* Connections autocommit, so every statement is a transaction of its own. *)
(* A load empties and refills the raw tables row by row, then builds the   *)
(* graph in one statement, numbering the nodes from 1 again.  A Resolver   *)
(* keeps the numbers of the graph's backbone from when its connection was  *)
(* built, and the node nearest to home from its first lookup.  A lookup    *)
(* reads the nodes at its ends and up to three routes, in one statement    *)
(* each.  Pooled Resolvers share nothing but the database: one stands for  *)
(* all.                                                                    *)
(*                                                                         *)
(* An edition is the content of the downloaded files.  Geometry is given:  *)
(* which stations lie on a cable, which pairs have a land link, which      *)
(* nodes are nearest to a city and which of them near enough.  A length is *)
(* the number of edges.  Left out: splits at the antimeridian, the land    *)
(* and ixps tables, whose files do not change, and addresses without a     *)
(* known city, whose lookup reads no table.  MaxLoads and MaxLosses are    *)
(* bounds.                                                                 *)
(***************************************************************************)
EXTENDS FiniteSets, Functions, Naturals, Sequences

CONSTANTS Editions, Cables, Stations, Cities, Home, None,
          LandingsIn(_), CablesIn(_),   \* the rows of an edition's files
          Ixps,            \* the rows of ixps.json
          StationsOn(_),   \* the stations a cable passes, in order
          LandLinks,       \* pairs of nodes close enough over land
          NearestTo(_),    \* all stations and IXPs, nearest to a city first
          Snaps(_),        \* those within SNAP_MAX_KM of a city
          GcKm(_), IxpKm(_),    \* from home to a city, to an IXP
          Budgets,         \* what a measured latency allows
          MaxLoads, MaxLosses

Names == Stations \cup Range(Ixps)

ASSUME TopologyAssumption ==
    /\ Home \in Cities /\ None \notin Cables
    /\ None # "no-route" /\ None \notin [id : Nat, name : Names]
    /\ \A edition \in Editions : /\ LandingsIn(edition) \in Seq(Stations)
                                 /\ CablesIn(edition) \in Seq(Cables)
    /\ Ixps \in Seq(Names)
    /\ \A k \in Cables : StationsOn(k) \in Seq(Stations)
    /\ \A city \in Cities : /\ NearestTo(city) \in Seq(Names)
                            /\ Range(NearestTo(city)) = Names
    /\ MaxLoads \in Nat /\ MaxLosses \in Nat /\ Budgets \subseteq Nat

VARIABLES
    cables_raw, landings_raw, nodes, edges,     \* the tables
    loader,      \* [pc, edition, left]: the rows still to insert
    builds,      \* the edition of every graph that was built (history)
    resolver,    \* [routable, home, at]: dl_routable_nodes, _home_node, and
                 \* the number of builds when it was made; or None
    lookup,      \* where the lookup is and what it read
    answer,      \* the last answer
    losses

tableVars == <<cables_raw, landings_raw, nodes, edges>>
lookupVars == <<resolver, lookup, answer, losses>>
topologyVars == <<tableVars, loader, builds, lookupVars>>

NoLookup == [pc |-> "idle"]

TopologyInit ==
    /\ cables_raw = {} /\ landings_raw = <<>> /\ nodes = <<>> /\ edges = {}
    /\ loader = [pc |-> "idle", edition |-> None, left |-> <<>>]
    /\ builds = <<>> /\ resolver = None /\ lookup = NoLookup /\ answer = None
    /\ losses = 0

(******************************** the graph *******************************)

NodesOf(landings) == landings \o Ixps

IdOf(ns, name) == CHOOSE i \in 1..Len(ns) : ns[i] = name
Edge(ns, a, b, cable) == [ends |-> {IdOf(ns, a), IdOf(ns, b)}, cable |-> cable]

\* The j-th station on a cable comes next after the i-th among those of ns.
Consecutive(ns, on, i, j) ==
    /\ i < j /\ on[i] # on[j] /\ {on[i], on[j]} \subseteq Range(ns)
    /\ \A m \in (i + 1)..(j - 1) : on[m] \notin Range(ns)

\* A cable joins the stations on it that are nodes, each to the next.
SpansOf(ns, k) ==
    LET on == StationsOn(k)
    IN  {Edge(ns, on[p[1]], on[p[2]], k) :
            p \in {q \in (1..Len(on)) \X (1..Len(on)) :
                      Consecutive(ns, on, q[1], q[2])}}

SubmarineEdges(ns, cables) == UNION {SpansOf(ns, k) : k \in cables}

\* Land links join what no cable joins.
EdgesOf(ns, cables) ==
    LET submarine == SubmarineEdges(ns, cables)
        land == {Edge(ns, l[1], l[2], None) :
                    l \in {p \in LandLinks : {p[1], p[2]} \subseteq Range(ns)}}
    IN  submarine \cup {e \in land : \A s \in submarine : s.ends # e.ends}

\* Files that make no edge at all fail the validation, which is not modelled.
ASSUME GraphAssumption ==
    \A edition \in Editions :
        EdgesOf(NodesOf(LandingsIn(edition)), Range(CablesIn(edition))) # {}

Ends(es) == UNION {e.ends : e \in es}
IsClosed(es, C) == \A e \in es : e.ends \cap C # {} => e.ends \subseteq C

\* pgr_connectedComponents(): nodes without an edge are in none.
Components(es) ==
    {C \in (SUBSET Ends(es)) \ {{}} :
        /\ IsClosed(es, C)
        /\ \A D \in (SUBSET C) \ {{}} : IsClosed(es, D) => D = C}

\* _ROUTABLE_NODES: a largest component; empty for an empty graph.
Backbones(es) ==
    IF es = {} THEN {{}}
    ELSE {C \in Components(es) :
             \A D \in Components(es) : Cardinality(D) <= Cardinality(C)}

IsPath(es, a, b) ==
    LET degree(n) == Cardinality({e \in es : n \in e.ends})
    IN  /\ {a, b} \subseteq Ends(es)
        /\ \A n \in Ends(es) : degree(n) = IF n \in {a, b} THEN 1 ELSE 2
        /\ Cardinality(Components(es)) = 1

(******************************** the load ********************************)

\* Mutation of StartLoad: TRUNCATE cables_raw is missing.
StartLoadOnTop(edition) ==
    /\ loader.pc = "idle" \/ loader.pc = "broken"
    /\ Len(builds) < MaxLoads
    /\ loader' = [pc |-> "cables", edition |-> edition, left |-> CablesIn(edition)]
    /\ UNCHANGED <<tableVars, builds, lookupVars>>

StartLoad(edition) ==
    /\ loader.pc = "idle" \/ loader.pc = "broken"
    /\ Len(builds) < MaxLoads
    /\ cables_raw' = {}
    /\ loader' = [pc |-> "cables", edition |-> edition, left |-> CablesIn(edition)]
    /\ UNCHANGED <<landings_raw, nodes, edges, builds, lookupVars>>

InsertCable ==
    /\ loader.pc = "cables" /\ loader.left # <<>>
    /\ cables_raw' = cables_raw \cup {Head(loader.left)}
    /\ loader' = [loader EXCEPT !.left = Tail(@)]
    /\ UNCHANGED <<landings_raw, nodes, edges, builds, lookupVars>>

TruncateLandings ==
    /\ loader.pc = "cables" /\ loader.left = <<>>
    /\ landings_raw' = <<>>
    /\ loader' = [loader EXCEPT !.pc = "landings",
                                !.left = LandingsIn(loader.edition)]
    /\ UNCHANGED <<cables_raw, nodes, edges, builds, lookupVars>>

InsertLanding ==
    /\ loader.pc = "landings" /\ loader.left # <<>>
    /\ landings_raw' = Append(landings_raw, Head(loader.left))
    /\ loader' = [loader EXCEPT !.left = Tail(@)]
    /\ UNCHANGED <<cables_raw, nodes, edges, builds, lookupVars>>

CablesOn(es) == {e.cable : e \in es} \ {None}

\* Mutation of BuildGraph: edges of cables that are gone are kept.
BuildGraphOnTop ==
    /\ loader.pc = "landings" /\ loader.left = <<>>
    /\ nodes' = NodesOf(landings_raw)
    /\ edges' = EdgesOf(nodes', cables_raw \cup CablesOn(edges))
    /\ builds' = Append(builds, loader.edition)
    /\ loader' = [loader EXCEPT !.pc = "idle"]
    /\ UNCHANGED <<cables_raw, landings_raw, lookupVars>>

\* dl_build_graph(): one statement, so one transaction.  What comes after it,
\* the validation, changes nothing.
BuildGraph ==
    /\ loader.pc = "landings" /\ loader.left = <<>>
    /\ nodes' = NodesOf(landings_raw)
    /\ edges' = EdgesOf(nodes', cables_raw)
    /\ builds' = Append(builds, loader.edition)
    /\ loader' = [loader EXCEPT !.pc = "idle"]
    /\ UNCHANGED <<cables_raw, landings_raw, lookupVars>>

\* A row that does not parse, a lost connection: what is done is committed.
LoadBreaks ==
    /\ loader.pc \in {"cables", "landings"}
    /\ losses < MaxLosses /\ losses' = losses + 1
    /\ loader' = [loader EXCEPT !.pc = "broken"]
    /\ UNCHANGED <<tableVars, builds, resolver, lookup, answer>>

(******************************** lookups *********************************)

Connect ==
    /\ resolver = None /\ lookup = NoLookup
    /\ \E C \in Backbones(edges) :
          resolver' = [routable |-> C, home |-> None, at |-> Len(builds)]
    /\ UNCHANGED <<tableVars, loader, builds, lookup, answer, losses>>

\* OperationalError: the pool drops the Resolver and calls once more.
Lost ==
    /\ resolver # None /\ losses < MaxLosses
    /\ losses' = losses + 1
    /\ resolver' = None /\ lookup' = NoLookup
    /\ UNCHANGED <<tableVars, loader, builds, answer>>

Rank(city, i) == CHOOSE k \in DOMAIN NearestTo(city) : NearestTo(city)[k] = nodes[i]
First(city, ids) ==
    IF ids = {} THEN None
    ELSE LET i == CHOOSE n \in ids : \A m \in ids : Rank(city, n) <= Rank(city, m)
         IN  [id |-> i, name |-> nodes[i]]

\* Mutation of Nearest: the JOIN with dl_routable_nodes is missing.
NearestOfAll(city) == First(city, DOMAIN nodes)

\* _nearest(): among the nodes that have a routable number now.
Nearest(city) == First(city, resolver.routable \cap DOMAIN nodes)

Begin(pc, src, dst, budget) ==
    /\ resolver # None /\ lookup = NoLookup
    /\ lookup' = [pc |-> pc, src |-> src, dst |-> dst, budget |-> budget,
                  sn |-> None, dn |-> None, candidates |-> <<>>, excluded |-> {}]
    /\ answer' = None
    /\ UNCHANGED <<tableVars, loader, builds, resolver, losses>>

\* resolve(): light cannot have been to a city beyond the budget.
Resolve(dst, budget) ==
    Begin(IF GcKm(dst) > budget THEN "pop" ELSE "home", Home, dst, budget)

\* between(): no latency was measured, so there is no budget.
Between(src, dst) == Begin("source", src, dst, None)

Finish(method, reason, candidates) ==
    /\ lookup' = NoLookup
    /\ answer' = [method |-> method, reason |-> reason, candidates |-> candidates,
                  sn |-> lookup.sn, dn |-> lookup.dn,
                  fresh |-> builds # <<>> /\ resolver.at = Len(builds)]

Goto(pc) == lookup' = [lookup EXCEPT !.pc = pc] /\ UNCHANGED answer

\* _nearest_ixp_within(), backbone or not.
FindPop ==
    /\ lookup.pc = "pop"
    /\ IF \E i \in DOMAIN nodes : nodes[i] \in Range(Ixps) /\ IxpKm(nodes[i]) <= lookup.budget
       THEN Finish("pop", "anycast-reclassified", {})
       ELSE Goto("pophome")
    /\ UNCHANGED <<tableVars, loader, builds, resolver, losses>>

\* home_node(): what was found once is kept; nothing is looked for again.
HomeNode == IF resolver.home # None THEN resolver.home ELSE Nearest(Home)

\* Without an IXP in reach and without a home node, tgt is None: a TypeError.
FindHome ==
    /\ lookup.pc \in {"home", "pophome"}
    /\ resolver' = [resolver EXCEPT !.home = HomeNode]
    /\ IF lookup.pc = "home"
       THEN /\ lookup' = [lookup EXCEPT !.pc = "destination", !.sn = HomeNode]
            /\ UNCHANGED answer
       ELSE IF HomeNode = None THEN Finish("error", None, {})
            ELSE Finish("pop", "anycast-reclassified", {})
    /\ UNCHANGED <<tableVars, loader, builds, losses>>

FindSource ==
    /\ lookup.pc = "source"
    /\ lookup' = [lookup EXCEPT !.pc = "destination", !.sn = Nearest(lookup.src)]
    /\ UNCHANGED <<tableVars, loader, builds, resolver, answer, losses>>

FindDestination ==
    /\ lookup.pc = "destination"
    /\ lookup' = [lookup EXCEPT !.pc = "routes", !.dn = Nearest(lookup.dst)]
    /\ UNCHANGED <<tableVars, loader, builds, resolver, answer, losses>>

OnGraph == /\ lookup.sn # None /\ lookup.sn.name \in Snaps(lookup.src)
           /\ lookup.dn # None /\ lookup.dn.name \in Snaps(lookup.dst)

\* Nothing near one of the ends, or one node near both: no routes are read.
\* (between() calls "no-graph-entry" and "no-route" both "no-graph-route".)
NoRoutes ==
    /\ lookup.pc = "routes" /\ lookup.candidates = <<>>
    /\ \/ /\ ~OnGraph
          /\ Finish("greatcircle", "no-graph-entry", {})
       \/ /\ OnGraph /\ lookup.sn.id = lookup.dn.id
          /\ Finish("route", None, {})
    /\ UNCHANGED <<tableVars, loader, builds, resolver, losses>>

NameOf(cable) == IF cable \in cables_raw THEN cable ELSE None
Signature(es) == IF CablesOn(es) # {} THEN {{NameOf(k)} : k \in CablesOn(es)}
                 ELSE {{nodes[n] : n \in e.ends} : e \in es}

Candidate(es) ==
    [from |-> nodes[lookup.sn.id], to |-> nodes[lookup.dn.id],
     km |-> Cardinality(es), signature |-> Signature(es),
     named |-> CablesOn(es) \subseteq cables_raw, loading |-> loader.pc # "idle"]

\* The candidates that light can have been over in the time.
Fitting(candidates) ==
    {c \in Range(candidates) : lookup.budget = None \/ c.km <= lookup.budget}

Decide(candidates) ==
    IF candidates = <<>> THEN Finish("greatcircle", "no-route", {})
    ELSE IF Fitting(candidates) = {}
    THEN Finish("greatcircle", "exceeds-light-budget", {})
    ELSE Finish("route", None, Fitting(candidates))

\* The routes between the ends that are not known yet and share no trunk with
\* a better one.
Found ==
    {es \in SUBSET {e \in edges : e.cable \notin lookup.excluded} :
        /\ IsPath(es, lookup.sn.id, lookup.dn.id)
        /\ Signature(es) \notin {c.signature : c \in Range(lookup.candidates)}}

\* A round of _routes() takes the best of them.  Which is best, and which of its
\* cables is the trunk, depends on lengths.  (No route is "invalid": spans that
\* meet at a station end within 30 km of it, so no handoff exceeds 75 km.)
Round ==
    /\ lookup.pc = "routes" /\ OnGraph /\ lookup.sn.id # lookup.dn.id
    /\ \/ Found = {} /\ Decide(lookup.candidates)
       \/ \E es \in Found :
             LET candidates == Append(lookup.candidates, Candidate(es))
             IN  IF CablesOn(es) = {} \/ Len(candidates) = 3 THEN Decide(candidates)
                 ELSE \E trunk \in CablesOn(es) :
                         /\ lookup' = [lookup EXCEPT !.candidates = candidates,
                                                     !.excluded = @ \cup {trunk}]
                         /\ UNCHANGED answer
    /\ UNCHANGED <<tableVars, loader, builds, resolver, losses>>

TopologyNext ==
    \/ \E edition \in Editions : StartLoad(edition)
    \/ InsertCable \/ TruncateLandings \/ InsertLanding \/ BuildGraph \/ LoadBreaks
    \/ Connect \/ Lost
    \/ \E dst \in Cities \ {Home}, budget \in Budgets : Resolve(dst, budget)
    \/ \E src, dst \in Cities : src # dst /\ Between(src, dst)
    \/ FindPop \/ FindHome \/ FindSource \/ FindDestination \/ NoRoutes \/ Round

TopologySpec == TopologyInit /\ [][TopologyNext]_topologyVars

(******************************** properties *******************************)

\* The graph is committed before it is validated (load_cables.py:97, :110), but
\* what lookups run against is always the graph of one edition's files in full,
\* through loads that break off anywhere and loads on top of those.
GraphOfOneEdition ==
    builds # <<>> =>
        LET edition == builds[Len(builds)]
        IN  /\ nodes = NodesOf(LandingsIn(edition))
            /\ edges = EdgesOf(nodes, Range(CablesIn(edition)))

\* A Resolver that was made since the last build sends every lookup over the
\* graph: a backbone that is not empty has a route between any two of its
\* nodes, and each route begins and ends at the nodes the answer names.  One
\* that was made before may find no route, or one between other stations.
FreshAnswersRoute ==
    answer # None /\ answer.fresh =>
        /\ answer.method # "error" /\ answer.reason # "no-route"
        /\ \A c \in answer.candidates :
               c.from = answer.sn.name /\ c.to = answer.dn.name

\* A submarine span keeps its cable's name in every answer, but for those that
\* read a route while a load was under way or after it broke off.
SubmarineIsNamed ==
    answer # None =>
        \A c \in answer.candidates : c.named \/ c.loading
=============================================================================
