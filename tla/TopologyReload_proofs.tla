----------------------- MODULE TopologyReload_proofs -----------------------
(***************************************************************************)
(* For all editions, however long their files, and however often loads     *)
(* break off: the graph that lookups run against is that of one edition,   *)
(* a Resolver made since the last build finds a route over it, and every   *)
(* route has the names of its cables but for what a load took away.        *)
(*                                                                         *)
(* That a route is found needs that a component of a graph holds a path    *)
(* between any two of its nodes.  A path is a set of edges with degrees 1  *)
(* at its ends and 2 in between.  It is a least set of edges that links    *)
(* the two nodes: every edge of such a set is the one that crosses a cut,  *)
(* and cuts of two edges at one node lie on either side of it.             *)
(***************************************************************************)
EXTENDS TopologyReload, SequenceTheorems, FiniteSetTheorems,
        WellFoundedInduction, TLAPS

\* What a load has inserted and what it has left are its edition's rows.
LoaderInv ==
    /\ loader.pc \in {"idle", "cables", "landings", "broken"}
    /\ loader.pc = "cables" =>
          /\ loader.edition \in Editions /\ loader.left \in Seq(Cables)
          /\ cables_raw \cup Range(loader.left) = Range(CablesIn(loader.edition))
    /\ loader.pc = "landings" =>
          /\ loader.edition \in Editions /\ loader.left \in Seq(Stations)
          /\ cables_raw = Range(CablesIn(loader.edition))
          /\ landings_raw \in Seq(Stations)
          /\ landings_raw \o loader.left = LandingsIn(loader.edition)
    /\ builds \in Seq(Editions)

LEMMA RangeOfTail ==
    ASSUME NEW S, NEW s \in Seq(S), s # <<>>
    PROVE  {Head(s)} \cup Range(Tail(s)) = Range(s)
  <1>1. Head(s) \in S /\ Tail(s) \in Seq(S)
    BY HeadTailProperties
  <1>2. <<Head(s)>> \in Seq(S) /\ Range(<<Head(s)>>) = {Head(s)}
    BY <1>1 DEF Range
  <1>3. s = <<Head(s)>> \o Tail(s)
    OBVIOUS
  <1> DEFINE h == <<Head(s)>>
             t == Tail(s)
  <1>4. h \in Seq(S) /\ t \in Seq(S) /\ s = h \o t /\ Range(h) = {Head(s)}
    BY <1>1, <1>2, <1>3
  <1> HIDE DEF h, t
  <1>5. Range(h \o t) = Range(h) \cup Range(t)
    BY <1>4, RangeConcatenation
  <1>6. Range(s) = {Head(s)} \cup Range(t)
    BY <1>4, <1>5
  <1> QED
    BY <1>6 DEF t

\* InsertLanding moves a row from what is left to what is there.
LEMMA MoveHead ==
    ASSUME NEW S, NEW done \in Seq(S), NEW left \in Seq(S), left # <<>>
    PROVE  /\ Append(done, Head(left)) \in Seq(S) /\ Tail(left) \in Seq(S)
           /\ Append(done, Head(left)) \o Tail(left) = done \o left
  <1>1. Head(left) \in S /\ Tail(left) \in Seq(S)
    BY HeadTailProperties
  <1>2. <<Head(left)>> \in Seq(S) /\ left = <<Head(left)>> \o Tail(left)
    BY <1>1
  <1>3. Append(done, Head(left)) = done \o <<Head(left)>>
    BY <1>1, AppendIsConcat
  <1>4. (done \o <<Head(left)>>) \o Tail(left) = done \o (<<Head(left)>> \o Tail(left))
    BY <1>1, <1>2, ConcatAssociative
  <1> QED
    BY <1>1, <1>2, <1>3, <1>4, AppendProperties

LEMMA InitLoader == TopologyInit => LoaderInv /\ GraphOfOneEdition
  BY EmptySeq DEF TopologyInit, LoaderInv, GraphOfOneEdition

\* Only five actions touch the loader or the raw tables.
LEMMA LookupsOnlyRead ==
    ASSUME TopologyNext
    PROVE  \/ \E edition \in Editions : StartLoad(edition)
           \/ InsertCable \/ TruncateLandings \/ InsertLanding \/ BuildGraph
           \/ LoadBreaks
           \/ UNCHANGED <<tableVars, loader, builds>>
  <1>1. ASSUME NEW dst, NEW budget, Resolve(dst, budget)
        PROVE  UNCHANGED <<tableVars, loader, builds>>
    BY <1>1 DEF Resolve, Begin
  <1>2. ASSUME NEW src, NEW dst, Between(src, dst)
        PROVE  UNCHANGED <<tableVars, loader, builds>>
    BY <1>2 DEF Between, Begin
  <1>3. ASSUME FindPop \/ FindHome \/ FindSource \/ FindDestination
        PROVE  UNCHANGED <<tableVars, loader, builds>>
    BY <1>3 DEF FindPop, FindHome, FindSource, FindDestination
  <1>4. ASSUME NoRoutes \/ Connect \/ Lost
        PROVE  UNCHANGED <<tableVars, loader, builds>>
    BY <1>4 DEF NoRoutes, Connect, Lost
  <1>5. ASSUME Round
        PROVE  UNCHANGED <<tableVars, loader, builds>>
    BY <1>5, Zenon DEF Round
  <1> QED
    BY <1>1, <1>2, <1>3, <1>4, <1>5 DEF TopologyNext

LEMMA StepLoader == LoaderInv /\ [TopologyNext]_topologyVars => LoaderInv'
  <1> SUFFICES ASSUME LoaderInv, [TopologyNext]_topologyVars
               PROVE  LoaderInv'
    OBVIOUS
  <1>1. ASSUME NEW edition \in Editions, StartLoad(edition) PROVE LoaderInv'
    <2>1. CablesIn(edition) \in Seq(Cables)
      BY TopologyAssumption
    <2> QED
      BY <1>1, <2>1 DEF StartLoad, LoaderInv
  <1>2. ASSUME InsertCable PROVE LoaderInv'
    <2>1. /\ loader.left \in Seq(Cables) /\ loader.left # <<>>
          /\ cables_raw \cup Range(loader.left) = Range(CablesIn(loader.edition))
      BY <1>2 DEF InsertCable, LoaderInv
    <2>2. /\ Tail(loader.left) \in Seq(Cables)
          /\ {Head(loader.left)} \cup Range(Tail(loader.left)) = Range(loader.left)
      BY <2>1, HeadTailProperties, RangeOfTail
    <2>3. /\ loader'.pc = "cables" /\ loader'.edition = loader.edition
          /\ loader'.left = Tail(loader.left)
          /\ cables_raw' = cables_raw \cup {Head(loader.left)} /\ builds' = builds
      BY <1>2 DEF InsertCable, LoaderInv
    <2> QED
      BY <1>2, <2>1, <2>2, <2>3 DEF InsertCable, LoaderInv
  <1>3. ASSUME TruncateLandings PROVE LoaderInv'
    <2>1. /\ loader.edition \in Editions /\ loader.left = <<>>
          /\ cables_raw = Range(CablesIn(loader.edition))
      BY <1>3 DEF TruncateLandings, LoaderInv, Range
    <2>2. LandingsIn(loader.edition) \in Seq(Stations)
      BY <2>1, TopologyAssumption
    <2>3. <<>> \in Seq(Stations) /\ <<>> \o LandingsIn(loader.edition) = LandingsIn(loader.edition)
      BY <2>2, EmptySeq, ConcatEmptySeq
    <2>4. /\ loader'.pc = "landings" /\ loader'.edition = loader.edition
          /\ loader'.left = LandingsIn(loader.edition)
          /\ landings_raw' = <<>> /\ cables_raw' = cables_raw /\ builds' = builds
      BY <1>3 DEF TruncateLandings, LoaderInv
    <2> QED
      BY <2>1, <2>2, <2>3, <2>4 DEF LoaderInv
  <1>4. ASSUME InsertLanding PROVE LoaderInv'
    <2>1. /\ loader.pc = "landings" /\ loader.left \in Seq(Stations)
          /\ loader.left # <<>> /\ landings_raw \in Seq(Stations)
      BY <1>4 DEF InsertLanding, LoaderInv
    <2>2. /\ loader'.pc = "landings" /\ loader'.edition = loader.edition
          /\ loader'.left = Tail(loader.left)
          /\ landings_raw' = Append(landings_raw, Head(loader.left))
          /\ cables_raw' = cables_raw /\ builds' = builds
      BY <1>4 DEF InsertLanding, LoaderInv
    <2> DEFINE done == landings_raw
               left == loader.left
    <2>3. /\ Append(done, Head(left)) \in Seq(Stations) /\ Tail(left) \in Seq(Stations)
          /\ Append(done, Head(left)) \o Tail(left) = done \o left
      <3> HIDE DEF done, left
      <3>1. done \in Seq(Stations) /\ left \in Seq(Stations) /\ left # <<>>
        BY <2>1 DEF done, left
      <3> QED
        BY <3>1, MoveHead
    <2>4. /\ loader.edition \in Editions /\ builds \in Seq(Editions)
          /\ cables_raw = Range(CablesIn(loader.edition))
          /\ landings_raw \o loader.left = LandingsIn(loader.edition)
      BY <2>1 DEF LoaderInv
    <2> QED
      BY <2>2, <2>3, <2>4 DEF LoaderInv
  <1>5. ASSUME BuildGraph PROVE LoaderInv'
    <2>1. loader.edition \in Editions /\ builds \in Seq(Editions)
      BY <1>5 DEF BuildGraph, LoaderInv
    <2>2. Append(builds, loader.edition) \in Seq(Editions)
      BY <2>1, AppendProperties
    <2> QED
      BY <1>5, <2>2 DEF BuildGraph, LoaderInv
  <1>6. ASSUME LoadBreaks PROVE LoaderInv'
    BY <1>6 DEF LoadBreaks, LoaderInv
  <1>7. ASSUME UNCHANGED <<tableVars, loader, builds>> PROVE LoaderInv'
    BY <1>7 DEF tableVars, LoaderInv
  <1> QED
    BY <1>1, <1>2, <1>3, <1>4, <1>5, <1>6, <1>7, LookupsOnlyRead DEF topologyVars

LEMMA StepGraph ==
    LoaderInv /\ GraphOfOneEdition /\ [TopologyNext]_topologyVars => GraphOfOneEdition'
  <1> SUFFICES ASSUME LoaderInv, GraphOfOneEdition, [TopologyNext]_topologyVars
               PROVE  GraphOfOneEdition'
    OBVIOUS
  <1>1. CASE BuildGraph
    <2>1. /\ loader.edition \in Editions /\ builds \in Seq(Editions)
          /\ landings_raw \in Seq(Stations)
          /\ landings_raw \o <<>> = LandingsIn(loader.edition)
          /\ cables_raw = Range(CablesIn(loader.edition))
      BY <1>1 DEF BuildGraph, LoaderInv
    <2>2. landings_raw = LandingsIn(loader.edition)
      BY <2>1, ConcatEmptySeq
    <2>3. builds'[Len(builds')] = loader.edition
      BY <1>1, <2>1, AppendProperties DEF BuildGraph
    <2> QED
      BY <1>1, <2>1, <2>2, <2>3 DEF BuildGraph, GraphOfOneEdition
  <1>2. ASSUME UNCHANGED <<nodes, edges, builds>> PROVE GraphOfOneEdition'
    BY <1>2 DEF GraphOfOneEdition
  <1>3. ASSUME NEW edition \in Editions, StartLoad(edition)
        PROVE  UNCHANGED <<nodes, edges, builds>>
    BY <1>3 DEF StartLoad
  <1>4. InsertCable \/ TruncateLandings \/ InsertLanding \/ LoadBreaks
            => UNCHANGED <<nodes, edges, builds>>
    BY DEF InsertCable, TruncateLandings, InsertLanding, LoadBreaks, tableVars
  <1>5. UNCHANGED <<tableVars, loader, builds>> => UNCHANGED <<nodes, edges, builds>>
    BY DEF tableVars
  <1> QED
    BY <1>1, <1>2, <1>3, <1>4, <1>5, LookupsOnlyRead DEF topologyVars

\* Whatever breaks off a load and whatever loads come after it, the nodes and
\* edges that resolve() and between() read are those that the files of the
\* edition built last give.
THEOREM GraphIsOneEdition == TopologySpec => []GraphOfOneEdition
  <1>1. TopologyInit => LoaderInv /\ GraphOfOneEdition
    BY InitLoader
  <1>2. LoaderInv /\ GraphOfOneEdition /\ [TopologyNext]_topologyVars
            => (LoaderInv /\ GraphOfOneEdition)'
    BY StepLoader, StepGraph
  <1> QED
    BY <1>1, <1>2, PTL DEF TopologySpec

(******************************** paths ***********************************)

\* Every nonempty set of naturals has a least element.
LEMMA LeastNumber ==
    ASSUME NEW T \in SUBSET Nat, T # {}
    PROVE  \E x \in T : \A y \in T : x <= y
  <1> DEFINE R == {p \in Nat \X Nat : p[1] < p[2]}
  <1>1. IsWellFoundedOn(R, Nat)
    BY NatLessThanWellFounded DEF OpToRel
  <1>2. PICK x \in T : \A y \in T : ~ (<<y, x>> \in R)
    <2> HIDE DEF R
    <2> QED
      BY <1>1, WFMin
  <1>3. \A y \in T : ~(y < x)
    BY <1>2
  <1> QED
    BY <1>3

TwoEnded(es) == \A e \in es : \E x, y : e.ends = {x, y}

\* Nothing that is closed separates a from b.
Linked(es, a, b) == \A D : IsClosed(es, D) /\ a \in D => b \in D

\* D separates a from b in all of es but for e.
IsCut(es, a, b, e, D) == IsClosed(es \ {e}, D) /\ a \in D /\ b \notin D

\* Edges that link a and b, none of which can be spared.
IsTight(es, a, b) ==
    /\ TwoEnded(es) /\ a # b /\ Linked(es, a, b)
    /\ \A e \in es : \E D : IsCut(es, a, b, e, D)

LEMMA ClosedSets ==
    ASSUME NEW es, NEW C, NEW D, IsClosed(es, C), IsClosed(es, D)
    PROVE  IsClosed(es, C \cup D) /\ IsClosed(es, C \cap D)
  BY DEF IsClosed

\* The edge that closes the last gap has one end on either side of it.
LEMMA CutsCross ==
    ASSUME NEW es, NEW a, NEW b, IsTight(es, a, b),
           NEW e \in es, NEW D, IsCut(es, a, b, e, D)
    PROVE  \E x, y : e.ends = {x, y} /\ x \in D /\ y \notin D
  <1>1. ~IsClosed(es, D)
    BY DEF IsTight, Linked, IsCut
  <1>2. PICK g \in es : g.ends \cap D # {} /\ ~(g.ends \subseteq D)
    BY <1>1 DEF IsClosed
  <1>3. g = e
    BY <1>2 DEF IsCut, IsClosed
  <1>4. PICK x, y : e.ends = {x, y}
    BY DEF IsTight, TwoEnded
  <1>5. \/ x \in D /\ y \notin D
        \/ y \in D /\ x \notin D
    BY <1>2, <1>3, <1>4
  <1>6. e.ends = {y, x}
    BY <1>4
  <1> QED
    BY <1>4, <1>5, <1>6

\* The cuts of two edges that meet differ at where they do: else their union, or
\* their intersection, separated a from b.
LEMMA CutsDiffer ==
    ASSUME NEW es, NEW a, NEW b, IsTight(es, a, b),
           NEW e \in es, NEW f \in es, e # f, NEW n, n \in e.ends, n \in f.ends,
           NEW D, IsCut(es, a, b, e, D), NEW E, IsCut(es, a, b, f, E)
    PROVE  n \in D <=> n \notin E
  <1>1. /\ a \in D /\ b \notin D /\ a \in E /\ b \notin E
        /\ \A g \in es : g # e /\ g.ends \cap D # {} => g.ends \subseteq D
        /\ \A g \in es : g # f /\ g.ends \cap E # {} => g.ends \subseteq E
    BY DEF IsCut, IsClosed
  <1>2. ASSUME n \in D, n \in E PROVE FALSE
    <2>1. e.ends \subseteq E /\ f.ends \subseteq D
      BY <1>1, <1>2
    <2>2. IsClosed(es, D \cup E)
      BY <1>1, <2>1 DEF IsClosed
    <2> QED
      BY <1>1, <2>2 DEF IsTight, Linked
  <1>3. ASSUME n \notin D, n \notin E PROVE FALSE
    <2>1. e.ends \cap E = {} /\ f.ends \cap D = {}
      BY <1>1, <1>3
    <2>2. IsClosed(es, D \cap E)
      BY <1>1, <2>1 DEF IsClosed
    <2> QED
      BY <1>1, <2>2 DEF IsTight, Linked
  <1> QED
    BY <1>2, <1>3

EdgesAt(es, n) == {e \in es : n \in e.ends}

\* One edge leaves a, one arrives at b.
LEMMA DegreeOfEnd ==
    ASSUME NEW es, NEW a, NEW b, IsTight(es, a, b), NEW n \in {a, b}
    PROVE  \E e \in es : EdgesAt(es, n) = {e}
  <1>1. EdgesAt(es, n) # {}
    <2>1. SUFFICES ASSUME \A e \in es : n \notin e.ends PROVE FALSE
      BY DEF EdgesAt
    <2>2. CASE n = a
      <3>1. IsClosed(es, {a})
        BY <2>1, <2>2 DEF IsClosed
      <3> QED
        BY <3>1 DEF IsTight, Linked
    <2>3. CASE n = b
      <3> DEFINE D == (Ends(es) \cup {a}) \ {b}
      <3>1. IsClosed(es, D)
        BY <2>1, <2>3 DEF IsClosed, Ends
      <3>2. a \in D /\ b \notin D
        BY DEF IsTight
      <3> HIDE DEF D
      <3> QED
        BY <3>1, <3>2 DEF IsTight, Linked
    <2> QED
      BY <2>2, <2>3
  <1>2. PICK e \in es : n \in e.ends
    BY <1>1 DEF EdgesAt
  <1>3. ASSUME NEW f \in es, n \in f.ends, f # e PROVE FALSE
    <2>1. PICK D : IsCut(es, a, b, e, D)
      BY DEF IsTight
    <2>2. PICK E : IsCut(es, a, b, f, E)
      BY DEF IsTight
    <2>3. n \in D <=> n \notin E
      BY <1>2, <1>3, <2>1, <2>2, CutsDiffer
    <2> QED
      BY <2>1, <2>2, <2>3 DEF IsCut
  <1> QED
    BY <1>2, <1>3 DEF EdgesAt

\* Two edges meet at every other node.
LEMMA DegreeBetween ==
    ASSUME NEW es, NEW a, NEW b, IsTight(es, a, b), NEW n \in Ends(es),
           n \notin {a, b}
    PROVE  \E e, f \in es : e # f /\ EdgesAt(es, n) = {e, f}
  <1>1. PICK e \in es : n \in e.ends
    BY DEF Ends
  <1>2. PICK D : IsCut(es, a, b, e, D)
    BY DEF IsTight
  <1>3. \E f \in es : f # e /\ n \in f.ends
    <2>1. SUFFICES ASSUME \A f \in es : f # e => n \notin f.ends PROVE FALSE
      OBVIOUS
    <2>2. PICK x, y : e.ends = {x, y} /\ x \in D /\ y \notin D
      BY <1>2, CutsCross
    <2>3. /\ a \in D /\ b \notin D
          /\ \A g \in es : g # e /\ g.ends \cap D # {} => g.ends \subseteq D
      BY <1>2 DEF IsCut, IsClosed
    <2>4. CASE n = x
      <3>1. IsClosed(es, D \ {n})
        BY <2>1, <2>2, <2>3, <2>4 DEF IsClosed
      <3>2. a \in D \ {n} /\ b \notin D \ {n}
        BY <2>3
      <3> QED
        BY <3>1, <3>2 DEF IsTight, Linked
    <2>5. CASE n = y
      <3>1. IsClosed(es, D \cup {n})
        BY <2>1, <2>2, <2>3, <2>5 DEF IsClosed
      <3>2. a \in D \cup {n} /\ b \notin D \cup {n}
        BY <2>3
      <3> QED
        BY <3>1, <3>2 DEF IsTight, Linked
    <2> QED
      BY <1>1, <2>2, <2>4, <2>5
  <1>4. PICK f \in es : f # e /\ n \in f.ends
    BY <1>3
  <1>5. ASSUME NEW g \in es, n \in g.ends, g # e, g # f PROVE FALSE
    <2>1. PICK E : IsCut(es, a, b, f, E)
      BY DEF IsTight
    <2>2. PICK F : IsCut(es, a, b, g, F)
      BY DEF IsTight
    <2>3. n \in D <=> n \notin E
      BY <1>1, <1>2, <1>4, <2>1, CutsDiffer
    <2>4. n \in D <=> n \notin F
      BY <1>1, <1>2, <1>5, <2>2, CutsDiffer
    <2>5. n \in E <=> n \notin F
      BY <1>4, <1>5, <2>1, <2>2, CutsDiffer
    <2> QED
      BY <2>3, <2>4, <2>5
  <1> QED
    BY <1>1, <1>4, <1>5 DEF EdgesAt

\* Such edges are in one piece.
LEMMA TightIsOnePiece ==
    ASSUME NEW es, NEW a, NEW b, IsTight(es, a, b),
           NEW D, D \subseteq Ends(es), D # {}, IsClosed(es, D)
    PROVE  D = Ends(es)
  <1>1. SUFFICES ASSUME NEW x \in Ends(es), x \notin D PROVE FALSE
    OBVIOUS
  <1>2. \A e \in es : e.ends \cap D # {} => e.ends \subseteq D
    BY DEF IsClosed
  <1>3. CASE a \in D
    <2>1. PICK e \in es : x \in e.ends
      BY DEF Ends
    <2>2. e.ends \cap D = {}
      BY <1>1, <1>2, <2>1
    <2>3. PICK E : IsCut(es, a, b, e, E)
      BY DEF IsTight
    <2>4. /\ a \in E /\ b \notin E
          /\ \A g \in es : g # e /\ g.ends \cap E # {} => g.ends \subseteq E
      BY <2>3 DEF IsCut, IsClosed
    <2>5. IsClosed(es, E \cap D)
      BY <1>2, <2>2, <2>4 DEF IsClosed
    <2> QED
      BY <1>3, <2>4, <2>5 DEF IsTight, Linked
  <1>4. CASE a \notin D
    <2>1. b \notin D
      <3> DEFINE E == (Ends(es) \cup {a}) \ D
      <3>1. IsClosed(es, E)
        BY <1>2 DEF IsClosed, Ends
      <3>2. a \in E
        BY <1>4
      <3>3. b \in E
        <4> HIDE DEF E
        <4> QED
          BY <3>1, <3>2 DEF IsTight, Linked
      <3> QED
        BY <3>3
    <2>2. PICK e \in es : e.ends \cap D # {}
      BY DEF Ends
    <2>3. e.ends \subseteq D
      BY <1>2, <2>2
    <2>4. PICK E : IsCut(es, a, b, e, E)
      BY DEF IsTight
    <2>5. /\ a \in E /\ b \notin E
          /\ \A g \in es : g # e /\ g.ends \cap E # {} => g.ends \subseteq E
      BY <2>4 DEF IsCut, IsClosed
    <2>6. IsClosed(es, E \cup D)
      BY <1>2, <2>3, <2>5 DEF IsClosed
    <2> QED
      BY <2>1, <2>5, <2>6 DEF IsTight, Linked
  <1> QED
    BY <1>3, <1>4

\* So they are a path.
LEMMA TightIsPath ==
    ASSUME NEW es, NEW a, NEW b, IsTight(es, a, b)
    PROVE  IsPath(es, a, b)
  <1>1. /\ \E e \in es : EdgesAt(es, a) = {e}
        /\ \E e \in es : EdgesAt(es, b) = {e}
    BY DegreeOfEnd
  <1>2. {a, b} \subseteq Ends(es)
    BY <1>1 DEF EdgesAt, Ends
  <1>3. ASSUME NEW n \in Ends(es)
        PROVE  Cardinality(EdgesAt(es, n)) = IF n \in {a, b} THEN 1 ELSE 2
    <2>1. CASE n \in {a, b}
      <3>1. PICK e : EdgesAt(es, n) = {e}
        BY <2>1, DegreeOfEnd
      <3> QED
        BY <2>1, <3>1, FS_Singleton
    <2>2. CASE n \notin {a, b}
      <3>1. PICK e \in es, f \in es : e # f /\ EdgesAt(es, n) = {e, f}
        BY <2>2, DegreeBetween
      <3>2. Cardinality({e}) = 1 /\ IsFiniteSet({e})
        BY FS_Singleton
      <3>3. Cardinality({e} \cup {f}) = 2
        BY <3>1, <3>2, FS_AddElement
      <3>4. {e} \cup {f} = {e, f}
        OBVIOUS
      <3> QED
        BY <2>2, <3>1, <3>3, <3>4
    <2> QED
      BY <2>1, <2>2
  <1>4. Components(es) = {Ends(es)}
    <2>1. IsClosed(es, Ends(es))
      BY DEF IsClosed, Ends
    <2>2. \A D \in (SUBSET Ends(es)) \ {{}} : IsClosed(es, D) => D = Ends(es)
      BY TightIsOnePiece
    <2>3. Ends(es) # {}
      BY <1>2
    <2> QED
      BY <2>1, <2>2, <2>3 DEF Components
  <1>5. Cardinality(Components(es)) = 1
    BY <1>4, FS_Singleton
  <1> QED
    BY <1>2, <1>3, <1>5 DEF IsPath, EdgesAt

\* A component has a path between any two of its nodes: of the sets of edges
\* that link them, a smallest is one.
LEMMA ComponentHasPaths ==
    ASSUME NEW es, IsFiniteSet(es), TwoEnded(es), NEW C \in Components(es),
           NEW a \in C, NEW b \in C, a # b
    PROVE  \E ps \in SUBSET es : IsPath(ps, a, b)
  <1>1. Linked(es, a, b)
    <2>1. SUFFICES ASSUME NEW D, IsClosed(es, D), a \in D PROVE b \in D
      BY DEF Linked
    <2>2. C \subseteq Ends(es) /\ IsClosed(es, C)
      BY DEF Components
    <2>3. IsClosed(es, D \cap C)
      BY <2>1, <2>2, ClosedSets
    <2>4. D \cap C \in (SUBSET C) \ {{}}
      BY <2>1
    <2>5. D \cap C = C
      BY <2>3, <2>4 DEF Components
    <2> QED
      BY <2>5
  <1> DEFINE P == {ps \in SUBSET es : Linked(ps, a, b)}
             S == {Cardinality(ps) : ps \in P}
  <1>2. \A ps \in SUBSET es : IsFiniteSet(ps) /\ Cardinality(ps) \in Nat
    BY FS_Subset, FS_CardinalityType
  <1>3. S \in SUBSET Nat /\ S # {}
    BY <1>1, <1>2
  <1>4. PICK k \in S : \A m \in S : k <= m
    <2> HIDE DEF S
    <2> QED
      BY <1>3, LeastNumber
  <1>5. PICK ps \in P : k = Cardinality(ps)
    BY <1>4
  <1>6. ps \in SUBSET es /\ Linked(ps, a, b) /\ IsFiniteSet(ps)
    BY <1>2, <1>5
  <1>7. ASSUME NEW e \in ps PROVE \E D : IsCut(ps, a, b, e, D)
    <2>1. Cardinality(ps \ {e}) = Cardinality(ps) - 1
      BY <1>6, FS_RemoveElement
    <2>2. ps \ {e} \in SUBSET es
      BY <1>6
    <2>3. ~Linked(ps \ {e}, a, b)
      <3>1. SUFFICES ASSUME ps \ {e} \in P PROVE FALSE
        BY <2>2
      <3>2. k <= Cardinality(ps \ {e})
        BY <1>4, <3>1
      <3> QED
        BY <1>2, <1>5, <1>6, <2>1, <3>2
    <2> QED
      BY <2>3 DEF Linked, IsCut
  <1>8. IsTight(ps, a, b)
    BY <1>6, <1>7 DEF IsTight, TwoEnded
  <1> QED
    BY <1>6, <1>8, TightIsPath

(***************************** the graph's edges ****************************)

LEMMA IdOfIs ==
    ASSUME NEW S, NEW ns \in Seq(S), NEW name \in Range(ns)
    PROVE  IdOf(ns, name) \in 1..Len(ns) /\ ns[IdOf(ns, name)] = name
  <1>1. \E i \in 1..Len(ns) : ns[i] = name
    BY DEF Range
  <1> QED
    BY <1>1, Zenon DEF IdOf

\* An edge between nodes, on a cable or on none.
IsEdge(e, ns, cables) ==
    \E x, y \in 1..Len(ns), k \in cables \cup {None} :
        e = [ends |-> {x, y}, cable |-> k]

LEMMA EdgesAreEdges ==
    ASSUME NEW S, NEW ns \in Seq(S), NEW cables, NEW e \in EdgesOf(ns, cables)
    PROVE  IsEdge(e, ns, cables)
  <1>1. CASE e \in SubmarineEdges(ns, cables)
    <2>1. PICK k \in cables : e \in SpansOf(ns, k)
      BY <1>1 DEF SubmarineEdges
    <2>2. PICK p : /\ Consecutive(ns, StationsOn(k), p[1], p[2])
                   /\ e = Edge(ns, StationsOn(k)[p[1]], StationsOn(k)[p[2]], k)
      BY <2>1 DEF SpansOf
    <2>3. /\ StationsOn(k)[p[1]] \in Range(ns)
          /\ StationsOn(k)[p[2]] \in Range(ns)
      BY <2>2 DEF Consecutive
    <2>4. PICK x, y : /\ x = IdOf(ns, StationsOn(k)[p[1]])
                      /\ y = IdOf(ns, StationsOn(k)[p[2]])
      OBVIOUS
    <2>5. x \in 1..Len(ns) /\ y \in 1..Len(ns)
      BY <2>3, <2>4, IdOfIs
    <2>6. e = [ends |-> {x, y}, cable |-> k]
      BY <2>2, <2>4 DEF Edge
    <2> QED
      BY <2>5, <2>6 DEF IsEdge
  <1>2. CASE e \notin SubmarineEdges(ns, cables)
    <2>1. PICK l : {l[1], l[2]} \subseteq Range(ns) /\ e = Edge(ns, l[1], l[2], None)
      BY <1>2 DEF EdgesOf
    <2>2. PICK x, y : x = IdOf(ns, l[1]) /\ y = IdOf(ns, l[2])
      OBVIOUS
    <2>3. x \in 1..Len(ns) /\ y \in 1..Len(ns)
      BY <2>1, <2>2, IdOfIs
    <2>4. e = [ends |-> {x, y}, cable |-> None]
      BY <2>1, <2>2 DEF Edge
    <2> QED
      BY <2>3, <2>4 DEF IsEdge
  <1> QED
    BY <1>1, <1>2

\* The graph is finite, edges have two ends, which are nodes, and what they are on
\* are the given cables.
LEMMA GraphIs ==
    ASSUME NEW S, NEW ns \in Seq(S), NEW cables, IsFiniteSet(cables)
    PROVE  /\ IsFiniteSet(EdgesOf(ns, cables)) /\ TwoEnded(EdgesOf(ns, cables))
           /\ Ends(EdgesOf(ns, cables)) \subseteq 1..Len(ns)
           /\ CablesOn(EdgesOf(ns, cables)) \subseteq cables
  <1>1. PICK es : es = EdgesOf(ns, cables)
    OBVIOUS
  <1>2. \A e \in es : IsEdge(e, ns, cables)
    BY <1>1, EdgesAreEdges
  <1>3. PICK n \in Nat : n = Len(ns)
    OBVIOUS
  <1> DEFINE K == cables \cup {None}
             N == 1..n
             P == (N \X N) \X K
             f == [p \in P |-> [ends |-> {p[1][1], p[1][2]}, cable |-> p[2]]]
             R == {f[p] : p \in P}
  <1>4. IsFiniteSet(P)
    <2>1. IsFiniteSet(K)
      BY FS_AddElement
    <2>2. IsFiniteSet(N)
      <3>1. 1 \in Int /\ n \in Int
        BY <1>3
      <3> QED
        BY <3>1, FS_Interval
    <2> HIDE DEF N, K
    <2>3. IsFiniteSet(N \X N)
      BY <2>2, FS_Product
    <2> QED
      BY <2>1, <2>3, FS_Product
  <1>5. IsFiniteSet(R)
    <2>1. f \in [P -> R] /\ \A r \in R : \E p \in P : f[p] = r
      <3> HIDE DEF P
      <3> QED
        OBVIOUS
    <2> HIDE DEF f, P, R
    <2>2. f \in Surjection(P, R)
      BY <2>1 DEF Surjection
    <2> QED
      BY <1>4, <2>2, FS_Surjection
  <1>6. es \in SUBSET R
    <2>1. ASSUME NEW e \in es PROVE e \in R
      <3>1. PICK x, y \in N, k \in K : e = [ends |-> {x, y}, cable |-> k]
        BY <1>2, <1>3 DEF IsEdge
      <3>2. <<<<x, y>>, k>> \in P /\ f[<<<<x, y>>, k>>] = e
        BY <3>1
      <3> HIDE DEF f, P
      <3> QED
        BY <3>2
    <2> QED
      BY <2>1
  <1>7. IsFiniteSet(es)
    <2> HIDE DEF R
    <2> QED
      BY <1>5, <1>6, FS_Subset
  <1>8. \A e \in es : \E x, y \in 1..Len(ns), k \in cables \cup {None} :
            e.ends = {x, y} /\ e.cable = k
    <2>1. ASSUME NEW e \in es
          PROVE  \E x, y \in 1..Len(ns), k \in cables \cup {None} :
                     e.ends = {x, y} /\ e.cable = k
      <3>1. PICK x, y \in 1..Len(ns), k \in cables \cup {None} :
              e = [ends |-> {x, y}, cable |-> k]
        BY <1>2 DEF IsEdge
      <3>2. e.ends = {x, y} /\ e.cable = k
        BY <3>1
      <3> QED
        BY <3>2
    <2> QED
      BY <2>1
  <1>9. TwoEnded(es) /\ Ends(es) \subseteq 1..Len(ns)
    <2>1. \A e \in es : \E x, y \in 1..Len(ns) : e.ends = {x, y}
      BY <1>8
    <2>2. TwoEnded(es)
      BY <2>1 DEF TwoEnded
    <2>3. ASSUME NEW e \in es PROVE e.ends \subseteq 1..Len(ns)
      BY <2>1
    <2>4. Ends(es) \subseteq 1..Len(ns)
      BY <2>3 DEF Ends
    <2> QED
      BY <2>2, <2>4
  <1>10. CablesOn(es) \subseteq cables
    BY <1>8 DEF CablesOn
  <1> QED
    BY <1>1, <1>7, <1>9, <1>10

LEMMA RangeIsFinite ==
    ASSUME NEW S, NEW s \in Seq(S)
    PROVE  IsFiniteSet(Range(s))
  <1>1. PICK n \in Nat : n = Len(s)
    OBVIOUS
  <1>2. IsFiniteSet(1..n)
    <2>1. 1 \in Int /\ n \in Int
      BY <1>1
    <2> QED
      BY <2>1, FS_Interval
  <1>3. s \in [1..n -> Range(s)] /\ \A r \in Range(s) : \E i \in 1..n : s[i] = r
    BY <1>1 DEF Range
  <1>4. s \in Surjection(1..n, Range(s))
    BY <1>3 DEF Surjection
  <1> QED
    BY <1>2, <1>4, FS_Surjection

(******************************** lookups ***********************************)

\* An end of a lookup is missing, or a backbone node by its name.
IsNode(e, ns, res) ==
    \/ e = None
    \/ e.id \in (res.routable \cap DOMAIN ns) /\ e.name = ns[e.id]

ResolverOf(res, bs) ==
    \E R, H : res \in [routable : R, home : H, at : 0..Len(bs)]

LookupShape(lk) ==
    \E E, S, X : lk \in
        [pc : {"pop", "pophome", "home", "source", "destination", "routes"},
         src : Cities, dst : Cities, budget : Budgets \cup {None},
         sn : E, dn : E, candidates : Seq(S), excluded : SUBSET X]

\* A Resolver that is there, or that a lookup runs on, is of the last build.
IsFresh(bs, res, lk) ==
    bs # <<>> /\ (res # None \/ lk # NoLookup) /\ res.at = Len(bs)

\* What a fresh Resolver and its lookup hold is of the graph as it is; and every
\* cable of a candidate has its name or was read during a load.
IsOfGraph(ns, es, res, lk) ==
    /\ res.routable \in Backbones(es) /\ IsNode(res.home, ns, res)
    /\ lk # NoLookup =>
          /\ IsNode(lk.sn, ns, res) /\ IsNode(lk.dn, ns, res)
          /\ \A c \in Range(lk.candidates) :
                c.from = lk.sn.name /\ c.to = lk.dn.name

RouteInv(ns, es, bs, res, lk) ==
    /\ (res = None /\ lk = NoLookup) \/ ResolverOf(res, bs)
    /\ lk # NoLookup =>
          /\ LookupShape(lk)
          /\ lk.pc # "routes" => lk.candidates = <<>>
          /\ lk.candidates = <<>> => lk.excluded = {}
          /\ \A c \in Range(lk.candidates) : c.named \/ c.loading
    /\ IsFresh(bs, res, lk) => IsOfGraph(ns, es, res, lk)

\* The tables while they are as the last build left them.
GraphInv(ns, es, bs) ==
    bs # <<>> =>
        /\ ns \in Seq(Names) /\ IsFiniteSet(es) /\ TwoEnded(es)
        /\ Ends(es) \subseteq 1..Len(ns) /\ es # {}

LookupsInv == RouteInv(nodes, edges, builds, resolver, lookup)

LEMMA GraphStands ==
    ASSUME LoaderInv, GraphOfOneEdition
    PROVE  GraphInv(nodes, edges, builds)
  <1>1. SUFFICES ASSUME builds # <<>>
                 PROVE  /\ nodes \in Seq(Names) /\ IsFiniteSet(edges)
                        /\ TwoEnded(edges) /\ Ends(edges) \subseteq 1..Len(nodes)
                        /\ edges # {}
    BY DEF GraphInv
  <1>2. PICK edition \in Editions : edition = builds[Len(builds)]
    BY <1>1 DEF LoaderInv
  <1>3. /\ nodes = NodesOf(LandingsIn(edition))
        /\ edges = EdgesOf(nodes, Range(CablesIn(edition)))
    BY <1>1, <1>2 DEF GraphOfOneEdition
  <1>4. nodes \in Seq(Names)
    <2>1. LandingsIn(edition) \in Seq(Stations) /\ Ixps \in Seq(Names)
      BY TopologyAssumption
    <2>2. LandingsIn(edition) \in Seq(Names)
      <3>1. Stations \subseteq Names
        BY DEF Names
      <3> HIDE DEF Names
      <3> QED
        BY <2>1, <3>1
    <2>3. LandingsIn(edition) \o Ixps \in Seq(Names)
      BY <2>1, <2>2, ConcatProperties
    <2> QED
      BY <1>3, <2>3 DEF NodesOf
  <1>5. IsFiniteSet(Range(CablesIn(edition)))
    BY TopologyAssumption, RangeIsFinite
  <1>6. /\ IsFiniteSet(edges) /\ TwoEnded(edges) /\ Ends(edges) \subseteq 1..Len(nodes)
    BY <1>3, <1>4, <1>5, GraphIs
  <1>7. edges # {}
    BY <1>3, GraphAssumption
  <1> QED
    BY <1>4, <1>6, <1>7

\* A backbone of a graph with edges is a component.
LEMMA BackboneIs ==
    ASSUME NEW es, es # {}, NEW C \in Backbones(es)
    PROVE  C \in Components(es) /\ C # {} /\ C \subseteq Ends(es)
  BY DEF Backbones, Components

\* _nearest() finds a node where there is one.
LEMMA FirstIs ==
    ASSUME nodes \in Seq(Names), NEW city \in Cities,
           NEW ids \in SUBSET (DOMAIN nodes), ids # {}
    PROVE  /\ First(city, ids) # None /\ First(city, ids).id \in ids
           /\ First(city, ids).name = nodes[First(city, ids).id]
  <1>1. ASSUME NEW i \in ids PROVE Rank(city, i) \in Nat
    <2>1. /\ NearestTo(city) \in Seq(Names) /\ Range(NearestTo(city)) = Names
      BY TopologyAssumption
    <2>2. nodes[i] \in Names
      <3> HIDE DEF Names
      <3> QED
        OBVIOUS
    <2>3. \E k \in DOMAIN NearestTo(city) : NearestTo(city)[k] = nodes[i]
      BY <2>1, <2>2 DEF Range
    <2>4. Rank(city, i) \in DOMAIN NearestTo(city)
      BY <2>3, Zenon DEF Rank
    <2>5. DOMAIN NearestTo(city) \subseteq Nat
      BY <2>1
    <2> QED
      BY <2>4, <2>5
  <1> DEFINE T == {Rank(city, i) : i \in ids}
             best == CHOOSE n \in ids : \A m \in ids : Rank(city, n) <= Rank(city, m)
  <1>2. \E n \in ids : \A m \in ids : Rank(city, n) <= Rank(city, m)
    <2>1. T \in SUBSET Nat /\ T # {}
      BY <1>1
    <2>2. PICK x \in T : \A y \in T : x <= y
      <3> HIDE DEF T
      <3> QED
        BY <2>1, LeastNumber
    <2> QED
      BY <2>2
  <1>3. best \in ids
    BY <1>2, Zenon
  <1>4. First(city, ids) = [id |-> best, name |-> nodes[best]]
    BY DEF First
  <1>5. best \in Nat /\ nodes[best] \in Names
    <2> HIDE DEF best, Names
    <2> QED
      BY <1>3
  <1> HIDE DEF best
  <1>6. [id |-> best, name |-> nodes[best]] \in [id : Nat, name : Names]
    BY <1>5
  <1>7. [id |-> best, name |-> nodes[best]] # None
    BY <1>6, TopologyAssumption
  <1> QED
    BY <1>3, <1>4, <1>7

\* What a fresh Resolver finds is a node of the backbone.
LEMMA NearestIs ==
    ASSUME GraphInv(nodes, edges, builds), builds # <<>>,
           resolver.routable \in Backbones(edges), NEW city \in Cities
    PROVE  /\ Nearest(city) # None /\ IsNode(Nearest(city), nodes, resolver)
  <1>1. /\ nodes \in Seq(Names) /\ Ends(edges) \subseteq 1..Len(nodes) /\ edges # {}
    BY DEF GraphInv
  <1>2. resolver.routable # {} /\ resolver.routable \subseteq Ends(edges)
    BY <1>1, BackboneIs
  <1> DEFINE ids == resolver.routable \cap DOMAIN nodes
  <1>3. ids \in SUBSET (DOMAIN nodes) /\ ids # {}
    BY <1>1, <1>2
  <1>4. Nearest(city) = First(city, ids)
    BY DEF Nearest
  <1>5. /\ First(city, ids) # None /\ First(city, ids).id \in ids
        /\ First(city, ids).name = nodes[First(city, ids).id]
    <2> HIDE DEF ids
    <2> QED
      BY <1>1, <1>3, FirstIs
  <1> QED
    BY <1>4, <1>5 DEF IsNode

(****************************** the invariant *******************************)

LEMMA InitLookups == TopologyInit => LookupsInv
  BY DEF TopologyInit, LookupsInv, RouteInv, IsFresh

\* After a build, no Resolver is of the last build.
LEMMA BuildsOutdate ==
    ASSUME NEW ns, NEW es, NEW ms, NEW fs, NEW bs \in Seq(Editions),
           NEW edition \in Editions, NEW res, NEW lk, RouteInv(ns, es, bs, res, lk)
    PROVE  RouteInv(ms, fs, Append(bs, edition), res, lk)
  <1>1. Len(Append(bs, edition)) = Len(bs) + 1 /\ Len(bs) \in Nat
    OBVIOUS
  <1>2. PICK n, m : n = Len(bs) /\ m = Len(Append(bs, edition))
    OBVIOUS
  <1>3. ASSUME ResolverOf(res, bs)
        PROVE  ResolverOf(res, Append(bs, edition)) /\ res.at # m
    <2>1. PICK R, H : res \in [routable : R, home : H, at : 0..n]
      BY <1>2, <1>3 DEF ResolverOf
    <2>2. n \in Nat /\ m = n + 1
      BY <1>1, <1>2
    <2>3. res \in [routable : R, home : H, at : 0..m] /\ res.at # m
      BY ONLY <2>1, <2>2
    <2> QED
      BY <1>2, <2>3 DEF ResolverOf
  <1>4. ~IsFresh(Append(bs, edition), res, lk)
    BY <1>2, <1>3 DEF RouteInv, IsFresh
  <1> QED
    BY <1>3, <1>4 DEF RouteInv

\* A lookup starts with nothing read.
LEMMA BeginKeeps ==
    ASSUME NEW pc, pc \in {"pop", "home", "source"},
           NEW src \in Cities, NEW dst \in Cities, NEW budget \in Budgets \cup {None},
           LookupsInv, Begin(pc, src, dst, budget)
    PROVE  RouteInv(nodes, edges, builds, resolver, lookup')
  <1>1. PICK lk : lk = [pc |-> pc, src |-> src, dst |-> dst, budget |-> budget,
                        sn |-> None, dn |-> None, candidates |-> <<>>,
                        excluded |-> {}]
    OBVIOUS
  <1>2. lookup' = lk /\ resolver # None
    BY <1>1 DEF Begin
  <1>3. LookupShape(lk)
    <2>1. lk \in [pc : {"pop", "pophome", "home", "source", "destination", "routes"},
                  src : Cities, dst : Cities, budget : Budgets \cup {None},
                  sn : {None}, dn : {None}, candidates : Seq({None}),
                  excluded : SUBSET {None}]
      BY <1>1
    <2> QED
      BY <2>1 DEF LookupShape
  <1>4. /\ lk.candidates = <<>> /\ lk.excluded = {} /\ lk.sn = None /\ lk.dn = None
        /\ Range(lk.candidates) = {}
    BY <1>1 DEF Range
  <1>5. /\ ResolverOf(resolver, builds)
        /\ IsFresh(builds, resolver, lk) => IsOfGraph(nodes, edges, resolver, lk)
    BY <1>2, <1>4 DEF LookupsInv, RouteInv, IsFresh, IsOfGraph, IsNode
  <1> QED
    BY <1>2, <1>3, <1>4, <1>5 DEF RouteInv

\* What is put on record of an end.
Further(lk, pc) == [lk EXCEPT !.pc = pc]
WithSource(lk, pc, n) == [lk EXCEPT !.pc = pc, !.sn = n]
WithDestination(lk, pc, n) == [lk EXCEPT !.pc = pc, !.dn = n]

\* One step of a lookup that finds an end or none.
IsFurther(old, lk, sn, dn) ==
    /\ LookupShape(lk) /\ lk.candidates = old.candidates
    /\ lk.excluded = old.excluded /\ lk.sn = sn /\ lk.dn = dn

LEMMA EndsShape ==
    ASSUME NEW old, LookupShape(old), NEW n,
           NEW pc \in {"pophome", "destination", "routes"}
    PROVE  /\ IsFurther(old, Further(old, pc), old.sn, old.dn)
           /\ IsFurther(old, WithSource(old, pc, n), n, old.dn)
           /\ IsFurther(old, WithDestination(old, pc, n), old.sn, n)
  <1>1. PICK E, S, X : old \in
          [pc : {"pop", "pophome", "home", "source", "destination", "routes"},
           src : Cities, dst : Cities, budget : Budgets \cup {None},
           sn : E, dn : E, candidates : Seq(S), excluded : SUBSET X]
    BY DEF LookupShape
  <1>2. PICK D : D = E \cup {n}
    OBVIOUS
  <1>3. ASSUME NEW lk, lk \in {Further(old, pc), WithSource(old, pc, n),
                              WithDestination(old, pc, n)}
        PROVE  /\ LookupShape(lk) /\ lk.candidates = old.candidates
               /\ lk.excluded = old.excluded
    <2>1. lk \in
            [pc : {"pop", "pophome", "home", "source", "destination", "routes"},
             src : Cities, dst : Cities, budget : Budgets \cup {None},
             sn : D, dn : D, candidates : Seq(S), excluded : SUBSET X]
      BY <1>1, <1>2, <1>3 DEF Further, WithSource, WithDestination
    <2>2. LookupShape(lk)
      BY <2>1 DEF LookupShape
    <2>3. lk.candidates = old.candidates /\ lk.excluded = old.excluded
      BY <1>1, <1>3 DEF Further, WithSource, WithDestination
    <2> QED
      BY <2>2, <2>3
  <1>4. Further(old, pc).sn = old.sn /\ Further(old, pc).dn = old.dn
    BY <1>1 DEF Further
  <1>5. WithSource(old, pc, n).sn = n /\ WithSource(old, pc, n).dn = old.dn
    BY <1>1 DEF WithSource
  <1>6. /\ WithDestination(old, pc, n).sn = old.sn
        /\ WithDestination(old, pc, n).dn = n
    BY <1>1 DEF WithDestination
  <1> QED
    BY <1>3, <1>4, <1>5, <1>6 DEF IsFurther

LEMMA EndsKeep ==
    ASSUME LookupsInv, lookup # NoLookup, lookup.pc # "routes",
           NEW lk, NEW sn, NEW dn, IsFurther(lookup, lk, sn, dn),
           NEW res, ResolverOf(res, builds),
           builds # <<>> /\ res.at = Len(builds) =>
               /\ res.routable \in Backbones(edges)
               /\ IsNode(res.home, nodes, res)
               /\ IsNode(sn, nodes, res) /\ IsNode(dn, nodes, res)
    PROVE  RouteInv(nodes, edges, builds, res, lk)
  <1>1. /\ lk.candidates = <<>> /\ lk.excluded = {} /\ LookupShape(lk)
        /\ lk.sn = sn /\ lk.dn = dn
    BY DEF LookupsInv, RouteInv, IsFurther
  <1>2. Range(lk.candidates) = {}
    BY <1>1 DEF Range
  <1> QED
    BY <1>1, <1>2 DEF RouteInv, IsFresh, IsOfGraph

\* A fresh Resolver has a home node, then and from then on.
LEMMA HomeIs ==
    ASSUME LookupsInv, GraphInv(nodes, edges, builds),
           IsFresh(builds, resolver, lookup)
    PROVE  HomeNode # None /\ IsNode(HomeNode, nodes, resolver)
  <1>1. /\ resolver.routable \in Backbones(edges) /\ builds # <<>>
        /\ IsNode(resolver.home, nodes, resolver)
    BY DEF LookupsInv, RouteInv, IsFresh, IsOfGraph
  <1>2. Home \in Cities
    BY TopologyAssumption
  <1>3. Nearest(Home) # None /\ IsNode(Nearest(Home), nodes, resolver)
    BY <1>1, <1>2, NearestIs
  <1> QED
    BY <1>1, <1>3 DEF HomeNode

\* What every answer keeps to.
AnswerInv ==
    /\ FreshAnswersRoute
    /\ answer # None => \A c \in answer.candidates : c.named \/ c.loading

\* While no load is under way every cable of the graph has its row.
NamesStand == loader.pc = "idle" => CablesOn(edges) \subseteq cables_raw

\* An answer is as good as the Resolver and the lookup it comes from.
LEMMA FinishKeeps ==
    ASSUME NEW method, NEW reason, NEW candidates,
           Finish(method, reason, candidates), lookup # NoLookup,
           \A c \in candidates : c.named \/ c.loading,
           IsFresh(builds, resolver, lookup) =>
               /\ method # "error" /\ reason # "no-route"
               /\ \A c \in candidates : c.from = lookup.sn.name /\ c.to = lookup.dn.name
    PROVE  lookup' = NoLookup /\ AnswerInv'
  <1>1. PICK fr : fr = (builds # <<>> /\ resolver.at = Len(builds))
    OBVIOUS
  <1>2. fr => IsFresh(builds, resolver, lookup)
    BY <1>1 DEF IsFresh
  <1>3. /\ lookup' = NoLookup
        /\ answer' = [method |-> method, reason |-> reason, candidates |-> candidates,
                      sn |-> lookup.sn, dn |-> lookup.dn, fresh |-> fr]
    BY <1>1 DEF Finish
  <1>4. /\ answer'.method = method /\ answer'.reason = reason
        /\ answer'.candidates = candidates /\ answer'.fresh = fr
        /\ answer'.sn = lookup.sn /\ answer'.dn = lookup.dn
    BY <1>3
  <1>5. FreshAnswersRoute'
    BY <1>2, <1>4 DEF FreshAnswersRoute
  <1>6. \A c \in answer'.candidates : c.named \/ c.loading
    BY <1>4
  <1> QED
    BY <1>3, <1>5, <1>6 DEF AnswerInv

\* Without a lookup only the Resolver counts.
LEMMA NoLookupKeeps ==
    ASSUME NEW res, NEW ns, NEW es, NEW bs, ResolverOf(res, bs),
           bs # <<>> /\ res.at = Len(bs) =>
               res.routable \in Backbones(es) /\ IsNode(res.home, ns, res)
    PROVE  RouteInv(ns, es, bs, res, NoLookup)
  BY DEF RouteInv, IsFresh, IsOfGraph

LEMMA FindPopKeeps ==
    ASSUME LookupsInv, FindPop
    PROVE  LookupsInv' /\ (AnswerInv => AnswerInv')
  <1>1. lookup # NoLookup /\ lookup.pc # "routes"
    BY DEF FindPop, NoLookup
  <1>2. UNCHANGED <<nodes, edges, builds, resolver>>
    BY DEF FindPop, tableVars
  <1>3. ResolverOf(resolver, builds)
    BY <1>1 DEF LookupsInv, RouteInv
  <1>4. builds # <<>> /\ resolver.at = Len(builds) =>
            /\ resolver.routable \in Backbones(edges)
            /\ IsNode(resolver.home, nodes, resolver)
    BY <1>1 DEF LookupsInv, RouteInv, IsFresh, IsOfGraph
  <1>5. CASE Finish("pop", "anycast-reclassified", {})
    <2>1. lookup' = NoLookup /\ AnswerInv'
      BY <1>1, <1>5, FinishKeeps
    <2>2. RouteInv(nodes, edges, builds, resolver, NoLookup)
      BY <1>3, <1>4, NoLookupKeeps
    <2> QED
      BY <1>2, <2>1, <2>2 DEF LookupsInv
  <1>6. CASE Goto("pophome")
    <2>1. lookup' = [lookup EXCEPT !.pc = "pophome"] /\ answer' = answer
      BY <1>6 DEF Goto
    <2>2. LookupShape(lookup)
      BY <1>1 DEF LookupsInv, RouteInv
    <2>3. IsFurther(lookup, Further(lookup, "pophome"), lookup.sn, lookup.dn)
      BY <2>2, EndsShape
    <2>4. PICK lk : lk = Further(lookup, "pophome")
      OBVIOUS
    <2>5. builds # <<>> /\ resolver.at = Len(builds) =>
              IsNode(lookup.sn, nodes, resolver) /\ IsNode(lookup.dn, nodes, resolver)
      BY <1>1 DEF LookupsInv, RouteInv, IsFresh, IsOfGraph
    <2>6. RouteInv(nodes, edges, builds, resolver, lk)
      BY <1>1, <1>3, <1>4, <2>3, <2>4, <2>5, EndsKeep
    <2>7. AnswerInv => AnswerInv'
      BY <2>1 DEF AnswerInv, FreshAnswersRoute
    <2> QED
      BY <1>2, <2>1, <2>4, <2>6, <2>7 DEF LookupsInv, Further
  <1> QED
    BY <1>5, <1>6 DEF FindPop

LEMMA FindEndsKeep ==
    ASSUME LookupsInv, GraphInv(nodes, edges, builds),
           FindSource \/ FindDestination
    PROVE  LookupsInv' /\ (AnswerInv => AnswerInv')
  <1>1. lookup # NoLookup /\ lookup.pc # "routes"
    BY DEF FindSource, FindDestination, NoLookup
  <1>2. UNCHANGED <<nodes, edges, builds, resolver, answer>>
    BY DEF FindSource, FindDestination, tableVars
  <1>3. ResolverOf(resolver, builds) /\ LookupShape(lookup)
    BY <1>1 DEF LookupsInv, RouteInv
  <1>4. lookup.src \in Cities /\ lookup.dst \in Cities
    BY <1>3 DEF LookupShape
  <1>5. builds # <<>> /\ resolver.at = Len(builds) =>
            /\ resolver.routable \in Backbones(edges)
            /\ IsNode(resolver.home, nodes, resolver)
            /\ IsNode(lookup.sn, nodes, resolver) /\ IsNode(lookup.dn, nodes, resolver)
    BY <1>1 DEF LookupsInv, RouteInv, IsFresh, IsOfGraph
  <1>6. builds # <<>> /\ resolver.at = Len(builds) =>
            /\ IsNode(Nearest(lookup.src), nodes, resolver)
            /\ IsNode(Nearest(lookup.dst), nodes, resolver)
    BY <1>4, <1>5, NearestIs
  <1>7. AnswerInv => AnswerInv'
    BY <1>2 DEF AnswerInv, FreshAnswersRoute
  <1>8. PICK lk : lk = lookup'
    OBVIOUS
  <1>9. CASE FindSource
    <2>1. lk = WithSource(lookup, "destination", Nearest(lookup.src))
      BY <1>8, <1>9 DEF FindSource, WithSource
    <2>2. PICK n : n = Nearest(lookup.src)
      OBVIOUS
    <2>3. IsFurther(lookup, lk, n, lookup.dn)
      BY <1>3, <2>1, <2>2, EndsShape
    <2>4. RouteInv(nodes, edges, builds, resolver, lk)
      BY <1>1, <1>3, <1>5, <1>6, <2>2, <2>3, EndsKeep
    <2> QED
      BY <1>2, <1>7, <1>8, <2>4 DEF LookupsInv
  <1>10. CASE FindDestination
    <2>1. lk = WithDestination(lookup, "routes", Nearest(lookup.dst))
      BY <1>8, <1>10 DEF FindDestination, WithDestination
    <2>2. PICK n : n = Nearest(lookup.dst)
      OBVIOUS
    <2>3. IsFurther(lookup, lk, lookup.sn, n)
      BY <1>3, <2>1, <2>2, EndsShape
    <2>4. RouteInv(nodes, edges, builds, resolver, lk)
      BY <1>1, <1>3, <1>5, <1>6, <2>2, <2>3, EndsKeep
    <2> QED
      BY <1>2, <1>7, <1>8, <2>4 DEF LookupsInv
  <1> QED
    BY <1>9, <1>10

LEMMA FindHomeKeeps ==
    ASSUME LookupsInv, GraphInv(nodes, edges, builds), FindHome
    PROVE  LookupsInv' /\ (AnswerInv => AnswerInv')
  <1>1. lookup # NoLookup /\ lookup.pc \in {"home", "pophome"}
    BY DEF FindHome, NoLookup
  <1>2. UNCHANGED <<nodes, edges, builds>>
    BY DEF FindHome, tableVars
  <1>3. ResolverOf(resolver, builds) /\ LookupShape(lookup)
    BY <1>1 DEF LookupsInv, RouteInv
  <1>4. PICK res : res = [resolver EXCEPT !.home = HomeNode]
    OBVIOUS
  <1>5. /\ ResolverOf(res, builds) /\ res.at = resolver.at
        /\ res.routable = resolver.routable /\ res.home = HomeNode
    <2>1. PICK R, H : resolver \in [routable : R, home : H, at : 0..Len(builds)]
      BY <1>3 DEF ResolverOf
    <2>2. res \in [routable : R, home : {HomeNode}, at : 0..Len(builds)]
      BY <1>4, <2>1
    <2> QED
      BY <1>4, <2>1, <2>2 DEF ResolverOf
  <1>6. resolver' = res
    BY <1>4 DEF FindHome
  <1>7. builds # <<>> /\ resolver.at = Len(builds) =>
            /\ HomeNode # None /\ IsNode(HomeNode, nodes, resolver)
            /\ resolver.routable \in Backbones(edges)
            /\ IsNode(lookup.dn, nodes, resolver)
    <2>1. SUFFICES ASSUME builds # <<>>, resolver.at = Len(builds)
                   PROVE  /\ HomeNode # None /\ IsNode(HomeNode, nodes, resolver)
                          /\ resolver.routable \in Backbones(edges)
                          /\ IsNode(lookup.dn, nodes, resolver)
      OBVIOUS
    <2>2. IsFresh(builds, resolver, lookup)
      BY <1>1, <2>1 DEF IsFresh
    <2>3. IsOfGraph(nodes, edges, resolver, lookup)
      BY <2>2 DEF LookupsInv, RouteInv
    <2> QED
      BY <1>1, <2>2, <2>3, HomeIs DEF IsOfGraph
  <1>8. builds # <<>> /\ res.at = Len(builds) =>
            /\ res.routable \in Backbones(edges)
            /\ IsNode(res.home, nodes, res)
            /\ IsNode(HomeNode, nodes, res) /\ IsNode(lookup.dn, nodes, res)
    BY <1>5, <1>7 DEF IsNode
  <1>9. CASE lookup.pc = "home"
    <2>1. lookup' = [lookup EXCEPT !.pc = "destination", !.sn = HomeNode]
      BY <1>9 DEF FindHome
    <2>2. PICK lk, n : lk = lookup' /\ n = HomeNode
      OBVIOUS
    <2>3. lk = WithSource(lookup, "destination", n)
      BY <2>1, <2>2 DEF WithSource
    <2>4. IsFurther(lookup, lk, n, lookup.dn)
      BY <1>3, <2>3, EndsShape
    <2>5. RouteInv(nodes, edges, builds, res, lk)
      <3>1. lookup.pc # "routes"
        BY <1>9
      <3> QED
        BY <1>1, <1>5, <1>8, <2>2, <2>4, <3>1, EndsKeep
    <2>6. AnswerInv => AnswerInv'
      BY <1>9 DEF FindHome, AnswerInv, FreshAnswersRoute
    <2> QED
      BY <1>2, <1>6, <2>2, <2>5, <2>6 DEF LookupsInv
  <1>10. CASE lookup.pc # "home"
    <2>1. RouteInv(nodes, edges, builds, res, NoLookup)
      BY <1>5, <1>8, NoLookupKeeps
    <2>2. lookup' = NoLookup /\ AnswerInv'
      <3>1. CASE HomeNode = None
        <4>1. Finish("error", None, {})
          BY <1>10, <3>1 DEF FindHome
        <4>2. ~IsFresh(builds, resolver, lookup)
          BY <1>7, <3>1 DEF IsFresh
        <4> QED
          BY <1>1, <4>1, <4>2, FinishKeeps
      <3>2. CASE HomeNode # None
        <4>1. Finish("pop", "anycast-reclassified", {})
          BY <1>10, <3>2 DEF FindHome
        <4> QED
          BY <1>1, <4>1, FinishKeeps
      <3> QED
        BY <3>1, <3>2
    <2> QED
      BY <1>2, <1>6, <2>1, <2>2 DEF LookupsInv
  <1> QED
    BY <1>9, <1>10

\* When a lookup is over, the Resolver is left as it was.
LEMMA LookupEnds ==
    ASSUME LookupsInv, lookup # NoLookup
    PROVE  RouteInv(nodes, edges, builds, resolver, NoLookup)
  <1>1. ResolverOf(resolver, builds)
    BY DEF LookupsInv, RouteInv
  <1>2. builds # <<>> /\ resolver.at = Len(builds) =>
            resolver.routable \in Backbones(edges) /\ IsNode(resolver.home, nodes, resolver)
    BY DEF LookupsInv, RouteInv, IsFresh, IsOfGraph
  <1> QED
    BY <1>1, <1>2, NoLookupKeeps

LEMMA NoRoutesKeeps ==
    ASSUME LookupsInv, NoRoutes
    PROVE  LookupsInv' /\ AnswerInv'
  <1>1. lookup # NoLookup
    BY DEF NoRoutes, NoLookup
  <1>2. UNCHANGED <<nodes, edges, builds, resolver>>
    BY DEF NoRoutes, tableVars
  <1>3. \/ Finish("greatcircle", "no-graph-entry", {})
        \/ Finish("route", None, {})
    BY DEF NoRoutes
  <1>4. lookup' = NoLookup /\ AnswerInv'
    BY <1>1, <1>3, TopologyAssumption, FinishKeeps
  <1> QED
    BY <1>1, <1>2, <1>4, LookupEnds DEF LookupsInv

\* Without candidates every route is still to be found; a backbone has one
\* between any two of its nodes.
LEMMA FirstRoundFinds ==
    ASSUME LookupsInv, GraphInv(nodes, edges, builds),
           IsFresh(builds, resolver, lookup), lookup.pc = "routes", OnGraph,
           lookup.sn.id # lookup.dn.id, lookup.candidates = <<>>
    PROVE  Found # {}
  <1>1. lookup # NoLookup
    BY DEF NoLookup
  <1>2. lookup.excluded = {}
    BY <1>1 DEF LookupsInv, RouteInv
  <1>3. /\ resolver.routable \in Backbones(edges)
        /\ lookup.sn.id \in resolver.routable /\ lookup.dn.id \in resolver.routable
    BY <1>1 DEF LookupsInv, RouteInv, IsOfGraph, IsNode, OnGraph
  <1>4. IsFiniteSet(edges) /\ TwoEnded(edges) /\ edges # {}
    BY DEF GraphInv, IsFresh
  <1>5. resolver.routable \in Components(edges)
    BY <1>3, <1>4, BackboneIs
  <1>6. PICK ps \in SUBSET edges : IsPath(ps, lookup.sn.id, lookup.dn.id)
    <2>1. PICK C, a, b : C = resolver.routable /\ a = lookup.sn.id /\ b = lookup.dn.id
      OBVIOUS
    <2>2. \E ps \in SUBSET edges : IsPath(ps, a, b)
      BY <1>3, <1>4, <1>5, <2>1, ComponentHasPaths
    <2> QED
      BY <2>1, <2>2
  <1>7. ps \in SUBSET {e \in edges : e.cable \notin lookup.excluded}
    BY <1>2, <1>6
  <1>8. {c.signature : c \in Range(lookup.candidates)} = {}
    BY DEF Range
  <1>9. ps \in Found
    BY <1>6, <1>7, <1>8 DEF Found
  <1> QED
    BY <1>9

\* A candidate runs between the ends, and has its cables' names.
LEMMA CandidateIs ==
    ASSUME LookupsInv, NamesStand, lookup # NoLookup, OnGraph, NEW es \in Found
    PROVE  /\ Candidate(es).named \/ Candidate(es).loading
           /\ IsFresh(builds, resolver, lookup) =>
                 /\ Candidate(es).from = lookup.sn.name
                 /\ Candidate(es).to = lookup.dn.name
  <1>1. es \subseteq edges
    BY DEF Found
  <1>2. CablesOn(es) \subseteq CablesOn(edges)
    BY <1>1 DEF CablesOn
  <1>3. loader.pc = "idle" => CablesOn(es) \subseteq cables_raw
    BY <1>2 DEF NamesStand
  <1>4. /\ Candidate(es).from = nodes[lookup.sn.id]
        /\ Candidate(es).to = nodes[lookup.dn.id]
        /\ Candidate(es).named = (CablesOn(es) \subseteq cables_raw)
        /\ Candidate(es).loading = (loader.pc # "idle")
    BY Zenon DEF Candidate
  <1>5. IsFresh(builds, resolver, lookup) =>
            /\ nodes[lookup.sn.id] = lookup.sn.name
            /\ nodes[lookup.dn.id] = lookup.dn.name
    BY DEF LookupsInv, RouteInv, IsOfGraph, IsNode, OnGraph
  <1> QED
    BY <1>3, <1>4, <1>5

\* A round adds a candidate and excludes its trunk.
WithCandidate(lk, c, trunk) ==
    [lk EXCEPT !.candidates = Append(@, c), !.excluded = @ \cup {trunk}]

OneMore(c, trunk) == lookup' = WithCandidate(lookup, c, trunk) /\ answer' = answer

LEMMA CandidateShape ==
    ASSUME NEW old, LookupShape(old), NEW c, NEW trunk, NEW lk,
           lk = WithCandidate(old, c, trunk)
    PROVE  /\ LookupShape(lk) /\ lk.pc = old.pc /\ lk.sn = old.sn /\ lk.dn = old.dn
           /\ lk.candidates = Append(old.candidates, c)
  <1>1. PICK E, S, X : old \in
          [pc : {"pop", "pophome", "home", "source", "destination", "routes"},
           src : Cities, dst : Cities, budget : Budgets \cup {None},
           sn : E, dn : E, candidates : Seq(S), excluded : SUBSET X]
    BY DEF LookupShape
  <1>2. PICK T, Y, cs, ex :
          /\ T = S \cup {c} /\ Y = X \cup {trunk}
          /\ cs = Append(old.candidates, c) /\ ex = old.excluded \cup {trunk}
    OBVIOUS
  <1>3. cs \in Seq(T)
    <2>1. old.candidates \in Seq(T) /\ c \in T
      BY <1>1, <1>2
    <2> QED
      BY <1>2, <2>1, AppendProperties
  <1>4. ex \in SUBSET Y
    BY <1>1, <1>2
  <1>5. lk = [old EXCEPT !.candidates = cs, !.excluded = ex]
    BY <1>2, Zenon DEF WithCandidate
  <1>6. lk \in
          [pc : {"pop", "pophome", "home", "source", "destination", "routes"},
           src : Cities, dst : Cities, budget : Budgets \cup {None},
           sn : E, dn : E, candidates : Seq(T), excluded : SUBSET Y]
    BY <1>1, <1>3, <1>4, <1>5
  <1>7. LookupShape(lk)
    BY <1>6 DEF LookupShape
  <1>8. lk.pc = old.pc /\ lk.sn = old.sn /\ lk.dn = old.dn /\ lk.candidates = cs
    BY <1>1, <1>5
  <1> QED
    BY <1>2, <1>7, <1>8

\* What a round makes of its lookup: an answer, or one candidate more.
LEMMA RoundIs ==
    ASSUME Round
    PROVE  /\ lookup.pc = "routes" /\ OnGraph /\ lookup.sn.id # lookup.dn.id
           /\ UNCHANGED <<nodes, edges, builds, resolver>>
           /\ \/ Found = {} /\ Decide(lookup.candidates)
              \/ \E es \in Found : Decide(Append(lookup.candidates, Candidate(es)))
              \/ \E es \in Found : \E trunk \in CablesOn(es) :
                    OneMore(Candidate(es), trunk)
  <1>1. lookup.pc = "routes" /\ OnGraph /\ lookup.sn.id # lookup.dn.id
    BY Zenon DEF Round
  <1>2. UNCHANGED <<tableVars, loader, builds, resolver, losses>>
    BY Zenon DEF Round
  <1>3. UNCHANGED <<nodes, edges, builds, resolver>>
    BY <1>2 DEF tableVars
  <1>4. \/ Found = {} /\ Decide(lookup.candidates)
        \/ \E es \in Found : Decide(Append(lookup.candidates, Candidate(es)))
        \/ \E es \in Found : \E trunk \in CablesOn(es) :
              OneMore(Candidate(es), trunk)
    BY Zenon DEF Round, OneMore, WithCandidate
  <1> QED
    BY <1>1, <1>3, <1>4

\* What is decided on is answered, but a fresh lookup decides on something.
LEMMA DecideKeeps ==
    ASSUME NEW candidates, Decide(candidates), lookup # NoLookup,
           \A c \in Range(candidates) : c.named \/ c.loading,
           IsFresh(builds, resolver, lookup) =>
               /\ candidates # <<>>
               /\ \A c \in Range(candidates) :
                     c.from = lookup.sn.name /\ c.to = lookup.dn.name
    PROVE  lookup' = NoLookup /\ AnswerInv'
  <1>1. CASE candidates = <<>>
    <2>1. Finish("greatcircle", "no-route", {})
      BY <1>1 DEF Decide
    <2> QED
      BY <1>1, <2>1, FinishKeeps
  <1>2. CASE candidates # <<>> /\ Fitting(candidates) = {}
    <2>1. Finish("greatcircle", "exceeds-light-budget", {})
      BY <1>2 DEF Decide
    <2> QED
      BY <2>1, FinishKeeps
  <1>3. CASE candidates # <<>> /\ Fitting(candidates) # {}
    <2>1. PICK cs : cs = Fitting(candidates)
      OBVIOUS
    <2>2. Finish("route", None, cs)
      BY <1>3, <2>1 DEF Decide
    <2>3. cs \subseteq Range(candidates)
      BY <2>1 DEF Fitting
    <2> QED
      BY <2>2, <2>3, TopologyAssumption, FinishKeeps
  <1> QED
    BY <1>1, <1>2, <1>3

LEMMA RangeOfAppend ==
    ASSUME NEW S, NEW s \in Seq(S), NEW x
    PROVE  Range(Append(s, x)) = Range(s) \cup {x}
  <1>1. PICK t : t = Append(s, x)
    OBVIOUS
  <1>2. /\ DOMAIN t = 1..(Len(s) + 1) /\ DOMAIN s = 1..Len(s) /\ Len(s) \in Nat
        /\ t[Len(s) + 1] = x /\ \A i \in 1..Len(s) : t[i] = s[i]
    BY <1>1
  <1>3. ASSUME NEW y \in Range(t) PROVE y \in Range(s) \cup {x}
    <2>1. PICK i \in DOMAIN t : y = t[i]
      BY DEF Range
    <2>2. i \in 1..Len(s) \/ i = Len(s) + 1
      BY <1>2, <2>1
    <2> QED
      BY <1>2, <2>1, <2>2 DEF Range
  <1>4. ASSUME NEW y \in Range(s) PROVE y \in Range(t)
    <2>1. PICK i \in DOMAIN s : y = s[i]
      BY DEF Range
    <2>2. i \in DOMAIN t /\ t[i] = y
      BY <1>2, <2>1
    <2> QED
      BY <2>2 DEF Range
  <1>5. x \in Range(t)
    <2>1. Len(s) + 1 \in DOMAIN t
      BY <1>2
    <2> QED
      BY <1>2, <2>1 DEF Range
  <1> QED
    BY <1>1, <1>3, <1>4, <1>5

LEMMA RoundKeeps ==
    ASSUME LookupsInv, GraphInv(nodes, edges, builds), NamesStand, Round
    PROVE  LookupsInv' /\ (AnswerInv => AnswerInv')
  <1>1. /\ lookup.pc = "routes" /\ OnGraph /\ lookup.sn.id # lookup.dn.id
        /\ UNCHANGED <<nodes, edges, builds, resolver>>
    BY RoundIs
  <1>2. lookup # NoLookup
    BY <1>1 DEF NoLookup
  <1>3. /\ LookupShape(lookup) /\ ResolverOf(resolver, builds)
        /\ \A c \in Range(lookup.candidates) : c.named \/ c.loading
    BY <1>2 DEF LookupsInv, RouteInv
  <1>4. IsFresh(builds, resolver, lookup) =>
            \A c \in Range(lookup.candidates) :
                c.from = lookup.sn.name /\ c.to = lookup.dn.name
    BY <1>2 DEF LookupsInv, RouteInv, IsOfGraph
  <1>5. PICK E, S, X : lookup \in
          [pc : {"pop", "pophome", "home", "source", "destination", "routes"},
           src : Cities, dst : Cities, budget : Budgets \cup {None},
           sn : E, dn : E, candidates : Seq(S), excluded : SUBSET X]
    BY <1>3 DEF LookupShape
  <1>6. lookup.candidates \in Seq(S)
    BY <1>5
  <1>7. ASSUME \/ Found = {} /\ Decide(lookup.candidates)
               \/ \E es \in Found : Decide(Append(lookup.candidates, Candidate(es)))
        PROVE  LookupsInv' /\ AnswerInv'
    <2>1. ASSUME lookup' = NoLookup PROVE LookupsInv'
      BY <1>1, <1>2, <2>1, LookupEnds DEF LookupsInv
    <2>2. CASE Found = {} /\ Decide(lookup.candidates)
      <3>1. PICK cs : cs = lookup.candidates
        OBVIOUS
      <3>2. IsFresh(builds, resolver, lookup) => cs # <<>>
        BY <1>1, <2>2, <3>1, FirstRoundFinds
      <3>3. Decide(cs)
        BY <2>2, <3>1
      <3>4. lookup' = NoLookup /\ AnswerInv'
        BY <1>2, <1>3, <1>4, <3>1, <3>2, <3>3, DecideKeeps
      <3> QED
        BY <2>1, <3>4
    <2>3. ASSUME NEW es \in Found, Decide(Append(lookup.candidates, Candidate(es)))
          PROVE  LookupsInv' /\ AnswerInv'
      <3>1. PICK c, cs : c = Candidate(es) /\ cs = Append(lookup.candidates, c)
        OBVIOUS
      <3>2. Range(cs) = Range(lookup.candidates) \cup {c}
        BY <1>6, <3>1, RangeOfAppend
      <3>3. cs # <<>>
        <4>1. c \in Range(cs)
          BY <3>2
        <4> QED
          BY <4>1 DEF Range
      <3>4. /\ c.named \/ c.loading
            /\ IsFresh(builds, resolver, lookup) =>
                  c.from = lookup.sn.name /\ c.to = lookup.dn.name
        BY <1>1, <1>2, <3>1, CandidateIs
      <3>5. Decide(cs)
        BY <2>3, <3>1
      <3>6. lookup' = NoLookup /\ AnswerInv'
        BY <1>2, <1>3, <1>4, <3>2, <3>3, <3>4, <3>5, DecideKeeps
      <3> QED
        BY <2>1, <3>6
    <2> QED
      BY <1>7, <2>2, <2>3
  <1>8. ASSUME NEW es \in Found, NEW trunk \in CablesOn(es),
               OneMore(Candidate(es), trunk)
        PROVE  LookupsInv' /\ (AnswerInv => AnswerInv')
    <2>1. PICK c, cs, old : /\ c = Candidate(es) /\ old = lookup.candidates
                            /\ cs = Append(old, c)
      OBVIOUS
    <2>2. Range(cs) = Range(old) \cup {c}
      BY <1>6, <2>1, RangeOfAppend
    <2>3. cs # <<>>
      <3>1. c \in Range(cs)
        BY <2>2
      <3> QED
        BY <3>1 DEF Range
    <2>4. /\ c.named \/ c.loading
          /\ IsFresh(builds, resolver, lookup) =>
                c.from = lookup.sn.name /\ c.to = lookup.dn.name
      BY <1>1, <1>2, <2>1, CandidateIs
    <2>5. PICK lk : lk = lookup'
      OBVIOUS
    <2>6. lk = WithCandidate(lookup, c, trunk)
      BY <1>8, <2>1, <2>5 DEF OneMore
    <2>7. /\ LookupShape(lk) /\ lk.pc = lookup.pc /\ lk.candidates = cs
          /\ lk.sn = lookup.sn /\ lk.dn = lookup.dn
      BY <1>3, <2>1, <2>6, CandidateShape
    <2>8. IsFresh(builds, resolver, lk) => IsFresh(builds, resolver, lookup)
      BY <1>2 DEF IsFresh
    <2>9. IsFresh(builds, resolver, lk) => IsOfGraph(nodes, edges, resolver, lk)
      BY <1>2, <1>4, <2>1, <2>2, <2>4, <2>7, <2>8
         DEF LookupsInv, RouteInv, IsOfGraph
    <2>10. RouteInv(nodes, edges, builds, resolver, lk)
      BY <1>1, <1>3, <2>1, <2>2, <2>3, <2>4, <2>7, <2>9 DEF RouteInv
    <2>11. AnswerInv => AnswerInv'
      BY <1>8 DEF OneMore, AnswerInv, FreshAnswersRoute
    <2> QED
      BY <1>1, <2>5, <2>10, <2>11 DEF LookupsInv
  <1> QED
    BY <1>7, <1>8, RoundIs

\* dl_build_graph() reads the cables' rows as it finds them.
LEMMA NamesKeep ==
    ASSUME LoaderInv, NamesStand, [TopologyNext]_topologyVars
    PROVE  NamesStand'
  <1>1. ASSUME NEW edition, StartLoad(edition) PROVE NamesStand'
    BY <1>1 DEF StartLoad, NamesStand
  <1>2. CASE InsertCable \/ TruncateLandings \/ InsertLanding \/ LoadBreaks
    <2>1. loader'.pc # "idle"
      <3>1. CASE InsertCable
        <4>1. loader'.pc = "cables"
          BY <3>1 DEF InsertCable, LoaderInv
        <4> QED
          BY <4>1
      <3>2. CASE InsertLanding
        <4>1. loader'.pc = "landings"
          BY <3>2 DEF InsertLanding, LoaderInv
        <4> QED
          BY <4>1
      <3>3. CASE TruncateLandings
        <4>1. loader'.pc = "landings"
          BY <3>3 DEF TruncateLandings, LoaderInv
        <4> QED
          BY <4>1
      <3>4. CASE LoadBreaks
        <4>1. loader'.pc = "broken"
          BY <3>4 DEF LoadBreaks, LoaderInv
        <4> QED
          BY <4>1
      <3> QED
        BY <1>2, <3>1, <3>2, <3>3, <3>4
    <2> QED
      BY <2>1 DEF NamesStand
  <1>3. CASE BuildGraph
    <2>1. landings_raw \in Seq(Stations) /\ Ixps \in Seq(Names)
      BY <1>3, TopologyAssumption DEF BuildGraph, LoaderInv
    <2>2. PICK ns : ns = NodesOf(landings_raw)
      OBVIOUS
    <2>3. ns \in Seq(Names)
      <3>1. landings_raw \in Seq(Names)
        <4>1. Stations \subseteq Names
          BY DEF Names
        <4> HIDE DEF Names
        <4> QED
          BY <2>1, <4>1
      <3> QED
        BY <2>1, <2>2, <3>1, ConcatProperties DEF NodesOf
    <2>4. \A e \in EdgesOf(ns, cables_raw) : IsEdge(e, ns, cables_raw)
      BY <2>3, EdgesAreEdges
    <2>5. \A e \in EdgesOf(ns, cables_raw) : e.cable \in cables_raw \cup {None}
      BY <2>4 DEF IsEdge
    <2>6. CablesOn(EdgesOf(ns, cables_raw)) \subseteq cables_raw
      BY <2>5 DEF CablesOn
    <2>7. edges' = EdgesOf(ns, cables_raw) /\ cables_raw' = cables_raw
      BY <1>3, <2>2 DEF BuildGraph
    <2> QED
      BY <2>6, <2>7 DEF NamesStand
  <1>4. CASE UNCHANGED <<tableVars, loader, builds>>
    BY <1>4 DEF tableVars, NamesStand
  <1> QED
    BY <1>1, <1>2, <1>3, <1>4, LookupsOnlyRead DEF topologyVars

\* A load changes nothing that a fresh Resolver read, except by a build.
LEMMA LoadKeeps ==
    ASSUME LoaderInv, LookupsInv,
           \/ \E edition \in Editions : StartLoad(edition)
           \/ InsertCable \/ TruncateLandings \/ InsertLanding \/ BuildGraph \/ LoadBreaks
    PROVE  LookupsInv' /\ (AnswerInv => AnswerInv')
  <1>1. resolver' = resolver /\ lookup' = lookup /\ answer' = answer
    BY DEF StartLoad, InsertCable, TruncateLandings, InsertLanding, BuildGraph,
           LoadBreaks, lookupVars
  <1>2. AnswerInv => AnswerInv'
    BY <1>1 DEF AnswerInv, FreshAnswersRoute
  <1>3. CASE BuildGraph
    <2>1. builds \in Seq(Editions) /\ loader.edition \in Editions
      BY <1>3 DEF LoaderInv, BuildGraph
    <2>2. PICK ns, es, edition :
            ns = nodes' /\ es = edges' /\ edition = loader.edition
      OBVIOUS
    <2>3. builds' = Append(builds, edition)
      BY <1>3, <2>2 DEF BuildGraph
    <2>4. RouteInv(ns, es, Append(builds, edition), resolver, lookup)
      BY <2>1, <2>2, BuildsOutdate DEF LookupsInv
    <2> QED
      BY <1>1, <1>2, <2>2, <2>3, <2>4 DEF LookupsInv
  <1>4. CASE ~BuildGraph
    <2>1. UNCHANGED <<nodes, edges, builds>>
      BY <1>4 DEF StartLoad, InsertCable, TruncateLandings, InsertLanding,
                  LoadBreaks, tableVars
    <2> QED
      BY <1>1, <1>2, <2>1 DEF LookupsInv
  <1> QED
    BY <1>3, <1>4

\* A new Resolver reads the backbone of the graph as it is, a lost one takes its
\* lookup with it.
LEMMA ConnectKeeps ==
    ASSUME LoaderInv, Connect \/ Lost
    PROVE  LookupsInv' /\ (AnswerInv => AnswerInv')
  <1>1. /\ UNCHANGED <<nodes, edges, builds, answer>> /\ lookup' = NoLookup
    BY DEF Connect, Lost, tableVars
  <1>2. AnswerInv => AnswerInv'
    BY <1>1 DEF AnswerInv, FreshAnswersRoute
  <1>3. CASE Connect
    <2>1. PICK C \in Backbones(edges) :
            resolver' = [routable |-> C, home |-> None, at |-> Len(builds)]
      BY <1>3 DEF Connect
    <2>2. PICK res : res = [routable |-> C, home |-> None, at |-> Len(builds)]
      OBVIOUS
    <2>3. ResolverOf(res, builds)
      <3>1. Len(builds) \in 0..Len(builds)
        BY DEF LoaderInv
      <3>2. res \in [routable : {C}, home : {None}, at : 0..Len(builds)]
        BY <2>2, <3>1
      <3> QED
        BY <3>2 DEF ResolverOf
    <2>4. res.routable = C /\ res.home = None
      BY <2>2
    <2>5. res.routable \in Backbones(edges) /\ IsNode(res.home, nodes, res)
      BY <2>1, <2>4 DEF IsNode
    <2>6. RouteInv(nodes, edges, builds, res, NoLookup)
      BY <2>3, <2>5, NoLookupKeeps
    <2> QED
      BY <1>1, <1>2, <2>1, <2>2, <2>6 DEF LookupsInv
  <1>4. CASE Lost
    <2>1. resolver' = None
      BY <1>4 DEF Lost
    <2> QED
      BY <1>1, <1>2, <2>1 DEF LookupsInv, RouteInv, IsFresh
  <1> QED
    BY <1>3, <1>4

LEMMA CallKeeps ==
    ASSUME LookupsInv,
           \/ \E dst \in Cities \ {Home}, budget \in Budgets : Resolve(dst, budget)
           \/ \E src, dst \in Cities : src # dst /\ Between(src, dst)
    PROVE  LookupsInv' /\ AnswerInv'
  <1>1. PICK pc \in {"pop", "home", "source"}, src \in Cities, dst \in Cities,
             budget \in Budgets \cup {None} : Begin(pc, src, dst, budget)
    <2>1. ASSUME NEW dst \in Cities, NEW budget \in Budgets, Resolve(dst, budget)
          PROVE  \E pc \in {"pop", "home", "source"}, src \in Cities :
                     Begin(pc, src, dst, budget)
      <3>1. Home \in Cities
        BY TopologyAssumption
      <3>2. CASE GcKm(dst) > budget
        <4>1. Begin("pop", Home, dst, budget)
          BY <2>1, <3>2 DEF Resolve
        <4> QED
          BY <3>1, <4>1
      <3>3. CASE ~(GcKm(dst) > budget)
        <4>1. Begin("home", Home, dst, budget)
          BY <2>1, <3>3 DEF Resolve
        <4> QED
          BY <3>1, <4>1
      <3> QED
        BY <3>2, <3>3
    <2>2. ASSUME NEW src \in Cities, NEW dst \in Cities, Between(src, dst)
          PROVE  Begin("source", src, dst, None)
      BY <2>2 DEF Between
    <2> QED
      BY <2>1, <2>2
  <1>2. RouteInv(nodes, edges, builds, resolver, lookup')
    BY <1>1, BeginKeeps
  <1>3. UNCHANGED <<nodes, edges, builds, resolver>> /\ answer' = None
    BY <1>1 DEF Begin, tableVars
  <1> QED
    BY <1>2, <1>3 DEF LookupsInv, AnswerInv, FreshAnswersRoute

TopologyInv == /\ LoaderInv /\ GraphOfOneEdition /\ NamesStand
               /\ LookupsInv /\ AnswerInv

LEMMA InitTopology == TopologyInit => TopologyInv
  <1> SUFFICES ASSUME TopologyInit PROVE TopologyInv
    OBVIOUS
  <1>1. NamesStand
    BY DEF TopologyInit, NamesStand, CablesOn
  <1>2. AnswerInv
    BY DEF TopologyInit, AnswerInv, FreshAnswersRoute
  <1> QED
    BY <1>1, <1>2, InitLoader, InitLookups DEF TopologyInv

LEMMA StepTopology == TopologyInv /\ [TopologyNext]_topologyVars => TopologyInv'
  <1> SUFFICES ASSUME TopologyInv, [TopologyNext]_topologyVars
               PROVE  TopologyInv'
    OBVIOUS
  <1>1. LoaderInv /\ GraphOfOneEdition /\ NamesStand /\ LookupsInv /\ AnswerInv
    BY DEF TopologyInv
  <1>2. GraphInv(nodes, edges, builds)
    BY <1>1, GraphStands
  <1>3. LookupsInv' /\ AnswerInv'
    <2>1. CASE UNCHANGED topologyVars
      BY <1>1, <2>1 DEF topologyVars, tableVars, lookupVars, LookupsInv,
                        AnswerInv, FreshAnswersRoute
    <2>2. CASE TopologyNext
      <3>1. CASE \/ \E edition \in Editions : StartLoad(edition)
                 \/ InsertCable \/ TruncateLandings \/ InsertLanding \/ BuildGraph
                 \/ LoadBreaks
        BY <1>1, <3>1, LoadKeeps
      <3>2. CASE Connect \/ Lost
        BY <1>1, <3>2, ConnectKeeps
      <3>3. CASE \/ \E dst \in Cities \ {Home}, budget \in Budgets : Resolve(dst, budget)
                 \/ \E src, dst \in Cities : src # dst /\ Between(src, dst)
        BY <1>1, <3>3, CallKeeps
      <3>4. CASE FindPop
        BY <1>1, <3>4, FindPopKeeps
      <3>5. CASE FindHome
        BY <1>1, <1>2, <3>5, FindHomeKeeps
      <3>6. CASE FindSource \/ FindDestination
        BY <1>1, <1>2, <3>6, FindEndsKeep
      <3>7. CASE NoRoutes
        BY <1>1, <3>7, NoRoutesKeeps
      <3>8. CASE Round
        BY <1>1, <1>2, <3>8, RoundKeeps
      <3> QED
        BY <2>2, <3>1, <3>2, <3>3, <3>4, <3>5, <3>6, <3>7, <3>8 DEF TopologyNext
    <2> QED
      BY <2>1, <2>2
  <1> QED
    BY <1>1, <1>3, StepLoader, StepGraph, NamesKeep DEF TopologyInv

\* Through whatever loads, breaks and losses: an answer of a Resolver made since
\* the last build never says that there is no route, never fails, and draws
\* routes between the very nodes that it names.
THEOREM FreshLookupsRoute == TopologySpec => []FreshAnswersRoute
  <1>1. TopologyInv => FreshAnswersRoute
    BY DEF TopologyInv, AnswerInv
  <1> QED
    BY <1>1, InitTopology, StepTopology, PTL DEF TopologySpec

\* A cable goes unnamed in an answer only if its route was read during a load
\* or after one that broke off.
THEOREM CablesKeepTheirNames == TopologySpec => []SubmarineIsNamed
  <1>1. TopologyInv => SubmarineIsNamed
    BY DEF TopologyInv, AnswerInv, SubmarineIsNamed
  <1> QED
    BY <1>1, InitTopology, StepTopology, PTL DEF TopologySpec
=============================================================================
