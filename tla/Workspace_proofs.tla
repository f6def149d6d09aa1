-------------------------- MODULE Workspace_proofs --------------------------
(***************************************************************************)
(* Proofs about Workspace, for any layers, cables, lookups and screen.     *)
(*                                                                         *)
(* The effects of App.tsx and their dependency lists keep the map in step  *)
(* with the panel; this is an invariant of the steps.  What is drawn of a  *)
(* route is a function of the route: the invariant is that the map shows   *)
(* an answer of a lookup, and the lines, the places and the labels of any  *)
(* such answer are as they should be.  Their definitions are recursive;    *)
(* Stepwise and RecursionHasValue stand in for induction, as facts about   *)
(* sets.                                                                   *)
(***************************************************************************)
EXTENDS Workspace, SequenceTheorems, NaturalsInduction, WellFoundedInduction, TLAPS

\* What is true between any two events: an effect that is not due has nothing
\* to do.  Adding the sources relies on the visibility effect, which runs after
\* it, being due as well.
InStep ==
    /\ mapReady \in BOOLEAN /\ network \in BOOLEAN /\ sources \in BOOLEAN
    /\ sources => mapReady /\ network /\ handlers = 1 /\ "sources" \notin due
    /\ mapReady /\ network /\ "sources" \notin due => sources
    /\ "sources" \in due => "visibility" \in due
    /\ sources /\ "visibility" \notin due =>
          visible = VisibleLayers /\ filter = selectedCable
    /\ /\ mapReady /\ network /\ "fit" \notin due
       /\ mode = "network" /\ selectedCable # NoCable /\ ~led
       => camera = selectedCable

\* A render makes due what depends on a change, and nothing else.
LEMMA CommitDue ==
    ASSUME Commit
    PROVE  /\ due \subseteq due'
           /\ "sources" \in due' <=>
                "sources" \in due \/ <<mapReady', network'>> # <<mapReady, network>>
           /\ "visibility" \in due' <=>
                \/ "visibility" \in due
                \/ <<mapReady', mode', network', networkLayers', selectedCable'>>
                     # <<mapReady, mode, network, networkLayers, selectedCable>>
           /\ "fit" \in due' <=>
                \/ "fit" \in due
                \/ <<mapReady', mode', network', selectedCable'>>
                     # <<mapReady, mode, network, selectedCable>>
BY DEF Commit, Deps

LEMMA InitInStep == WorkspaceInit => InStep
BY DEF WorkspaceInit, InStep, Deps

\* The effects that are due put the map in step.
LEMMA EffectsInStep == InStep /\ Effects => InStep'
<1>1. SUFFICES ASSUME InStep, Effects PROVE InStep'
  OBVIOUS
<1>2. /\ due' = {} /\ UNCHANGED <<mapReady, mode, network, networkLayers, selectedCable>>
  BY <1>1 DEF Effects, panelVars
<1>3. /\ sources' \in BOOLEAN
      /\ sources' => mapReady /\ network /\ handlers' = 1
      /\ mapReady /\ network => sources'
  BY <1>1 DEF Effects, SourcesEffect, InStep
<1>4. sources' => visible' = VisibleLayers /\ filter' = selectedCable
  <2>1. CASE "visibility" \in due
    BY <1>1, <1>3, <2>1 DEF Effects, VisibilityEffect, InStep
  <2>2. CASE "visibility" \notin due
    <3>1. "sources" \notin due /\ sources' = sources
      BY <1>1, <2>2 DEF Effects, SourcesEffect, InStep
    <3> QED
      BY <1>1, <2>2, <3>1 DEF Effects, VisibilityEffect, InStep
  <2> QED
    BY <2>1, <2>2
<1>5. VisibleLayers' = VisibleLayers
  BY <1>2 DEF VisibleLayers
<1>6. mapReady /\ network /\ mode = "network" /\ selectedCable # NoCable /\ ~led'
         => camera' = selectedCable
  BY <1>1 DEF Effects, FitEffect, InStep
<1> QED
  BY <1>1, <1>2, <1>3, <1>4, <1>5, <1>6 DEF InStep

\* An event that renders leaves the map as it is: what no longer fits is due.
LEMMA RenderInStep ==
    ASSUME InStep, Commit, UNCHANGED mapVars,
           mapReady' \in BOOLEAN, network' \in BOOLEAN,
           mapReady => mapReady', network => network',
           \/ UNCHANGED <<camera, led>>
           \/ mapReady' # mapReady
           \/ mode' # mode
           \/ led'
    PROVE  InStep'
<1>1. /\ sources' = sources /\ handlers' = handlers
      /\ visible' = visible /\ filter' = filter
  BY DEF mapVars
<1>2. sources' => mapReady' /\ network' /\ handlers' = 1 /\ "sources" \notin due'
  BY <1>1, CommitDue DEF InStep
<1>3. mapReady' /\ network' /\ "sources" \notin due' => sources'
  BY <1>1, CommitDue DEF InStep
<1>4. "sources" \in due' => "visibility" \in due'
  BY CommitDue DEF InStep
<1>5. ASSUME sources', "visibility" \notin due'
      PROVE  visible' = VisibleLayers' /\ filter' = selectedCable'
  <2>1. /\ mode' = mode /\ networkLayers' = networkLayers
        /\ selectedCable' = selectedCable /\ "visibility" \notin due
    BY <1>5, CommitDue
  <2> QED
    BY <1>1, <1>5, <2>1 DEF InStep, VisibleLayers
<1>6. ASSUME mapReady', network', "fit" \notin due', mode' = "network",
             selectedCable' # NoCable, ~led'
      PROVE  camera' = selectedCable'
  <2>1. /\ mapReady' = mapReady /\ mode' = mode /\ network' = network
        /\ selectedCable' = selectedCable /\ "fit" \notin due
    BY <1>6, CommitDue
  <2> QED
    BY <1>6, <2>1 DEF InStep
<1> QED
  BY <1>1, <1>2, <1>3, <1>4, <1>5, <1>6 DEF InStep

LEMMA StepInStep == InStep /\ [WorkspaceNext]_workspaceVars => InStep'
<1>1. SUFFICES ASSUME InStep, [WorkspaceNext]_workspaceVars PROVE InStep'
  OBVIOUS
<1>2. CASE Effects
  BY <1>1, <1>2, EffectsInStep
<1>3. CASE MapLoads
  BY <1>1, <1>3, RenderInStep DEF MapLoads, fetchVars, InStep
<1>4. ASSUME NEW next \in Tabs, ChangeMode(next) PROVE InStep'
  <2>1. mode' # mode \/ led'
    BY <1>4 DEF ChangeMode
  <2>2. /\ Commit /\ UNCHANGED mapVars
        /\ mapReady' = mapReady /\ network' = network
    BY <1>4 DEF ChangeMode, fetchVars
  <2>3. mapReady \in BOOLEAN /\ network \in BOOLEAN
    BY <1>1 DEF InStep
  <2> QED
    BY <1>1, <2>1, <2>2, <2>3, RenderInStep
<1>5. ASSUME NEW m, Draw(m) PROVE InStep'
  BY <1>1, <1>5 DEF Draw, fetchVars, mapVars, InStep, VisibleLayers
<1>6. CASE ShowLive
  BY <1>1, <1>6 DEF ShowLive, fetchVars, mapVars, InStep, VisibleLayers
<1>7. ASSUME NEW c, SelectCable(c) \/ ClickCable(c) PROVE InStep'
  BY <1>1, <1>7, RenderInStep DEF SelectCable, ClickCable, fetchVars, InStep
<1>8. ASSUME NEW layer, Toggle(layer) PROVE InStep'
  BY <1>1, <1>8, RenderInStep DEF Toggle, fetchVars, InStep
<1>9. CASE FetchOk
  BY <1>1, <1>9, RenderInStep DEF FetchOk, InStep
<1>10. CASE FetchFails
  BY <1>1, <1>10 DEF FetchFails, panelVars, mapVars, InStep, VisibleLayers
<1>11. CASE UNCHANGED workspaceVars
  BY <1>1, <1>11 DEF workspaceVars, panelVars, fetchVars, mapVars, InStep, VisibleLayers
<1>12. CASE FitRoutes
  BY <1>5, <1>12 DEF FitRoutes
<1>13. ASSUME NEW l \in Lookups, LookupEnds(l) PROVE InStep'
  BY <1>5, <1>13 DEF LookupEnds
<1>14. ASSUME NEW i \in 1..3, Choose(i) PROVE InStep'
  BY <1>5, <1>14 DEF Choose
<1> QED
  BY <1>1, <1>2, <1>3, <1>4, <1>6, <1>7, <1>8, <1>9, <1>10, <1>11, <1>12, <1>13, <1>14
     DEF WorkspaceNext

\* Once no effect is due the map is what the panel says, whatever the order of
\* the map's load, the download, lookups, tabs and choices.
THEOREM MapIsInStep == WorkspaceSpec => []MapFollowsPanel
<1>1. InStep => MapFollowsPanel
  BY DEF InStep, MapFollowsPanel
<1> QED
  BY <1>1, InitInStep, StepInStep, PTL DEF WorkspaceSpec

(************************** recursive definitions **************************)

\* Every nonempty set of naturals has a least element.
LEMMA LeastNumber ==
    ASSUME NEW T \in SUBSET Nat, T # {}
    PROVE  \E x \in T : \A y \in T : x <= y
  <1> DEFINE R == {p \in Nat \X Nat : p[1] < p[2]}
  <1>1. IsWellFoundedOn(R, Nat)
    BY NatLessThanWellFounded DEF OpToRel
  <1>2. PICK x \in T : \A y \in T : ~ (<<y, x>> \in R)
    <2> HIDE DEF R
    <2> QED
      BY <1>1, WFMin
  <1>3. \A y \in T : ~(y < x)
    BY <1>2
  <1> QED
    BY <1>3

\* What holds first, and from each number to the next, holds of all.
LEMMA Stepwise ==
    ASSUME NEW lo \in Nat, NEW n \in Nat, NEW S, lo \in S,
           \A k \in lo..n : k \in S /\ k < n => k + 1 \in S
    PROVE  \A k \in lo..n : k \in S
<1> DEFINE Bad == {k \in lo..n : k \notin S}
<1>1. SUFFICES ASSUME Bad # {} PROVE FALSE
  OBVIOUS
<1>2. Bad \in SUBSET Nat
  OBVIOUS
<1>3. PICK k \in Bad : \A j \in Bad : k <= j
  <2> HIDE DEF Bad
  <2> QED
    BY <1>1, <1>2, LeastNumber
<1>4. k - 1 \in lo..n /\ k - 1 < n /\ k - 1 \notin Bad
  BY <1>3
<1>5. k \in S
  BY <1>4
<1> QED
  BY <1>5

LEMMA FunctionIsSeq ==
    ASSUME NEW T, NEW n \in Nat, NEW f \in [1..n -> T]
    PROVE  f \in Seq(T) /\ Len(f) = n
OBVIOUS

\* f starts with base and goes on with what G makes of the value before.
Recurses(f, lo, n, base, G) ==
    f = [i \in lo..n |-> IF i = lo THEN base ELSE G[<<i, f[i - 1]>>]]

\* A recursive function has a value, when each of its values is in T.
LEMMA RecursionHasValue ==
    ASSUME NEW lo \in Nat, NEW n \in Nat, NEW T, NEW base \in T,
           NEW G, \A i \in lo..n : \A v \in T : G[<<i, v>>] \in T
    PROVE  \E f \in [lo..n -> T] : Recurses(f, lo, n, base, G)
<1> DEFINE S == {k \in Nat : \E f \in [lo..k -> T] : Recurses(f, lo, k, base, G)}
<1>1. lo \in S
  <2>1. /\ [i \in lo..lo |-> base] \in [lo..lo -> T]
        /\ Recurses([i \in lo..lo |-> base], lo, lo, base, G)
    BY DEF Recurses
  <2> QED
    BY <2>1
<1>2. ASSUME NEW k \in lo..n, k \in S, k < n PROVE k + 1 \in S
  <2>1. PICK f \in [lo..k -> T] : Recurses(f, lo, k, base, G)
    BY <1>2
  <2> DEFINE next == G[<<k + 1, f[k]>>]
             g == [i \in lo..(k + 1) |-> IF i = k + 1 THEN next ELSE f[i]]
  <2>2. k \in lo..k /\ k + 1 \in lo..n
    BY <1>2
  <2>3. next \in T
    <3>1. f[k] \in T
      BY <2>1, <2>2
    <3> QED
      BY <2>2, <3>1
  <2>4. g \in [lo..(k + 1) -> T]
    <3> HIDE DEF next
    <3> QED
      BY <2>2, <2>3
  <2>5. ASSUME NEW i \in lo..(k + 1)
        PROVE  g[i] = IF i = lo THEN base ELSE G[<<i, g[i - 1]>>]
    <3>1. CASE i = k + 1
      <4>1. g[i - 1] = f[k] /\ i # lo
        BY <2>2, <3>1
      <4> QED
        BY <3>1, <4>1
    <3>2. CASE i # k + 1
      <4>1. i \in lo..k
        BY <2>2, <3>2
      <4>2. f[i] = IF i = lo THEN base ELSE G[<<i, f[i - 1]>>]
        BY <2>1, <4>1 DEF Recurses
      <4>3. i # lo => g[i - 1] = f[i - 1]
        BY <4>1
      <4> QED
        BY <3>2, <4>1, <4>2, <4>3
    <3> QED
      BY <3>1, <3>2
  <2>6. Recurses(g, lo, k + 1, base, G)
    <3> HIDE DEF g
    <3> QED
      BY <2>4, <2>5 DEF Recurses
  <2>7. k + 1 \in Nat
    BY <2>2
  <2> HIDE DEF g
  <2> QED
    BY <2>4, <2>6, <2>7
<1>3. CASE lo <= n
  <2>1. n \in S
    <3> HIDE DEF S
    <3>1. n \in lo..n
      BY <1>3
    <3> QED
      BY <1>1, <1>2, <3>1, Stepwise
  <2> QED
    BY <2>1
<1>4. CASE n < lo
  <2>1. lo..n = {}
    BY <1>4
  <2>2. /\ [i \in {} |-> base] \in [lo..n -> T]
        /\ Recurses([i \in {} |-> base], lo, n, base, G)
    BY <2>1 DEF Recurses
  <2> QED
    BY <2>2
<1> QED
  BY <1>3, <1>4

(********************************* geometry ********************************)

\* The longitude within half a turn of ref.
Near(lon, ref) == lon - Turn * Turns(lon - ref)

LEMMA DivIs ==
    ASSUME NEW a \in Int, NEW b \in Int, b > 0
    PROVE  /\ a \div b \in Int /\ a % b \in Int
           /\ a = b * (a \div b) + (a % b) /\ 0 <= a % b /\ a % b < b
  OBVIOUS

\* No multiple of b but zero is nearer to zero than b.
LEMMA SmallMultiple ==
    ASSUME NEW b \in Int, b > 0, NEW k \in Int, -b < b * k, b * k < b
    PROVE  k = 0
<1>1. k < 1
  <2>1. k >= 1 => b * k >= b
    OBVIOUS
  <2> QED
    BY <2>1
<1>2. k > -1
  <2>1. k <= -1 => b * k <= -b
    OBVIOUS
  <2> QED
    BY <2>1
<1> QED
  BY <1>1, <1>2

LEMMA MultipleMod ==
    ASSUME NEW b \in Int, b > 0, NEW k \in Int
    PROVE  (b * k) % b = 0
<1> DEFINE r == (b * k) % b
           q == (b * k) \div b
<1>1. b * k \in Int
  OBVIOUS
<1>2. q \in Int /\ r \in Int /\ b * k = b * q + r /\ 0 <= r /\ r < b
  BY <1>1, DivIs
<1> HIDE DEF r, q
<1>3. b * (k - q) = r
  BY <1>2
<1>4. k - q = 0
  BY <1>2, <1>3, SmallMultiple
<1>5. r = 0
  BY <1>3, <1>4
<1> QED
  BY <1>5 DEF r

LEMMA TurnsNear ==
    ASSUME NEW d \in Int
    PROVE  /\ Turns(d) \in Int
           /\ -Turn <= 2 * (d - Turn * Turns(d)) /\ 2 * (d - Turn * Turns(d)) < Turn
<1>1. Turn \in Int /\ Turn > 0
  BY DrawingAssumption
<1> DEFINE a == 2 * d + Turn
           r == a % (2 * Turn)
<1>2. a \in Int /\ 2 * Turn \in Int /\ 2 * Turn > 0
  BY <1>1
<1>3. /\ Turns(d) \in Int /\ r \in Int
      /\ a = (2 * Turn) * Turns(d) + r /\ 0 <= r /\ r < 2 * Turn
  BY <1>2, DivIs DEF Turns
<1> HIDE DEF r
<1>4. 2 * (d - Turn * Turns(d)) = r - Turn
  BY <1>1, <1>3
<1> QED
  BY <1>1, <1>3, <1>4

LEMMA NearIs ==
    ASSUME NEW lon \in Int, NEW ref \in Int
    PROVE  /\ Near(lon, ref) \in Int
           /\ 2 * (Near(lon, ref) - ref) \in -Turn..Turn
           /\ (Near(lon, ref) - lon) % Turn = 0
<1>1. Turn \in Int /\ Turn > 0
  BY DrawingAssumption
<1> DEFINE q == Turns(lon - ref)
<1>2. /\ q \in Int
      /\ -Turn <= 2 * (lon - ref - Turn * q) /\ 2 * (lon - ref - Turn * q) < Turn
  BY TurnsNear
<1>3. Near(lon, ref) = lon - Turn * q
  BY DEF Near
<1> HIDE DEF q
<1>4. Turn * q \in Int
  BY <1>1, <1>2
<1>5. Near(lon, ref) - lon = Turn * (-q)
  BY <1>1, <1>2, <1>3
<1>6. (Turn * (-q)) % Turn = 0
  BY <1>1, <1>2, MultipleMod
<1> QED
  BY <1>1, <1>2, <1>3, <1>4, <1>5, <1>6

\* Two longitudes of one meridian come to the same one near ref.
LEMMA NearSame ==
    ASSUME NEW x \in Int, NEW y \in Int, NEW ref \in Int, (x - y) % Turn = 0
    PROVE  Near(x, ref) = Near(y, ref)
<1>1. Turn \in Int /\ Turn > 0
  BY DrawingAssumption
<1> DEFINE c == (x - y) \div Turn
           p == Turns(x - ref)
           q == Turns(y - ref)
<1>2. c \in Int /\ x - y = Turn * c
  BY <1>1, DivIs
<1>3. /\ p \in Int /\ q \in Int
      /\ -Turn <= 2 * (x - ref - Turn * p) /\ 2 * (x - ref - Turn * p) < Turn
      /\ -Turn <= 2 * (y - ref - Turn * q) /\ 2 * (y - ref - Turn * q) < Turn
  BY TurnsNear
<1>4. Near(x, ref) = x - Turn * p /\ Near(y, ref) = y - Turn * q
  BY DEF Near
<1> HIDE DEF c, p, q
<1>5. Turn * c \in Int /\ Turn * p \in Int /\ Turn * q \in Int
  BY <1>1, <1>2, <1>3
<1>6. Turn * (c - p + q) = Turn * c - Turn * p + Turn * q
  BY <1>1, <1>2, <1>3
<1>7. -Turn < Turn * (c - p + q) /\ Turn * (c - p + q) < Turn
  BY <1>1, <1>2, <1>3, <1>5, <1>6
<1>8. c - p + q = 0
  BY <1>1, <1>2, <1>3, <1>7, SmallMultiple
<1>9. p = c + q
  BY <1>2, <1>3, <1>8
<1>10. Turn * p = Turn * c + Turn * q
  BY <1>1, <1>2, <1>3, <1>9
<1> QED
  BY <1>2, <1>4, <1>5, <1>10

LEMMA NearExact ==
    ASSUME NEW lon \in Int, NEW ref \in Int, (lon - ref) % Turn = 0
    PROVE  Near(lon, ref) = ref
<1>1. Turn \in Int /\ Turn > 0
  BY DrawingAssumption
<1>2. Near(lon, ref) = Near(ref, ref)
  BY NearSame
<1> DEFINE q == Turns(ref - ref)
<1>3. /\ q \in Int /\ Near(ref, ref) = ref - Turn * q
      /\ -Turn <= 2 * (ref - ref - Turn * q) /\ 2 * (ref - ref - Turn * q) < Turn
  BY TurnsNear DEF Near
<1> HIDE DEF q
<1>4. Turn * q \in Int
  BY <1>1, <1>3
<1>5. -Turn < Turn * q /\ Turn * q < Turn
  BY <1>1, <1>3, <1>4
<1>6. q = 0
  BY <1>1, <1>3, <1>5, SmallMultiple
<1> QED
  BY <1>1, <1>2, <1>3, <1>6

Point == Int \X Int

\* unwrapPath(): each point near the one before it, the first near ref.
LEMMA Unwrapped ==
    ASSUME NEW path \in Seq(Point), NEW ref \in Int
    PROVE  LET u == unwrapPath(path, ref)
           IN  /\ u \in Seq(Point) /\ Len(u) = Len(path)
               /\ \A i \in 1..Len(path) :
                     u[i] = <<Near(path[i][1], IF i = 1 THEN ref ELSE u[i - 1][1]),
                              path[i][2]>>
<1> DEFINE n == Len(path)
           lon == CHOOSE lon : lon = [i \in 0..n |->
                     IF i = 0 THEN ref
                     ELSE path[i][1] - Turn * Turns(path[i][1] - lon[i - 1])]
           G == [p \in (0..n) \X Int |->
                     IF p[1] = 0 THEN ref ELSE Near(path[p[1]][1], p[2])]
           u == [i \in 1..n |-> <<lon[i], path[i][2]>>]
<1>1. n \in Nat /\ \A i \in 1..n : path[i][1] \in Int /\ path[i][2] \in Int
  BY DEF Point
<1>2. ASSUME NEW i \in 0..n, NEW v \in Int
      PROVE  /\ G[<<i, v>>] =
                  IF i = 0 THEN ref ELSE path[i][1] - Turn * Turns(path[i][1] - v)
             /\ G[<<i, v>>] \in Int
  <2>1. G[<<i, v>>] = IF i = 0 THEN ref ELSE Near(path[i][1], v)
    OBVIOUS
  <2>2. ASSUME i # 0 PROVE Near(path[i][1], v) \in Int
    <3>1. path[i][1] \in Int
      BY <1>1, <2>2
    <3> QED
      BY <3>1, NearIs
  <2> HIDE DEF G
  <2> QED
    BY <2>1, <2>2 DEF Near
<1>3. PICK f \in [0..n -> Int] : Recurses(f, 0, n, ref, G)
  <2> HIDE DEF G, n
  <2> QED
    BY <1>1, <1>2, RecursionHasValue
<1> HIDE DEF G
<1>4. f = [i \in 0..n |-> IF i = 0 THEN ref
                 ELSE path[i][1] - Turn * Turns(path[i][1] - f[i - 1])]
  <2>1. \A i \in 0..n : i # 0 => i - 1 \in 0..n /\ f[i - 1] \in Int
    BY <1>1
  <2> QED
    BY <1>2, <1>3, <2>1 DEF Recurses
<1>5. lon = [i \in 0..n |-> IF i = 0 THEN ref
                 ELSE path[i][1] - Turn * Turns(path[i][1] - lon[i - 1])]
  BY <1>4
<1>6. unwrapPath(path, ref) = u
  BY DEF unwrapPath
<1> HIDE DEF lon, n
<1>7. lon[0] = ref
  BY <1>1, <1>5
<1>8. ASSUME NEW i \in 1..n PROVE lon[i] = Near(path[i][1], lon[i - 1])
  <2>1. i \in 0..n /\ i # 0
    OBVIOUS
  <2> QED
    BY <1>5, <2>1 DEF Near
<1>9. \A i \in 0..n : lon[i] \in Int
  <2> DEFINE S == {i \in Nat : lon[i] \in Int}
  <2>1. 0 \in S
    BY <1>7
  <2>2. ASSUME NEW k \in 0..n, k \in S, k < n PROVE k + 1 \in S
    <3>1. k + 1 \in 1..n /\ k + 1 \in Nat /\ (k + 1) - 1 = k
      BY <1>1, <2>2
    <3>2. lon[k] \in Int /\ path[k + 1][1] \in Int
      BY <1>1, <2>2, <3>1
    <3>3. lon[k + 1] = Near(path[k + 1][1], lon[k])
      BY <1>8, <3>1
    <3>4. lon[k + 1] \in Int
      BY <3>2, <3>3, NearIs
    <3> QED
      BY <3>1, <3>4
  <2> HIDE DEF S
  <2>3. \A k \in 0..n : k \in S
    BY <1>1, <2>1, <2>2, Stepwise
  <2> QED
    BY <2>3 DEF S
<1>10. u \in Seq(Point) /\ Len(u) = n
  <2>1. ASSUME NEW i \in 1..n PROVE <<lon[i], path[i][2]>> \in Point
    <3>1. i \in 0..n
      OBVIOUS
    <3> QED
      BY <1>1, <1>9, <3>1 DEF Point
  <2>2. u \in [1..n -> Point]
    BY <2>1
  <2> HIDE DEF Point, u
  <2>3. n \in Nat
    BY <1>1
  <2> QED
    BY ONLY <2>2, <2>3, FunctionIsSeq
<1>11. ASSUME NEW i \in 1..n
       PROVE  u[i] = <<Near(path[i][1], IF i = 1 THEN ref ELSE u[i - 1][1]), path[i][2]>>
  <2>1. u[i] = <<Near(path[i][1], lon[i - 1]), path[i][2]>>
    BY <1>8
  <2>2. CASE i = 1
    BY <1>7, <2>1, <2>2
  <2>3. CASE i # 1
    <3>1. i - 1 \in 1..n
      BY <1>1, <2>3
    <3>2. u[i - 1][1] = lon[i - 1]
      BY <3>1
    <3> QED
      BY <2>1, <2>3, <3>2
  <2> QED
    BY <2>2, <2>3
<1> HIDE DEF u
<1> QED
  BY <1>6, <1>10, <1>11 DEF n

\* Lines, segments: paths that are not empty.
Paths == Seq(Point) \ {<<>>}

LEMMA PathEnds ==
    ASSUME NEW p \in Paths
    PROVE  /\ Len(p) \in Nat \ {0} /\ p[1] \in Point /\ Last(p) = p[Len(p)] /\ Last(p) \in Point
           /\ Tail(p) \in Seq(Point) /\ Len(Tail(p)) = Len(p) - 1
           /\ \A k \in 1..Len(Tail(p)) : Tail(p)[k] = p[k + 1]
<1>1. p \in Seq(Point) /\ p # <<>>
  BY DEF Paths
<1>2. Len(p) \in Nat \ {0}
  BY <1>1, EmptySeq
<1> QED
  BY <1>1, <1>2 DEF Last

LEMMA SameItself == ASSUME NEW p \in Point PROVE SamePoint(p, p)
<1>1. Turn \in Int /\ Turn > 0 /\ Turn * 0 = 0
  BY DrawingAssumption
<1>2. 0 % Turn = 0
  BY <1>1, MultipleMod
<1>3. p[1] - p[1] = 0
  BY DEF Point
<1> QED
  BY <1>2, <1>3 DEF SamePoint

\* The parts follow one another along the path; what is before the first is on
\* the meridian of the source.
Starts(start, parts, path, from) ==
    /\ \A k \in 1..start[1] : (path[k][1] - from.lon) % Turn = 0
    /\ \A i \in 1..Len(parts) : LiesAt(parts[i].path, path, start[i])
    /\ \A i \in 2..Len(parts) : start[i] - start[i - 1] - Len(parts[i - 1].path) \in {-1, 0}

\* What trace() takes for the segments of a route is chained as they are.
LEMMA SegmentsAre ==
    ASSUME NEW r, NEW m, IsRoute(r, m.from)
    PROVE  LET s == Segments(r, m)
           IN  /\ Len(s) \in Nat \ {0} /\ s \in Seq(Range(s))
               /\ \A i \in 1..Len(s) : s[i].path \in Paths
               /\ \A i \in 2..Len(s) :
                     /\ s[i].from = s[i - 1].to
                     /\ SamePoint(s[i].path[1], Last(s[i - 1].path))
               /\ \E start \in [1..Len(s) -> Nat] : Starts(start, s, r.path, m.from)
<1> DEFINE s == Segments(r, m)
<1>1. CASE r.segments # <<>>
  <2>1. s = r.segments
    BY <1>1 DEF Segments
  <2>2. Len(s) \in Nat \ {0} /\ s \in Seq(Range(s))
    BY <1>1, <2>1, EmptySeq DEF IsRoute
  <2>3. \A i \in 1..Len(s) : s[i].path \in Paths
    BY <2>1 DEF IsRoute, Paths, Point
  <2>4. \A i \in 2..Len(s) :
           /\ s[i].from = s[i - 1].to
           /\ SamePoint(s[i].path[1], Last(s[i - 1].path))
    BY <2>1 DEF IsRoute
  <2>5. PICK start \in [1..Len(s) -> 0..Len(r.path)] : Starts(start, s, r.path, m.from)
    BY <1>1, <2>1 DEF IsRoute, Starts
  <2>6. start \in [1..Len(s) -> Nat]
    OBVIOUS
  <2> QED
    BY <2>2, <2>3, <2>4, <2>5, <2>6
<1>2. CASE r.segments = <<>>
  <2> DEFINE one == [kind |-> "estimate", from |-> m.from.name, to |-> m.to.name,
                     path |-> r.path]
  <2>1. s = <<one>>
    BY <1>2 DEF Segments
  <2>2. Len(s) = 1 /\ s[1] = one /\ s \in Seq(Range(s))
    BY <2>1 DEF Range
  <2>3. one.path = r.path /\ r.path \in Paths
    BY DEF IsRoute, Paths, Point
  <2> HIDE DEF one, s
  <2>4. \A i \in 1..Len(s) : s[i].path \in Paths
    BY <2>2, <2>3
  <2>5. LiesAt(r.path, r.path, 0)
    <3>1. Len(r.path) \in Nat /\ \A k \in 1..Len(r.path) : r.path[k] \in Point
      BY <2>3 DEF Paths
    <3>2. \A k \in 1..Len(r.path) : SamePoint(r.path[k], r.path[0 + k])
      BY <3>1, SameItself
    <3> QED
      BY <3>1, <3>2 DEF LiesAt
  <2> DEFINE start == [i \in 1..Len(s) |-> 0]
  <2>6. start \in [1..Len(s) -> Nat] /\ Starts(start, s, r.path, m.from)
    <3>1. start[1] = 0 /\ 2..Len(s) = {} /\ 1..0 = {} /\ 1..Len(s) = {1}
      BY <2>2
    <3>2. s[1].path = r.path
      BY <2>2, <2>3
    <3> QED
      BY <2>5, <3>1, <3>2 DEF Starts
  <2>7. Len(s) \in Nat \ {0} /\ 2..Len(s) = {}
    BY <2>2
  <2> HIDE DEF start
  <2> QED
    BY <2>2, <2>4, <2>6, <2>7 DEF s
<1> QED
  BY <1>1, <1>2

\* Each line goes on where the one before it ends.
LEMMA LinesAre ==
    ASSUME NEW r, NEW m, IsRoute(r, m.from)
    PROVE  LET s == Segments(r, m)
               lines == Lines(r, m)
           IN  /\ Len(lines) = Len(s) /\ lines \in Seq(Range(lines))
               /\ \A i \in 1..Len(s) :
                     /\ lines[i].path \in Paths /\ Len(lines[i].path) = Len(s[i].path)
                     /\ lines[i].path =
                           unwrapPath(s[i].path, IF i = 1 THEN m.from.lon
                                                 ELSE Last(lines[i - 1].path)[1])
<1> DEFINE s == Segments(r, m)
           n == Len(s)
           base == unwrapPath(s[1].path, m.from.lon)
           path == CHOOSE path : path = [i \in 1..n |->
                      unwrapPath(s[i].path, IF i = 1 THEN m.from.lon
                                            ELSE Last(path[i - 1])[1])]
           G == [p \in (1..n) \X Paths |->
                    IF p[1] = 1 THEN base
                    ELSE unwrapPath(s[p[1]].path, Last(p[2])[1])]
           lines == [i \in 1..n |-> [kind |-> s[i].kind, path |-> path[i]]]
<1>1. n \in Nat \ {0} /\ \A i \in 1..n : s[i].path \in Paths
  BY SegmentsAre
<1>2. m.from.lon \in Int
  BY DEF IsRoute
<1>3. ASSUME NEW p \in Paths, NEW ref \in Int
      PROVE  unwrapPath(p, ref) \in Paths /\ Len(unwrapPath(p, ref)) = Len(p)
  <2>1. p \in Seq(Point) /\ Len(p) # 0
    BY PathEnds DEF Paths
  <2>2. unwrapPath(p, ref) \in Seq(Point) /\ Len(unwrapPath(p, ref)) = Len(p)
    BY <2>1, Unwrapped
  <2>3. unwrapPath(p, ref) # <<>>
    BY <2>1, <2>2
  <2> QED
    BY <2>2, <2>3 DEF Paths
<1>4. Lines(r, m) = lines
  BY DEF Lines
<1> HIDE DEF s
<1>5. base \in Paths
  BY <1>1, <1>2, <1>3
<1>6. ASSUME NEW i \in 1..n, NEW v \in Paths
      PROVE  /\ G[<<i, v>>] = IF i = 1 THEN base ELSE unwrapPath(s[i].path, Last(v)[1])
             /\ G[<<i, v>>] \in Paths
  <2>1. Last(v)[1] \in Int
    BY PathEnds DEF Point
  <2>2. unwrapPath(s[i].path, Last(v)[1]) \in Paths
    BY <1>1, <1>3, <2>1
  <2>3. G[<<i, v>>] = IF i = 1 THEN base ELSE unwrapPath(s[i].path, Last(v)[1])
    OBVIOUS
  <2> HIDE DEF G, base
  <2> QED
    BY <1>5, <2>2, <2>3
<1> HIDE DEF G
<1>7. PICK f \in [1..n -> Paths] : Recurses(f, 1, n, base, G)
  <2> HIDE DEF base, n
  <2> QED
    BY <1>1, <1>5, <1>6, RecursionHasValue
<1>8. f = [i \in 1..n |-> unwrapPath(s[i].path, IF i = 1 THEN m.from.lon
                                               ELSE Last(f[i - 1])[1])]
  <2>1. \A i \in 1..n : i # 1 => i - 1 \in 1..n /\ f[i - 1] \in Paths
    BY <1>1
  <2>2. ASSUME NEW i \in 1..n
        PROVE  (IF i = 1 THEN base ELSE G[<<i, f[i - 1]>>]) =
                  unwrapPath(s[i].path, IF i = 1 THEN m.from.lon ELSE Last(f[i - 1])[1])
    <3>1. CASE i = 1
      BY <3>1
    <3>2. CASE i # 1
      BY <1>6, <2>1, <3>2
    <3> QED
      BY <3>1, <3>2
  <2> HIDE DEF base, n
  <2> QED
    BY <1>7, <2>2 DEF Recurses
<1>9. path = [i \in 1..n |-> unwrapPath(s[i].path, IF i = 1 THEN m.from.lon
                                                  ELSE Last(path[i - 1])[1])]
  <2> HIDE DEF n
  <2> QED
    BY <1>8, Zenon
<1> HIDE DEF path
<1>10. \A i \in 1..n : path[i] \in Paths
  <2> DEFINE S == {i \in Nat : path[i] \in Paths}
  <2>1. 1 \in S
    <3>1. path[1] = base /\ 1 \in Nat
      BY <1>1, <1>9
    <3> QED
      BY <1>5, <3>1
  <2>2. ASSUME NEW k \in 1..n, k \in S, k < n PROVE k + 1 \in S
    <3>1. k + 1 \in 1..n /\ k + 1 # 1 /\ (k + 1) - 1 = k /\ k + 1 \in Nat
      BY <1>1, <2>2
    <3>2. Last(path[k])[1] \in Int
      BY <2>2, PathEnds DEF Point
    <3>3. path[k + 1] = unwrapPath(s[k + 1].path, Last(path[k])[1])
      BY <1>9, <3>1
    <3>4. path[k + 1] \in Paths
      BY <1>1, <1>3, <3>1, <3>2, <3>3
    <3> QED
      BY <3>1, <3>4
  <2> HIDE DEF S
  <2>3. \A k \in 1..n : k \in S
    BY <1>1, <2>1, <2>2, Stepwise
  <2> QED
    BY <2>3 DEF S
<1>11. Len(lines) = n /\ lines \in Seq(Range(lines))
       /\ \A i \in 1..n : lines[i].path = path[i]
  BY <1>1 DEF Range
<1>12. ASSUME NEW i \in 1..n
       PROVE  /\ lines[i].path \in Paths /\ Len(lines[i].path) = Len(s[i].path)
              /\ lines[i].path =
                    unwrapPath(s[i].path, IF i = 1 THEN m.from.lon
                                          ELSE Last(lines[i - 1].path)[1])
  <2>1. lines[i].path = path[i] /\ path[i] \in Paths
    BY <1>10, <1>11
  <2>2. i # 1 => i - 1 \in 1..n /\ lines[i - 1].path = path[i - 1]
    BY <1>1, <1>11
  <2>3. path[i] = unwrapPath(s[i].path, IF i = 1 THEN m.from.lon ELSE Last(path[i - 1])[1])
    BY <1>9
  <2>4. (IF i = 1 THEN m.from.lon ELSE Last(path[i - 1])[1]) \in Int
    <3>1. i # 1 => Last(path[i - 1])[1] \in Int
      BY <1>10, <2>2, PathEnds DEF Point
    <3> QED
      BY <1>2, <3>1
  <2>5. Len(path[i]) = Len(s[i].path)
    BY <1>1, <1>3, <2>3, <2>4
  <2> HIDE DEF lines
  <2> QED
    BY <2>1, <2>2, <2>3, <2>5
<1> HIDE DEF lines
<1> QED
  BY <1>4, <1>11, <1>12 DEF s

LEMMA SameMeridian ==
    ASSUME NEW x \in Int, NEW y \in Int, NEW z \in Int, (x - y) % Turn = 0
    PROVE  /\ (y - x) % Turn = 0
           /\ (y - z) % Turn = 0 => (x - z) % Turn = 0
<1>1. Turn \in Int /\ Turn > 0
  BY DrawingAssumption
<1> DEFINE c == (x - y) \div Turn
           d == (y - z) \div Turn
<1>2. c \in Int /\ x - y = Turn * c
  BY <1>1, DivIs
<1>3. d \in Int /\ ((y - z) % Turn = 0 => y - z = Turn * d)
  BY <1>1, DivIs
<1> HIDE DEF c, d
<1>4. y - x = Turn * (-c) /\ -c \in Int
  BY <1>1, <1>2
<1>5. ASSUME (y - z) % Turn = 0 PROVE (x - z) % Turn = 0
  <2>1. y - z = Turn * d
    BY <1>3, <1>5
  <2>2. Turn * c \in Int /\ Turn * d \in Int /\ Turn * (c + d) = Turn * c + Turn * d
    BY <1>1, <1>2, <1>3
  <2>3. x - z = Turn * (c + d) /\ c + d \in Int
    BY <1>2, <1>3, <2>1, <2>2
  <2>4. (Turn * (c + d)) % Turn = 0
    BY <1>1, <2>3, MultipleMod
  <2> QED
    BY <2>3, <2>4, Zenon
<1>6. (y - x) % Turn = 0
  <2>1. (Turn * (-c)) % Turn = 0
    BY <1>1, <1>4, MultipleMod
  <2> QED
    BY <1>4, <2>1, Zenon
<1> QED
  BY <1>5, <1>6

\* What unwrapping does to a path: the points stay, no longitude is more than
\* half a turn from the one before, and a path that begins where the reference is
\* begins there.
LEMMA UnwrappedPath ==
    ASSUME NEW p \in Paths, NEW ref \in Int
    PROVE  LET u == unwrapPath(p, ref)
           IN  /\ u \in Paths /\ Len(u) = Len(p)
               /\ \A k \in 1..Len(p) :
                     u[k] = <<Near(p[k][1], IF k = 1 THEN ref ELSE u[k - 1][1]), p[k][2]>>
               /\ \A k \in 1..Len(p) : SamePoint(u[k], p[k])
               /\ \A k \in 2..Len(p) : 2 * (u[k][1] - u[k - 1][1]) \in -Turn..Turn
               /\ \A q \in Point : q[1] = ref /\ SamePoint(p[1], q) => u[1] = q
<1> DEFINE u == unwrapPath(p, ref)
<1>1. p \in Seq(Point) /\ Len(p) \in Nat \ {0}
  BY PathEnds DEF Paths
<1>2. u \in Seq(Point) /\ Len(u) = Len(p)
  BY <1>1, Unwrapped
<1>3. ASSUME NEW k \in 1..Len(p)
      PROVE  u[k] = <<Near(p[k][1], IF k = 1 THEN ref ELSE u[k - 1][1]), p[k][2]>>
  BY <1>1, Unwrapped
<1> HIDE DEF u
<1>4. ASSUME NEW k \in 1..Len(p)
      PROVE  /\ p[k][1] \in Int /\ u[k][1] \in Int
             /\ (IF k = 1 THEN ref ELSE u[k - 1][1]) \in Int
  <2>1. p[k] \in Point /\ u[k] \in Point
    BY <1>1, <1>2
  <2>2. k # 1 => u[k - 1] \in Point
    BY <1>1, <1>2
  <2> QED
    BY <2>1, <2>2 DEF Point
<1>5. u \in Paths
  BY <1>1, <1>2 DEF Paths
<1>6. ASSUME NEW k \in 1..Len(p)
      PROVE  /\ SamePoint(u[k], p[k])
             /\ k # 1 => 2 * (u[k][1] - u[k - 1][1]) \in -Turn..Turn
  <2> DEFINE prev == IF k = 1 THEN ref ELSE u[k - 1][1]
  <2>1. u[k] = <<Near(p[k][1], prev), p[k][2]>>
    BY <1>3
  <2>2. p[k][1] \in Int /\ prev \in Int /\ (k # 1 => prev = u[k - 1][1])
    BY <1>4
  <2> HIDE DEF prev
  <2>3. /\ 2 * (Near(p[k][1], prev) - prev) \in -Turn..Turn
        /\ (Near(p[k][1], prev) - p[k][1]) % Turn = 0
    BY <2>2, NearIs
  <2>4. u[k][1] = Near(p[k][1], prev) /\ u[k][2] = p[k][2]
    BY <2>1
  <2>5. SamePoint(u[k], p[k])
    BY <2>3, <2>4, Zenon DEF SamePoint
  <2>6. k # 1 => 2 * (u[k][1] - u[k - 1][1]) \in -Turn..Turn
    BY <2>2, <2>3, <2>4, Zenon
  <2> QED
    BY <2>5, <2>6
<1>7. ASSUME NEW k \in 2..Len(p) PROVE 2 * (u[k][1] - u[k - 1][1]) \in -Turn..Turn
  <2>1. k \in 1..Len(p) /\ k # 1
    BY <1>1
  <2> QED
    BY <1>6, <2>1
<1>8. ASSUME NEW q \in Point, q[1] = ref, SamePoint(p[1], q) PROVE u[1] = q
  <2>1. 1 \in 1..Len(p)
    BY <1>1
  <2>2. Near(p[1][1], ref) = ref /\ p[1][2] = q[2]
    BY <1>4, <1>8, <2>1, NearExact DEF SamePoint
  <2>3. u[1] = <<ref, q[2]>>
    BY <1>3, <2>1, <2>2
  <2> QED
    BY <1>8, <2>3 DEF Point
<1> QED
  BY <1>2, <1>3, <1>5, <1>6, <1>7, <1>8 DEF u

\* One path goes along another one, from a point on.
Along(u, w, d) == \A k \in 1..Len(u) : u[k] = w[d + k]
Begins(u, w, d) == u[1] = w[d + 1]
SamePoints(p, q, d) ==
    d + Len(p) <= Len(q) /\ \A k \in 2..Len(p) : SamePoint(p[k], q[d + k])

\* Two paths with the same points, unwrapped apart, that begin at one longitude.
LEMMA UnwrappedAlike ==
    ASSUME NEW p \in Paths, NEW a \in Int, NEW q \in Paths, NEW b \in Int,
           NEW d \in Nat, SamePoints(p, q, d),
           Begins(unwrapPath(p, a), unwrapPath(q, b), d)
    PROVE  Along(unwrapPath(p, a), unwrapPath(q, b), d)
<1> DEFINE u == unwrapPath(p, a)
           w == unwrapPath(q, b)
           S == {k \in Nat : u[k] = w[d + k]}
<1>1. /\ Len(p) \in Nat \ {0} /\ Len(q) \in Nat \ {0}
      /\ d + Len(p) <= Len(q) /\ \A k \in 2..Len(p) : SamePoint(p[k], q[d + k])
  BY PathEnds DEF SamePoints
<1>2. 1 \in S
  BY DEF Begins
<1>3. ASSUME NEW k \in 1..Len(p), k \in S, k < Len(p) PROVE k + 1 \in S
  <2>1. /\ k + 1 \in 2..Len(p) /\ k + 1 \in 1..Len(p) /\ k + 1 # 1 /\ (k + 1) - 1 = k
        /\ d + (k + 1) \in 1..Len(q) /\ d + (k + 1) # 1
        /\ (d + (k + 1)) - 1 = d + k /\ k \in 1..Len(p) /\ k + 1 \in Nat
    BY <1>1, <1>3
  <2>2. u[k + 1] = <<Near(p[k + 1][1], u[k][1]), p[k + 1][2]>>
    BY <2>1, UnwrappedPath
  <2>3. w[d + (k + 1)] = <<Near(q[d + (k + 1)][1], w[d + k][1]), q[d + (k + 1)][2]>>
    <3> HIDE DEF u
    <3> QED
      BY <2>1, UnwrappedPath
  <2>4. u[k] = w[d + k]
    BY <1>3
  <2>5. p[k + 1] \in Point /\ q[d + (k + 1)] \in Point /\ u[k] \in Point
    <3>1. u \in Paths /\ Len(u) = Len(p)
      BY UnwrappedPath
    <3> HIDE DEF u
    <3> QED
      BY <2>1, <3>1 DEF Paths
  <2> HIDE DEF u, w
  <2>6. SamePoint(p[k + 1], q[d + (k + 1)])
    BY <1>1, <2>1
  <2>7. Near(p[k + 1][1], u[k][1]) = Near(q[d + (k + 1)][1], u[k][1])
    <3>1. (p[k + 1][1] - q[d + (k + 1)][1]) % Turn = 0
      BY <2>6, Zenon DEF SamePoint
    <3>2. p[k + 1][1] \in Int /\ q[d + (k + 1)][1] \in Int /\ u[k][1] \in Int
      BY <2>5 DEF Point
    <3> QED
      BY <3>1, <3>2, NearSame
  <2>8. u[k + 1] = w[d + (k + 1)]
    BY <2>2, <2>3, <2>4, <2>6, <2>7 DEF SamePoint
  <2> QED
    BY <2>1, <2>8
<1> HIDE DEF S
<1>4. \A k \in 1..Len(p) : k \in S
  BY <1>1, <1>2, <1>3, Stepwise
<1>5. Len(u) = Len(p)
  BY UnwrappedPath
<1> QED
  BY <1>4, <1>5 DEF S, Along

\* A line begins where the one before it ends.
LEMMA LinesMeet ==
    ASSUME NEW r, NEW m, IsRoute(r, m.from), NEW i \in 2..Len(Segments(r, m))
    PROVE  Lines(r, m)[i].path[1] = Last(Lines(r, m)[i - 1].path)
<1> DEFINE s == Segments(r, m)
           lines == Lines(r, m)
           before == lines[i - 1].path
           q == Last(before)
           e == Last(s[i - 1].path)
<1>1. Len(s) \in Nat \ {0} /\ i \in 1..Len(s) /\ i - 1 \in 1..Len(s) /\ i # 1
  BY SegmentsAre
<1>2. /\ s[i].path \in Paths /\ s[i - 1].path \in Paths
      /\ SamePoint(s[i].path[1], e)
  BY <1>1, SegmentsAre
<1>3. /\ before \in Paths /\ Len(before) = Len(s[i - 1].path)
      /\ lines[i].path = unwrapPath(s[i].path, q[1])
      /\ before = unwrapPath(s[i - 1].path, IF i - 1 = 1 THEN m.from.lon
                                            ELSE Last(lines[(i - 1) - 1].path)[1])
  BY <1>1, LinesAre
<1>4. (IF i - 1 = 1 THEN m.from.lon ELSE Last(lines[(i - 1) - 1].path)[1]) \in Int
  <2>1. m.from.lon \in Int
    BY DEF IsRoute
  <2>2. ASSUME i - 1 # 1 PROVE Last(lines[(i - 1) - 1].path)[1] \in Int
    <3>1. (i - 1) - 1 \in 1..Len(s)
      BY <1>1, <2>2
    <3>2. lines[(i - 1) - 1].path \in Paths
      BY <3>1, LinesAre
    <3> QED
      BY <3>2, PathEnds DEF Point
  <2> QED
    BY <2>1, <2>2
<1> HIDE DEF s, lines
<1>5. SamePoint(q, e)
  <2> DEFINE ref == IF i - 1 = 1 THEN m.from.lon ELSE Last(lines[(i - 1) - 1].path)[1]
  <2>1. ref \in Int /\ before = unwrapPath(s[i - 1].path, ref)
    BY <1>3, <1>4
  <2> HIDE DEF ref
  <2>2. \A k \in 1..Len(before) : SamePoint(before[k], s[i - 1].path[k])
    BY <1>2, <1>3, <2>1, UnwrappedPath
  <2>3. /\ q = before[Len(before)] /\ Len(before) \in Nat \ {0}
        /\ e = s[i - 1].path[Len(before)]
    BY <1>2, <1>3, PathEnds
  <2>4. Len(before) \in 1..Len(before)
    BY <2>3
  <2> QED
    BY <2>2, <2>3, <2>4
<1>6. q \in Point /\ e \in Point /\ s[i].path[1] \in Point
  BY <1>2, <1>3, PathEnds
<1>7. SamePoint(s[i].path[1], q)
  <2>1. /\ q[1] \in Int /\ e[1] \in Int /\ s[i].path[1][1] \in Int
    BY <1>6 DEF Point
  <2>2. (q[1] - e[1]) % Turn = 0 /\ (s[i].path[1][1] - e[1]) % Turn = 0
    BY <1>2, <1>5, Zenon DEF SamePoint
  <2>3. (e[1] - q[1]) % Turn = 0
    BY <2>1, <2>2, SameMeridian
  <2>4. (s[i].path[1][1] - q[1]) % Turn = 0
    BY <2>1, <2>2, <2>3, SameMeridian
  <2>5. s[i].path[1][2] = q[2]
    BY <1>2, <1>5, Zenon DEF SamePoint
  <2> QED
    BY <2>4, <2>5, Zenon DEF SamePoint
<1>8. q[1] \in Int
  BY <1>6 DEF Point
<1>9. unwrapPath(s[i].path, q[1])[1] = q
  BY <1>2, <1>6, <1>7, <1>8, UnwrappedPath
<1> QED
  BY <1>3, <1>9 DEF s, lines

\* The path that is unwrapped as a whole stays on the meridian of the source as
\* long as its points are.
LEMMA PathBegins ==
    ASSUME NEW p \in Paths, NEW ref \in Int, NEW a \in Nat, a < Len(p),
           \A k \in 1..a : (p[k][1] - ref) % Turn = 0
    PROVE  (IF a = 0 THEN ref ELSE unwrapPath(p, ref)[a][1]) = ref
<1> DEFINE u == unwrapPath(p, ref)
           S == {k \in Nat : k = 0 \/ u[k][1] = ref}
<1>1. Len(p) \in Nat \ {0}
  BY PathEnds
<1>2. 0 \in S
  OBVIOUS
<1>3. \A k \in 1..Len(p) :
         u[k] = <<Near(p[k][1], IF k = 1 THEN ref ELSE u[k - 1][1]), p[k][2]>>
  BY UnwrappedPath
<1> HIDE DEF u
<1>4. ASSUME NEW k \in 0..a, k \in S, k < a PROVE k + 1 \in S
  <2>1. k + 1 \in 1..a /\ k + 1 \in 1..Len(p) /\ (k + 1) - 1 = k /\ k + 1 \in Nat
        /\ (k + 1 = 1 <=> k = 0)
    BY <1>1, <1>4
  <2>2. u[k + 1] = <<Near(p[k + 1][1], IF k + 1 = 1 THEN ref ELSE u[(k + 1) - 1][1]),
                     p[k + 1][2]>>
    BY <1>3, <2>1
  <2>3. (IF k + 1 = 1 THEN ref ELSE u[(k + 1) - 1][1]) = ref
    BY <1>4, <2>1
  <2>4. p[k + 1][1] \in Int
    <3>1. p[k + 1] \in Point
      BY <2>1 DEF Paths
    <3> QED
      BY <3>1 DEF Point
  <2>5. Near(p[k + 1][1], ref) = ref
    BY <2>1, <2>4, NearExact
  <2>6. u[k + 1][1] = ref
    BY <2>2, <2>3, <2>5
  <2> QED
    BY <2>1, <2>6
<1> HIDE DEF S
<1>5. \A k \in 0..a : k \in S
  BY <1>2, <1>4, Stepwise
<1>6. a \in S
  BY <1>5
<1> QED
  BY <1>6 DEF S, u

\* A part of a path.
LEMMA PointsAlong ==
    ASSUME NEW all \in Paths, NEW w \in Paths, NEW a \in Nat,
           a + Len(all) <= Len(w), Along(all, w, a)
    PROVE  all \in SubSeqs(w)
<1>1. /\ all \in Seq(Point) /\ w \in Seq(Point) /\ Len(all) \in Nat /\ Len(w) \in Nat
  BY PathEnds DEF Paths
<1>2. a \in 0..Len(w) /\ a + Len(all) \in 0..Len(w)
  BY <1>1
<1> DEFINE part == SubSeq(w, a + 1, a + Len(all))
<1>3. part \in Seq(Point) /\ Len(part) = Len(all) /\ \A k \in 1..Len(all) : part[k] = w[a + k]
  <2>1. a + 1 \in 1..(Len(w) + 1) /\ a + Len(all) \in 0..Len(w)
    BY <1>1
  <2>2. \A k \in 1..Len(all) : (a + 1) + k - 1 = a + k
    OBVIOUS
  <2> QED
    BY <1>1, <2>1, <2>2, SubSeqProperties
<1>4. all = part
  <2> HIDE DEF part
  <2> QED
    BY <1>1, <1>3 DEF Along
<1> QED
  <2> DEFINE T == 0..Len(w)
             e == a + Len(all)
  <2>1. a \in T /\ e \in T /\ all = SubSeq(w, a + 1, e)
    BY <1>2, <1>4
  <2> HIDE DEF T, e, part
  <2>2. all \in {SubSeq(w, i + 1, j) : i, j \in T}
    BY <2>1
  <2> QED
    BY <2>2 DEF SubSeqs, T

\* A line that begins on the path, where the path may be written twice, at d and
\* at d + 1.
LEMMA BeginsAgain ==
    ASSUME NEW p \in Paths, NEW ref \in Int, NEW q \in Paths, NEW d \in Nat \ {0},
           d + 1 <= Len(p), SamePoint(q[1], p[d + 1]),
           unwrapPath(q, unwrapPath(p, ref)[d][1])[1] = unwrapPath(p, ref)[d]
    PROVE  unwrapPath(p, ref)[d + 1] = unwrapPath(p, ref)[d]
<1> DEFINE w == unwrapPath(p, ref)
           lon == w[d][1]
           l == unwrapPath(q, lon)
<1>1. /\ d \in 1..Len(p) /\ d + 1 \in 1..Len(p) /\ d + 1 # 1 /\ (d + 1) - 1 = d
      /\ 1 \in 1..Len(q)
  BY PathEnds
<1>2. w \in Paths /\ Len(w) = Len(p)
  BY UnwrappedPath
<1>3. w[d + 1] = <<Near(p[d + 1][1], lon), p[d + 1][2]>>
  <2>1. w[d + 1] = <<Near(p[d + 1][1], IF d + 1 = 1 THEN ref ELSE w[(d + 1) - 1][1]),
                     p[d + 1][2]>>
    BY <1>1, UnwrappedPath
  <2> HIDE DEF w
  <2> QED
    BY <1>1, <2>1
<1>4. lon \in Int /\ p[d + 1][1] \in Int /\ q[1][1] \in Int
  <2> HIDE DEF w
  <2>1. q[1] \in Point
    BY PathEnds
  <2>2. \A v \in Paths : \A k \in 1..Len(v) : v[k] \in Point
    BY ONLY DEF Paths
  <2>3. p[d + 1] \in Point
    BY ONLY <1>1, <2>2, p \in Paths
  <2>4. w[d] \in Point
    BY ONLY <1>1, <1>2, <2>2
  <2> QED
    BY <2>1, <2>3, <2>4 DEF Point
<1>5. l[1] = w[d]
  OBVIOUS
<1> HIDE DEF w
<1>6. l[1] = <<Near(q[1][1], lon), q[1][2]>>
  <2> HIDE DEF lon
  <2> QED
    BY <1>1, <1>4, UnwrappedPath
<1> HIDE DEF lon, l
<1>7. Near(q[1][1], lon) = Near(p[d + 1][1], lon) /\ q[1][2] = p[d + 1][2]
  <2>1. (q[1][1] - p[d + 1][1]) % Turn = 0 /\ q[1][2] = p[d + 1][2]
    BY Zenon DEF SamePoint
  <2> QED
    BY <1>4, <2>1, NearSame
<1> QED
  BY <1>3, <1>5, <1>6, <1>7 DEF w

\* A line that begins on the path goes along it.
LEMMA LineAlong ==
    ASSUME NEW p \in Paths, NEW ref \in Int, NEW q \in Paths, NEW lon \in Int, NEW d \in Nat,
           LiesAt(q, p, d), Begins(unwrapPath(q, lon), unwrapPath(p, ref), d)
    PROVE  LET l == unwrapPath(q, lon)
               w == unwrapPath(p, ref)
           IN  /\ Along(l, w, d) /\ l \in SubSeqs(w)
               /\ d + Len(q) \in 1..Len(p) /\ Last(l) = w[d + Len(q)]
<1> DEFINE l == unwrapPath(q, lon)
           w == unwrapPath(p, ref)
<1>1. /\ d + Len(q) <= Len(p) /\ \A k \in 1..Len(q) : SamePoint(q[k], p[d + k])
      /\ Len(q) \in Nat \ {0} /\ Len(p) \in Nat \ {0}
  BY PathEnds DEF LiesAt
<1>2. SamePoints(q, p, d)
  BY <1>1 DEF SamePoints
<1>3. Along(l, w, d)
  BY <1>2, UnwrappedAlike
<1>4. l \in Paths /\ Len(l) = Len(q) /\ w \in Paths /\ Len(w) = Len(p)
  BY UnwrappedPath
<1> HIDE DEF l, w
<1>5. l \in SubSeqs(w)
  BY <1>1, <1>3, <1>4, PointsAlong
<1>6. Last(l) = w[d + Len(q)]
  <2>1. Last(l) = l[Len(l)] /\ Len(l) \in 1..Len(l)
    BY <1>1, <1>4, PathEnds
  <2> QED
    BY <1>3, <1>4, <2>1 DEF Along
<1> QED
  BY <1>1, <1>3, <1>5, <1>6 DEF l, w

\* The lines of a route lie on the path that is unwrapped as a whole.
LEMMA LinesLie ==
    ASSUME NEW r, NEW m, IsRoute(r, m.from), NEW i \in 1..Len(Lines(r, m))
    PROVE  Lines(r, m)[i].path \in SubSeqs(Path(r, m))
<1> DEFINE s == Segments(r, m)
           lines == Lines(r, m)
           n == Len(s)
           p == r.path
           ref == m.from.lon
           w == unwrapPath(p, ref)
           b(j) == IF j = 1 THEN ref ELSE Last(lines[j - 1].path)[1]
<1>1. n \in Nat \ {0} /\ \A j \in 1..n : s[j].path \in Paths
  BY SegmentsAre
<1>2. PICK start \in [1..n -> Nat] : Starts(start, s, p, m.from)
  BY SegmentsAre
<1>3. p \in Paths /\ ref \in Int /\ Path(r, m) = w
  BY DEF IsRoute, Paths, Point, Path
<1>4. Len(lines) = n
  BY LinesAre
<1>5. ASSUME NEW j \in 1..n
      PROVE  lines[j].path \in Paths /\ lines[j].path = unwrapPath(s[j].path, b(j))
  BY <1>1, LinesAre
<1>6. \A j \in 2..n : lines[j].path[1] = Last(lines[j - 1].path)
  BY LinesMeet
<1>7. /\ \A k \in 1..start[1] : (p[k][1] - ref) % Turn = 0
      /\ \A j \in 1..n : LiesAt(s[j].path, p, start[j])
      /\ \A j \in 2..n : start[j] - start[j - 1] - Len(s[j - 1].path) \in {-1, 0}
  BY <1>2 DEF Starts
<1>8. Len(p) \in Nat \ {0} /\ w \in Paths /\ Len(w) = Len(p)
  BY <1>3, PathEnds, UnwrappedPath
<1> HIDE DEF s, lines, p, ref, n
<1> DEFINE S == {j \in Nat : Begins(lines[j].path, w, start[j])}
<1>9. ASSUME NEW j \in 1..n PROVE b(j) \in Int
  <2>1. CASE j = 1
    BY <1>3, <2>1
  <2>2. CASE j # 1
    <3>1. j - 1 \in 1..n
      BY <1>1, <2>2
    <3>2. lines[j - 1].path \in Paths
      BY <1>5, <3>1
    <3> QED
      BY <2>2, <3>2, PathEnds DEF Point
  <2> QED
    BY <2>1, <2>2
<1>10. 1 \in S
  <2> DEFINE q == s[1].path
             a == start[1]
  <2>1. 1 \in 1..n /\ q \in Paths /\ a \in Nat /\ lines[1].path = unwrapPath(q, ref)
    BY <1>1, <1>5
  <2>2. a + Len(q) <= Len(p) /\ \A k \in 1..Len(q) : SamePoint(q[k], p[a + k])
    BY <1>7, <2>1 DEF LiesAt
  <2>3. Len(q) \in Nat \ {0} /\ q[1] \in Point
    BY <2>1, PathEnds
  <2>4. \A k \in 1..a : (p[k][1] - ref) % Turn = 0
    BY <1>7
  <2> HIDE DEF q, a
  <2>5. /\ a + 1 \in 1..Len(p) /\ a < Len(p) /\ (a + 1) - 1 = a /\ (a + 1 = 1 <=> a = 0)
        /\ 1 \in 1..Len(q)
    BY <1>8, <2>1, <2>2, <2>3
  <2>6. SamePoint(q[1], p[a + 1]) /\ p[a + 1] \in Point
    BY <1>3, <2>2, <2>5 DEF Paths
  <2>7. w[a + 1] = <<Near(p[a + 1][1], ref), p[a + 1][2]>>
    <3>1. (IF a = 0 THEN ref ELSE w[a][1]) = ref
      BY <1>3, <2>1, <2>4, <2>5, PathBegins
    <3>2. w[a + 1] = <<Near(p[a + 1][1], IF a + 1 = 1 THEN ref ELSE w[(a + 1) - 1][1]),
                       p[a + 1][2]>>
      BY <1>3, <2>5, UnwrappedPath
    <3> HIDE DEF w
    <3> QED
      BY <2>5, <3>1, <3>2
  <2>8. lines[1].path[1] = <<Near(q[1][1], ref), q[1][2]>>
    BY <1>3, <2>1, <2>5, UnwrappedPath
  <2>9. Near(q[1][1], ref) = Near(p[a + 1][1], ref) /\ q[1][2] = p[a + 1][2]
    <3>1. (q[1][1] - p[a + 1][1]) % Turn = 0 /\ q[1][2] = p[a + 1][2]
      BY <2>6, Zenon DEF SamePoint
    <3>2. q[1][1] \in Int /\ p[a + 1][1] \in Int
      BY <2>3, <2>6 DEF Point
    <3> QED
      BY <1>3, <3>1, <3>2, NearSame
  <2> HIDE DEF w
  <2> QED
    BY <2>7, <2>8, <2>9 DEF Begins, a
<1>11. ASSUME NEW j \in 1..n, j \in S, j < n PROVE j + 1 \in S
  <2> DEFINE i1 == j + 1
             q == s[j].path
             next == s[i1].path
             d == start[j] + Len(q)
  <2>1. i1 \in 1..n /\ i1 - 1 = j /\ i1 \in 2..n /\ i1 # 1 /\ i1 \in Nat
    BY <1>1, <1>11
  <2>2. q \in Paths /\ next \in Paths /\ start[j] \in Nat /\ start[i1] \in Nat /\ Len(q) \in Nat
    BY <1>1, <2>1, PathEnds
  <2>3. d \in 1..Len(p) /\ Last(lines[j].path) = w[d]
    <3> DEFINE lon == b(j)
               x == start[j]
               l == lines[j].path
    <3>1. lon \in Int /\ l = unwrapPath(q, lon) /\ LiesAt(q, p, x)
      BY <1>5, <1>7, <1>9
    <3>2. Begins(l, unwrapPath(p, ref), x)
      BY <1>11
    <3>3. q \in Paths /\ x \in Nat /\ p \in Paths /\ ref \in Int
      BY <1>3, <2>2
    <3> HIDE DEF lon, q, x, l
    <3>4. Begins(unwrapPath(q, lon), unwrapPath(p, ref), x)
      BY <3>1, <3>2
    <3>5. x + Len(q) \in 1..Len(p) /\ Last(unwrapPath(q, lon)) = unwrapPath(p, ref)[x + Len(q)]
      BY ONLY <3>1, <3>3, <3>4, LineAlong
    <3>6. x + Len(q) \in 1..Len(p) /\ Last(l) = unwrapPath(p, ref)[x + Len(q)]
      BY <3>1, <3>5
    <3> QED
      BY <3>6 DEF l, x, q
  <2>4. lines[i1].path[1] = w[d] /\ lines[i1].path = unwrapPath(next, w[d][1])
    <3>1. lines[i1].path[1] = Last(lines[j].path)
      BY <1>6, <2>1
    <3>2. lines[i1].path = unwrapPath(next, b(i1)) /\ b(i1) = Last(lines[j].path)[1]
      BY <1>5, <2>1
    <3> HIDE DEF b, w, d, next
    <3> QED
      BY <2>3, <3>1, <3>2
  <2>5. start[i1] - start[j] - Len(q) \in {-1, 0} /\ LiesAt(next, p, start[i1])
    BY <1>7, <2>1
  <2> DEFINE gap == start[i1] - start[j] - Len(q)
  <2>6. start[i1] = d + gap /\ d \in Nat \ {0}
    <3> DEFINE x == start[j]
               y == start[i1]
               z == Len(q)
    <3>1. x \in Nat /\ y \in Nat /\ z \in Nat
      BY <2>2
    <3>2. x + z \in 1..Len(p)
      BY <2>3
    <3> HIDE DEF x, y, z
    <3>3. y = (x + z) + (y - x - z) /\ x + z \in Nat \ {0}
      BY <1>8, <3>1, <3>2
    <3> QED
      BY <3>3 DEF x, y, z
  <2>7. gap \in {-1, 0}
    BY <2>5
  <2> HIDE DEF gap
  <2>8. CASE gap = -1
    <3>1. start[i1] + 1 = d
      <4> HIDE DEF d
      <4> QED
        BY <2>6, <2>8
    <3> HIDE DEF w, d
    <3> QED
      BY <2>1, <2>4, <3>1 DEF Begins
  <2>9. CASE gap = 0
    <3>1. start[i1] = d /\ d \in Nat \ {0}
      <4> HIDE DEF d
      <4> QED
        BY <2>6, <2>9
    <3>2. Len(next) \in Nat \ {0}
      BY <2>2, PathEnds
    <3> HIDE DEF d, next
    <3>3. d + 1 <= Len(p) /\ SamePoint(next[1], p[d + 1])
      BY <1>8, <2>5, <3>1, <3>2 DEF LiesAt
    <3>4. unwrapPath(next, unwrapPath(p, ref)[d][1])[1] = unwrapPath(p, ref)[d]
      <4> DEFINE l == lines[i1].path
      <4>1. l[1] = w[d] /\ l = unwrapPath(next, w[d][1])
        BY <2>4
      <4> HIDE DEF l
      <4> QED
        BY ONLY <4>1
    <3>5. p \in Paths /\ ref \in Int /\ next \in Paths /\ d \in Nat \ {0}
      BY <1>3, <2>2, <3>1 DEF next
    <3>6. w[d + 1] = w[d]
      BY ONLY <3>3, <3>4, <3>5, BeginsAgain
    <3> HIDE DEF w
    <3> QED
      BY <2>1, <2>4, <3>1, <3>6 DEF Begins
  <2> QED
    BY <2>7, <2>8, <2>9
<1> HIDE DEF S
<1>12. \A j \in 1..n : j \in S
  BY <1>1, <1>10, <1>11, Stepwise
<1>13. i \in 1..n
  BY <1>4 DEF lines
<1>14. Begins(lines[i].path, w, start[i])
  BY <1>12, <1>13 DEF S
<1>15. lines[i].path \in SubSeqs(w)
  <2> DEFINE q == s[i].path
             lon == b(i)
             d == start[i]
             l == lines[i].path
  <2>1. /\ q \in Paths /\ lon \in Int /\ l = unwrapPath(q, lon)
        /\ LiesAt(q, p, d) /\ d \in Nat
    BY <1>1, <1>5, <1>7, <1>9, <1>13
  <2>2. p \in Paths /\ ref \in Int /\ Begins(l, unwrapPath(p, ref), d)
    BY <1>3, <1>14
  <2> HIDE DEF q, lon, d, l
  <2>3. Begins(unwrapPath(q, lon), unwrapPath(p, ref), d)
    BY ONLY <2>1, <2>2
  <2>4. unwrapPath(q, lon) \in SubSeqs(unwrapPath(p, ref))
    BY ONLY <2>1, <2>2, <2>3, LineAlong
  <2>5. l \in SubSeqs(unwrapPath(p, ref))
    BY ONLY <2>1, <2>4
  <2> QED
    BY <2>5 DEF l
<1> QED
  BY <1>3, <1>15 DEF lines

\* The parts of LinesJoin, of any route.
LEMMA RouteJoins ==
    ASSUME NEW r, NEW m, IsRoute(r, m.from)
    PROVE  LET lines == Lines(r, m)
               path  == Path(r, m)
           IN  /\ \A i \in 1..Len(lines) : \A k \in 1..Len(lines[i].path) :
                     SamePoint(lines[i].path[k], Segments(r, m)[i].path[k])
               /\ \A i \in 2..Len(lines) : lines[i].path[1] = Last(lines[i - 1].path)
               /\ \A k \in 2..Len(path) : 2 * (path[k][1] - path[k - 1][1]) \in -Turn..Turn
               /\ \A i \in 1..Len(lines) : lines[i].path \in SubSeqs(path)
<1> DEFINE s == Segments(r, m)
           lines == Lines(r, m)
           n == Len(s)
           b(i) == IF i = 1 THEN m.from.lon ELSE Last(lines[i - 1].path)[1]
<1>1. n \in Nat \ {0} /\ \A i \in 1..n : s[i].path \in Paths
  BY SegmentsAre
<1>2. Len(lines) = n
  BY LinesAre
<1>3. ASSUME NEW i \in 1..n
      PROVE  /\ lines[i].path \in Paths /\ Len(lines[i].path) = Len(s[i].path)
             /\ lines[i].path = unwrapPath(s[i].path, b(i))
  BY <1>1, LinesAre
<1>4. ASSUME NEW i \in 2..n PROVE lines[i].path[1] = Last(lines[i - 1].path)
  BY LinesMeet
<1>5. m.from.lon \in Int /\ r.path \in Paths /\ Path(r, m) = unwrapPath(r.path, m.from.lon)
  BY DEF IsRoute, Paths, Point, Path
<1>6. ASSUME NEW i \in 1..n PROVE b(i) \in Int
  <2>1. CASE i = 1
    BY <1>5, <2>1
  <2>2. CASE i # 1
    <3>1. i - 1 \in 1..n
      BY <1>1, <2>2
    <3>2. lines[i - 1].path \in Paths
      BY <1>3, <3>1
    <3> QED
      BY <2>2, <3>2, PathEnds DEF Point
  <2> QED
    BY <2>1, <2>2
<1> HIDE DEF s, lines, b
<1>7. ASSUME NEW i \in 1..n, NEW k \in 1..Len(lines[i].path)
      PROVE  SamePoint(lines[i].path[k], s[i].path[k])
  <2> DEFINE bi == b(i)
             p == s[i].path
  <2>1. bi \in Int /\ p \in Paths /\ lines[i].path = unwrapPath(p, bi) /\ k \in 1..Len(p)
    BY <1>1, <1>3, <1>6
  <2> HIDE DEF bi, p
  <2>2. SamePoint(unwrapPath(p, bi)[k], p[k])
    BY <2>1, UnwrappedPath
  <2> QED
    BY <2>1, <2>2 DEF p
<1>8. /\ Path(r, m) \in Paths
      /\ \A k \in 2..Len(Path(r, m)) :
            2 * (Path(r, m)[k][1] - Path(r, m)[k - 1][1]) \in -Turn..Turn
  BY <1>5, UnwrappedPath
<1>9. \A i \in 1..Len(lines) : lines[i].path \in SubSeqs(Path(r, m))
  BY LinesLie DEF lines
<1> QED
  BY <1>2, <1>4, <1>7, <1>8, <1>9 DEF s, lines

LEMMA CandidatesAre ==
    ASSUME NEW answer
    PROVE  /\ answer # <<>> /\ answer[1].valid => Len(candidates(answer)) \in 1..3
           /\ ~(answer # <<>> /\ answer[1].valid) => candidates(answer) = <<>>
           /\ DOMAIN candidates(answer) = 1..Len(candidates(answer))
<1> DEFINE alt(i) == IF i \in 1..Len(answer) /\ answer[i].valid THEN <<answer[i]>> ELSE <<>>
           x == answer[1]
<1>1. candidates(answer) = IF answer = <<>> \/ ~answer[1].valid THEN <<>>
                           ELSE <<answer[1]>> \o alt(2) \o alt(3)
  BY DEF candidates
<1>2. alt(2) \in Seq({answer[2]}) /\ Len(alt(2)) \in 0..1
  <2>1. <<answer[2]>> \in Seq({answer[2]}) /\ Len(<<answer[2]>>) = 1
    OBVIOUS
  <2>2. <<>> \in Seq({answer[2]}) /\ Len(<<>>) = 0
    OBVIOUS
  <2>3. alt(2) = <<answer[2]>> \/ alt(2) = <<>>
    OBVIOUS
  <2> QED
    BY <2>1, <2>2, <2>3, 0 \in 0..1, 1 \in 0..1, Zenon
<1>3. alt(3) \in Seq({answer[3]}) /\ Len(alt(3)) \in 0..1
  <2>1. <<answer[3]>> \in Seq({answer[3]}) /\ Len(<<answer[3]>>) = 1
    OBVIOUS
  <2>2. <<>> \in Seq({answer[3]}) /\ Len(<<>>) = 0
    OBVIOUS
  <2>3. alt(3) = <<answer[3]>> \/ alt(3) = <<>>
    OBVIOUS
  <2> QED
    BY <2>1, <2>2, <2>3, 0 \in 0..1, 1 \in 0..1, Zenon
<1> DEFINE S == {answer[1], answer[2], answer[3]}
           u == alt(2)
           v == alt(3)
<1>4. u \in Seq(S) /\ v \in Seq(S) /\ <<x>> \in Seq(S) /\ Len(<<x>>) = 1
      /\ Len(u) \in 0..1 /\ Len(v) \in 0..1
  BY <1>2, <1>3
<1> HIDE DEF S, u, v, x
<1>5. Len(<<x>> \o u \o v) \in 1..3
  <2>1. <<x>> \o u \in Seq(S) /\ Len(<<x>> \o u) = 1 + Len(u)
    BY <1>4
  <2>2. Len((<<x>> \o u) \o v) = 1 + Len(u) + Len(v)
    BY <1>4, <2>1
  <2> DEFINE c == (<<x>> \o u) \o v
             i == Len(u)
             j == Len(v)
  <2>3. i \in 0..1 /\ j \in 0..1 /\ Len(c) = 1 + i + j
    BY <1>4, <2>2
  <2> HIDE DEF i, j, c
  <2>4. Len(c) \in 1..3
    BY <2>3
  <2> QED
    BY <2>4 DEF c
<1>6. DOMAIN (<<x>> \o u \o v) = 1..Len(<<x>> \o u \o v)
  <2>1. (<<x>> \o u) \o v \in Seq(S)
    BY <1>4
  <2> QED
    BY <2>1
<1>7. DOMAIN <<>> = 1..Len(<<>>)
  OBVIOUS
<1> QED
  BY <1>1, <1>5, <1>6, <1>7 DEF u, v, x

\* The route on the map is one that a lookup brought, with one of its candidates
\* selected.
Shown == manual = NoRoute \/ manual \in Pictures

LEMMA PicturesAre ==
    /\ \A l \in Lookups : Picture(l, 1) \in Pictures
    /\ \A m \in Pictures : m.active \in 1..Len(candidates(m.answer))
    /\ \A m \in Pictures : \A i \in 1..3 :
          i \in 1..Len(candidates(m.answer)) => [m EXCEPT !.active = i] \in Pictures
<1>1. ASSUME NEW l \in Lookups PROVE Picture(l, 1) \in Pictures
  <2>1. Len(candidates(AnswerOf(l))) \in 1..3
    <3>1. CASE candidates(l.answer) = <<>>
      <4>1. AnswerOf(l) = <<Estimate>>
        BY <3>1 DEF AnswerOf
      <4>2. <<Estimate>> # <<>> /\ <<Estimate>>[1].valid
        BY WorkspaceAssumption
      <4> QED
        BY <4>1, <4>2, CandidatesAre
    <3>2. CASE candidates(l.answer) # <<>>
      <4>1. AnswerOf(l) = l.answer
        BY <3>2 DEF AnswerOf
      <4> QED
        BY <3>2, <4>1, CandidatesAre
    <3> QED
      BY <3>1, <3>2
  <2>2. <<l, 1>> \in {q \in Lookups \X (1..3) : q[2] <= Len(candidates(AnswerOf(q[1])))}
    <3>1. 1 <= Len(candidates(AnswerOf(l)))
      BY <2>1
    <3> QED
      BY <3>1
  <2> QED
    BY <2>2 DEF Pictures
<1>2. ASSUME NEW m \in Pictures
      PROVE  \E l \in Lookups : /\ m = Picture(l, m.active) /\ m.answer = AnswerOf(l)
                                /\ m.active \in 1..3
                                /\ m.active <= Len(candidates(m.answer))
  <2>1. PICK p \in Lookups \X (1..3) :
            m = Picture(p[1], p[2]) /\ p[2] <= Len(candidates(AnswerOf(p[1])))
    BY DEF Pictures
  <2> QED
    BY <2>1 DEF Picture
<1>3. ASSUME NEW m \in Pictures PROVE m.active \in 1..Len(candidates(m.answer))
  <2>1. m.active \in 1..3 /\ m.active <= Len(candidates(m.answer))
    BY <1>2
  <2>2. Len(candidates(m.answer)) \in Int
    <3>1. candidates(m.answer) = <<>> \/ Len(candidates(m.answer)) \in 1..3
      BY CandidatesAre
    <3> QED
      BY <3>1
  <2> QED
    BY <2>1, <2>2
<1>4. ASSUME NEW m \in Pictures, NEW i \in 1..3, i \in 1..Len(candidates(m.answer))
      PROVE  [m EXCEPT !.active = i] \in Pictures
  <2>1. PICK l \in Lookups : m = Picture(l, m.active) /\ m.answer = AnswerOf(l)
    BY <1>2
  <2>2. [m EXCEPT !.active = i] = Picture(l, i)
    BY <2>1 DEF Picture
  <2>3. i <= Len(candidates(AnswerOf(l)))
    BY <1>4, <2>1
  <2>4. <<l, i>> \in {q \in Lookups \X (1..3) : q[2] <= Len(candidates(AnswerOf(q[1])))}
    BY <2>3
  <2> QED
    BY <2>2, <2>4 DEF Pictures
<1> QED
  BY <1>1, <1>3, <1>4

\* No step draws anything else.
LEMMA StepShown == Shown /\ [WorkspaceNext]_workspaceVars => Shown'
<1>1. SUFFICES ASSUME Shown, [WorkspaceNext]_workspaceVars PROVE Shown'
  OBVIOUS
<1>2. manual' = manual => Shown'
  BY <1>1 DEF Shown
<1>3. ASSUME NEW l \in Lookups, LookupEnds(l) PROVE Shown'
  BY <1>3, PicturesAre DEF LookupEnds, Draw, Shown
<1>4. ASSUME NEW i \in 1..3, Choose(i) PROVE Shown'
  BY <1>1, <1>4, PicturesAre DEF Choose, Draw, Shown
<1>5. CASE ShowLive
  BY <1>5 DEF ShowLive, Shown
<1>6. CASE FitRoutes
  BY <1>2, <1>6 DEF FitRoutes, Draw
<1>7. CASE Effects \/ MapLoads \/ FetchOk \/ FetchFails
  BY <1>2, <1>7 DEF Effects, MapLoads, FetchOk, FetchFails, panelVars
<1>8. ASSUME NEW next \in Tabs, ChangeMode(next) PROVE Shown'
  BY <1>2, <1>8 DEF ChangeMode
<1>9. ASSUME NEW c \in Cables \cup {NoCable}, SelectCable(c) \/ ClickCable(c) PROVE Shown'
  BY <1>2, <1>9 DEF SelectCable, ClickCable
<1>10. ASSUME NEW layer \in Layers, Toggle(layer) PROVE Shown'
  BY <1>2, <1>10 DEF Toggle
<1>11. CASE UNCHANGED workspaceVars
  BY <1>2, <1>11 DEF workspaceVars, panelVars
<1> QED
  BY <1>1, <1>3, <1>4, <1>5, <1>6, <1>7, <1>8, <1>9, <1>10, <1>11 DEF WorkspaceNext

\* What the map shows of a route is always the answer of a lookup.
THEOREM RouteIsShown == WorkspaceSpec => []Shown
<1>1. WorkspaceInit => Shown
  BY DEF WorkspaceInit, Shown
<1> QED
  BY <1>1, StepShown, PTL DEF WorkspaceSpec

LEMMA ShownJoins == Shown => LinesJoin
<1>1. SUFFICES ASSUME Shown, NEW r \in Drawn
               PROVE  IsRoute(r, manual.from)
  BY RouteJoins DEF LinesJoin
<1>2. manual \in Pictures /\ r \in Range(candidates(manual.answer))
  BY <1>1 DEF Drawn, Shown
<1> QED
  BY <1>2, AnswerAssumption

\* The lines of every route on the map join, and lie on its path, for any
\* answers of the resolver's shape and any size of the globe.
THEOREM LinesAreJoined == WorkspaceSpec => []LinesJoin
  BY RouteIsShown, ShownJoins, PTL

(***************************** places and stops ****************************)

EndsOf(r, m) == Range(Ends(r, m))

LEMMA EndsAre ==
    ASSUME NEW r, NEW m, IsRoute(r, m.from)
    PROVE  LET s    == Segments(r, m)
               ends == Ends(r, m)
           IN  /\ Len(ends) = 2 * Len(s) /\ Len(s) \in Nat \ {0} /\ ends \in Seq(EndsOf(r, m))
               /\ \A x \in 1..Len(ends) :
                     ends[x].label = IF x = 1 THEN s[1].from ELSE s[x \div 2].to
<1> DEFINE s == Segments(r, m)
           lines == Lines(r, m)
           n == Len(s)
           ends == [x \in 1..(2 * n) |->
                       LET i == (x + 1) \div 2
                       IN  IF x % 2 = 1
                           THEN [label |-> s[i].from, position |-> lines[i].path[1]]
                           ELSE [label |-> s[i].to, position |-> Last(lines[i].path)]]
<1>1. n \in Nat \ {0} /\ \A i \in 2..n : s[i].from = s[i - 1].to
  BY SegmentsAre
<1>2. Ends(r, m) = ends
  <2>1. Len(lines) = n
    BY LinesAre
  <2> QED
    BY <2>1 DEF Ends
<1> HIDE DEF s, lines
<1>3. Len(ends) = 2 * n /\ ends \in Seq(Range(ends))
  <2>1. ends = [x \in 1..(2 * n) |-> ends[x]]
    OBVIOUS
  <2> HIDE DEF ends
  <2> QED
    BY <1>1, <2>1 DEF Range
<1>4. ASSUME NEW x \in 1..(2 * n)
      PROVE  ends[x].label = IF x = 1 THEN s[1].from ELSE s[x \div 2].to
  <2>1. CASE x % 2 = 1
    <3>1. (x + 1) \div 2 = x \div 2 + 1 /\ (x = 1 => x \div 2 = 0)
      BY <1>1, <2>1
    <3>2. x # 1 => x \div 2 + 1 \in 2..n
      BY <1>1, <2>1
    <3>3. ends[x].label = s[x \div 2 + 1].from
      BY <2>1, <3>1
    <3>4. x # 1 => s[x \div 2 + 1].from = s[x \div 2].to
      <4>1. ASSUME x # 1 PROVE s[x \div 2 + 1].from = s[(x \div 2 + 1) - 1].to
        BY <1>1, <3>2, <4>1
      <4>2. (x \div 2 + 1) - 1 = x \div 2
        OBVIOUS
      <4> QED
        BY <4>1, <4>2
    <3> QED
      BY <3>1, <3>3, <3>4
  <2>2. CASE x % 2 # 1
    <3>1. (x + 1) \div 2 = x \div 2 /\ x # 1
      BY <2>2
    <3> QED
      BY <2>2, <3>1
  <2> QED
    BY <2>1, <2>2
<1> HIDE DEF ends
<1> QED
  BY <1>1, <1>2, <1>3, <1>4 DEF s, EndsOf

\* The places grow with the ends.
LEMMA PlacesAre ==
    ASSUME NEW r, NEW m, IsRoute(r, m.from)
    PROVE  LET ends == Ends(r, m)
           IN  \E f \in [0..Len(ends) -> Seq(EndsOf(r, m))] :
                  /\ f[0] = <<>>
                  /\ \A x \in 1..Len(ends) :
                        f[x] = IF IsPlace(ends[x], f[x - 1], r, m)
                               THEN Append(f[x - 1], ends[x]) ELSE f[x - 1]
                  /\ Places(r, m) = f[Len(ends)]
<1> DEFINE ends == Ends(r, m)
           n == Len(ends)
           T == Seq(EndsOf(r, m))
           next(x, v) == IF IsPlace(ends[x], v, r, m) THEN Append(v, ends[x]) ELSE v
           places == CHOOSE places : places = [x \in 0..n |->
                        IF x = 0 THEN <<>>
                        ELSE LET before == places[x - 1]
                             IN  IF IsPlace(ends[x], before, r, m)
                                 THEN Append(before, ends[x]) ELSE before]
           G == [p \in (0..n) \X T |-> IF p[1] = 0 THEN <<>> ELSE next(p[1], p[2])]
<1>1. n \in Nat /\ \A x \in 1..n : ends[x] \in EndsOf(r, m)
  BY EndsAre
<1>2. <<>> \in T
  OBVIOUS
<1>3. Places(r, m) = places[n]
  BY DEF Places
<1> HIDE DEF ends
<1>4. ASSUME NEW x \in 0..n, NEW v \in T
      PROVE  G[<<x, v>>] = (IF x = 0 THEN <<>> ELSE next(x, v)) /\ G[<<x, v>>] \in T
  <2>1. G[<<x, v>>] = IF x = 0 THEN <<>> ELSE next(x, v)
    OBVIOUS
  <2>2. x # 0 => Append(v, ends[x]) \in T
    BY <1>1
  <2> HIDE DEF T, G
  <2> QED
    BY <1>2, <2>1, <2>2
<1> HIDE DEF G, T
<1>5. PICK f \in [0..n -> T] : Recurses(f, 0, n, <<>>, G)
  <2> HIDE DEF n
  <2> QED
    BY <1>1, <1>2, <1>4, RecursionHasValue
<1>6. f = [x \in 0..n |-> IF x = 0 THEN <<>> ELSE next(x, f[x - 1])]
  <2>1. \A x \in 0..n : x # 0 => x - 1 \in 0..n /\ f[x - 1] \in T
    BY <1>1
  <2> HIDE DEF n, next
  <2> QED
    BY <1>4, <1>5, <2>1 DEF Recurses
<1>7. places = [x \in 0..n |-> IF x = 0 THEN <<>> ELSE next(x, places[x - 1])]
  <2> HIDE DEF n
  <2> QED
    BY <1>6, Zenon
<1> HIDE DEF places, next
<1>8. \A x \in 0..n : places[x] \in T
  <2> DEFINE S == {x \in Nat : places[x] \in T}
  <2>1. 0 \in S
    BY <1>1, <1>2, <1>7
  <2>2. ASSUME NEW x \in 0..n, x \in S, x < n PROVE x + 1 \in S
    <3>1. x + 1 \in 0..n /\ x + 1 # 0 /\ (x + 1) - 1 = x /\ x + 1 \in Nat
      BY <1>1, <2>2
    <3>2. places[x + 1] = next(x + 1, places[x])
      BY <1>7, <3>1
    <3>3. places[x] \in T
      BY <2>2
    <3>4. next(x + 1, places[x]) \in T
      BY <1>4, <3>1, <3>3
    <3> QED
      BY <3>1, <3>2, <3>4
  <2> HIDE DEF S
  <2>3. \A x \in 0..n : x \in S
    BY <1>1, <2>1, <2>2, Stepwise
  <2> QED
    BY <2>3 DEF S
<1>9. places[0] = <<>> /\ \A x \in 1..n : places[x] = next(x, places[x - 1])
  BY <1>1, <1>7
<1>10. places \in [0..n -> T]
  BY <1>7, <1>8
<1> HIDE DEF n
<1> QED
  BY <1>3, <1>9, <1>10 DEF next, T, n, ends

\* An end that addPlace() takes unless its label is taken.
Named(end, r, m) ==
    /\ end.label \notin {"", m.from.name, m.to.name}
    /\ ~isPathEndpoint(end.position, Path(r, m))

\* Which ends the places are: those at e, in their order, each name once, and
\* no name is missing.
Picked(places, e, x, r, m) ==
    LET ends == Ends(r, m)
    IN  /\ e \in [1..Len(places) -> 1..x]
        /\ \A i \in 1..Len(places) : places[i] = ends[e[i]] /\ Named(places[i], r, m)
        /\ \A i, j \in 1..Len(places) :
              i < j => e[i] < e[j] /\ places[i].label # places[j].label
        /\ \A y \in 1..x : Named(ends[y], r, m) =>
              \E i \in 1..Len(places) : places[i].label = ends[y].label

LEMMA PickOneMore ==
    ASSUME NEW r, NEW m, IsRoute(r, m.from), NEW x \in 1..Len(Ends(r, m)),
           NEW v \in Seq(EndsOf(r, m)), NEW e, Picked(v, e, x - 1, r, m),
           NEW w, w = IF IsPlace(Ends(r, m)[x], v, r, m) THEN Append(v, Ends(r, m)[x])
                      ELSE v
    PROVE  \E d : Picked(w, d, x, r, m)
<1> DEFINE end == Ends(r, m)[x]
<1>1. /\ IsPlace(end, v, r, m) <=>
            Named(end, r, m) /\ \A i \in 1..Len(v) : v[i].label # end.label
  BY Zenon DEF IsPlace, Named
<1>2. Len(Ends(r, m)) \in Nat /\ x \in 1..x /\ x \in Nat /\ 1..(x - 1) \subseteq 1..x
      /\ \A y \in 1..x : y = x \/ y \in 1..(x - 1)
  BY EndsAre
<1>3. /\ e \in [1..Len(v) -> 1..(x - 1)]
      /\ \A i \in 1..Len(v) : v[i] = Ends(r, m)[e[i]] /\ Named(v[i], r, m)
      /\ \A i, j \in 1..Len(v) : i < j => e[i] < e[j] /\ v[i].label # v[j].label
      /\ \A y \in 1..(x - 1) : Named(Ends(r, m)[y], r, m) =>
            \E i \in 1..Len(v) : v[i].label = Ends(r, m)[y].label
  BY DEF Picked
<1>4. CASE ~IsPlace(end, v, r, m)
  <2>1. w = v
    BY <1>4
  <2>2. Named(end, r, m) => \E i \in 1..Len(v) : v[i].label = end.label
    BY <1>1, <1>4
  <2>3. e \in [1..Len(v) -> 1..x]
    BY <1>2, <1>3
  <2>4. \A y \in 1..x : Named(Ends(r, m)[y], r, m) =>
            \E i \in 1..Len(v) : v[i].label = Ends(r, m)[y].label
    BY <1>2, <1>3, <2>2
  <2>5. Picked(v, e, x, r, m)
    BY <1>3, <2>3, <2>4 DEF Picked
  <2> QED
    BY <2>1, <2>5
<1>5. CASE IsPlace(end, v, r, m)
  <2> DEFINE l == Len(v)
             d == [i \in 1..(l + 1) |-> IF i = l + 1 THEN x ELSE e[i]]
  <2>1. /\ l \in Nat /\ w = Append(v, end) /\ Len(w) = l + 1 /\ w[l + 1] = end
        /\ \A i \in 1..l : w[i] = v[i]
    BY <1>5
  <2>2. \A i \in 1..(l + 1) : i = l + 1 \/ i \in 1..l
    BY <2>1
  <2>3. \A i \in 1..l : e[i] \in 1..(x - 1)
    BY <1>3
  <2>4. /\ d \in [1..(l + 1) -> 1..x] /\ d[l + 1] = x
        /\ \A i \in 1..l : d[i] = e[i]
    <3>1. \A i \in 1..(l + 1) : (IF i = l + 1 THEN x ELSE e[i]) \in 1..x
      BY <1>2, <2>2, <2>3
    <3> QED
      BY <2>1, <3>1
  <2> HIDE DEF d, l, end
  <2>5. Named(end, r, m) /\ \A i \in 1..l : v[i].label # end.label
    BY <1>1, <1>5 DEF l
  <2>6. \A i \in 1..(l + 1) : w[i] = Ends(r, m)[d[i]] /\ Named(w[i], r, m)
    <3>1. w[l + 1] = Ends(r, m)[d[l + 1]] /\ Named(w[l + 1], r, m)
      BY <2>1, <2>4, <2>5 DEF end
    <3>2. \A i \in 1..l : w[i] = Ends(r, m)[d[i]] /\ Named(w[i], r, m)
      BY <1>3, <2>1, <2>4 DEF l
    <3> QED
      BY <2>2, <3>1, <3>2
  <2>7. ASSUME NEW i \in 1..(l + 1), NEW j \in 1..(l + 1), i < j
        PROVE  d[i] < d[j] /\ w[i].label # w[j].label
    <3>1. i \in 1..l
      BY <2>1, <2>7
    <3>2. CASE j = l + 1
      <4>1. d[i] < d[j]
        BY <2>3, <2>4, <3>1, <3>2
      <4> QED
        BY <2>1, <2>5, <3>1, <3>2, <4>1
    <3>3. CASE j \in 1..l
      BY <1>3, <2>1, <2>4, <2>7, <3>1, <3>3 DEF l
    <3> QED
      BY <2>2, <3>2, <3>3
  <2>8. ASSUME NEW y \in 1..x, Named(Ends(r, m)[y], r, m)
        PROVE  \E i \in 1..(l + 1) : w[i].label = Ends(r, m)[y].label
    <3>1. CASE y = x
      <4>1. l + 1 \in 1..(l + 1)
        BY <2>1
      <4> QED
        BY <2>1, <3>1, <4>1 DEF end
    <3>2. CASE y \in 1..(x - 1)
      <4>1. PICK i \in 1..l : v[i].label = Ends(r, m)[y].label
        BY <1>3, <2>8, <3>2 DEF l
      <4>2. i \in 1..(l + 1) /\ w[i] = v[i]
        BY <2>1
      <4> QED
        BY <4>1, <4>2
    <3> QED
      BY <1>2, <3>1, <3>2
  <2>9. Picked(w, d, x, r, m)
    BY <2>1, <2>4, <2>6, <2>7, <2>8 DEF Picked
  <2> QED
    BY <2>9
<1> QED
  BY <1>4, <1>5

LEMMA PlacesPicked ==
    ASSUME NEW r, NEW m, IsRoute(r, m.from)
    PROVE  /\ Places(r, m) \in Seq(EndsOf(r, m))
           /\ \E e : Picked(Places(r, m), e, Len(Ends(r, m)), r, m)
<1> DEFINE ends == Ends(r, m)
           n == Len(ends)
<1>1. n \in Nat
  BY EndsAre
<1>2. PICK f \in [0..n -> Seq(EndsOf(r, m))] :
          /\ f[0] = <<>>
          /\ \A x \in 1..n :
                f[x] = IF IsPlace(ends[x], f[x - 1], r, m)
                       THEN Append(f[x - 1], ends[x]) ELSE f[x - 1]
          /\ Places(r, m) = f[n]
  BY PlacesAre
<1> DEFINE S == {x \in Nat : \E e : Picked(f[x], e, x, r, m)}
<1>3. 0 \in S
  <2>1. Picked(<<>>, <<>>, 0, r, m)
    BY DEF Picked
  <2> QED
    BY <1>2, <2>1
<1>4. ASSUME NEW k \in 0..n, k \in S, k < n PROVE k + 1 \in S
  <2>1. k + 1 \in 1..n /\ (k + 1) - 1 = k /\ k + 1 \in Nat
    BY <1>1, <1>4
  <2>2. PICK e : Picked(f[k], e, k, r, m)
    BY <1>4
  <2> DEFINE x == k + 1
             v == f[k]
             w == f[k + 1]
  <2>3. /\ x \in 1..Len(Ends(r, m)) /\ v \in Seq(EndsOf(r, m)) /\ Picked(v, e, x - 1, r, m)
        /\ w = IF IsPlace(Ends(r, m)[x], v, r, m) THEN Append(v, Ends(r, m)[x]) ELSE v
    BY <1>2, <2>1, <2>2
  <2> HIDE DEF x, v, w
  <2>4. \E d : Picked(w, d, x, r, m)
    BY <2>3, PickOneMore
  <2> QED
    BY <2>1, <2>4 DEF w, x
<1> HIDE DEF S, n
<1>5. \A x \in 0..n : x \in S
  BY <1>1, <1>3, <1>4, Stepwise
<1>6. n \in 0..n
  BY <1>1
<1> QED
  BY <1>2, <1>5, <1>6 DEF S, n

\* Where the route is after the first j segments.
Stop(s, j) == IF j = 0 THEN s[1].from ELSE s[j].to
StopsOf(s) == {Stop(s, j) : j \in 0..Len(s)}

LEMMA StopsRecur ==
    ASSUME NEW r, Len(r.segments) \in Nat \ {0}
    PROVE  LET s == r.segments
           IN  \E f \in [0..Len(s) -> Seq(StopsOf(s)) \ {<<>>}] :
                  /\ f[0] = <<Stop(s, 0)>>
                  /\ \A j \in 1..Len(s) :
                        f[j] = IF Last(f[j - 1]) = Stop(s, j) THEN f[j - 1]
                               ELSE Append(f[j - 1], Stop(s, j))
                  /\ routeStops(r) = f[Len(s)]
<1> DEFINE s == r.segments
           n == Len(s)
           T == Seq(StopsOf(s)) \ {<<>>}
           base == <<s[1].from>>
           next(j, v) == IF Last(v) = s[j].to THEN v ELSE Append(v, s[j].to)
           stops == CHOOSE stops : stops = [i \in 0..n |->
                       IF i = 0 THEN base
                       ELSE LET before == stops[i - 1]
                            IN  IF Last(before) = s[i].to THEN before
                                ELSE Append(before, s[i].to)]
           G == [p \in (0..n) \X T |-> IF p[1] = 0 THEN base ELSE next(p[1], p[2])]
<1>1. n \in Nat \ {0} /\ \A j \in 0..n : Stop(s, j) \in StopsOf(s)
  BY DEF StopsOf
<1>2. base \in T /\ base = <<Stop(s, 0)>>
  <2>1. base = <<Stop(s, 0)>> /\ Stop(s, 0) \in StopsOf(s)
    BY <1>1 DEF Stop
  <2> HIDE DEF base
  <2> QED
    BY <2>1
<1>3. routeStops(r) = stops[n]
  <2>1. s # <<>>
    BY <1>1
  <2> QED
    BY <2>1 DEF routeStops
<1> HIDE DEF s
<1>4. ASSUME NEW j \in 0..n, NEW v \in T
      PROVE  G[<<j, v>>] = (IF j = 0 THEN base ELSE next(j, v)) /\ G[<<j, v>>] \in T
  <2>1. G[<<j, v>>] = IF j = 0 THEN base ELSE next(j, v)
    OBVIOUS
  <2>2. j # 0 => Append(v, s[j].to) \in T
    <3>1. j # 0 => s[j].to \in StopsOf(s)
      BY <1>1 DEF Stop
    <3> HIDE DEF n
    <3> QED
      BY <3>1
  <2> HIDE DEF T, G, base
  <2> QED
    BY <1>2, <2>1, <2>2
<1> HIDE DEF G, T
<1>5. PICK f \in [0..n -> T] : Recurses(f, 0, n, base, G)
  <2> HIDE DEF n, base
  <2> QED
    BY <1>1, <1>2, <1>4, RecursionHasValue
<1> HIDE DEF base
<1>6. f = [j \in 0..n |-> IF j = 0 THEN base ELSE next(j, f[j - 1])]
  <2>1. \A j \in 0..n : j # 0 => j - 1 \in 0..n /\ f[j - 1] \in T
    BY <1>1
  <2> HIDE DEF n, next
  <2> QED
    BY <1>4, <1>5, <2>1 DEF Recurses
<1>7. stops = [j \in 0..n |-> IF j = 0 THEN base ELSE next(j, stops[j - 1])]
  <2> HIDE DEF n
  <2> QED
    BY <1>6, Zenon
<1> HIDE DEF stops, next
<1>8. \A j \in 0..n : stops[j] \in T
  <2> DEFINE S == {j \in Nat : stops[j] \in T}
  <2>1. 0 \in S
    BY <1>1, <1>2, <1>7
  <2>2. ASSUME NEW j \in 0..n, j \in S, j < n PROVE j + 1 \in S
    <3>1. j + 1 \in 0..n /\ j + 1 # 0 /\ (j + 1) - 1 = j /\ j + 1 \in Nat
      BY <1>1, <2>2
    <3>2. stops[j + 1] = next(j + 1, stops[j])
      BY <1>7, <3>1
    <3>3. stops[j] \in T
      BY <2>2
    <3>4. next(j + 1, stops[j]) \in T
      BY <1>4, <3>1, <3>3
    <3> QED
      BY <3>1, <3>2, <3>4
  <2> HIDE DEF S
  <2>3. \A j \in 0..n : j \in S
    BY <1>1, <2>1, <2>2, Stepwise
  <2> QED
    BY <2>3 DEF S
<1>9. stops[0] = base /\ \A j \in 1..n : stops[j] = next(j, stops[j - 1])
  BY <1>1, <1>7
<1>10. \A j \in 1..n : s[j].to = Stop(s, j)
  BY <1>1 DEF Stop
<1>11. stops \in [0..n -> T]
  BY <1>7, <1>8
<1> HIDE DEF n
<1> QED
  BY <1>2, <1>3, <1>9, <1>10, <1>11 DEF next, T, n, s

\* The panel's stops are those of the route in its order.
LEMMA StopsAre ==
    ASSUME NEW r, Len(r.segments) \in Nat \ {0}
    PROVE  LET s == r.segments
               stops == routeStops(r)
           IN  /\ Len(stops) \in Nat /\ DOMAIN stops = 1..Len(stops)
               /\ \A i \in 1..Len(stops) : stops[i] \in StopsOf(s)
               /\ \E at \in [0..Len(s) -> 1..Len(stops)] :
                     /\ \A j \in 0..Len(s) : stops[at[j]] = Stop(s, j)
                     /\ \A j, k \in 0..Len(s) : j <= k => at[j] <= at[k]
<1> DEFINE s == r.segments
           n == Len(s)
<1>1. PICK f \in [0..n -> Seq(StopsOf(s)) \ {<<>>}] :
          /\ f[0] = <<Stop(s, 0)>>
          /\ \A j \in 1..n : f[j] = IF Last(f[j - 1]) = Stop(s, j) THEN f[j - 1]
                                    ELSE Append(f[j - 1], Stop(s, j))
          /\ routeStops(r) = f[n]
  BY StopsRecur
<1>2. n \in Nat \ {0}
  OBVIOUS
<1> HIDE DEF s, n
<1>3. \A j \in 0..n : /\ f[j] \in Seq(StopsOf(s)) /\ Len(f[j]) \in Nat \ {0}
                      /\ Last(f[j]) = f[j][Len(f[j])]
  BY <1>1, EmptySeq DEF Last
<1>4. \A j \in 0..n : Last(f[j]) = Stop(s, j)
  <2>1. Last(f[0]) = Stop(s, 0)
    <3>1. Last(<<Stop(s, 0)>>) = Stop(s, 0)
      BY DEF Last
    <3> QED
      BY <1>1, <3>1
  <2>2. ASSUME NEW j \in 1..n PROVE Last(f[j]) = Stop(s, j)
    <3>1. f[j - 1] \in Seq(StopsOf(s)) /\ j \in 0..n
      BY <1>2, <1>3
    <3>2. CASE Last(f[j - 1]) = Stop(s, j)
      BY <1>1, <3>2
    <3>3. CASE Last(f[j - 1]) # Stop(s, j)
      <4>1. f[j] = Append(f[j - 1], Stop(s, j))
        BY <1>1, <3>3
      <4>2. \A v \in Seq(StopsOf(s)), x \in StopsOf(s) : Last(Append(v, x)) = x
        BY DEF Last
      <4>3. Stop(s, j) \in StopsOf(s)
        BY <3>1 DEF StopsOf, n
      <4> QED
        BY <3>1, <4>1, <4>2, <4>3
    <3> QED
      BY <3>2, <3>3
  <2> QED
    BY <1>2, <2>1, <2>2
<1> DEFINE StartsWith(u, w) == Len(u) <= Len(w) /\ \A i \in 1..Len(u) : w[i] = u[i]
<1>5. ASSUME NEW j \in 0..n PROVE \A k \in j..n : StartsWith(f[j], f[k])
  <2> DEFINE S == {k \in Nat : StartsWith(f[j], f[k])}
  <2>1. j \in S
    BY <1>3
  <2>2. ASSUME NEW k \in j..n, k \in S, k < n PROVE k + 1 \in S
    <3>1. k + 1 \in 1..n /\ (k + 1) - 1 = k /\ k \in 0..n /\ k + 1 \in Nat
      BY <1>2, <2>2
    <3> DEFINE u == f[j]
               v == f[k]
               w == f[k + 1]
               x == Stop(s, k + 1)
    <3>2. /\ v \in Seq(StopsOf(s)) /\ StartsWith(u, v) /\ Len(u) \in Nat
          /\ w = v \/ w = Append(v, x)
          /\ x \in StopsOf(s)
      <4>1. x \in StopsOf(s)
        BY <1>2, <3>1 DEF StopsOf, n
      <4> QED
        BY <1>1, <1>3, <2>2, <3>1, <4>1
    <3> HIDE DEF u, v, w, x
    <3>3. StartsWith(u, w)
      BY <3>2
    <3> QED
      BY <3>1, <3>3 DEF u, w
  <2> HIDE DEF S
  <2>3. \A k \in j..n : k \in S
    <3>1. j \in Nat
      BY <1>2
    <3> QED
      BY <1>2, <2>1, <2>2, <3>1, Stepwise
  <2> QED
    BY <2>3 DEF S
<1> DEFINE stops == f[n]
           at == [j \in 0..n |-> Len(f[j])]
<1>6. /\ stops \in Seq(StopsOf(s)) /\ Len(stops) \in Nat /\ DOMAIN stops = 1..Len(stops)
      /\ \A i \in 1..Len(stops) : stops[i] \in StopsOf(s)
  BY <1>2, <1>3
<1>7. ASSUME NEW j \in 0..n PROVE at[j] \in 1..Len(stops) /\ stops[at[j]] = Stop(s, j)
  <2>1. n \in j..n
    BY <1>2
  <2>2. StartsWith(f[j], f[n])
    BY <1>5, <2>1
  <2> QED
    BY <1>3, <1>4, <1>6, <2>2
<1>8. ASSUME NEW j \in 0..n, NEW k \in 0..n, j <= k PROVE at[j] <= at[k]
  <2>1. k \in j..n
    BY <1>2, <1>8
  <2> QED
    BY <1>5, <2>1
<1>9. at \in [0..n -> 1..Len(stops)]
  BY <1>7
<1> HIDE DEF at, stops, StartsWith
<1> QED
  BY <1>1, <1>6, <1>7, <1>8, <1>9 DEF stops, s, n

\* An estimate has no places.
LEMMA EstimateHasNone ==
    ASSUME NEW r, NEW m, IsRoute(r, m.from), r.segments = <<>>
    PROVE  Len(Places(r, m)) = 0 /\ routeStops(r) = <<>>
<1> DEFINE s == Segments(r, m)
<1>1. Len(s) = 1 /\ s[1].from = m.from.name /\ s[1].to = m.to.name
  BY DEF Segments
<1> HIDE DEF s
<1>2. /\ Len(Ends(r, m)) = 2
      /\ \A x \in 1..2 : Ends(r, m)[x].label = IF x = 1 THEN s[1].from ELSE s[x \div 2].to
  <2>1. Len(Ends(r, m)) = 2 * Len(s)
    BY EndsAre DEF s
  <2>2. Len(Ends(r, m)) = 2
    BY <1>1, <2>1
  <2> QED
    BY <2>2, EndsAre DEF s
<1>3. \A x \in 1..2 : Ends(r, m)[x].label \in {m.from.name, m.to.name}
  <2>1. Ends(r, m)[1].label = m.from.name
    BY <1>1, <1>2
  <2>2. Ends(r, m)[2].label = m.to.name
    BY <1>1, <1>2
  <2> QED
    BY <2>1, <2>2
<1>4. PICK e : Picked(Places(r, m), e, 2, r, m)
  BY <1>2, PlacesPicked
<1>5. ASSUME NEW i \in 1..Len(Places(r, m)) PROVE FALSE
  <2>1. e[i] \in 1..2 /\ Places(r, m)[i] = Ends(r, m)[e[i]] /\ Named(Places(r, m)[i], r, m)
    BY <1>4 DEF Picked
  <2>2. Places(r, m)[i].label \in {m.from.name, m.to.name}
    BY <1>3, <2>1
  <2>3. Places(r, m)[i].label \notin {"", m.from.name, m.to.name}
    BY <2>1, Zenon DEF Named
  <2> QED
    BY <2>2, <2>3, Zenon
<1>6. Len(Places(r, m)) \in Nat
  BY PlacesPicked
<1>7. Len(Places(r, m)) = 0
  BY <1>5, <1>6
<1> QED
  BY <1>7 DEF routeStops

\* A route with segments: an end of them is a stop of the panel.
LEMMA EndsAreStops ==
    ASSUME NEW r, NEW m, IsRoute(r, m.from), r.segments # <<>>
    PROVE  LET ends == Ends(r, m)
               stops == routeStops(r)
           IN  /\ \E at \in [1..Len(ends) -> 1..Len(stops)] :
                     /\ \A x \in 1..Len(ends) : stops[at[x]] = ends[x].label
                     /\ \A x, y \in 1..Len(ends) : x < y => at[x] <= at[y]
               /\ Len(stops) \in Nat /\ DOMAIN stops = 1..Len(stops)
               /\ Len(ends) \in Nat
<1> DEFINE s == r.segments
           n == Len(s)
           ends == Ends(r, m)
           stops == routeStops(r)
<1>1. /\ Segments(r, m) = s /\ Len(s) \in Nat \ {0} /\ Len(ends) = 2 * n
      /\ \A x \in 1..Len(ends) : ends[x].label = IF x = 1 THEN s[1].from ELSE s[x \div 2].to
  <2>1. Segments(r, m) = s
    BY DEF Segments
  <2> QED
    BY <2>1, EndsAre
<1>2. Len(stops) \in Nat /\ DOMAIN stops = 1..Len(stops)
  BY <1>1, StopsAre
<1>3. PICK f \in [0..n -> 1..Len(stops)] :
          /\ \A j \in 0..n : stops[f[j]] = Stop(s, j)
          /\ \A j, k \in 0..n : j <= k => f[j] <= f[k]
  BY <1>1, StopsAre
<1> HIDE DEF s, ends, stops, n
<1>4. ASSUME NEW x \in 1..(2 * n)
      PROVE  x \div 2 \in 0..n /\ ends[x].label = Stop(s, x \div 2)
  <2>1. n \in Nat /\ Len(ends) = 2 * n
    BY <1>1 DEF n
  <2>2. x \div 2 \in 0..n /\ (x = 1 <=> x \div 2 = 0)
    BY <2>1
  <2>3. ends[x].label = IF x = 1 THEN s[1].from ELSE s[x \div 2].to
    BY <1>1, <2>1
  <2> QED
    BY <2>2, <2>3 DEF Stop
<1> DEFINE at == [x \in 1..(2 * n) |-> f[x \div 2]]
<1>5. at \in [1..(2 * n) -> 1..Len(stops)]
  BY <1>3, <1>4
<1>6. \A x \in 1..(2 * n) : stops[at[x]] = ends[x].label
  BY <1>3, <1>4
<1>7. ASSUME NEW x \in 1..(2 * n), NEW y \in 1..(2 * n), x < y PROVE at[x] <= at[y]
  <2>1. n \in Nat
    BY <1>1 DEF n
  <2>2. x \div 2 <= y \div 2
    BY <1>7, <2>1
  <2>3. x \div 2 \in 0..n /\ y \div 2 \in 0..n
    BY <1>4
  <2> QED
    BY <1>3, <2>2, <2>3
<1> HIDE DEF at
<1>8. \E g \in [1..Len(ends) -> 1..Len(stops)] :
         /\ \A x \in 1..Len(ends) : stops[g[x]] = ends[x].label
         /\ \A x, y \in 1..Len(ends) : x < y => g[x] <= g[y]
  BY <1>1, <1>5, <1>6, <1>7
<1>9. Len(ends) \in Nat
  BY <1>1 DEF n
<1> QED
  BY <1>2, <1>8, <1>9 DEF ends, stops

LEMMA RouteStops ==
    ASSUME NEW r, NEW m, IsRoute(r, m.from)
    PROVE  LET places == Places(r, m)
               labels == [i \in 1..Len(places) |-> places[i].label]
               stops  == routeStops(r)
           IN  /\ IsInjective(labels) /\ InOrder(labels, stops)
               /\ Range(labels) = InnerStops(r, m)
<1> DEFINE places == Places(r, m)
           labels == [i \in 1..Len(places) |-> places[i].label]
           stops == routeStops(r)
           ends == Ends(r, m)
           l == Len(places)
<1>1. l \in Nat
  BY PlacesPicked
<1> HIDE DEF places, stops, ends
<1>2. Len(labels) = l /\ \A i \in 1..l : labels[i] = places[i].label
  BY <1>1
<1>3. Range(labels) = {places[i].label : i \in 1..l}
  BY DEF Range
<1>4. CASE r.segments = <<>>
  <2>1. l = 0 /\ stops = <<>>
    BY <1>4, EstimateHasNone DEF places, stops
  <2>2. 1..l = {} /\ Len(labels) = 0 /\ Len(stops) = 0 /\ Range(stops) = {}
    BY <1>2, <2>1 DEF Range
  <2>3. IsInjective(labels)
    BY <2>2 DEF IsInjective
  <2>4. Range(labels) = {} /\ InnerStops(r, m) = {}
    <3>1. Range(labels) = {}
      BY <1>3, <2>2
    <3>2. InnerStops(r, m) = {}
      BY <2>2, Zenon DEF InnerStops, stops
    <3> QED
      BY <3>1, <3>2
  <2> HIDE DEF labels, l
  <2>5. InOrder(labels, stops)
    <3>1. 1..Len(labels) = {} /\ [i \in {} |-> i] \in [1..Len(labels) -> 1..Len(stops)]
      BY <2>2
    <3> QED
      BY <3>1 DEF InOrder
  <2> QED
    BY <2>3, <2>4, <2>5 DEF labels, stops, places
<1>5. CASE r.segments # <<>>
  <2>1. PICK e : Picked(places, e, Len(ends), r, m)
    BY PlacesPicked DEF places, ends
  <2>2. /\ e \in [1..l -> 1..Len(ends)]
        /\ \A i \in 1..l : places[i] = ends[e[i]] /\ Named(places[i], r, m)
        /\ \A i, j \in 1..l : i < j => e[i] < e[j] /\ places[i].label # places[j].label
        /\ \A y \in 1..Len(ends) : Named(ends[y], r, m) =>
              \E i \in 1..l : places[i].label = ends[y].label
    BY <2>1 DEF Picked, ends
  <2>3. PICK f \in [1..Len(ends) -> 1..Len(stops)] :
            /\ \A x \in 1..Len(ends) : stops[f[x]] = ends[x].label
            /\ \A x, y \in 1..Len(ends) : x < y => f[x] <= f[y]
    BY <1>5, EndsAreStops DEF ends, stops
  <2>4. Len(stops) \in Nat /\ DOMAIN stops = 1..Len(stops) /\ Len(ends) \in Nat
    BY <1>5, EndsAreStops DEF ends, stops
  <2> DEFINE at == [i \in 1..l |-> f[e[i]]]
  <2>5. ASSUME NEW i \in 1..l
        PROVE  at[i] \in 1..Len(stops) /\ stops[at[i]] = labels[i]
    <3>1. e[i] \in 1..Len(ends) /\ places[i] = ends[e[i]]
      BY <2>2
    <3> QED
      BY <1>2, <2>3, <3>1
  <2>6. ASSUME NEW i \in 1..l, NEW j \in 1..l, i < j
        PROVE  at[i] < at[j] /\ labels[i] # labels[j]
    <3>1. labels[i] # labels[j]
      BY <1>2, <2>2, <2>6
    <3>2. at[i] # at[j]
      <4>1. stops[at[i]] = labels[i] /\ stops[at[j]] = labels[j]
        BY <2>5
      <4> HIDE DEF at, labels
      <4> QED
        BY <3>1, <4>1
    <3>3. e[i] \in 1..Len(ends) /\ e[j] \in 1..Len(ends) /\ e[i] < e[j]
      BY <2>2, <2>6
    <3>4. at[i] <= at[j]
      BY <2>3, <3>3
    <3>5. at[i] \in Int /\ at[j] \in Int
      BY <2>5
    <3> HIDE DEF at
    <3> QED
      BY <3>1, <3>2, <3>4, <3>5
  <2>7. IsInjective(labels)
    <3>1. DOMAIN labels = 1..l
      OBVIOUS
    <3>2. ASSUME NEW i \in 1..l, NEW j \in 1..l, labels[i] = labels[j] PROVE i = j
      <4>1. ~(i < j) /\ ~(j < i)
        BY <2>6, <3>2
      <4> QED
        BY <4>1
    <3> HIDE DEF labels
    <3> QED
      BY <3>1, <3>2 DEF IsInjective
  <2>8. InOrder(labels, stops)
    <3>1. at \in [1..l -> 1..Len(stops)]
      BY <2>5
    <3> HIDE DEF at, labels
    <3>2. \E g \in [1..Len(labels) -> 1..Len(stops)] :
              /\ \A i \in 1..Len(labels) : stops[g[i]] = labels[i]
              /\ \A i, j \in 1..Len(labels) : i < j => g[i] < g[j]
      BY <1>2, <2>5, <2>6, <3>1
    <3> QED
      BY <3>2 DEF InOrder
  <2>9. Range(labels) \subseteq InnerStops(r, m)
    <3>1. ASSUME NEW i \in 1..l PROVE places[i].label \in InnerStops(r, m)
      <4>1. places[i].label \in Range(stops)
        <5>1. at[i] \in DOMAIN stops /\ stops[at[i]] = places[i].label
          BY <1>2, <2>4, <2>5
        <5> HIDE DEF at
        <5> QED
          BY <5>1 DEF Range
      <4>2. /\ places[i].label \notin {"", m.from.name, m.to.name}
            /\ ~isPathEndpoint(places[i].position, Path(r, m))
        BY <2>2, Zenon DEF Named
      <4>3. e[i] \in 1..Len(ends) /\ places[i] = ends[e[i]]
        BY <2>2
      <4> QED
        BY <4>1, <4>2, <4>3, Zenon DEF InnerStops, ends, stops
    <3> QED
      BY <1>3, <3>1
  <2>10. InnerStops(r, m) \subseteq Range(labels)
    <3>1. ASSUME NEW name \in InnerStops(r, m) PROVE name \in Range(labels)
      <4>1. name \notin {"", m.from.name, m.to.name}
        BY Zenon DEF InnerStops
      <4>2. PICK x \in 1..Len(ends) :
                ends[x].label = name /\ ~isPathEndpoint(ends[x].position, Path(r, m))
        BY Zenon DEF InnerStops, ends
      <4>3. Named(ends[x], r, m)
        BY <4>1, <4>2, Zenon DEF Named
      <4>4. PICK i \in 1..l : places[i].label = ends[x].label
        BY <2>2, <4>3
      <4> HIDE DEF labels
      <4> QED
        BY <1>3, <4>2, <4>4
    <3> QED
      BY <3>1
  <2> HIDE DEF labels, at
  <2> QED
    BY <2>7, <2>8, <2>9, <2>10 DEF labels, stops, places
<1> QED
  BY <1>4, <1>5

LEMMA ShownStops == Shown => PlacesAreStops
<1>1. SUFFICES ASSUME Shown, NEW r \in Drawn
               PROVE  IsRoute(r, manual.from)
  BY RouteStops DEF PlacesAreStops
<1>2. manual \in Pictures /\ r \in Range(candidates(manual.answer))
  BY <1>1 DEF Drawn, Shown
<1> QED
  BY <1>2, AnswerAssumption

\* The places of every route on the map are the stops in the panel, in order.
THEOREM PlacesFollowStops == WorkspaceSpec => []PlacesAreStops
  BY RouteIsShown, ShownStops, PTL

(****************************** place labels ******************************)

Boxes == Int \X Int \X Int \X Int

OnScreen(box) ==
    /\ box[1] >= bounds[1] /\ box[2] >= bounds[2]
    /\ box[3] <= bounds[3] /\ box[4] <= bounds[4]

\* There is room for the label.
Fits(anchor, size) ==
    /\ anchor \in Int \X Int /\ size \in Nat \X Nat
    /\ size[1] <= bounds[3] - bounds[1] /\ size[2] <= bounds[4] - bounds[2]

LEMMA ClampIs ==
    ASSUME NEW value \in Int, NEW low \in Int, NEW high \in Int, low <= high
    PROVE  clamp(value, low, high) \in low..high
BY DEF clamp

LEMMA TryIs ==
    ASSUME NEW anchor, NEW size, Fits(anchor, size), NEW try \in Tries,
           bounds \in Boxes
    PROVE  LET box == TryBox(try, anchor, size, bounds)
           IN  box \in Boxes /\ OnScreen(box)
<1>1. /\ anchor[1] \in Int /\ anchor[2] \in Int /\ size[1] \in Nat /\ size[2] \in Nat
      /\ bounds[1] \in Int /\ bounds[2] \in Int /\ bounds[3] \in Int /\ bounds[4] \in Int
      /\ size[1] <= bounds[3] - bounds[1] /\ size[2] <= bounds[4] - bounds[2]
  BY DEF Fits, Boxes
<1>2. try \in Int /\ Offset \in Nat /\ Gap \in Nat
  BY LayoutAssumption DEF Tries
<1>3. Row(try) \in Int
  BY <1>2 DEF Row
<1> DEFINE x == anchor[1] + (IF try % 2 = 1 THEN Offset ELSE -size[1] - Offset)
           y == anchor[2] - size[2] \div 2 + Row(try) * (size[2] + Gap)
           left == clamp(x, bounds[1], bounds[3] - size[1])
           top == clamp(y, bounds[2], bounds[4] - size[2])
<1>4. x \in Int /\ y \in Int
  <2>1. size[2] \div 2 \in Int /\ Row(try) * (size[2] + Gap) \in Int
    BY <1>1, <1>2, <1>3
  <2> QED
    BY <1>1, <1>2, <2>1
<1>5. TryBox(try, anchor, size, bounds) = <<left, top, left + size[1], top + size[2]>>
  BY DEF TryBox, Box
<1> HIDE DEF x, y
<1>6. left \in bounds[1]..(bounds[3] - size[1]) /\ top \in bounds[2]..(bounds[4] - size[2])
  <2>1. /\ bounds[3] - size[1] \in Int /\ bounds[1] <= bounds[3] - size[1]
        /\ bounds[4] - size[2] \in Int /\ bounds[2] <= bounds[4] - size[2]
    BY <1>1
  <2>2. left \in bounds[1]..(bounds[3] - size[1])
    BY <1>1, <1>4, <2>1, ClampIs
  <2>3. top \in bounds[2]..(bounds[4] - size[2])
    BY <1>1, <1>4, <2>1, ClampIs
  <2> QED
    BY <2>2, <2>3
<1> HIDE DEF left, top
<1>7. <<left, top, left + size[1], top + size[2]>> \in Boxes
  BY <1>1, <1>6 DEF Boxes
<1>8. OnScreen(<<left, top, left + size[1], top + size[2]>>)
  BY <1>1, <1>6 DEF OnScreen
<1> QED
  BY <1>5, <1>7, <1>8

\* A label is in a free place on the screen, or there is none.
Placed(box, anchor, size, before) ==
    \/ /\ \A j \in 1..Len(before) : ~overlaps(box, before[j])
       /\ OnScreen(box)
    \/ \A try \in Tries : \E j \in 1..Len(before) :
          overlaps(TryBox(try, anchor, size, bounds), before[j])

LEMMA LabelPlaced ==
    ASSUME NEW anchor, NEW size, Fits(anchor, size), bounds \in Boxes, NEW before
    PROVE  LET box == placeLabel(anchor, size, before, bounds)
           IN  box \in Boxes /\ Placed(box, anchor, size, before)
<1> DEFINE free == {try \in Tries : IsFree(TryBox(try, anchor, size, bounds), before)}
           box == placeLabel(anchor, size, before, bounds)
<1>1. CASE free = {}
  <2>1. box = <<anchor[1] + Offset, anchor[2] - size[2] \div 2,
                anchor[1] + Offset + size[1], anchor[2] - size[2] \div 2 + size[2]>>
    BY <1>1 DEF placeLabel, Box
  <2>2. /\ anchor[1] \in Int /\ anchor[2] \in Int /\ size[1] \in Nat /\ size[2] \in Nat
        /\ Offset \in Nat /\ size[2] \div 2 \in Int
    BY LayoutAssumption DEF Fits
  <2>3. box \in Boxes
    <3> HIDE DEF box
    <3> QED
      BY <2>1, <2>2 DEF Boxes
  <2>4. \A try \in Tries : \E j \in 1..Len(before) :
           overlaps(TryBox(try, anchor, size, bounds), before[j])
    BY <1>1 DEF IsFree
  <2> QED
    BY <2>3, <2>4 DEF Placed
<1>2. CASE free # {}
  <2>1. box = TryBox(Min(free), anchor, size, bounds)
    BY <1>2 DEF placeLabel
  <2>2. Min(free) \in free
    <3>1. free \in SUBSET Nat
      BY LayoutAssumption DEF Tries
    <3> HIDE DEF free
    <3>2. \E x \in free : \A y \in free : x <= y
      BY <1>2, <3>1, LeastNumber
    <3> QED
      BY <3>2 DEF Min
  <2>3. Min(free) \in Tries /\ IsFree(TryBox(Min(free), anchor, size, bounds), before)
    BY <2>2
  <2> HIDE DEF box, free
  <2>4. box \in Boxes /\ OnScreen(box)
    BY <2>1, <2>3, TryIs
  <2>5. \A j \in 1..Len(before) : ~overlaps(box, before[j])
    BY <2>1, <2>3 DEF IsFree
  <2> QED
    BY <2>4, <2>5 DEF Placed, box
<1> QED
  BY <1>1, <1>2

\* Each label is placed after those before it.
LEMMA LabelBoxesAre ==
    ASSUME NEW m, bounds \in Boxes, BadgeBox(m) \in Boxes,
           Places(Selected(m), m) \in Seq(Range(Places(Selected(m), m))),
           \A place \in Range(Places(Selected(m), m)) :
              Fits(Project(place.position), LabelSize(place.label))
    PROVE  LET places == Places(Selected(m), m)
               boxes  == LabelBoxes(m)
           IN  /\ Len(boxes) = Len(places) + 1
               /\ \A i \in 2..Len(boxes) :
                     Placed(boxes[i], Project(places[i - 1].position),
                            LabelSize(places[i - 1].label), SubSeq(boxes, 1, i - 1))
<1> DEFINE places == Places(Selected(m), m)
           n == Len(places)
           base == <<BadgeBox(m)>>
           label(i, v) == placeLabel(Project(places[i].position),
                                     LabelSize(places[i].label), v, bounds)
           next(i, v) == Append(v, label(i, v))
           T == Seq(Boxes)
           boxes == CHOOSE boxes : boxes = [i \in 0..n |->
                       IF i = 0 THEN base ELSE next(i, boxes[i - 1])]
           G == [p \in (0..n) \X T |-> IF p[1] = 0 THEN base ELSE next(p[1], p[2])]
<1>1. n \in Nat /\ \A i \in 1..n : places[i] \in Range(places)
  OBVIOUS
<1>2. base \in T
  OBVIOUS
<1>3. LabelBoxes(m) = boxes[n]
  BY DEF LabelBoxes
<1>4. ASSUME NEW i \in 1..n, NEW v
      PROVE  /\ label(i, v) \in Boxes
             /\ Placed(label(i, v), Project(places[i].position), LabelSize(places[i].label), v)
  <2>1. Fits(Project(places[i].position), LabelSize(places[i].label))
    BY <1>1
  <2> QED
    BY <2>1, LabelPlaced
<1> HIDE DEF places, label
<1>5. ASSUME NEW i \in 0..n, NEW v \in T
      PROVE  G[<<i, v>>] = (IF i = 0 THEN base ELSE next(i, v)) /\ G[<<i, v>>] \in T
  <2>1. G[<<i, v>>] = IF i = 0 THEN base ELSE next(i, v)
    OBVIOUS
  <2>2. i # 0 => label(i, v) \in Boxes
    BY <1>1, <1>4
  <2>3. i # 0 => next(i, v) \in T
    <3> HIDE DEF Boxes
    <3> QED
      BY <2>2
  <2> HIDE DEF T, G, base, next
  <2> QED
    BY <1>2, <2>1, <2>3
<1> HIDE DEF G, T, base
<1>6. PICK f \in [0..n -> T] : Recurses(f, 0, n, base, G)
  <2> HIDE DEF n, next
  <2> QED
    BY <1>1, <1>2, <1>5, RecursionHasValue
<1>7. f = [i \in 0..n |-> IF i = 0 THEN base ELSE next(i, f[i - 1])]
  <2>1. \A i \in 0..n : i # 0 => i - 1 \in 0..n /\ f[i - 1] \in T
    BY <1>1
  <2> HIDE DEF n, next
  <2> QED
    BY <1>5, <1>6, <2>1 DEF Recurses
<1>8. boxes = [i \in 0..n |-> IF i = 0 THEN base ELSE next(i, boxes[i - 1])]
  <2> HIDE DEF n
  <2> QED
    BY <1>7, Zenon
<1> HIDE DEF boxes, next
<1>9. boxes[0] = base /\ \A i \in 1..n : boxes[i] = next(i, boxes[i - 1])
  BY <1>1, <1>8
\* The boxes so far: one more than places, each placed after those before it.
<1> DEFINE Done(i, v) ==
              /\ v \in Seq(Boxes) /\ Len(v) = i + 1
              /\ \A j \in 2..(i + 1) :
                    Placed(v[j], Project(places[j - 1].position),
                           LabelSize(places[j - 1].label), SubSeq(v, 1, j - 1))
           S == {i \in Nat : Done(i, boxes[i])}
<1>10. 0 \in S
  <2>1. base \in Seq(Boxes) /\ Len(base) = 1
    BY <1>2 DEF base, T
  <2> QED
    BY <1>9, <2>1
<1>11. ASSUME NEW k \in 0..n, k \in S, k < n PROVE k + 1 \in S
  <2> DEFINE v == boxes[k]
             i == k + 1
             b == label(i, v)
             w == boxes[i]
  <2>1. i \in 1..n /\ i - 1 = k /\ i \in Nat
    BY <1>1, <1>11
  <2>2. w = Append(v, b) /\ Done(k, v)
    BY <1>9, <1>11, <2>1 DEF next
  <2>3. b \in Boxes /\ Placed(b, Project(places[i].position), LabelSize(places[i].label), v)
    BY <1>4, <2>1
  <2> HIDE DEF v, w, b, Boxes
  <2>4. /\ w \in Seq(Boxes) /\ Len(w) = i + 1 /\ w[i + 1] = b
        /\ \A j \in 1..i : w[j] = v[j]
    BY <2>1, <2>2, <2>3
  <2>5. ASSUME NEW j \in 1..i PROVE SubSeq(w, 1, j) = SubSeq(v, 1, j)
    <3>1. \A x \in 1..j : w[x] = v[x] /\ v[x] \in Boxes /\ w[x] \in Boxes
      BY <2>1, <2>2, <2>4
    <3>2. /\ SubSeq(w, 1, j) \in Seq(Boxes) /\ SubSeq(v, 1, j) \in Seq(Boxes)
          /\ Len(SubSeq(w, 1, j)) = j /\ Len(SubSeq(v, 1, j)) = j
          /\ \A x \in 1..j : SubSeq(w, 1, j)[x] = w[x] /\ SubSeq(v, 1, j)[x] = v[x]
      BY <2>1, <3>1, SubSeqProperties
    <3> DEFINE wj == SubSeq(w, 1, j)
               vj == SubSeq(v, 1, j)
    <3> HIDE DEF wj, vj
    <3>3. wj = vj
      BY <3>1, <3>2 DEF wj, vj
    <3> QED
      BY <3>3 DEF wj, vj
  <2>6. SubSeq(w, 1, i) = v
    <3>1. \A x \in 1..i : v[x] \in Boxes
      BY <2>1, <2>2
    <3>2. /\ SubSeq(v, 1, i) \in Seq(Boxes) /\ Len(SubSeq(v, 1, i)) = i
          /\ \A x \in 1..i : SubSeq(v, 1, i)[x] = v[x]
      BY <2>1, <3>1, SubSeqProperties
    <3>3. i \in 1..i /\ v \in Seq(Boxes) /\ Len(v) = i
      BY <2>1, <2>2
    <3> DEFINE vi == SubSeq(v, 1, i)
    <3> HIDE DEF vi
    <3>4. vi = v
      BY <3>2, <3>3 DEF vi
    <3> QED
      BY <2>5, <3>3, <3>4 DEF vi
  <2>7. ASSUME NEW j \in 2..(i + 1)
        PROVE  Placed(w[j], Project(places[j - 1].position),
                      LabelSize(places[j - 1].label), SubSeq(w, 1, j - 1))
    <3>1. CASE j = i + 1
      <4>1. j - 1 = i
        BY <2>1, <3>1
      <4> QED
        BY <2>3, <2>4, <2>6, <3>1, <4>1
    <3>2. CASE j # i + 1
      <4>1. j \in 2..(k + 1) /\ j \in 1..i /\ j - 1 \in 1..i
        BY <2>1, <3>2
      <4>2. Placed(v[j], Project(places[j - 1].position),
                   LabelSize(places[j - 1].label), SubSeq(v, 1, j - 1))
        BY <2>2, <4>1
      <4> QED
        BY <2>4, <2>5, <4>1, <4>2
    <3> QED
      BY <3>1, <3>2
  <2>8. Done(i, w)
    BY <2>4, <2>7
  <2> HIDE DEF Done
  <2> QED
    BY <2>1, <2>8 DEF w
<1> HIDE DEF S, Done, n
<1>12. \A i \in 0..n : i \in S
  BY <1>1, <1>10, <1>11, Stepwise
<1>13. Done(n, boxes[n])
  BY <1>1, <1>12 DEF S
<1>14. Len(LabelBoxes(m)) = n + 1
  BY <1>3, <1>13 DEF Done
<1> QED
  BY <1>3, <1>13, <1>14 DEF Done, places, n

LEMMA SelectedIs ==
    ASSUME NEW m \in Pictures
    PROVE  Selected(m) \in Range(candidates(m.answer))
<1>1. m.active \in 1..Len(candidates(m.answer))
  BY PicturesAre
<1>2. DOMAIN candidates(m.answer) = 1..Len(candidates(m.answer))
  BY CandidatesAre
<1> QED
  BY <1>1, <1>2 DEF Selected, Range

LEMMA ShownApart == Shown => LabelsApart
<1>1. SUFFICES ASSUME Shown, Drawn # {} PROVE LabelsApart
  BY DEF LabelsApart
<1> DEFINE places == Places(Selected(manual), manual)
           boxes == LabelBoxes(manual)
<1>2. manual \in Pictures
  BY <1>1 DEF Drawn, Shown
<1>3. IsRoute(Selected(manual), manual.from)
  BY <1>2, SelectedIs, AnswerAssumption
<1>4. places \in Seq(Range(places))
  <2>1. places \in Seq(EndsOf(Selected(manual), manual))
    BY <1>3, PlacesPicked
  <2>2. /\ Len(places) \in Nat /\ DOMAIN places = 1..Len(places)
        /\ places = [i \in 1..Len(places) |-> places[i]]
    BY <2>1
  <2>3. \A i \in 1..Len(places) : places[i] \in Range(places)
    BY <2>2 DEF Range
  <2> HIDE DEF places
  <2> QED
    BY <2>2, <2>3
<1>5. /\ bounds \in Boxes /\ BadgeBox(manual) \in Boxes
      /\ \A place \in Range(places) : Fits(Project(place.position), LabelSize(place.label))
  BY <1>2, ScreenAssumption DEF Boxes, Fits
<1>6. \A i \in 2..Len(boxes) :
         Placed(boxes[i], Project(places[i - 1].position),
                LabelSize(places[i - 1].label), SubSeq(boxes, 1, i - 1))
  BY <1>4, <1>5, LabelBoxesAre
<1> HIDE DEF places, boxes
<1> QED
  BY <1>6 DEF LabelsApart, Placed, OnScreen, places, boxes

\* The labels of the places keep apart and on the screen, for any screen that
\* has room for each of them.
THEOREM LabelsKeepApart == WorkspaceSpec => []LabelsApart
  BY RouteIsShown, ShownApart, PTL
=============================================================================
