---------------------------- MODULE Kiosk_proofs ----------------------------
(***************************************************************************)
(* Proofs about the kiosk.                                                 *)
(*                                                                         *)
(* Kiosk: for any number of lookups and source cities, the wall shows what *)
(* the panel lists, and a lookup that was superseded takes the wall with   *)
(* its great circle at most.                                               *)
(*                                                                         *)
(* Keystone: for every set of windows and every move of any number of      *)
(* pointers, what the wall shows is what localStorage holds, and the       *)
(* matrix takes the corners of the window there.                           *)
(*                                                                         *)
(* TripStore: for every capacity the store stays packed, its payload draws *)
(* its trips, and none outstays the longest animation.                     *)
(***************************************************************************)
EXTENDS Kiosk, Keystone, TripStore, FiniteSetTheorems, WellFoundedInduction,
        TLAPS

LookupType ==
    [source : Sources, pc : {"service", "snapshot", "done"}, aborted : BOOLEAN,
     shown : {"no", "service", "snapshot", "greatcircle"}]

KioskTypeOK ==
    /\ lookups \in Seq(LookupType) /\ Len(lookups) > 0
    /\ routes \in Nat

\* An aborted lookup asks no service: its request ended with the abort.
AbortedAskNoService ==
    \A l \in Lookups : lookups[l].aborted => lookups[l].pc # "service"

KioskInv == KioskTypeOK /\ AbortedAskNoService

(******************************* the wall *********************************)

LEMMA InitShowsPanel == KioskInit => WallShowsPanel
BY DEF KioskInit, WallShowsPanel

\* Whoever takes the wall clears it.
LEMMA ShowShowsPanel ==
    ASSUME NEW l, NEW shown, NEW newStatus, Show(l, shown, newStatus)
    PROVE  WallShowsPanel'
BY DEF Show, Trace, WallShowsPanel

LEMMA StepShowsPanel == WallShowsPanel /\ [KioskNext]_kioskVars => WallShowsPanel'
<1>1. SUFFICES ASSUME WallShowsPanel, [KioskNext]_kioskVars PROVE WallShowsPanel'
  OBVIOUS
<1>2. ASSUME NEW source \in Sources, Submit(source) \/ SnapshotSettles(source)
      PROVE  WallShowsPanel'
  BY <1>1, <1>2 DEF Submit, SnapshotSettles, wallVars, WallShowsPanel
<1>3. CASE SubmitSameCity
  BY <1>1, <1>3 DEF SubmitSameCity, wallVars, WallShowsPanel
<1>4. ASSUME NEW l \in Lookups, ServiceAnswers(l) PROVE WallShowsPanel'
  BY <1>4, ShowShowsPanel DEF ServiceAnswers, Fallback
<1>5. ASSUME NEW l \in Lookups, ServiceFails(l) PROVE WallShowsPanel'
  BY <1>1, <1>5 DEF ServiceFails, wallVars, WallShowsPanel
<1>6. ASSUME NEW l \in Lookups, Resume(l) PROVE WallShowsPanel'
  <2>1. CASE Fallback(l)
    BY <2>1, ShowShowsPanel DEF Fallback
  <2>2. CASE FromSnapshot(l)
    <3>1. \/ Show(l, "snapshot", "snapshot")
          \/ UNCHANGED <<routes, wallVars>>
      BY <2>2 DEF FromSnapshot
    <3> QED
      BY <1>1, <3>1, ShowShowsPanel DEF wallVars, WallShowsPanel
  <2> QED
    BY <1>6, <2>1, <2>2 DEF Resume
<1>7. CASE Choose
  BY <1>7 DEF Choose, Trace, panelVars, WallShowsPanel
<1>8. CASE ShowLive
  BY <1>8 DEF ShowLive, WallShowsPanel
<1>9. CASE Ingest
  BY <1>1, <1>9 DEF Ingest, panelVars, WallShowsPanel
<1>10. CASE Tick
  <2>1. Added \subseteq {manual}
    BY DEF Added
  <2>2. store' \subseteq store \cup Added
    BY <1>10 DEF Tick
  <2> QED
    BY <1>1, <1>10, <2>1, <2>2 DEF Tick, panelVars, WallShowsPanel
<1>11. CASE ChangeMode \/ SocketEvent
  BY <1>1, <1>11 DEF ChangeMode, SocketEvent, panelVars, wallVars, WallShowsPanel
<1>12. CASE LabelsAge
  BY <1>1, <1>12 DEF LabelsAge, panelVars, WallShowsPanel
<1>13. CASE UNCHANGED kioskVars
  BY <1>1, <1>13 DEF kioskVars, panelVars, wallVars, WallShowsPanel
<1> QED
  BY <1>1, <1>2, <1>3, <1>4, <1>5, <1>6, <1>7, <1>8, <1>9, <1>10, <1>11, <1>12, <1>13
  DEF KioskNext

\* For any number of lookups, aborts, downloads and frames: what the panel lists
\* has the wall for itself.
THEOREM WallIsOfPanel == KioskSpec => []WallShowsPanel
<1>1. KioskInit => WallShowsPanel
  BY InitShowsPanel
<1>2. WallShowsPanel /\ [KioskNext]_kioskVars => WallShowsPanel'
  BY StepShowsPanel
<1> QED
  BY <1>1, <1>2, PTL DEF KioskSpec

(*************************** superseded lookups ***************************)

LEMMA InitKioskInv == KioskInit => KioskInv
<1>1. SUFFICES ASSUME KioskInit PROVE KioskInv
  OBVIOUS
<1>2. PICK source \in Sources : lookups = <<NewLookup(source)>>
  BY <1>1 DEF KioskInit
<1>3. NewLookup(source) \in LookupType /\ ~NewLookup(source).aborted
  BY DEF NewLookup, LookupType
<1>4. lookups[1] = NewLookup(source) /\ Len(lookups) = 1 /\ lookups \in Seq(LookupType)
  BY <1>2, <1>3
<1> QED
  BY <1>1, <1>2, <1>3, <1>4 DEF KioskInit, KioskInv, KioskTypeOK, AbortedAskNoService, Lookups

\* What an abort does to the lookups.
LEMMA AbortKeepsInv ==
    ASSUME KioskInv
    PROVE  /\ Abort(lookups) \in Seq(LookupType) /\ Len(Abort(lookups)) = Len(lookups)
           /\ \A l \in Lookups : Abort(lookups)[l].aborted => Abort(lookups)[l].pc # "service"
<1>1. /\ lookups \in Seq(LookupType) /\ Len(lookups) \in 1..Len(lookups)
      /\ Len(lookups) \in Nat
  BY DEF KioskInv, KioskTypeOK
<1> DEFINE last == lookups[Len(lookups)]
           new  == [last EXCEPT !.pc = IF @ = "service" THEN "done" ELSE @,
                                !.aborted = TRUE]
<1>2. last \in LookupType
  BY <1>1
<1>3. new \in LookupType /\ new.pc # "service"
  BY <1>2 DEF LookupType
<1>4. Abort(lookups) = [lookups EXCEPT ![Len(lookups)] = new]
  BY DEF Abort
<1> HIDE DEF new
<1>5. Abort(lookups) \in Seq(LookupType) /\ Len(Abort(lookups)) = Len(lookups)
  BY <1>1, <1>3, <1>4
<1>6. \A l \in Lookups : Abort(lookups)[l] = IF l = Len(lookups) THEN new ELSE lookups[l]
  BY <1>1, <1>4 DEF Lookups
<1> QED
  BY <1>3, <1>5, <1>6 DEF KioskInv, AbortedAskNoService

\* What happens to one lookup keeps the invariant, unless it sends an aborted
\* one to the service.
LEMMA ChangeKeepsInv ==
    ASSUME KioskInv, NEW l \in Lookups, NEW new \in LookupType,
           new.pc # "service", routes' \in Nat,
           lookups' = [lookups EXCEPT ![l] = new]
    PROVE  KioskInv'
<1>1. lookups \in Seq(LookupType) /\ l \in 1..Len(lookups)
  BY DEF KioskInv, KioskTypeOK, Lookups
<1>2. lookups' \in Seq(LookupType) /\ Len(lookups') = Len(lookups)
  BY <1>1
<1>3. \A k \in Lookups : lookups'[k] = IF k = l THEN new ELSE lookups[k]
  BY <1>1 DEF Lookups
<1>4. Lookups' = Lookups
  BY <1>2 DEF Lookups
<1>5. Len(lookups') > 0
  BY <1>1, <1>2
<1> QED
  BY <1>2, <1>3, <1>4, <1>5 DEF KioskInv, KioskTypeOK, AbortedAskNoService

\* Showing what a lookup found ends it.
LEMMA ShowKeepsInv ==
    ASSUME KioskInv, NEW l \in Lookups,
           NEW shown \in {"service", "snapshot", "greatcircle"}, NEW newStatus,
           Show(l, shown, newStatus)
    PROVE  KioskInv' /\ lookups'[l].shown = shown /\ routes' = l
<1>1. lookups \in Seq(LookupType) /\ l \in 1..Len(lookups)
  BY DEF KioskInv, KioskTypeOK, Lookups
<1> DEFINE new == [lookups[l] EXCEPT !.pc = "done", !.shown = shown]
<1>2. lookups[l] \in LookupType
  BY <1>1
<1>3. new \in LookupType /\ new.pc # "service" /\ new.shown = shown
  BY <1>2 DEF LookupType
<1>4. lookups' = [lookups EXCEPT ![l] = new]
  BY <1>1 DEF Show
<1> HIDE DEF new
<1>5. routes' = l /\ l \in Nat
  BY <1>1 DEF Show
<1>6. KioskInv'
  BY <1>3, <1>4, <1>5, ChangeKeepsInv
<1>7. lookups'[l] = new
  BY <1>1, <1>4
<1> QED
  BY <1>3, <1>5, <1>6, <1>7

LEMMA StepKioskInv == KioskInv /\ [KioskNext]_kioskVars => KioskInv'
<1>1. SUFFICES ASSUME KioskInv, [KioskNext]_kioskVars PROVE KioskInv'
  OBVIOUS
<1>2. ASSUME UNCHANGED <<lookups, routes>> PROVE KioskInv'
  BY <1>1, <1>2 DEF KioskInv, KioskTypeOK, AbortedAskNoService, Lookups
<1>3. ASSUME NEW source \in Sources, Submit(source) PROVE KioskInv'
  <2> DEFINE old == Abort(lookups)
             new == NewLookup(source)
  <2>1. old \in Seq(LookupType) /\ \A l \in 1..Len(old) : old[l].aborted => old[l].pc # "service"
    BY <1>1, AbortKeepsInv DEF Lookups
  <2>2. new \in LookupType /\ ~new.aborted
    BY DEF NewLookup, LookupType
  <2>3. lookups' = Append(old, new) /\ routes' = routes
    BY <1>3 DEF Submit
  <2> HIDE DEF old, new
  <2>4. lookups' \in Seq(LookupType) /\ Len(lookups') = Len(old) + 1 /\ Len(old) \in Nat
    BY <2>1, <2>2, <2>3
  <2>5. \A l \in Lookups' : lookups'[l] = IF l \in 1..Len(old) THEN old[l] ELSE new
    BY <2>1, <2>2, <2>3, <2>4 DEF Lookups
  <2>6. KioskTypeOK'
    BY <1>1, <2>3, <2>4 DEF KioskInv, KioskTypeOK
  <2>7. AbortedAskNoService'
    BY <2>1, <2>2, <2>5 DEF AbortedAskNoService
  <2> QED
    BY <2>6, <2>7 DEF KioskInv
<1>4. ASSUME lookups' = Abort(lookups), routes' \in Nat PROVE KioskInv'
  BY <1>1, <1>4, AbortKeepsInv DEF KioskInv, KioskTypeOK, AbortedAskNoService, Lookups
<1>5. ASSUME NEW l \in Lookups, ServiceAnswers(l) PROVE KioskInv'
  BY <1>1, <1>5, ShowKeepsInv DEF ServiceAnswers, Fallback
<1>6. ASSUME NEW l \in Lookups, NEW pc \in {"snapshot", "done"}, routes' = routes,
             lookups' = [lookups EXCEPT ![l].pc = pc]
      PROVE  KioskInv'
  <2> DEFINE new == [lookups[l] EXCEPT !.pc = pc]
  <2>1. lookups \in Seq(LookupType) /\ l \in 1..Len(lookups) /\ routes \in Nat
    BY <1>1 DEF KioskInv, KioskTypeOK, Lookups
  <2>2. lookups[l] \in LookupType
    BY <2>1
  <2>3. new \in LookupType /\ new.pc # "service"
    BY <2>2 DEF LookupType
  <2>4. lookups' = [lookups EXCEPT ![l] = new]
    BY <1>6
  <2> QED
    BY <1>1, <1>6, <2>1, <2>3, <2>4, ChangeKeepsInv
<1>7. ASSUME NEW l \in Lookups, ServiceFails(l) PROVE KioskInv'
  BY <1>6, <1>7 DEF ServiceFails
<1>8. ASSUME NEW l \in Lookups, Resume(l) PROVE KioskInv'
  <2>1. CASE Fallback(l)
    BY <1>1, <2>1, ShowKeepsInv DEF Fallback
  <2>2. CASE FromSnapshot(l)
    <3>1. CASE lookups[l].aborted
      BY <1>6, <2>2, <3>1 DEF FromSnapshot
    <3>2. CASE ~lookups[l].aborted
      BY <1>1, <2>2, <3>2, ShowKeepsInv DEF FromSnapshot
    <3> QED
      BY <3>1, <3>2
  <2> QED
    BY <1>8, <2>1, <2>2 DEF Resume
<1>9. CASE SubmitSameCity
  BY <1>1, <1>4, <1>9 DEF SubmitSameCity, KioskInv, KioskTypeOK
<1>10. CASE ShowLive
  BY <1>4, <1>10 DEF ShowLive
<1>11. CASE Choose \/ ChangeMode \/ SocketEvent \/ Ingest \/ LabelsAge \/ Tick
  BY <1>2, <1>11 DEF Choose, ChangeMode, SocketEvent, Ingest, LabelsAge, Tick, panelVars
<1>12. ASSUME NEW source \in Sources, SnapshotSettles(source) PROVE KioskInv'
  BY <1>2, <1>12 DEF SnapshotSettles
<1>13. CASE UNCHANGED kioskVars
  BY <1>2, <1>13 DEF kioskVars, panelVars
<1> QED
  BY <1>1, <1>3, <1>5, <1>7, <1>8, <1>9, <1>10, <1>11, <1>12, <1>13 DEF KioskNext

\* Only a lookup that shows its great circle takes the wall after its abort.
LEMMA StepFallsBack ==
    ASSUME KioskInv, [KioskNext]_kioskVars,
           NEW l \in Lookups, lookups[l].aborted, routes' = l, routes # l
    PROVE  lookups'[l].shown = "greatcircle"
<1>1. l \in Nat \ {0}
  BY DEF Lookups
<1>2. PICK k \in Lookups : ServiceAnswers(k) \/ Resume(k)
  <2>1. routes' # routes
    OBVIOUS
  <2>2. routes' # 0
    BY <1>1
  <2>3. ASSUME NEW source \in Sources, Submit(source) \/ SnapshotSettles(source)
        PROVE  FALSE
    BY <2>1, <2>3 DEF Submit, SnapshotSettles
  <2>4. ASSUME NEW k \in Lookups, ServiceFails(k) PROVE FALSE
    BY <2>1, <2>4 DEF ServiceFails
  <2>5. CASE SubmitSameCity
    BY <2>1, <2>5 DEF SubmitSameCity
  <2>6. CASE ShowLive
    BY <2>2, <2>6 DEF ShowLive
  <2>7. CASE Choose \/ ChangeMode \/ SocketEvent \/ Ingest \/ LabelsAge \/ Tick
    BY <2>1, <2>7 DEF Choose, ChangeMode, SocketEvent, Ingest, LabelsAge, Tick, panelVars
  <2>8. CASE UNCHANGED kioskVars
    BY <2>1, <2>8 DEF kioskVars, panelVars
  <2> QED
    BY <2>3, <2>4, <2>5, <2>6, <2>7, <2>8 DEF KioskNext
<1>3. CASE ServiceAnswers(k)
  <2>1. lookups[k].pc = "service" /\ routes' = k
    BY <1>3 DEF ServiceAnswers, Show, Fallback
  <2> QED
    BY <1>2, <2>1 DEF KioskInv, AbortedAskNoService
<1>4. CASE Resume(k)
  <2>1. CASE Fallback(k)
    BY <1>2, <2>1, ShowKeepsInv DEF Fallback
  <2>2. CASE FromSnapshot(k)
    BY <2>2 DEF FromSnapshot, Show
  <2> QED
    BY <1>4, <2>1, <2>2 DEF Resume
<1> QED
  BY <1>2, <1>3, <1>4

\* For any number of lookups: one that was superseded never takes the wall with
\* a route, whenever its snapshot comes.
THEOREM AbortedFallBack == KioskSpec => SupersededOnlyFallsBack
<1>1. KioskInit => KioskInv
  BY InitKioskInv
<1>2. KioskInv /\ [KioskNext]_kioskVars => KioskInv'
  BY StepKioskInv
<1>3. KioskInv /\ [KioskNext]_kioskVars =>
        [\A l \in Lookups :
            lookups[l].aborted /\ routes' = l /\ routes # l =>
                lookups'[l].shown = "greatcircle"]_kioskVars
  BY StepFallsBack
<1> QED
  BY <1>1, <1>2, <1>3, PTL DEF KioskSpec, SupersededOnlyFallsBack

(******************************** keystone ********************************)

KeystoneTypeOK ==
    /\ window \in Windows
    /\ corners \in Corners
    /\ calibrating \in BOOLEAN
    /\ held \subseteq 1..4
    /\ item \in Corners \cup {Nothing, Unreadable}
    /\ blocked \in BOOLEAN
    /\ moves \in Nat

\* The corners of a window are four points.
LEMMA IdentityType == \A win \in Windows : identityCorners(win) \in Corners
<1>1. SUFFICES ASSUME NEW win \in Windows
               PROVE  identityCorners(win) \in Corners
  OBVIOUS
<1>2. win \in Int \X Int /\ win[1] \in Int /\ win[2] \in Int
  BY KeystoneAssumption
<1>3. /\ <<0, 0>> \in Int \X Int /\ <<win[1], 0>> \in Int \X Int
      /\ <<0, win[2]>> \in Int \X Int
  BY <1>2
<1> QED
  BY <1>2, <1>3 DEF identityCorners, Corners

\* load() gives four points, whatever is stored.
LEMMA LoadType ==
    \A raw : \A win \in Windows : load(win, raw) \in Corners
BY IdentityType DEF load

LEMMA InitType == KeystoneInit => KeystoneTypeOK
<1>1. SUFFICES ASSUME KeystoneInit PROVE KeystoneTypeOK
  OBVIOUS
<1>2. corners \in Corners
  BY <1>1, LoadType DEF KeystoneInit
<1> QED
  BY <1>1, <1>2 DEF KeystoneInit, KeystoneTypeOK

\* A move puts the handles that are held on the pointer.
LEMMA MoveType ==
    ASSUME KeystoneTypeOK, NEW p \in Points, PointerMove(p)
    PROVE  corners' \in Corners
<1>1. p \in Int \X Int
  BY KeystoneAssumption
<1> QED
  BY <1>1 DEF PointerMove, KeystoneTypeOK, Corners

LEMMA StepType == KeystoneTypeOK /\ [KeystoneNext]_keystoneVars => KeystoneTypeOK'
<1>1. SUFFICES ASSUME KeystoneTypeOK, [KeystoneNext]_keystoneVars PROVE KeystoneTypeOK'
  OBVIOUS
<1>2. CASE KeyK
  BY <1>1, <1>2 DEF KeyK, KeystoneTypeOK
<1>3. CASE KeyR
  <2>1. corners' \in Corners
    BY <1>1, <1>3, IdentityType DEF KeyR, KeystoneTypeOK
  <2> QED
    BY <1>1, <1>3, <2>1 DEF KeyR, clear, KeystoneTypeOK
<1>4. CASE PointerUp
  BY <1>1, <1>4 DEF PointerUp, save, KeystoneTypeOK
<1>5. CASE Resize
  BY <1>1, <1>5 DEF Resize, KeystoneTypeOK
<1>6. CASE Reload
  <2>1. corners' \in Corners
    BY <1>1, <1>6, LoadType DEF Reload, KeystoneTypeOK
  <2> QED
    BY <1>1, <1>6, <2>1 DEF Reload, KeystoneTypeOK
<1>7. ASSUME NEW i \in 1..4, PointerDown(i) PROVE KeystoneTypeOK'
  BY <1>1, <1>7 DEF PointerDown, KeystoneTypeOK
<1>8. ASSUME NEW p \in Points, PointerMove(p) PROVE KeystoneTypeOK'
  <2>1. corners' \in Corners
    BY <1>1, <1>8, MoveType
  <2> QED
    BY <1>1, <1>8, <2>1 DEF PointerMove, KeystoneTypeOK
<1>9. CASE UNCHANGED keystoneVars
  BY <1>1, <1>9 DEF keystoneVars, KeystoneTypeOK
<1> QED
  BY <1>1, <1>2, <1>3, <1>4, <1>5, <1>6, <1>7, <1>8, <1>9 DEF KeystoneNext

\* Whatever keys, pointers, resizes and reloads come, the wall has four corners
\* and localStorage four corners or none.
THEOREM CornersTyped == KeystoneSpec => []KeystoneTypeOK
BY InitType, StepType, PTL DEF KeystoneSpec

\* The page shows the corners of load() when it has just read them.
LEMMA LoadedIsStored ==
    ASSUME NEW win \in Windows, NEW raw, ~blocked
    PROVE  IF raw \in Corners THEN load(win, raw) = raw
           ELSE \E w \in Windows : load(win, raw) = identityCorners(w)
BY DEF load

LEMMA InitStored == KeystoneInit => WallIsStored
BY LoadedIsStored DEF KeystoneInit, WallIsStored

LEMMA StepStored ==
    KeystoneTypeOK /\ WallIsStored /\ [KeystoneNext]_keystoneVars => WallIsStored'
<1>1. SUFFICES ASSUME KeystoneTypeOK, WallIsStored, [KeystoneNext]_keystoneVars
               PROVE  WallIsStored'
  OBVIOUS
<1>2. CASE KeyK
  BY <1>1, <1>2 DEF KeyK, WallIsStored
<1>3. CASE KeyR
  <2>1. Nothing \notin Corners
    BY KeystoneAssumption DEF Corners
  <2> QED
    BY <1>1, <1>3, <2>1 DEF KeyR, clear, WallIsStored, KeystoneTypeOK
<1>4. CASE PointerUp
  BY <1>1, <1>4 DEF PointerUp, save, WallIsStored, KeystoneTypeOK
<1>5. CASE Resize
  BY <1>1, <1>5 DEF Resize, WallIsStored
<1>6. CASE Reload
  BY <1>1, <1>6, LoadedIsStored DEF Reload, WallIsStored, KeystoneTypeOK
<1>7. ASSUME NEW i \in 1..4, PointerDown(i) PROVE WallIsStored'
  BY <1>7 DEF PointerDown, WallIsStored
<1>8. ASSUME NEW p \in Points, PointerMove(p) PROVE WallIsStored'
  BY <1>8 DEF PointerMove, WallIsStored
<1>9. CASE UNCHANGED keystoneVars
  BY <1>1, <1>9 DEF keystoneVars, WallIsStored
<1> QED
  BY <1>1, <1>2, <1>3, <1>4, <1>5, <1>6, <1>7, <1>8, <1>9 DEF KeystoneNext

\* While no handle is held the wall shows the stored corners, or a window's own.
THEOREM StoredIsShown == KeystoneSpec => []WallIsStored
BY InitType, StepType, InitStored, StepStored, PTL DEF KeystoneSpec

(****************************** the homography *****************************)

\* The rows of a 3 x 3 matrix.
M3(a, b, c, d, e, f, g, h, i) == <<<<a, b, c>>, <<d, e, f>>, <<g, h, i>>>>

\* The entries of a product.
LEMMA MulIs ==
    ASSUME NEW a \in Int, NEW b \in Int, NEW c \in Int,
           NEW d \in Int, NEW e \in Int, NEW f \in Int,
           NEW g \in Int, NEW h \in Int, NEW i \in Int,
           NEW u, u = M3(a, b, c, d, e, f, g, h, i), NEW m
    PROVE  mul(u, m) =
             M3(a * m[1][1] + b * m[2][1] + c * m[3][1],
                a * m[1][2] + b * m[2][2] + c * m[3][2],
                a * m[1][3] + b * m[2][3] + c * m[3][3],
                d * m[1][1] + e * m[2][1] + f * m[3][1],
                d * m[1][2] + e * m[2][2] + f * m[3][2],
                d * m[1][3] + e * m[2][3] + f * m[3][3],
                g * m[1][1] + h * m[2][1] + i * m[3][1],
                g * m[1][2] + h * m[2][2] + i * m[3][2],
                g * m[1][3] + h * m[2][3] + i * m[3][3])
BY DEF mul, Matrix, Vector, Dot, M3

\* Twice the area of a triangle, with its sign.
Area(ax, ay, bx, by, cx, cy) == (by - cy) * ax + (cx - bx) * ay + (bx * cy - by * cx)

\* basis(): the columns of the points, each by the area of the other three.
LEMMA BasisIs ==
    ASSUME NEW p, NEW x1 \in Int, NEW y1 \in Int, NEW x2 \in Int, NEW y2 \in Int,
           NEW x3 \in Int, NEW y3 \in Int, NEW x4 \in Int, NEW y4 \in Int,
           p[1] = <<x1, y1>>, p[2] = <<x2, y2>>, p[3] = <<x3, y3>>, p[4] = <<x4, y4>>,
           NEW v1, v1 = Area(x4, y4, x2, y2, x3, y3),
           NEW v2, v2 = Area(x4, y4, x3, y3, x1, y1),
           NEW v3, v3 = Area(x4, y4, x1, y1, x2, y2)
    PROVE  /\ v1 \in Int /\ v2 \in Int /\ v3 \in Int
           /\ basis(p) = M3(x1 * v1, x2 * v2, x3 * v3, y1 * v1, y2 * v2, y3 * v3, v1, v2, v3)
<1>0. v1 \in Int /\ v2 \in Int /\ v3 \in Int
  BY DEF Area
<1>1. PICK m : m = M3(x1, x2, x3, y1, y2, y3, 1, 1, 1)
  OBVIOUS
<1>2. m = <<<<p[1][1], p[2][1], p[3][1]>>, <<p[1][2], p[2][2], p[3][2]>>, <<1, 1, 1>>>>
  BY <1>1 DEF M3
<1>3. 1 \in Int
  OBVIOUS
<1>5. adj(m) = M3(y2 - y3, x3 - x2, x2 * y3 - y2 * x3,
                  y3 - y1, x1 - x3, x3 * y1 - y3 * x1,
                  y1 - y2, x2 - x1, x1 * y2 - y1 * x2)
  BY <1>1, <1>3 DEF adj, Matrix, Vector, Next3, M3
<1>6. mulv(adj(m), <<p[4][1], p[4][2], 1>>) = <<v1, v2, v3>>
  <2>1. v1 = (y2 - y3) * x4 + (x3 - x2) * y4 + (x2 * y3 - y2 * x3) * 1
    BY DEF Area
  <2>2. v2 = (y3 - y1) * x4 + (x1 - x3) * y4 + (x3 * y1 - y3 * x1) * 1
    BY DEF Area
  <2>3. v3 = (y1 - y2) * x4 + (x2 - x1) * y4 + (x1 * y2 - y1 * x2) * 1
    BY DEF Area
  <2> QED
    BY <1>5, <2>1, <2>2, <2>3 DEF mulv, Vector, Dot, M3
<1>7. PICK v : v = <<v1, v2, v3>>
  OBVIOUS
<1>8. /\ m[1][1] = x1 /\ m[1][2] = x2 /\ m[1][3] = x3
      /\ m[2][1] = y1 /\ m[2][2] = y2 /\ m[2][3] = y3
      /\ m[3][1] = 1 /\ m[3][2] = 1 /\ m[3][3] = 1
      /\ v[1] = v1 /\ v[2] = v2 /\ v[3] = v3
  BY <1>1, <1>7 DEF M3
<1>9. 1 * v1 = v1 /\ 1 * v2 = v2 /\ 1 * v3 = v3
  BY <1>0
<1>10. basis(p) = <<<<m[1][1] * v[1], m[1][2] * v[2], m[1][3] * v[3]>>,
                    <<m[2][1] * v[1], m[2][2] * v[2], m[2][3] * v[3]>>,
                    <<m[3][1] * v[1], m[3][2] * v[2], m[3][3] * v[3]>>>>
  BY <1>2, <1>6, <1>7, Zenon DEF basis, Matrix, Vector
<1>11. basis(p) = M3(x1 * v1, x2 * v2, x3 * v3, y1 * v1, y2 * v2, y3 * v3,
                     1 * v1, 1 * v2, 1 * v3)
  BY <1>8, <1>10 DEF M3
<1> QED
  BY <1>0, <1>9, <1>11

Unmapped(w, h) ==
    \E A, B, K \in Int :
        /\ K # 0 /\ w * A = K /\ h * B = K
        /\ adj(basis(identityCorners(<<w, h>>))) = M3(-A, -B, K, -A, 0, 0, 0, -B, 0)

\* Undoing the map of the window's corners, with w * A = h * B = K.
LEMMA WindowIs ==
    ASSUME NEW w \in Nat \ {0}, NEW h \in Nat \ {0}
    PROVE  Unmapped(w, h)
<1>1. PICK p : p = identityCorners(<<w, h>>)
  OBVIOUS
<1>2. p[1] = <<0, 0>> /\ p[2] = <<w, 0>> /\ p[3] = <<0, h>> /\ p[4] = <<w, h>>
  BY <1>1 DEF identityCorners
<1>3. w \in Int /\ h \in Int /\ 0 \in Int
  OBVIOUS
<1>4. PICK n \in Int : n = w * h
  BY <1>3
<1>5. /\ -n = Area(w, h, w, 0, 0, h) /\ n = Area(w, h, 0, h, 0, 0)
      /\ n = Area(w, h, 0, 0, w, 0)
  BY <1>3, <1>4 DEF Area
<1>6. basis(p) = M3(0 * (-n), w * n, 0 * n, 0 * (-n), 0 * n, h * n, -n, n, n)
  BY <1>2, <1>3, <1>5, BasisIs
<1>7. PICK P \in Int, Q \in Int : P = w * n /\ Q = h * n
  BY <1>3, <1>4
<1>8. basis(p) = M3(0, P, 0, 0, 0, Q, -n, n, n)
  BY <1>4, <1>6, <1>7
<1>9. adj(basis(p)) = M3(0 * n - n * Q, n * 0 - P * n, P * Q - 0 * 0,
                         Q * (-n) - n * 0, n * 0 - 0 * (-n), 0 * 0 - Q * 0,
                         0 * n - (-n) * 0, (-n) * P - 0 * n, 0 * 0 - 0 * P)
  BY <1>3, <1>4, <1>7, <1>8 DEF adj, Matrix, Vector, Next3, M3
<1>10. PICK A \in Int, B \in Int, K \in Int : A = n * Q /\ B = n * P /\ K = P * Q
  BY <1>4, <1>7
<1>11. adj(basis(p)) = M3(-A, -B, K, -A, 0, 0, 0, -B, 0)
  <2>1. /\ 0 * n - n * Q = -A /\ n * 0 - P * n = -B /\ P * Q - 0 * 0 = K
        /\ Q * (-n) - n * 0 = -A /\ n * 0 - 0 * (-n) = 0 /\ 0 * 0 - Q * 0 = 0
        /\ 0 * n - (-n) * 0 = 0 /\ (-n) * P - 0 * n = -B /\ 0 * 0 - 0 * P = 0
    BY <1>4, <1>7, <1>10
  <2> QED
    BY <1>9, <2>1
<1>12. w * A = K /\ h * B = K
  BY <1>3, <1>4, <1>7, <1>10
<1>13. K # 0
  <2>1. n # 0
    BY <1>4
  <2>2. P # 0 /\ Q # 0
    BY <1>4, <1>7, <2>1
  <2> QED
    BY <1>7, <1>10, <2>2
<1> QED
  BY <1>1, <1>10, <1>11, <1>12, <1>13 DEF Unmapped

\* A row of the product.
Row(w, h, A, B, K, b1, b2, b3, t1, t2, t3) ==
    /\ w \in Int /\ h \in Int /\ A \in Int /\ B \in Int /\ K \in Int
    /\ w * A = K /\ h * B = K
    /\ b1 \in Int /\ b2 \in Int /\ b3 \in Int
    /\ t1 = b1 * (-A) + b2 * (-A) + b3 * 0
    /\ t2 = b1 * (-B) + b2 * 0 + b3 * (-B)
    /\ t3 = b1 * K + b2 * 0 + b3 * 0

Taken(w, h, K, b1, b2, b3, t1, t2, t3) ==
    /\ t1 * 0 + t2 * 0 + t3 = b1 * K
    /\ t1 * w + t2 * 0 + t3 = b2 * (-K)
    /\ t1 * 0 + t2 * h + t3 = b3 * (-K)
    /\ t1 * w + t2 * h + t3 = (b1 + b2 + b3) * (-K)

\* What a row of the product makes of the four corners of the window.
LEMMA RowTakes ==
    ASSUME NEW w, NEW h, NEW A, NEW B, NEW K, NEW b1, NEW b2, NEW b3,
           NEW t1, NEW t2, NEW t3, Row(w, h, A, B, K, b1, b2, b3, t1, t2, t3)
    PROVE  Taken(w, h, K, b1, b2, b3, t1, t2, t3)
<1>0. /\ w \in Int /\ h \in Int /\ A \in Int /\ B \in Int /\ K \in Int
      /\ w * A = K /\ h * B = K
      /\ b1 \in Int /\ b2 \in Int /\ b3 \in Int
      /\ t1 = b1 * (-A) + b2 * (-A) + b3 * 0
      /\ t2 = b1 * (-B) + b2 * 0 + b3 * (-B)
      /\ t3 = b1 * K + b2 * 0 + b3 * 0
  BY DEF Row
<1>1. /\ t1 = -(b1 + b2) * A /\ t2 = -(b1 + b3) * B /\ t3 = b1 * K
  BY <1>0
<1>2. t1 * w = -(b1 + b2) * K
  <2>1. t1 * w = -(b1 + b2) * (w * A)
    BY <1>0, <1>1
  <2> QED
    BY <1>0, <2>1
<1>3. t2 * h = -(b1 + b3) * K
  <2>1. t2 * h = -(b1 + b3) * (h * B)
    BY <1>0, <1>1
  <2> QED
    BY <1>0, <2>1
<1>4. t1 \in Int /\ t2 \in Int /\ t3 \in Int
  BY <1>0, <1>1
<1>5. t1 * 0 = 0 /\ t2 * 0 = 0
  BY <1>0, <1>4
<1> QED
  BY <1>0, <1>1, <1>2, <1>3, <1>4, <1>5 DEF Taken

\* Four points with these coordinates.
Sits(p, x1, y1, x2, y2, x3, y3, x4, y4) ==
    /\ x1 \in Int /\ y1 \in Int /\ x2 \in Int /\ y2 \in Int
    /\ x3 \in Int /\ y3 \in Int /\ x4 \in Int /\ y4 \in Int
    /\ p[1] = <<x1, y1>> /\ p[2] = <<x2, y2>> /\ p[3] = <<x3, y3>> /\ p[4] = <<x4, y4>>

\* The areas with the fourth point, and the area without.
Areas(x1, y1, x2, y2, x3, y3, x4, y4, v1, v2, v3, D) ==
    /\ v1 = Area(x4, y4, x2, y2, x3, y3) /\ v2 = Area(x4, y4, x3, y3, x1, y1)
    /\ v3 = Area(x4, y4, x1, y1, x2, y2) /\ D = Area(x1, y1, x2, y2, x3, y3)

Apart(ax, ay, bx, by, cx, cy) ==
    /\ ax \in Int /\ ay \in Int /\ bx \in Int /\ by \in Int /\ cx \in Int /\ cy \in Int
    /\ (bx - ax) * (cy - ay) # (by - ay) * (cx - ax)

\* Three corners that are not on a line span an area.
LEMMA AreaIsNot ==
    ASSUME NEW ax, NEW ay, NEW bx, NEW by, NEW cx, NEW cy, Apart(ax, ay, bx, by, cx, cy)
    PROVE  Area(ax, ay, bx, by, cx, cy) # 0
<1>1. /\ ax \in Int /\ ay \in Int /\ bx \in Int /\ by \in Int /\ cx \in Int /\ cy \in Int
      /\ (bx - ax) * (cy - ay) # (by - ay) * (cx - ax)
  BY DEF Apart
<1>2. Area(ax, ay, bx, by, cx, cy) = (bx - ax) * (cy - ay) - (by - ay) * (cx - ax)
  BY <1>1 DEF Area
<1> QED
  BY <1>1, <1>2

\* The same, of the points by their names.
LEMMA PlacedBasis ==
    ASSUME NEW p, NEW x1, NEW y1, NEW x2, NEW y2, NEW x3, NEW y3, NEW x4, NEW y4,
           Sits(p, x1, y1, x2, y2, x3, y3, x4, y4),
           NEW v1, NEW v2, NEW v3, NEW D,
           Areas(x1, y1, x2, y2, x3, y3, x4, y4, v1, v2, v3, D)
    PROVE  /\ v1 \in Int /\ v2 \in Int /\ v3 \in Int
           /\ basis(p) = M3(x1 * v1, x2 * v2, x3 * v3, y1 * v1, y2 * v2, y3 * v3, v1, v2, v3)
<1>1. /\ x1 \in Int /\ y1 \in Int /\ x2 \in Int /\ y2 \in Int
      /\ x3 \in Int /\ y3 \in Int /\ x4 \in Int /\ y4 \in Int
  BY DEF Sits
<1>2. p[1] = <<x1, y1>> /\ p[2] = <<x2, y2>> /\ p[3] = <<x3, y3>> /\ p[4] = <<x4, y4>>
  BY DEF Sits
<1>3. /\ v1 = Area(x4, y4, x2, y2, x3, y3) /\ v2 = Area(x4, y4, x3, y3, x1, y1)
      /\ v3 = Area(x4, y4, x1, y1, x2, y2)
  BY DEF Areas
<1> QED
  BY <1>1, <1>2, <1>3, BasisIs

\* The fourth point is the sum of the others by their areas.
LEMMA PlacedAdd ==
    ASSUME NEW p, NEW x1, NEW y1, NEW x2, NEW y2, NEW x3, NEW y3, NEW x4, NEW y4,
           Sits(p, x1, y1, x2, y2, x3, y3, x4, y4),
           NEW v1, NEW v2, NEW v3, NEW D,
           Areas(x1, y1, x2, y2, x3, y3, x4, y4, v1, v2, v3, D)
    PROVE  /\ D \in Int /\ v1 + v2 + v3 = D
           /\ x1 * v1 + x2 * v2 + x3 * v3 = x4 * D
           /\ y1 * v1 + y2 * v2 + y3 * v3 = y4 * D
<1>1. /\ x1 \in Int /\ y1 \in Int /\ x2 \in Int /\ y2 \in Int
      /\ x3 \in Int /\ y3 \in Int /\ x4 \in Int /\ y4 \in Int
  BY DEF Sits
<1>2. D \in Int /\ v1 + v2 + v3 = D
  BY <1>1 DEF Areas, Area
<1>3. x1 * v1 + x2 * v2 + x3 * v3 = x4 * D
  BY <1>1 DEF Areas, Area
<1>4. y1 * v1 + y2 * v2 + y3 * v3 = y4 * D
  BY <1>1 DEF Areas, Area
<1> QED
  BY <1>2, <1>3, <1>4

\* With no three on a line, no area is zero.
LEMMA PlacedApart ==
    ASSUME NEW p, NEW x1, NEW y1, NEW x2, NEW y2, NEW x3, NEW y3, NEW x4, NEW y4,
           Sits(p, x1, y1, x2, y2, x3, y3, x4, y4), General(p),
           NEW v1, NEW v2, NEW v3, NEW D,
           Areas(x1, y1, x2, y2, x3, y3, x4, y4, v1, v2, v3, D)
    PROVE  v1 # 0 /\ v2 # 0 /\ v3 # 0 /\ D # 0
<1>1. /\ x1 \in Int /\ y1 \in Int /\ x2 \in Int /\ y2 \in Int
      /\ x3 \in Int /\ y3 \in Int /\ x4 \in Int /\ y4 \in Int
  BY DEF Sits
<1>2. p[1] = <<x1, y1>> /\ p[2] = <<x2, y2>> /\ p[3] = <<x3, y3>> /\ p[4] = <<x4, y4>>
  BY DEF Sits
<1>3. /\ ~Collinear(p[1], p[2], p[3]) /\ ~Collinear(p[1], p[2], p[4])
      /\ ~Collinear(p[1], p[3], p[4]) /\ ~Collinear(p[2], p[3], p[4])
  BY DEF General
<1>4. Apart(x1, y1, x2, y2, x3, y3)
  BY <1>1, <1>2, <1>3 DEF Collinear, Apart
<1>5. Apart(x1, y1, x2, y2, x4, y4)
  BY <1>1, <1>2, <1>3 DEF Collinear, Apart
<1>6. Apart(x1, y1, x3, y3, x4, y4)
  BY <1>1, <1>2, <1>3 DEF Collinear, Apart
<1>7. Apart(x2, y2, x3, y3, x4, y4)
  BY <1>1, <1>2, <1>3 DEF Collinear, Apart
<1>8. /\ v1 = Area(x2, y2, x3, y3, x4, y4) /\ v3 = Area(x1, y1, x2, y2, x4, y4)
      /\ D = Area(x1, y1, x2, y2, x3, y3)
  BY <1>1 DEF Areas, Area
<1>9. v2 = -Area(x1, y1, x3, y3, x4, y4) /\ Area(x1, y1, x3, y3, x4, y4) \in Int
  BY <1>1 DEF Areas, Area
<1>10. Area(x1, y1, x3, y3, x4, y4) # 0
  BY <1>6, AreaIsNot
<1>11. v2 # 0
  BY <1>9, <1>10
<1> QED
  BY <1>4, <1>5, <1>7, <1>8, <1>11, AreaIsNot

\* The matrix takes the corners of the window to four points in general position.
LEMMA MatrixTakes ==
    ASSUME NEW win \in (Nat \ {0}) \X (Nat \ {0}), NEW p \in [1..4 -> Int \X Int],
           General(p), NEW i \in 1..4
    PROVE  Takes(matrix3d(win, p), identityCorners(win)[i], p[i])
<1>1. PICK w, h \in Nat \ {0} : win = <<w, h>>
  OBVIOUS
<1>2. PICK x1, y1, x2, y2, x3, y3, x4, y4 :
        /\ x1 \in Int /\ y1 \in Int /\ x2 \in Int /\ y2 \in Int
        /\ x3 \in Int /\ y3 \in Int /\ x4 \in Int /\ y4 \in Int
        /\ p[1] = <<x1, y1>> /\ p[2] = <<x2, y2>> /\ p[3] = <<x3, y3>> /\ p[4] = <<x4, y4>>
  <2>1. /\ p[1] \in Int \X Int /\ p[2] \in Int \X Int
        /\ p[3] \in Int \X Int /\ p[4] \in Int \X Int
    OBVIOUS
  <2>2. ASSUME NEW q \in Int \X Int
        PROVE  q[1] \in Int /\ q[2] \in Int /\ q = <<q[1], q[2]>>
    OBVIOUS
  <2> QED
    BY <2>1, <2>2
<1>3. PICK v1, v2, v3, D :
        /\ v1 = Area(x4, y4, x2, y2, x3, y3) /\ v2 = Area(x4, y4, x3, y3, x1, y1)
        /\ v3 = Area(x4, y4, x1, y1, x2, y2) /\ D = Area(x1, y1, x2, y2, x3, y3)
  OBVIOUS
<1>4. Sits(p, x1, y1, x2, y2, x3, y3, x4, y4)
  BY <1>2 DEF Sits
<1>5. Areas(x1, y1, x2, y2, x3, y3, x4, y4, v1, v2, v3, D)
  BY <1>3 DEF Areas
<1>6. /\ v1 \in Int /\ v2 \in Int /\ v3 \in Int
      /\ basis(p) = M3(x1 * v1, x2 * v2, x3 * v3, y1 * v1, y2 * v2, y3 * v3, v1, v2, v3)
  BY ONLY <1>4, <1>5, PlacedBasis
<1>7. /\ D \in Int /\ v1 + v2 + v3 = D
      /\ x1 * v1 + x2 * v2 + x3 * v3 = x4 * D
      /\ y1 * v1 + y2 * v2 + y3 * v3 = y4 * D
  BY ONLY <1>4, <1>5, PlacedAdd
<1>8. v1 # 0 /\ v2 # 0 /\ v3 # 0 /\ D # 0
  BY ONLY General(p), <1>4, <1>5, PlacedApart
<1>9. PICK A, B, K \in Int :
        /\ K # 0 /\ w * A = K /\ h * B = K
        /\ adj(basis(identityCorners(win))) = M3(-A, -B, K, -A, 0, 0, 0, -B, 0)
  <2>1. w \in Nat \ {0} /\ h \in Nat \ {0}
    BY <1>1
  <2>2. Unmapped(w, h)
    BY ONLY <2>1, WindowIs
  <2> QED
    BY <1>1, <2>2 DEF Unmapped
<1>10. PICK u1, u2, u3, z1, z2, z3 \in Int :
        /\ u1 = x1 * v1 /\ u2 = x2 * v2 /\ u3 = x3 * v3
        /\ z1 = y1 * v1 /\ z2 = y2 * v2 /\ z3 = y3 * v3
  BY <1>2, <1>6
<1>11. PICK m, b : /\ m = adj(basis(identityCorners(win))) /\ b = basis(p)
  OBVIOUS
<1>12. /\ m[1][1] = -A /\ m[1][2] = -B /\ m[1][3] = K
       /\ m[2][1] = -A /\ m[2][2] = 0 /\ m[2][3] = 0
       /\ m[3][1] = 0 /\ m[3][2] = -B /\ m[3][3] = 0
  BY <1>9, <1>11 DEF M3
<1>13. b = M3(u1, u2, u3, z1, z2, z3, v1, v2, v3)
  BY <1>6, <1>10, <1>11
<1>14. PICK t11, t12, t13, t21, t22, t23, t31, t32, t33 :
        /\ t11 = u1 * (-A) + u2 * (-A) + u3 * 0
        /\ t12 = u1 * (-B) + u2 * 0 + u3 * (-B)
        /\ t13 = u1 * K + u2 * 0 + u3 * 0
        /\ t21 = z1 * (-A) + z2 * (-A) + z3 * 0
        /\ t22 = z1 * (-B) + z2 * 0 + z3 * (-B)
        /\ t23 = z1 * K + z2 * 0 + z3 * 0
        /\ t31 = v1 * (-A) + v2 * (-A) + v3 * 0
        /\ t32 = v1 * (-B) + v2 * 0 + v3 * (-B)
        /\ t33 = v1 * K + v2 * 0 + v3 * 0
  OBVIOUS
<1>15. mul(b, m) = M3(t11, t12, t13, t21, t22, t23, t31, t32, t33)
  <2>1. mul(b, m) =
           M3(u1 * m[1][1] + u2 * m[2][1] + u3 * m[3][1],
              u1 * m[1][2] + u2 * m[2][2] + u3 * m[3][2],
              u1 * m[1][3] + u2 * m[2][3] + u3 * m[3][3],
              z1 * m[1][1] + z2 * m[2][1] + z3 * m[3][1],
              z1 * m[1][2] + z2 * m[2][2] + z3 * m[3][2],
              z1 * m[1][3] + z2 * m[2][3] + z3 * m[3][3],
              v1 * m[1][1] + v2 * m[2][1] + v3 * m[3][1],
              v1 * m[1][2] + v2 * m[2][2] + v3 * m[3][2],
              v1 * m[1][3] + v2 * m[2][3] + v3 * m[3][3])
    BY ONLY <1>6, <1>10, <1>13, MulIs
  <2> QED
    BY <1>12, <1>14, <2>1
<1>16. PICK css : css = matrix3d(win, p)
  OBVIOUS
<1>17. /\ css[1] = t11 /\ css[2] = t21 /\ css[4] = t31
       /\ css[5] = t12 /\ css[6] = t22 /\ css[8] = t32
       /\ css[13] = t13 /\ css[14] = t23 /\ css[16] = t33
  <2>1. css = CssOrder(mul(b, m))
    BY <1>11, <1>16 DEF matrix3d
  <2>2. css = CssOrder(M3(t11, t12, t13, t21, t22, t23, t31, t32, t33))
    BY <1>15, <2>1
  <2> QED
    BY <2>2 DEF CssOrder, M3
<1>18. /\ t11 * 0 + t12 * 0 + t13 = u1 * K
       /\ t11 * w + t12 * 0 + t13 = u2 * (-K)
       /\ t11 * 0 + t12 * h + t13 = u3 * (-K)
       /\ t11 * w + t12 * h + t13 = (u1 + u2 + u3) * (-K)
  <2>1. Row(w, h, A, B, K, u1, u2, u3, t11, t12, t13)
    BY <1>1, <1>6, <1>9, <1>10, <1>14 DEF Row
  <2>2. Taken(w, h, K, u1, u2, u3, t11, t12, t13)
    BY ONLY <2>1, RowTakes
  <2> QED
    BY <2>2 DEF Taken
<1>19. /\ t21 * 0 + t22 * 0 + t23 = z1 * K
       /\ t21 * w + t22 * 0 + t23 = z2 * (-K)
       /\ t21 * 0 + t22 * h + t23 = z3 * (-K)
       /\ t21 * w + t22 * h + t23 = (z1 + z2 + z3) * (-K)
  <2>1. Row(w, h, A, B, K, z1, z2, z3, t21, t22, t23)
    BY <1>1, <1>6, <1>9, <1>10, <1>14 DEF Row
  <2>2. Taken(w, h, K, z1, z2, z3, t21, t22, t23)
    BY ONLY <2>1, RowTakes
  <2> QED
    BY <2>2 DEF Taken
<1>20. /\ t31 * 0 + t32 * 0 + t33 = v1 * K
       /\ t31 * w + t32 * 0 + t33 = v2 * (-K)
       /\ t31 * 0 + t32 * h + t33 = v3 * (-K)
       /\ t31 * w + t32 * h + t33 = (v1 + v2 + v3) * (-K)
  <2>1. Row(w, h, A, B, K, v1, v2, v3, t31, t32, t33)
    BY <1>1, <1>6, <1>9, <1>10, <1>14 DEF Row
  <2>2. Taken(w, h, K, v1, v2, v3, t31, t32, t33)
    BY ONLY <2>1, RowTakes
  <2> QED
    BY <2>2 DEF Taken
<1>21. css[16] # 0
  <2>1. t33 = v1 * K
    BY <1>6, <1>9, <1>14
  <2> QED
    BY <1>6, <1>8, <1>9, <1>17, <2>1
<1>22. ASSUME NEW q, NEW q1, NEW q2, q = <<q1, q2>>, NEW x \in Int, NEW y \in Int,
              NEW W \in Int, W # 0,
              t11 * q1 + t12 * q2 + t13 = x * W,
              t21 * q1 + t22 * q2 + t23 = y * W,
              t31 * q1 + t32 * q2 + t33 = W
       PROVE  Takes(css, q, <<x, y>>)
  <2>1. Applied(css, q) = [x |-> x * W, y |-> y * W, w |-> W]
    BY <1>17, <1>22 DEF Applied
  <2> QED
    BY <1>21, <1>22, <2>1 DEF Takes
<1>23. CASE i = 1
  <2>1. identityCorners(win)[1] = <<0, 0>>
    BY <1>1 DEF identityCorners
  <2>2. PICK W \in Int : W = v1 * K
    BY <1>6, <1>9
  <2>3. W # 0
    BY <1>6, <1>8, <1>9, <2>2
  <2>4. u1 * K = x1 * W /\ z1 * K = y1 * W
    BY <1>2, <1>6, <1>9, <1>10, <2>2
  <2> QED
    BY <1>2, <1>16, <1>18, <1>19, <1>20, <1>22, <1>23, <2>1, <2>2, <2>3, <2>4
<1>24. CASE i = 2
  <2>1. identityCorners(win)[2] = <<w, 0>>
    BY <1>1 DEF identityCorners
  <2>2. PICK W \in Int : W = v2 * (-K)
    BY <1>6, <1>9
  <2>3. W # 0
    BY <1>6, <1>8, <1>9, <2>2
  <2>4. u2 * (-K) = x2 * W /\ z2 * (-K) = y2 * W
    BY <1>2, <1>6, <1>9, <1>10, <2>2
  <2> QED
    BY <1>2, <1>16, <1>18, <1>19, <1>20, <1>22, <1>24, <2>1, <2>2, <2>3, <2>4
<1>25. CASE i = 3
  <2>1. identityCorners(win)[3] = <<0, h>>
    BY <1>1 DEF identityCorners
  <2>2. PICK W \in Int : W = v3 * (-K)
    BY <1>6, <1>9
  <2>3. W # 0
    BY <1>6, <1>8, <1>9, <2>2
  <2>4. u3 * (-K) = x3 * W /\ z3 * (-K) = y3 * W
    BY <1>2, <1>6, <1>9, <1>10, <2>2
  <2> QED
    BY <1>2, <1>16, <1>18, <1>19, <1>20, <1>22, <1>25, <2>1, <2>2, <2>3, <2>4
<1>26. CASE i = 4
  <2>1. identityCorners(win)[4] = <<w, h>>
    BY <1>1 DEF identityCorners
  <2>2. PICK W \in Int : W = D * (-K)
    BY <1>7, <1>9
  <2>3. W # 0
    BY <1>7, <1>8, <1>9, <2>2
  <2>4. (v1 + v2 + v3) * (-K) = W
    BY <1>7, <2>2
  <2>5. (u1 + u2 + u3) * (-K) = x4 * W
    <3>1. u1 + u2 + u3 = x4 * D
      BY <1>7, <1>10
    <3>2. (u1 + u2 + u3) * (-K) = (x4 * D) * (-K)
      BY <3>1
    <3> QED
      BY <1>2, <1>7, <1>9, <2>2, <3>2
  <2>6. (z1 + z2 + z3) * (-K) = y4 * W
    <3>1. z1 + z2 + z3 = y4 * D
      BY <1>7, <1>10
    <3>2. (z1 + z2 + z3) * (-K) = (y4 * D) * (-K)
      BY <3>1
    <3> QED
      BY <1>2, <1>7, <1>9, <2>2, <3>2
  <2> QED
    <3>1. /\ t11 * w + t12 * h + t13 = x4 * W /\ t21 * w + t22 * h + t23 = y4 * W
          /\ t31 * w + t32 * h + t33 = W
      BY <1>18, <1>19, <1>20, <2>4, <2>5, <2>6
    <3>2. x4 \in Int /\ y4 \in Int /\ p[4] = <<x4, y4>>
      BY <1>2
    <3>3. W \in Int /\ W # 0
      BY <2>2, <2>3
    <3>4. Takes(css, <<w, h>>, <<x4, y4>>)
      BY ONLY <1>22, <3>1, <3>2, <3>3, Zenon
    <3> QED
      BY <1>16, <1>26, <2>1, <3>2, <3>4
<1> QED
  BY <1>23, <1>24, <1>25, <1>26

\* The corners of a window whose corners are in general position.
LEMMA TypeTakes == KeystoneTypeOK => MatrixMapsCorners
<1>1. SUFFICES ASSUME KeystoneTypeOK, General(corners), NEW i \in 1..4
               PROVE  Takes(matrix3d(window, corners), identityCorners(window)[i], corners[i])
  BY DEF MatrixMapsCorners
<1>2. window \in (Nat \ {0}) \X (Nat \ {0}) /\ corners \in [1..4 -> Int \X Int]
  BY <1>1, KeystoneAssumption DEF KeystoneTypeOK, Corners
<1> QED
  BY <1>1, <1>2, MatrixTakes

\* For every window and all points the CSS matrix takes the corners of the
\* window to the four handles, when no three of them are on a line.
THEOREM MatrixIsExact == KeystoneSpec => []MatrixMapsCorners
BY CornersTyped, TypeTakes, PTL

(******************************* the trip store ****************************)

TripType ==
    [id : Nat, t0 : Nat, t1 : Nat, nPoints : 1..MAX_POINTS_PER_TRIP,
     offset : Nat]

\* Every nonempty set of naturals has a least element.
LEMMA LeastNumber ==
    ASSUME NEW T \in SUBSET Nat, T # {}
    PROVE  \E x \in T : \A y \in T : x <= y
  <1> DEFINE R == {p \in Nat \X Nat : p[1] < p[2]}
  <1>1. IsWellFoundedOn(R, Nat)
    BY NatLessThanWellFounded DEF OpToRel
  <1>2. PICK x \in T : \A y \in T : ~ (<<y, x>> \in R)
    <2> HIDE DEF R
    <2> QED
      BY <1>1, WFMin
  <1>3. \A y \in T : ~(y < x)
    BY <1>2
  <1> QED
    BY <1>3

LEMMA TripIs ==
    ASSUME NEW ts \in Seq(TripType), NEW i \in 1..Len(ts)
    PROVE  /\ ts[i].id \in Nat /\ ts[i].t0 \in Nat /\ ts[i].t1 \in Nat
           /\ ts[i].nPoints \in 1..MAX_POINTS_PER_TRIP /\ ts[i].nPoints \in Nat
           /\ ts[i].offset \in Nat
<1>1. PICK t \in TripType : t = ts[i]
  OBVIOUS
<1>2. /\ t.id \in Nat /\ t.t0 \in Nat /\ t.t1 \in Nat
      /\ t.nPoints \in 1..MAX_POINTS_PER_TRIP /\ t.offset \in Nat
  BY <1>1 DEF TripType
<1>3. t.nPoints \in Nat
  BY <1>2, StoreAssumption
<1> QED
  BY <1>1, <1>2, <1>3

\* Widths are counts of places, of which there are finitely many.
LEMMA WidthIs ==
    ASSUME NEW ts, NEW n \in Nat
    PROVE  IsFiniteSet(Places(ts, n)) /\ Width(ts, n) \in Nat
<1>1. MAX_POINTS_PER_TRIP \in Int /\ n \in Int /\ 1 \in Int
  BY StoreAssumption
<1>2. IsFiniteSet(1..n) /\ IsFiniteSet(1..MAX_POINTS_PER_TRIP)
  BY <1>1, FS_Interval
<1>3. IsFiniteSet((1..n) \X (1..MAX_POINTS_PER_TRIP))
  BY <1>2, FS_Product
<1>4. Places(ts, n) \in SUBSET ((1..n) \X (1..MAX_POINTS_PER_TRIP))
  BY DEF Places
<1>5. IsFiniteSet(Places(ts, n))
  BY <1>3, <1>4, FS_Subset
<1> QED
  BY <1>5, FS_CardinalityType DEF Width

LEMMA WidthOfNone ==
    ASSUME NEW ts
    PROVE  Width(ts, 0) = 0
<1>1. Places(ts, 0) = {}
  BY DEF Places
<1> QED
  BY <1>1, FS_EmptySet DEF Width

\* The n-th trip adds its vertices.
LEMMA WidthNext ==
    ASSUME NEW ts \in Seq(TripType), NEW n \in 1..Len(ts)
    PROVE  Width(ts, n) = Width(ts, n - 1) + ts[n].nPoints
<1> DEFINE S == Places(ts, n - 1)
           k == ts[n].nPoints
           T == {n} \X (1..k)
<1>1. /\ k \in 1..MAX_POINTS_PER_TRIP /\ k \in Nat /\ MAX_POINTS_PER_TRIP \in Nat
      /\ n \in Nat /\ n - 1 \in Nat
  BY TripIs, StoreAssumption
<1>2. Places(ts, n) = S \cup T
  <2>1. ASSUME NEW v \in Places(ts, n) PROVE v \in S \cup T
    <3>1. /\ v \in (1..n) \X (1..MAX_POINTS_PER_TRIP)
          /\ v[2] <= ts[v[1]].nPoints
      BY <2>1 DEF Places
    <3>2. CASE v[1] = n
      <4>1. v = <<n, v[2]>> /\ v[2] \in 1..k
        BY <1>1, <3>1, <3>2
      <4> QED
        BY <4>1
    <3>3. CASE v[1] # n
      <4>1. v[1] \in 1..(n - 1)
        BY <1>1, <3>1, <3>3
      <4>2. v \in (1..(n - 1)) \X (1..MAX_POINTS_PER_TRIP)
        BY <3>1, <4>1
      <4> QED
        BY <3>1, <4>2 DEF Places
    <3> QED
      BY <3>2, <3>3
  <2>2. ASSUME NEW v \in S PROVE v \in Places(ts, n)
    BY <1>1, <2>2 DEF Places
  <2>3. ASSUME NEW v \in T PROVE v \in Places(ts, n)
    <3>1. v = <<n, v[2]>> /\ v[1] = n /\ v[2] \in 1..k
      BY <2>3
    <3>2. v \in (1..n) \X (1..MAX_POINTS_PER_TRIP) /\ v[2] <= ts[v[1]].nPoints
      BY <1>1, <3>1
    <3> QED
      BY <3>2 DEF Places
  <2> QED
    BY <2>1, <2>2, <2>3
<1>3. S \cap T = {}
  BY <1>1 DEF Places
<1>4. IsFiniteSet(T) /\ Cardinality(T) = k
  <2>1. IsFiniteSet({n}) /\ Cardinality({n}) = 1
    BY FS_Singleton
  <2>2. IsFiniteSet(1..k) /\ Cardinality(1..k) = k
    <3>1. 1 \in Int /\ k \in Int
      BY <1>1
    <3>2. (IF 1 > k THEN 0 ELSE (k - 1) + 1) = k
      BY <1>1
    <3> HIDE DEF k
    <3> QED
      BY <3>1, <3>2, FS_Interval
  <2>3. IsFiniteSet(T) /\ Cardinality(T) = Cardinality({n}) * Cardinality(1..k)
    BY <2>1, <2>2, FS_Product
  <2> QED
    BY <1>1, <2>1, <2>2, <2>3
<1>5. IsFiniteSet(S) /\ Cardinality(S) \in Nat
  BY <1>1, WidthIs DEF Width
<1>6. Cardinality(S \cup T) = Cardinality(S) + Cardinality(T) - Cardinality(S \cap T)
  <2> HIDE DEF S, T
  <2> QED
    BY <1>4, <1>5, FS_Union
<1>7. Cardinality(S \cap T) = 0
  BY <1>3, FS_EmptySet
<1>8. Width(ts, n) = Cardinality(S) + k
  <2> HIDE DEF S, T, k
  <2> QED
    BY <1>1, <1>2, <1>4, <1>5, <1>6, <1>7 DEF Width
<1> QED
  BY <1>8 DEF Width

LEMMA WidthGrows ==
    ASSUME NEW ts, NEW m \in Nat, NEW n \in Nat, m <= n
    PROVE  Width(ts, m) <= Width(ts, n)
<1>1. Places(ts, m) \in SUBSET Places(ts, n)
  BY DEF Places
<1>2. IsFiniteSet(Places(ts, n))
  BY WidthIs
<1> QED
  BY <1>1, <1>2, FS_Subset DEF Width

\* Widths depend on the numbers of vertices alone.
LEMMA WidthOfSame ==
    ASSUME NEW ts, NEW us, NEW n \in Nat,
           \A i \in 1..n : ts[i].nPoints = us[i].nPoints
    PROVE  Width(ts, n) = Width(us, n)
<1>1. Places(ts, n) = Places(us, n)
  BY DEF Places
<1> QED
  BY <1>1 DEF Width

LEMMA AfterIs ==
    ASSUME NEW S, NEW ts \in Seq(S), NEW n \in 0..Len(ts)
    PROVE  /\ After(ts, n) \in Seq(S) /\ Len(After(ts, n)) = Len(ts) - n
           /\ \A i \in 1..(Len(ts) - n) : After(ts, n)[i] = ts[i + n]
<1>1. PICK k \in Nat : k = Len(ts)
  OBVIOUS
<1>2. \A i \in (n + 1)..k : ts[i] \in S
  BY <1>1
<1>3. n \in 0..k /\ (k - (n + 1)) + 1 = k - n /\ k - n \in Nat
  BY <1>1
<1>4. After(ts, n) = [i \in 1..(k - n) |-> ts[(i + (n + 1)) - 1]]
  BY <1>1, <1>3 DEF After
<1>5. \A i \in 1..(k - n) : (i + (n + 1)) - 1 = i + n /\ i + n \in (n + 1)..k
  BY <1>3
<1>6. \A i \in 1..(k - n) : After(ts, n)[i] = ts[i + n] /\ ts[i + n] \in S
  BY <1>2, <1>4, <1>5
<1>7. After(ts, n) \in [1..(k - n) -> S]
  BY <1>4, <1>5, <1>6
<1> QED
  BY <1>1, <1>3, <1>6, <1>7

\* What is left takes no more than it did.
LEMMA WidthOfAfter ==
    ASSUME NEW ts \in Seq(TripType), NEW n \in 0..Len(ts)
    PROVE  Width(After(ts, n), Len(ts) - n) <= Width(ts, Len(ts))
<1>1. PICK k \in Nat : k = Len(ts)
  OBVIOUS
<1> DEFINE us == After(ts, n)
           S == Places(us, k - n)
           T == Places(ts, k)
           f == [v \in S |-> <<v[1] + n, v[2]>>]
<1>2. n \in Nat /\ k - n \in Nat /\ \A i \in 1..(k - n) : us[i] = ts[i + n]
  <2>1. \A i \in 1..(Len(ts) - n) : After(ts, n)[i] = ts[i + n]
    BY AfterIs
  <2> QED
    BY <1>1, <2>1
<1>3. ASSUME NEW v \in S
      PROVE  /\ f[v] \in T /\ v = <<v[1], v[2]>> /\ v[1] \in Nat
             /\ f[v] = <<v[1] + n, v[2]>>
  <2>1. /\ v \in (1..(k - n)) \X (1..MAX_POINTS_PER_TRIP)
        /\ v[2] <= us[v[1]].nPoints
    BY <1>3 DEF Places
  <2>2. /\ v = <<v[1], v[2]>> /\ v[1] \in 1..(k - n) /\ v[1] \in Nat
        /\ v[2] \in 1..MAX_POINTS_PER_TRIP
    BY <2>1
  <2>3. v[1] + n \in 1..k
    BY <1>1, <1>2, <2>2
  <2>4. v[2] <= ts[v[1] + n].nPoints
    BY <1>2, <2>1, <2>2
  <2>5. <<v[1] + n, v[2]>> \in T
    BY <2>2, <2>3, <2>4 DEF Places
  <2> QED
    BY <2>2, <2>5
<1>4. \A v, w \in S : f[v] = f[w] => v = w
  <2>1. SUFFICES ASSUME NEW v \in S, NEW w \in S, f[v] = f[w]
                 PROVE  v = w
    OBVIOUS
  <2>2. v[1] + n = w[1] + n /\ v[2] = w[2]
    BY <1>3, <2>1
  <2>3. /\ v = <<v[1], v[2]>> /\ v[1] \in Nat
        /\ w = <<w[1], w[2]>> /\ w[1] \in Nat
    BY <1>3
  <2>4. v[1] = w[1]
    <3>1. PICK a \in Nat, b \in Nat : a = v[1] /\ b = w[1]
      BY <2>3
    <3>2. a + n = b + n
      BY <2>2, <3>1
    <3> QED
      BY <1>2, <3>1, <3>2
  <2> QED
    BY <2>2, <2>3, <2>4
<1>5. f \in Injection(S, T)
  <2>1. f \in [S -> T]
    BY <1>3
  <2> HIDE DEF f, S, T
  <2> QED
    BY <1>4, <2>1 DEF Injection, IsInjective
<1>6. IsFiniteSet(T)
  BY WidthIs
<1>7. Cardinality(S) <= Cardinality(T)
  <2> HIDE DEF f, S, T
  <2> QED
    BY <1>5, <1>6, FS_Injection
<1> QED
  BY <1>1, <1>7 DEF Width

\* Every vertex of a trip is found where the trip begins now, and nothing else is.
VerticesKept(ts, vs) ==
    \A i \in 1..Len(ts) : \A j \in 0..(ts[i].nPoints - 1) :
        vs[ts[i].offset + j] = <<ts[i].id, j>>

\* A store whose trips lie one after the other with their own vertices.
Sound(s) ==
    /\ s.trips \in Seq(TripType) /\ Len(s.trips) <= MAX_TRIPS
    /\ \E f : s.vertices = [v \in 0..(VERTEX_BUDGET - 1) |-> f[v]]
    /\ s.next = Width(s.trips, Len(s.trips)) /\ s.next <= VERTEX_BUDGET
    /\ \A i \in 1..Len(s.trips) : s.trips[i].offset = Width(s.trips, i - 1)
    /\ VerticesKept(s.trips, s.vertices)

\* Two trips but for where they begin.
SameTrip(t, u) == t.id = u.id /\ t.t0 = u.t0 /\ t.t1 = u.t1 /\ t.nPoints = u.nPoints

LEMMA OwnerIs ==
    ASSUME NEW ts \in Seq(TripType), NEW i \in 1..Len(ts), NEW v \in Nat,
           Width(ts, i - 1) <= v, v < Width(ts, i)
    PROVE  Owner(ts, v) = i
<1>1. PICK k \in Nat : k = Len(ts)
  OBVIOUS
<1>2. \A j \in 0..k : Width(ts, j) \in Nat
  BY WidthIs
<1>3. ASSUME NEW j \in 1..k, Width(ts, j - 1) <= v, v < Width(ts, j)
      PROVE  j = i
  <2>1. PICK a \in Nat, b \in Nat, c \in Nat, d \in Nat :
          /\ a = Width(ts, i - 1) /\ b = Width(ts, i)
          /\ c = Width(ts, j - 1) /\ d = Width(ts, j)
    <3>1. j \in 0..k /\ j - 1 \in 0..k /\ i \in 0..k /\ i - 1 \in 0..k
      BY <1>1
    <3>2. /\ Width(ts, i - 1) \in Nat /\ Width(ts, i) \in Nat
          /\ Width(ts, j - 1) \in Nat /\ Width(ts, j) \in Nat
      BY <1>2, <3>1
    <3> QED
      BY <3>2
  <2>2. CASE j < i
    <3>1. j \in Nat /\ i - 1 \in Nat /\ j <= i - 1
      BY <1>1, <2>2
    <3>2. Width(ts, j) <= Width(ts, i - 1)
      BY <3>1, WidthGrows
    <3>3. d <= a /\ a <= v /\ v < d
      BY <1>3, <2>1, <3>2
    <3> QED
      BY ONLY <3>3, a \in Nat, d \in Nat, v \in Nat
  <2>3. CASE i < j
    <3>1. i \in Nat /\ j - 1 \in Nat /\ i <= j - 1
      BY <1>1, <2>3
    <3>2. Width(ts, i) <= Width(ts, j - 1)
      BY <3>1, WidthGrows
    <3>3. b <= c /\ c <= v /\ v < b
      BY <1>3, <2>1, <3>2
    <3> QED
      BY ONLY <3>3, b \in Nat, c \in Nat, v \in Nat
  <2> QED
    BY <1>1, <2>2, <2>3
<1>4. Width(ts, i - 1) <= v /\ v < Width(ts, i) /\ i \in 1..k
  BY <1>1
<1> QED
  BY <1>1, <1>3, <1>4, Zenon DEF Owner

\* The forward pass: whatever order the trips were in, they end up packed, each
\* with its own vertices.
LEMMA RepackedIs ==
    ASSUME NEW s, s.trips \in Seq(TripType), Len(s.trips) <= MAX_TRIPS,
           \E f : s.vertices = [v \in 0..(VERTEX_BUDGET - 1) |-> f[v]],
           Width(s.trips, Len(s.trips)) <= VERTEX_BUDGET,
           VerticesKept(s.trips, s.vertices)
    PROVE  /\ Sound(Repacked(s))
           /\ Len(Repacked(s).trips) = Len(s.trips)
           /\ \A i \in 1..Len(s.trips) : SameTrip(Repacked(s).trips[i], s.trips[i])
<1>1. PICK k \in Nat : k = Len(s.trips)
  OBVIOUS
<1> DEFINE ts == s.trips
           us == [i \in 1..k |-> [ts[i] EXCEPT !.offset = Width(ts, i - 1)]]
           vs == Slid(ts, s.vertices)
<1>2. Repacked(s).trips = us /\ Repacked(s).vertices = vs /\ Repacked(s).next = Width(ts, k)
  BY <1>1 DEF Repacked, Store
<1>3. ASSUME NEW i \in 1..k
      PROVE  /\ us[i] \in TripType /\ us[i].offset = Width(ts, i - 1)
             /\ SameTrip(us[i], ts[i])
  <2>1. PICK t \in TripType : t = ts[i]
    BY <1>1
  <2>2. PICK w \in Nat : w = Width(ts, i - 1)
    <3>1. i - 1 \in Nat
      BY <1>1
    <3> QED
      BY <3>1, WidthIs
  <2>3. us[i] = [t EXCEPT !.offset = w]
    BY <2>1, <2>2
  <2>4. [t EXCEPT !.offset = w] \in TripType
    BY <2>1, <2>2 DEF TripType
  <2>5. /\ [t EXCEPT !.offset = w].offset = w /\ [t EXCEPT !.offset = w].id = t.id
        /\ [t EXCEPT !.offset = w].t0 = t.t0 /\ [t EXCEPT !.offset = w].t1 = t.t1
        /\ [t EXCEPT !.offset = w].nPoints = t.nPoints
    BY <2>1 DEF TripType
  <2> HIDE DEF us
  <2> QED
    BY <2>1, <2>2, <2>3, <2>4, <2>5 DEF SameTrip
<1>4. us \in Seq(TripType) /\ Len(us) = k
  <2>1. us \in [1..k -> TripType]
    BY <1>3
  <2> HIDE DEF us
  <2> QED
    BY <1>1, <2>1
<1>5. \A n \in 0..k : Width(us, n) = Width(ts, n)
  <2>1. ASSUME NEW n \in 0..k
        PROVE  Width(us, n) = Width(ts, n)
    <3>1. n \in Nat /\ \A i \in 1..n : us[i].nPoints = ts[i].nPoints
      BY <1>1, <1>3 DEF SameTrip
    <3> HIDE DEF us
    <3> QED
      BY <3>1, WidthOfSame
  <2> QED
    BY <2>1
<1>6. \A i \in 1..k : us[i].offset = Width(us, i - 1)
  <2>1. \A i \in 1..k : i - 1 \in 0..k
    BY <1>1
  <2> HIDE DEF us
  <2> QED
    BY <1>3, <1>5, <2>1
<1>7. \E f : vs = [v \in 0..(VERTEX_BUDGET - 1) |-> f[v]]
  <2>1. DOMAIN s.vertices = 0..(VERTEX_BUDGET - 1)
    OBVIOUS
  <2>2. vs = [v \in 0..(VERTEX_BUDGET - 1) |-> vs[v]]
    BY <2>1 DEF Slid
  <2> HIDE DEF vs
  <2> QED
    BY <2>2
<1>8. ASSUME NEW i \in 1..k, NEW j \in 0..(us[i].nPoints - 1)
      PROVE  vs[us[i].offset + j] = <<us[i].id, j>>
  <2>1. /\ us[i].offset = Width(ts, i - 1) /\ us[i].id = ts[i].id
        /\ us[i].nPoints = ts[i].nPoints
    BY <1>3 DEF SameTrip
  <2>2. PICK a \in Nat, n \in Nat : a = Width(ts, i - 1) /\ n = ts[i].nPoints
    <3>1. i - 1 \in Nat
      BY <1>1
    <3> QED
      BY <1>1, <3>1, WidthIs, TripIs
  <2>3. Width(ts, i) = a + n
    BY <1>1, <2>2, WidthNext
  <2>4. Width(ts, i) <= Width(ts, k)
    <3>1. i \in Nat /\ i <= k
      BY <1>1
    <3> QED
      BY <1>1, <3>1, WidthGrows
  <2>5. PICK v \in Nat : v = a + j
    BY <2>1, <2>2
  <2>6. j \in Nat /\ j < n
    BY <2>1, <2>2
  <2>7. PICK all \in Nat : all = Width(ts, k) /\ all <= VERTEX_BUDGET
    BY <1>1, WidthIs
  <2>8. a <= v /\ v < a + n /\ v < all /\ v \in 0..(VERTEX_BUDGET - 1) /\ v - a = j
    <3>1. VERTEX_BUDGET \in Nat
      BY StoreAssumption
    <3>2. a + n <= all
      BY <2>3, <2>4, <2>7
    <3>3. a \in Nat /\ n \in Nat /\ v \in Nat /\ all \in Nat
      OBVIOUS
    <3> QED
      BY ONLY <2>5, <2>6, <2>7, <3>1, <3>2, <3>3
  <2>9. Owner(ts, v) = i
    <3>1. Width(ts, i - 1) <= v /\ v < Width(ts, i) /\ i \in 1..Len(ts)
      BY <1>1, <2>2, <2>3, <2>8
    <3> QED
      BY <3>1, OwnerIs
  <2>10. v \in DOMAIN s.vertices
    BY <2>8
  <2>11. v < Width(ts, Len(ts))
    BY <1>1, <2>7, <2>8
  <2>12. vs[v] = s.vertices[ts[Owner(ts, v)].offset + (v - Width(ts, Owner(ts, v) - 1))]
    BY <2>10, <2>11 DEF Slid
  <2>13. vs[v] = s.vertices[ts[i].offset + j]
    BY <2>2, <2>8, <2>9, <2>12
  <2>14. s.vertices[ts[i].offset + j] = <<ts[i].id, j>>
    <3>1. j \in 0..(ts[i].nPoints - 1)
      BY <2>1
    <3> QED
      BY <1>1, <3>1 DEF VerticesKept
  <2> HIDE DEF us, vs
  <2> QED
    BY <2>1, <2>2, <2>5, <2>13, <2>14
<1>9. Sound(Repacked(s))
  <2> HIDE DEF us, vs
  <2>1. VerticesKept(us, vs)
    BY <1>4, <1>8 DEF VerticesKept
  <2>2. /\ Len(us) <= MAX_TRIPS /\ Width(ts, k) = Width(us, Len(us))
        /\ Width(ts, k) <= VERTEX_BUDGET
    <3>1. k \in 0..k
      OBVIOUS
    <3> QED
      BY <1>1, <1>4, <1>5, <3>1
  <2>3. \A i \in 1..Len(us) : us[i].offset = Width(us, i - 1)
    BY <1>4, <1>6
  <2> QED
    BY <1>2, <1>4, <1>7, <2>1, <2>2, <2>3 DEF Sound
<1> HIDE DEF us, vs
<1> QED
  BY <1>1, <1>2, <1>3, <1>4, <1>9

\* Trips leave at the front, and the others close up.
LEMMA DropFrontIs ==
    ASSUME NEW s, Sound(s), NEW n \in 0..Len(s.trips)
    PROVE  /\ Sound(DropFront(s, n))
           /\ Len(DropFront(s, n).trips) = Len(s.trips) - n
           /\ \A i \in 1..(Len(s.trips) - n) :
                 SameTrip(DropFront(s, n).trips[i], s.trips[i + n])
<1>1. /\ s.trips \in Seq(TripType) /\ Len(s.trips) <= MAX_TRIPS
      /\ \E f : s.vertices = [v \in 0..(VERTEX_BUDGET - 1) |-> f[v]]
      /\ Width(s.trips, Len(s.trips)) <= VERTEX_BUDGET
      /\ VerticesKept(s.trips, s.vertices)
  BY DEF Sound
<1>2. PICK k \in Nat : k = Len(s.trips)
  BY <1>1
<1> DEFINE us == After(s.trips, n)
           r == Store(us, s.vertices, s.next)
<1>3. /\ us \in Seq(TripType) /\ Len(us) = Len(s.trips) - n
      /\ \A i \in 1..(Len(s.trips) - n) : us[i] = s.trips[i + n]
  BY <1>1, AfterIs
<1>4. Width(us, Len(s.trips) - n) <= Width(s.trips, Len(s.trips))
  BY <1>1, WidthOfAfter
<1>5. r.trips = us /\ r.vertices = s.vertices
  BY DEF Store
<1>6. Len(us) = k - n /\ k - n \in Nat /\ n \in Nat
  BY <1>2, <1>3
<1>7. Len(us) <= MAX_TRIPS /\ Width(us, Len(us)) <= VERTEX_BUDGET
  <2>1. MAX_TRIPS \in Nat /\ VERTEX_BUDGET \in Nat
    BY StoreAssumption
  <2>2. Len(us) <= MAX_TRIPS
    BY <1>1, <1>2, <1>6, <2>1
  <2>3. /\ Width(us, k - n) \in Nat /\ Width(s.trips, k) \in Nat
        /\ Width(us, k - n) <= Width(s.trips, k) /\ Width(s.trips, k) <= VERTEX_BUDGET
    BY <1>1, <1>2, <1>4, <1>6, WidthIs
  <2>4. Width(us, k - n) <= VERTEX_BUDGET
    BY ONLY <2>1, <2>3
  <2> QED
    BY <1>6, <2>2, <2>4
<1>8. VerticesKept(us, s.vertices)
  <2>1. ASSUME NEW i \in 1..Len(us), NEW j \in 0..(us[i].nPoints - 1)
        PROVE  s.vertices[us[i].offset + j] = <<us[i].id, j>>
    <3>1. us[i] = s.trips[i + n] /\ i + n \in 1..Len(s.trips)
      <4> HIDE DEF us
      <4>1. i \in 1..(k - n)
        BY <1>6
      <4>2. i + n \in 1..k
        BY ONLY <1>6, <4>1, k \in Nat
      <4> QED
        BY <1>2, <1>3, <4>1, <4>2
    <3> HIDE DEF us
    <3> QED
      BY <1>1, <2>1, <3>1 DEF VerticesKept
  <2> QED
    BY <2>1 DEF VerticesKept
<1>9. /\ Sound(Repacked(r)) /\ Len(Repacked(r).trips) = Len(r.trips)
      /\ \A i \in 1..Len(r.trips) : SameTrip(Repacked(r).trips[i], r.trips[i])
  <2> HIDE DEF us, r
  <2> QED
    BY <1>1, <1>3, <1>5, <1>7, <1>8, RepackedIs
<1>10. DropFront(s, n) = Repacked(r)
  BY DEF DropFront
<1> HIDE DEF us, r
<1> QED
  BY <1>3, <1>5, <1>9, <1>10

\* The number of expired trips at the front is that of the first that is not.
LEMMA FadedIs ==
    ASSUME NEW ts, Len(ts) \in Nat
    PROVE  /\ Faded(ts) \in 0..Len(ts)
           /\ Faded(ts) = Len(ts) \/ ~Expired(ts[Faded(ts) + 1])
<1>1. PICK k \in Nat : k = Len(ts)
  OBVIOUS
<1> DEFINE T == {n \in 0..k : n = k \/ ~Expired(ts[n + 1])}
<1>2. T \in SUBSET Nat /\ T # {}
  BY <1>1
<1>3. PICK n \in T : \A m \in T : n <= m
  <2> HIDE DEF T
  <2> QED
    BY <1>2, LeastNumber
<1>4. \A i \in 1..n : Expired(ts[i])
  <2>1. SUFFICES ASSUME NEW i \in 1..n, ~Expired(ts[i]) PROVE FALSE
    OBVIOUS
  <2>2. PICK m \in Nat : m = i - 1
    BY <1>1
  <2>3. m \in 0..k /\ m + 1 = i /\ ~(n <= m)
    BY <1>1, <2>2
  <2> QED
    BY <1>3, <2>1, <2>3
<1>5. \E x \in 0..Len(ts) : /\ \A i \in 1..x : Expired(ts[i])
                            /\ x = Len(ts) \/ ~Expired(ts[x + 1])
  BY <1>1, <1>3, <1>4
<1> HIDE DEF T
<1> QED
  BY <1>5, Zenon DEF Faded

\* compact() leaves a store sound, and takes away from the front at most.
LEMMA CompactIs ==
    ASSUME NEW s, Sound(s)
    PROVE  /\ Faded(s.trips) \in 0..Len(s.trips)
           /\ Sound(Compact(s))
           /\ Len(Compact(s).trips) = Len(s.trips) - Faded(s.trips)
           /\ \A i \in 1..(Len(s.trips) - Faded(s.trips)) :
                 SameTrip(Compact(s).trips[i], s.trips[i + Faded(s.trips)])
<1>1. s.trips \in Seq(TripType) /\ Len(s.trips) \in Nat
  BY DEF Sound
<1>2. PICK n \in 0..Len(s.trips) : n = Faded(s.trips)
  BY <1>1, FadedIs
<1>3. CASE n = 0
  <2>1. Compact(s) = s
    BY <1>2, <1>3 DEF Compact
  <2>2. Len(s.trips) - 0 = Len(s.trips) /\ \A i \in 1..Len(s.trips) : i + 0 = i
    BY <1>1
  <2> QED
    BY <1>2, <1>3, <2>1, <2>2 DEF SameTrip
<1>4. CASE n # 0
  <2>1. Compact(s) = DropFront(s, n)
    BY <1>2, <1>4 DEF Compact
  <2> QED
    BY <1>2, <2>1, DropFrontIs
<1> QED
  BY <1>3, <1>4

\* What add() makes room with: a store that lost some trips at its front, and is
\* not full unless the vertices of the new trip are still too many.
LEMMA MakeRoomIs ==
    ASSUME NEW s, Sound(s), NEW n \in 1..MAX_POINTS_PER_TRIP
    PROVE  /\ Sound(MakeRoom(s, n)) /\ Len(MakeRoom(s, n).trips) < MAX_TRIPS
           /\ \E d \in 0..Len(s.trips) :
                 /\ Len(MakeRoom(s, n).trips) = Len(s.trips) - d
                 /\ \A i \in 1..(Len(s.trips) - d) :
                       SameTrip(MakeRoom(s, n).trips[i], s.trips[i + d])
<1>1. PICK k \in Nat : k = Len(s.trips)
  BY DEF Sound
<1>2. PICK d \in 0..k :
        /\ Sound(Compact(s)) /\ Len(Compact(s).trips) = k - d
        /\ \A i \in 1..(k - d) : SameTrip(Compact(s).trips[i], s.trips[i + d])
  BY <1>1, CompactIs
<1>3. /\ MAX_TRIPS \in Nat \ {0} /\ VERTEX_BUDGET \in Nat
      /\ MAX_POINTS_PER_TRIP <= VERTEX_BUDGET /\ MAX_POINTS_PER_TRIP \in Nat
  BY StoreAssumption
<1>4. CASE ~Full(s, n)
  <2>1. MakeRoom(s, n) = s
    BY <1>4 DEF MakeRoom
  <2>2. Len(s.trips) < MAX_TRIPS
    BY <1>1, <1>3, <1>4 DEF Full
  <2>3. 0 \in 0..k /\ k - 0 = k /\ \A i \in 1..k : i + 0 = i
    BY <1>1
  <2> QED
    BY <1>1, <2>1, <2>2, <2>3 DEF SameTrip
<1>5. CASE Full(s, n) /\ ~Full(Compact(s), n)
  <2>1. MakeRoom(s, n) = Compact(s)
    BY <1>5 DEF MakeRoom
  <2>2. Len(Compact(s).trips) < MAX_TRIPS
    BY <1>1, <1>2, <1>3, <1>5 DEF Full
  <2> QED
    BY <1>1, <1>2, <2>1, <2>2
<1>6. CASE Full(s, n) /\ Full(Compact(s), n)
  <2> DEFINE c == Compact(s)
  <2>1. MakeRoom(s, n) = DropFront(c, 1)
    BY <1>6 DEF MakeRoom
  <2>2. Sound(c) /\ Len(c.trips) = k - d /\ k - d \in Nat
    BY <1>1, <1>2
  <2>3. Len(c.trips) <= MAX_TRIPS /\ c.next = Width(c.trips, Len(c.trips))
    BY <2>2 DEF Sound
  <2>4. k - d # 0
    <3>1. SUFFICES ASSUME k - d = 0 PROVE FALSE
      OBVIOUS
    <3>2. Len(c.trips) = 0 /\ c.next = 0
      BY <2>2, <2>3, <3>1, WidthOfNone
    <3>3. 0 + n > VERTEX_BUDGET \/ 0 >= MAX_TRIPS
      BY <1>6, <3>2 DEF Full
    <3> QED
      BY <1>3, <3>3
  <2>5. 1 \in 0..Len(c.trips)
    BY <2>2, <2>4
  <2>6. /\ Sound(DropFront(c, 1))
        /\ Len(DropFront(c, 1).trips) = Len(c.trips) - 1
        /\ \A i \in 1..(Len(c.trips) - 1) :
              SameTrip(DropFront(c, 1).trips[i], c.trips[i + 1])
    <3> HIDE DEF c
    <3> QED
      BY <2>2, <2>5, DropFrontIs
  <2>7. PICK e \in Nat : e = d + 1
    BY <1>1
  <2>8. e \in 0..k /\ k - e = (k - d) - 1 /\ (k - d) - 1 < MAX_TRIPS
    <3>1. k - d <= MAX_TRIPS
      BY <2>2, <2>3
    <3>2. k \in Nat /\ d \in 0..k /\ e \in Nat /\ MAX_TRIPS \in Nat
      BY <1>3
    <3> QED
      BY ONLY <2>4, <2>7, <3>1, <3>2
  <2>9. ASSUME NEW i \in 1..(k - e)
        PROVE  SameTrip(DropFront(c, 1).trips[i], s.trips[i + e])
    <3>1. i \in 1..((k - d) - 1) /\ i + 1 \in 1..(k - d) /\ (i + 1) + d = i + e
      <4>1. k \in Nat /\ d \in 0..k /\ i \in 1..(k - e)
        OBVIOUS
      <4> QED
        BY ONLY <2>7, <4>1
    <3>2. SameTrip(DropFront(c, 1).trips[i], c.trips[i + 1])
      BY <2>2, <2>6, <3>1
    <3>3. SameTrip(c.trips[i + 1], s.trips[i + e])
      BY <1>2, <3>1
    <3> QED
      BY <3>2, <3>3 DEF SameTrip
  <2> HIDE DEF c
  <2> QED
    BY <1>1, <2>1, <2>2, <2>6, <2>8, <2>9
<1> QED
  BY <1>4, <1>5, <1>6

\* A trip that fits follows the others, with its own vertices.
LEMMA WrittenIs ==
    ASSUME NEW s, Sound(s), NEW n \in 1..MAX_POINTS_PER_TRIP, NEW dur \in Nat,
           Len(s.trips) < MAX_TRIPS, Fits(s, n), adds \in Nat, now \in Nat
    PROVE  /\ Sound(Written(s, n, dur))
           /\ Len(Written(s, n, dur).trips) = Len(s.trips) + 1
           /\ \A i \in 1..Len(s.trips) : Written(s, n, dur).trips[i] = s.trips[i]
           /\ Written(s, n, dur).trips[Len(s.trips) + 1].t0 = now
           /\ Written(s, n, dur).trips[Len(s.trips) + 1].t1 = now + dur
<1>1. PICK k \in Nat : k = Len(s.trips)
  BY DEF Sound
<1>2. PICK w \in Nat : w = s.next
  BY <1>1, WidthIs DEF Sound
<1> DEFINE new == [id |-> adds + 1, t0 |-> now, t1 |-> now + dur, nPoints |-> n,
                   offset |-> w]
           us == Append(s.trips, new)
           vs == [v \in DOMAIN s.vertices |->
                     IF v \in w..(w + n - 1) THEN <<adds + 1, v - w>>
                     ELSE s.vertices[v]]
<1>3. /\ s.trips \in Seq(TripType)
      /\ \E f : s.vertices = [v \in 0..(VERTEX_BUDGET - 1) |-> f[v]]
      /\ w = Width(s.trips, k)
      /\ \A i \in 1..k : s.trips[i].offset = Width(s.trips, i - 1)
      /\ VerticesKept(s.trips, s.vertices)
  BY <1>1, <1>2 DEF Sound
<1>4. n \in Nat /\ VERTEX_BUDGET \in Nat /\ MAX_TRIPS \in Nat /\ w + n <= VERTEX_BUDGET
  BY <1>2, StoreAssumption DEF Fits
<1>5. /\ Written(s, n, dur).trips = us /\ Written(s, n, dur).vertices = vs
      /\ Written(s, n, dur).next = w + n
  BY <1>2 DEF Written, Store
<1>6. new \in TripType
  BY <1>2 DEF TripType
<1>7. /\ us \in Seq(TripType) /\ Len(us) = k + 1
      /\ \A i \in 1..k : us[i] = s.trips[i]
      /\ us[k + 1] = new
  <2> HIDE DEF new
  <2> QED
    BY <1>1, <1>3, <1>6
<1>8. /\ new.id = adds + 1 /\ new.t0 = now /\ new.t1 = now + dur
      /\ new.nPoints = n /\ new.offset = w
  OBVIOUS
<1>9. \A m \in 0..k : Width(us, m) = Width(s.trips, m)
  <2>1. ASSUME NEW m \in 0..k PROVE Width(us, m) = Width(s.trips, m)
    <3>1. m \in Nat /\ \A i \in 1..m : us[i].nPoints = s.trips[i].nPoints
      BY <1>1, <1>7
    <3> HIDE DEF us
    <3> QED
      BY <3>1, WidthOfSame
  <2> QED
    BY <2>1
<1>10. Width(us, k + 1) = w + n
  <2>1. k + 1 \in 1..Len(us) /\ (k + 1) - 1 = k /\ k \in 0..k
    BY <1>7
  <2> HIDE DEF us, new
  <2>2. Width(us, k + 1) = Width(us, (k + 1) - 1) + us[k + 1].nPoints
    BY <1>7, <2>1, WidthNext
  <2> QED
    BY <1>3, <1>7, <1>8, <1>9, <2>1, <2>2
<1>11. \A i \in 1..(k + 1) : us[i].offset = Width(us, i - 1)
  <2>1. ASSUME NEW i \in 1..(k + 1) PROVE us[i].offset = Width(us, i - 1)
    <3> HIDE DEF us, new
    <3>1. i - 1 \in 0..k
      BY <1>1
    <3>2. Width(us, i - 1) = Width(s.trips, i - 1)
      BY <1>9, <3>1
    <3>3. CASE i = k + 1
      <4>1. i - 1 = k
        BY <3>3
      <4> QED
        BY <1>3, <1>7, <1>8, <3>2, <3>3, <4>1
    <3>4. CASE i # k + 1
      <4>1. i \in 1..k
        BY <3>4
      <4> QED
        BY <1>3, <1>7, <3>2, <4>1
    <3> QED
      BY <3>3, <3>4
  <2> QED
    BY <2>1
<1>12. \E f : vs = [v \in 0..(VERTEX_BUDGET - 1) |-> f[v]]
  <2>1. vs = [v \in 0..(VERTEX_BUDGET - 1) |-> vs[v]]
    BY <1>3
  <2> HIDE DEF vs
  <2> QED
    BY <2>1
<1>13. VerticesKept(us, vs)
  <2>1. ASSUME NEW i \in 1..k, NEW j \in 0..(us[i].nPoints - 1)
        PROVE  vs[us[i].offset + j] = <<us[i].id, j>>
    <3>1. us[i] = s.trips[i] /\ s.trips[i].offset = Width(s.trips, i - 1)
      BY <1>3, <1>7
    <3>2. PICK a \in Nat, m \in Nat : a = s.trips[i].offset /\ m = s.trips[i].nPoints
      BY <1>1, <1>3, TripIs
    <3>3. Width(s.trips, i) = a + m
      BY <1>1, <1>3, <3>1, <3>2, WidthNext
    <3>4. i \in Nat /\ i <= k
      BY <1>1
    <3>5. Width(s.trips, i) <= w
      BY <1>1, <1>3, <3>4, WidthGrows
    <3>6. j \in 0..(m - 1)
      BY <3>1, <3>2
    <3>7. PICK v \in Nat : v = a + j
      <4>1. a + j \in Nat
        BY ONLY <3>6, a \in Nat, m \in Nat
      <4> QED
        BY <4>1
    <3>8. a + m <= w
      BY <3>3, <3>5
    <3>9. w \in Nat /\ a \in Nat /\ m \in Nat /\ v \in Nat
      OBVIOUS
    <3>10. v \in 0..(VERTEX_BUDGET - 1) /\ ~(v \in w..(w + n - 1))
      BY ONLY <1>4, <3>6, <3>7, <3>8, <3>9
    <3>11. vs[v] = s.vertices[v]
      BY <1>3, <3>10
    <3>12. s.vertices[s.trips[i].offset + j] = <<s.trips[i].id, j>>
      BY <1>1, <1>3, <3>2, <3>6 DEF VerticesKept
    <3> HIDE DEF us, vs
    <3> QED
      BY <3>1, <3>2, <3>7, <3>11, <3>12
  <2>2. ASSUME NEW j \in 0..(n - 1)
        PROVE  vs[w + j] = <<adds + 1, j>>
    <3>1. PICK v \in Nat : v = w + j
      BY <1>2
    <3>2. w \in Nat /\ v \in Nat /\ j \in 0..(n - 1)
      OBVIOUS
    <3>3. v \in 0..(VERTEX_BUDGET - 1) /\ v \in w..(w + n - 1) /\ v - w = j
      BY ONLY <1>4, <3>1, <3>2
    <3>4. vs[v] = <<adds + 1, v - w>>
      BY <1>3, <3>3
    <3> QED
      BY <3>1, <3>3, <3>4
  <2>3. ASSUME NEW i \in 1..Len(us), NEW j \in 0..(us[i].nPoints - 1)
        PROVE  vs[us[i].offset + j] = <<us[i].id, j>>
    <3> HIDE DEF us, vs, new
    <3>1. i \in 1..k \/ i = k + 1
      BY <1>1, <1>7
    <3>2. CASE i = k + 1
      <4>1. us[i] = new
        BY <1>7, <3>2
      <4> QED
        BY <1>8, <2>2, <4>1
    <3> QED
      BY <2>1, <3>1, <3>2
  <2> QED
    BY <2>3 DEF VerticesKept
<1>14. Sound(Written(s, n, dur))
  <2> HIDE DEF us, vs, new
  <2>1. Len(us) <= MAX_TRIPS
    BY <1>1, <1>4, <1>7
  <2> QED
    BY <1>4, <1>5, <1>7, <1>10, <1>11, <1>12, <1>13, <2>1 DEF Sound
<1> HIDE DEF us, vs, new
<1> QED
  BY <1>1, <1>5, <1>7, <1>8, <1>14

(*************************** the store's invariant *************************)

\* What data() would build of the trips as they are.
Drawing(ts, vs) ==
    [startIndices |-> StartIndices(ts), path |-> Prefix(vs, Width(ts, Len(ts)))]

\* The payload is of the trips as they are, unless the store says otherwise.
PayloadIsFresh ==
    dirty \/ payload = NoPayload \/ payload = Drawing(trips, vertices)

Timed(ts, time) ==
    /\ \A i \in 1..Len(ts) :
          ts[i].t0 <= time /\ \E d \in Durations : ts[i].t1 = ts[i].t0 + d
    /\ \A i, j \in 1..Len(ts) : i <= j => ts[i].t0 <= ts[j].t0

FrontLives == pruned /\ Len(trips) > 0 => ~Expired(trips[1])

StoreInv ==
    /\ now \in Nat /\ adds \in Nat /\ Sound(Current)
    /\ PayloadIsFresh /\ Timed(trips, now) /\ FrontLives

LEMMA SoundStore ==
    ASSUME NEW s, NEW ts, NEW vs, NEW next, Sound(s),
           ts = s.trips, vs = s.vertices, next = s.next
    PROVE  Sound(Store(ts, vs, next))
<1>1. PICK r : r = Store(ts, vs, next)
  OBVIOUS
<1>2. r.trips = ts /\ r.vertices = vs /\ r.next = next
  BY <1>1 DEF Store
<1>3. /\ ts \in Seq(TripType) /\ Len(ts) <= MAX_TRIPS
      /\ \E f : vs = [v \in 0..(VERTEX_BUDGET - 1) |-> f[v]]
      /\ next = Width(ts, Len(ts)) /\ next <= VERTEX_BUDGET
      /\ \A i \in 1..Len(ts) : ts[i].offset = Width(ts, i - 1)
      /\ VerticesKept(ts, vs)
  BY Zenon DEF Sound
<1>4. Sound(r)
  BY ONLY <1>2, <1>3, Zenon DEF Sound
<1> QED
  BY <1>1, <1>4

LEMMA SoundEmpty ==
    ASSUME NEW vs, \E f : vs = [v \in 0..(VERTEX_BUDGET - 1) |-> f[v]]
    PROVE  Sound(Store(<<>>, vs, 0))
<1> DEFINE s == Store(<<>>, vs, 0)
<1>1. s.trips = <<>> /\ s.next = 0 /\ s.vertices = vs
  BY DEF Store
<1>2. <<>> \in Seq(TripType) /\ Len(<<>>) = 0
  OBVIOUS
<1>3. 0 <= MAX_TRIPS /\ 0 <= VERTEX_BUDGET
  BY StoreAssumption
<1>4. Width(<<>>, 0) = 0
  BY WidthOfNone
<1> HIDE DEF s
<1>5. \A i \in 1..Len(s.trips) : FALSE
  BY <1>1, <1>2
<1>6. Sound(s)
  BY <1>1, <1>2, <1>3, <1>4, <1>5 DEF Sound, VerticesKept
<1> QED
  BY <1>6 DEF s

LEMMA InitStore == StoreInit => StoreInv
<1>1. SUFFICES ASSUME StoreInit PROVE StoreInv
  OBVIOUS
<1>2. Sound(Current)
  <2>1. vertices = [v \in 0..(VERTEX_BUDGET - 1) |-> vertices[v]]
    BY <1>1 DEF StoreInit
  <2>2. Sound(Store(<<>>, vertices, 0))
    BY <2>1, SoundEmpty
  <2> QED
    BY <1>1, <2>2 DEF StoreInit, Current
<1>3. Len(trips) = 0
  BY <1>1 DEF StoreInit
<1>4. Timed(trips, now) /\ FrontLives
  BY <1>3 DEF Timed, FrontLives
<1> QED
  BY <1>1, <1>2, <1>4 DEF StoreInit, StoreInv, PayloadIsFresh

\* What is left of trips that were timed is.
LEMMA TimedRest ==
    ASSUME NEW ts, NEW us, NEW d \in Nat, NEW time, Len(ts) \in Nat,
           Len(us) = Len(ts) - d, d <= Len(ts),
           \A i \in 1..(Len(ts) - d) : SameTrip(us[i], ts[i + d]),
           Timed(ts, time)
    PROVE  Timed(us, time)
<1>1. PICK k \in Nat : k = Len(ts)
  OBVIOUS
<1>2. \A i \in 1..(k - d) : i + d \in 1..k /\ us[i].t0 = ts[i + d].t0 /\ us[i].t1 = ts[i + d].t1
  <2>1. ASSUME NEW i \in 1..(k - d)
        PROVE  i + d \in 1..k /\ us[i].t0 = ts[i + d].t0 /\ us[i].t1 = ts[i + d].t1
    <3>1. i + d \in 1..k
      BY ONLY d \in Nat, k \in Nat, i \in 1..(k - d)
    <3>2. SameTrip(us[i], ts[i + d])
      BY <1>1
    <3> QED
      BY <3>1, <3>2 DEF SameTrip
  <2> QED
    BY <2>1
<1>3. \A i, j \in 1..(k - d) : i <= j => i + d <= j + d
  BY <1>1
<1>4. /\ \A i \in 1..k :
            ts[i].t0 <= time /\ \E x \in Durations : ts[i].t1 = ts[i].t0 + x
      /\ \A i, j \in 1..k : i <= j => ts[i].t0 <= ts[j].t0
  BY <1>1 DEF Timed
<1>5. Len(us) = k - d
  BY <1>1
<1>6. ASSUME NEW i \in 1..(k - d)
      PROVE  us[i].t0 <= time /\ \E x \in Durations : us[i].t1 = us[i].t0 + x
  <2>1. ts[i + d].t0 <= time /\ \E x \in Durations : ts[i + d].t1 = ts[i + d].t0 + x
    BY <1>2, <1>4
  <2> QED
    BY <1>2, <2>1
<1>7. ASSUME NEW i \in 1..(k - d), NEW j \in 1..(k - d), i <= j
      PROVE  us[i].t0 <= us[j].t0
  BY <1>2, <1>3, <1>4, <1>7
<1> QED
  BY <1>5, <1>6, <1>7 DEF Timed

LEMMA PruneStore == StoreInv /\ Prune => StoreInv'
<1>1. SUFFICES ASSUME StoreInv, Prune PROVE StoreInv'
  OBVIOUS
<1> DEFINE s == Current
<1>2. /\ s.trips = trips /\ s.vertices = vertices /\ s.next = nextVertex
  BY DEF Current, Store
<1>3. Sound(s) /\ now \in Nat /\ adds \in Nat /\ Timed(trips, now)
  BY <1>1 DEF StoreInv
<1>4. /\ trips' = Compact(s).trips /\ vertices' = Compact(s).vertices
      /\ nextVertex' = Compact(s).next
      /\ dirty' = (dirty \/ Faded(trips) > 0)
      /\ payload' = payload /\ now' = now /\ adds' = adds
  BY <1>1 DEF Prune, Becomes
<1> HIDE DEF s
<1>5. PICK k \in Nat : k = Len(trips)
  BY <1>2, <1>3 DEF Sound
<1>6. PICK d \in 0..k :
        /\ d = Faded(trips) /\ Sound(Compact(s)) /\ Len(trips') = k - d
        /\ \A i \in 1..(k - d) : SameTrip((trips')[i], trips[i + d])
  BY <1>2, <1>3, <1>4, <1>5, CompactIs
<1>7. d = k \/ ~Expired(trips[d + 1])
  BY <1>5, <1>6, FadedIs
<1>8. Sound(Store(trips', vertices', nextVertex'))
  BY <1>4, <1>6, SoundStore
<1>9. Sound(Current)'
  BY <1>8 DEF Current, Store, Sound, VerticesKept, Width, Places
<1>10. Timed(trips', now)
  <2>1. PICK ts, us : ts = trips /\ us = trips'
    OBVIOUS
  <2>2. /\ Len(ts) \in Nat /\ Len(us) = Len(ts) - d /\ d <= Len(ts) /\ d \in Nat
        /\ \A i \in 1..(Len(ts) - d) : SameTrip(us[i], ts[i + d])
        /\ Timed(ts, now)
    BY <1>3, <1>5, <1>6, <2>1
  <2>3. Timed(us, now)
    BY ONLY <2>2, TimedRest
  <2> QED
    BY <2>1, <2>3
<1>11. Timed(trips', now')
  BY <1>4, <1>10
<1>12. PayloadIsFresh'
  <2>1. CASE d = 0
    <3>1. Compact(s) = s
      BY <1>2, <1>6, <2>1 DEF Compact
    <3>2. trips' = trips /\ vertices' = vertices
      BY <1>2, <1>4, <3>1
    <3>3. dirty \/ payload = NoPayload \/ payload = Drawing(trips, vertices)
      BY <1>1 DEF StoreInv, PayloadIsFresh
    <3>4. dirty' \/ payload' = NoPayload \/ payload' = Drawing(trips', vertices')
      BY <1>4, <3>2, <3>3
    <3> QED
      BY <3>4 DEF PayloadIsFresh, Drawing, StartIndices, Prefix, Width, Places
  <2>2. CASE d # 0
    <3>1. d > 0
      BY <2>2
    <3> QED
      BY <1>4, <1>6, <3>1 DEF PayloadIsFresh
  <2> QED
    BY <2>1, <2>2
<1>13. FrontLives'
  <2>1. SUFFICES ASSUME Len(trips') > 0 PROVE ~(Expired((trips)[1]))'
    BY DEF FrontLives
  <2>2. d # k /\ 1 \in 1..(k - d) /\ 1 + d = d + 1
    BY <1>5, <1>6, <2>1
  <2>3. (trips')[1].t1 = trips[d + 1].t1
    BY <1>6, <2>2 DEF SameTrip
  <2>4. ~((trips')[1].t1 < now - TRAIL_MS)
    BY <1>7, <2>2, <2>3 DEF Expired
  <2> QED
    BY <1>4, <2>4 DEF Expired
<1> QED
  BY <1>3, <1>4, <1>9, <1>11, <1>12, <1>13 DEF StoreInv, Timed

LEMMA ClearStore == StoreInv /\ Clear => StoreInv'
<1>1. SUFFICES ASSUME StoreInv, Clear PROVE StoreInv'
  OBVIOUS
<1>2. /\ trips' = <<>> /\ nextVertex' = 0 /\ dirty' = TRUE /\ vertices' = vertices
      /\ now' = now /\ adds' = adds
  BY <1>1 DEF Clear
<1>3. \E f : vertices = [v \in 0..(VERTEX_BUDGET - 1) |-> f[v]]
  BY <1>1 DEF StoreInv, Sound, Current, Store
<1>4. Sound(Store(trips', vertices', nextVertex'))
  <2>1. Sound(Store(<<>>, vertices, 0))
    BY <1>3, SoundEmpty
  <2> QED
    BY <1>2, <2>1
<1>5. Sound(Current)'
  BY <1>4 DEF Current, Store, Sound, VerticesKept, Width, Places
<1>6. Len(trips') = 0
  BY <1>2
<1> QED
  BY <1>1, <1>2, <1>5, <1>6 DEF StoreInv, PayloadIsFresh, Timed, FrontLives

LEMMA DataStore == StoreInv /\ Data => StoreInv'
<1>1. SUFFICES ASSUME StoreInv, Data PROVE StoreInv'
  OBVIOUS
<1>2. /\ trips' = trips /\ nextVertex' = nextVertex /\ vertices' = vertices
      /\ now' = now /\ adds' = adds /\ pruned' = pruned
      /\ payload' = IF dirty \/ payload = NoPayload
                    THEN Drawing(trips, vertices) ELSE payload
  BY <1>1 DEF Data, Drawing
<1>3. Sound(Store(trips', vertices', nextVertex'))
  BY <1>1, <1>2 DEF StoreInv, Current
<1>4. Sound(Current)'
  BY <1>3 DEF Current, Store, Sound, VerticesKept, Width, Places
<1>5. payload' = NoPayload \/ payload' = Drawing(trips', vertices')
  BY <1>1, <1>2 DEF StoreInv, PayloadIsFresh
<1>6. PayloadIsFresh'
  BY <1>5 DEF PayloadIsFresh, Drawing, StartIndices, Prefix, Width, Places
<1> QED
  BY <1>1, <1>2, <1>4, <1>6 DEF StoreInv, Timed, FrontLives, Expired

LEMMA ElapseStore == StoreInv /\ Elapse => StoreInv'
<1>1. SUFFICES ASSUME StoreInv, Elapse PROVE StoreInv'
  OBVIOUS
<1>2. /\ trips' = trips /\ nextVertex' = nextVertex /\ vertices' = vertices
      /\ now' = now + 1 /\ adds' = adds /\ pruned' = FALSE
      /\ payload' = payload /\ dirty' = dirty
  BY <1>1 DEF Elapse
<1>3. Sound(Store(trips', vertices', nextVertex'))
  BY <1>1, <1>2 DEF StoreInv, Current
<1>4. Sound(Current)'
  BY <1>3 DEF Current, Store, Sound, VerticesKept, Width, Places
<1>5. dirty' \/ payload' = NoPayload \/ payload' = Drawing(trips', vertices')
  BY <1>1, <1>2 DEF StoreInv, PayloadIsFresh
<1>6. PayloadIsFresh'
  BY <1>5 DEF PayloadIsFresh, Drawing, StartIndices, Prefix, Width, Places
<1>7. Timed(trips, now')
  <2>1. trips \in Seq(TripType) /\ now \in Nat
    BY <1>1 DEF StoreInv, Sound, Current, Store
  <2>2. ASSUME NEW i \in 1..Len(trips)
        PROVE  /\ trips[i].t0 <= now + 1
               /\ \E d \in Durations : trips[i].t1 = trips[i].t0 + d
    <3>1. /\ trips[i].t0 \in Nat /\ trips[i].t0 <= now
          /\ \E d \in Durations : trips[i].t1 = trips[i].t0 + d
      BY <1>1, <2>1, TripIs DEF StoreInv, Timed
    <3> QED
      BY <2>1, <3>1
  <2> QED
    BY <1>1, <1>2, <2>2 DEF StoreInv, Timed
<1> QED
  BY <1>1, <1>2, <1>4, <1>6, <1>7 DEF StoreInv, Timed, FrontLives

LEMMA AddStore ==
    ASSUME StoreInv, NEW points \in Paths, NEW dur \in Durations, Add(points, dur)
    PROVE  StoreInv'
<1> DEFINE c == Current
           n == Min2(points, MAX_POINTS_PER_TRIP)
           s == MakeRoom(c, n)
           r == Written(s, n, dur)
<1>1. /\ adds' = adds + 1 /\ points >= 2 /\ now' = now /\ pruned' = FALSE
      /\ payload' = payload
      /\ Becomes(IF Fits(s, n) THEN r ELSE s)
      /\ dirty' = (dirty \/ Fits(s, n) \/ s # c)
  BY DEF Add
<1>2. n \in 1..MAX_POINTS_PER_TRIP /\ dur \in Nat
  BY <1>1, StoreAssumption DEF Min2
<1>3. /\ Sound(c) /\ now \in Nat /\ adds \in Nat /\ Timed(trips, now)
      /\ c.trips = trips /\ c.vertices = vertices /\ c.next = nextVertex
  BY DEF StoreInv, Current, Store
<1> HIDE DEF n, c
<1>4. /\ Sound(s) /\ Len(s.trips) < MAX_TRIPS
      /\ \E d \in 0..Len(c.trips) :
            /\ Len(s.trips) = Len(c.trips) - d
            /\ \A i \in 1..(Len(c.trips) - d) : SameTrip(s.trips[i], c.trips[i + d])
  BY <1>2, <1>3, MakeRoomIs
<1> HIDE DEF s
<1>5. PICK k \in Nat : k = Len(trips)
  BY <1>3 DEF Sound
<1>6. PICK d \in 0..k :
        /\ Len(s.trips) = k - d
        /\ \A i \in 1..(k - d) : SameTrip(s.trips[i], trips[i + d])
  BY <1>3, <1>4, <1>5
<1>7. Timed(s.trips, now)
  <2>1. PICK ts, us : ts = trips /\ us = s.trips
    OBVIOUS
  <2>2. /\ Len(ts) \in Nat /\ Len(us) = Len(ts) - d /\ d <= Len(ts) /\ d \in Nat
        /\ \A i \in 1..(Len(ts) - d) : SameTrip(us[i], ts[i + d])
        /\ Timed(ts, now)
    BY <1>3, <1>5, <1>6, <2>1
  <2>3. Timed(us, now)
    BY ONLY <2>2, TimedRest
  <2> QED
    BY <2>1, <2>3
<1>8. CASE Fits(s, n)
  <2>1. /\ Sound(r) /\ Len(r.trips) = Len(s.trips) + 1
        /\ \A i \in 1..Len(s.trips) : r.trips[i] = s.trips[i]
        /\ r.trips[Len(s.trips) + 1].t0 = now
        /\ r.trips[Len(s.trips) + 1].t1 = now + dur
    BY <1>2, <1>3, <1>4, <1>8, WrittenIs
  <2>2. /\ trips' = r.trips /\ vertices' = r.vertices /\ nextVertex' = r.next
        /\ dirty' = TRUE
    BY <1>1, <1>8 DEF Becomes
  <2> HIDE DEF r
  <2>3. Sound(Store(trips', vertices', nextVertex'))
    BY ONLY <2>1, <2>2, SoundStore
  <2>4. Sound(Current)'
    BY <2>3 DEF Current, Store, Sound, VerticesKept, Width, Places
  <2>5. PICK m \in Nat : m = Len(s.trips)
    <3>1. s.trips \in Seq(TripType)
      BY <1>4 DEF Sound
    <3>2. Len(s.trips) \in Nat
      BY ONLY <3>1
    <3> QED
      BY <3>2
  <2>6. /\ \A i \in 1..m :
             s.trips[i].t0 <= now /\ \E x \in Durations : s.trips[i].t1 = s.trips[i].t0 + x
        /\ \A i, j \in 1..m : i <= j => s.trips[i].t0 <= s.trips[j].t0
    BY <1>7, <2>5 DEF Timed
  <2>7. /\ \A i \in 1..m : r.trips[i] = s.trips[i]
        /\ r.trips[m + 1].t0 = now /\ r.trips[m + 1].t1 = now + dur
        /\ Len(r.trips) = m + 1
    BY <2>1, <2>5
  <2>8. ASSUME NEW i \in 1..(m + 1)
        PROVE  /\ r.trips[i].t0 <= now
               /\ \E x \in Durations : r.trips[i].t1 = r.trips[i].t0 + x
    <3>1. CASE i = m + 1
      BY <1>3, <2>7, <3>1
    <3>2. CASE i # m + 1
      <4>1. i \in 1..m
        BY <3>2
      <4> QED
        BY <2>6, <2>7, <4>1
    <3> QED
      BY <3>1, <3>2
  <2>9. ASSUME NEW i \in 1..(m + 1), NEW j \in 1..(m + 1), i <= j
        PROVE  r.trips[i].t0 <= r.trips[j].t0
    <3>1. CASE j = m + 1
      BY <2>7, <2>8, <3>1
    <3>2. CASE j # m + 1
      <4>1. i \in 1..m /\ j \in 1..m
        BY <2>9, <3>2
      <4> QED
        BY <2>6, <2>7, <2>9, <4>1
    <3> QED
      BY <3>1, <3>2
  <2>10. Timed(r.trips, now)
    BY <2>7, <2>8, <2>9 DEF Timed
  <2>11. Timed(trips', now')
    BY <1>1, <2>2, <2>10
  <2> QED
    BY <1>1, <1>3, <2>2, <2>4, <2>11 DEF StoreInv, PayloadIsFresh, FrontLives, Timed
<1>9. CASE ~Fits(s, n)
  <2>1. /\ trips' = s.trips /\ vertices' = s.vertices /\ nextVertex' = s.next
        /\ dirty' = (dirty \/ s # c)
    BY <1>1, <1>9 DEF Becomes
  <2>2. Sound(Store(trips', vertices', nextVertex'))
    BY <1>4, <2>1, SoundStore
  <2>3. Sound(Current)'
    BY <2>2 DEF Current, Store, Sound, VerticesKept, Width, Places
  <2>4. Timed(trips', now')
    BY <1>1, <1>7, <2>1
  <2>5. PayloadIsFresh'
    <3>1. CASE s = c
      <4>1. trips' = trips /\ vertices' = vertices
        BY <1>3, <2>1, <3>1
      <4>2. dirty' \/ payload' = NoPayload \/ payload' = Drawing(trips', vertices')
        BY <1>1, <2>1, <4>1 DEF StoreInv, PayloadIsFresh
      <4> QED
        BY <4>2 DEF PayloadIsFresh, Drawing, StartIndices, Prefix, Width, Places
    <3>2. CASE s # c
      BY <2>1, <3>2 DEF PayloadIsFresh
    <3> QED
      BY <3>1, <3>2
  <2> QED
    BY <1>1, <1>3, <2>3, <2>4, <2>5 DEF StoreInv, FrontLives, Timed
<1> QED
  BY <1>8, <1>9

LEMMA StepStore == StoreInv /\ [StoreNext]_storeVars => StoreInv'
<1>1. SUFFICES ASSUME StoreInv, [StoreNext]_storeVars PROVE StoreInv'
  OBVIOUS
<1>2. ASSUME NEW points \in Paths, NEW dur \in Durations, Add(points, dur)
      PROVE  StoreInv'
  BY <1>1, <1>2, AddStore
<1>3. CASE Prune
  BY <1>1, <1>3, PruneStore
<1>4. CASE Clear
  BY <1>1, <1>4, ClearStore
<1>5. CASE Data
  BY <1>1, <1>5, DataStore
<1>6. CASE Elapse
  BY <1>1, <1>6, ElapseStore
<1>7. CASE UNCHANGED storeVars
  <2>1. /\ trips' = trips /\ nextVertex' = nextVertex /\ vertices' = vertices
        /\ now' = now /\ adds' = adds /\ pruned' = pruned
        /\ payload' = payload /\ dirty' = dirty
    BY <1>7 DEF storeVars
  <2>2. Sound(Store(trips', vertices', nextVertex'))
    BY <1>1, <2>1 DEF StoreInv, Current
  <2>3. Sound(Current)'
    BY <2>2 DEF Current, Store, Sound, VerticesKept, Width, Places
  <2>4. dirty' \/ payload' = NoPayload \/ payload' = Drawing(trips', vertices')
    BY <1>1, <2>1 DEF StoreInv, PayloadIsFresh
  <2>5. PayloadIsFresh'
    BY <2>4 DEF PayloadIsFresh, Drawing, StartIndices, Prefix, Width, Places
  <2> QED
    BY <1>1, <2>1, <2>3, <2>5 DEF StoreInv, Timed, FrontLives, Expired
<1> QED
  BY <1>1, <1>2, <1>3, <1>4, <1>5, <1>6, <1>7 DEF StoreNext

\* What is packed and within capacity.
LEMMA StoreIsPacked == StoreInv => PackedInCapacity
BY DEF StoreInv, Sound, Current, Store, PackedInCapacity

\* A payload that is of the trips as they are draws every trip with its own
\* vertices.
LEMMA StoreDraws == StoreInv => PayloadDrawsTrips
<1>1. SUFFICES ASSUME StoreInv, ~dirty, payload # NoPayload
               PROVE  /\ payload.startIndices = StartIndices(trips)
                      /\ payload.path = Prefix(vertices, nextVertex)
                      /\ \A i \in 1..Len(trips) : \A j \in 0..(trips[i].nPoints - 1) :
                            payload.path[payload.startIndices[i] + j + 1]
                                = <<trips[i].id, j>>
  BY DEF PayloadDrawsTrips
<1>2. /\ trips \in Seq(TripType) /\ nextVertex = Width(trips, Len(trips))
      /\ \A i \in 1..Len(trips) : trips[i].offset = Width(trips, i - 1)
      /\ VerticesKept(trips, vertices)
  BY <1>1 DEF StoreInv, Sound, Current, Store
<1>3. payload = Drawing(trips, vertices)
  BY <1>1 DEF StoreInv, PayloadIsFresh
<1>4. /\ payload.startIndices = StartIndices(trips)
      /\ payload.path = Prefix(vertices, nextVertex)
  BY <1>2, <1>3 DEF Drawing
<1>5. ASSUME NEW i \in 1..Len(trips), NEW j \in 0..(trips[i].nPoints - 1)
      PROVE  payload.path[payload.startIndices[i] + j + 1] = <<trips[i].id, j>>
  <2>1. PICK k \in Nat : k = Len(trips)
    BY <1>2
  <2>2. PICK a \in Nat, m \in Nat : a = trips[i].offset /\ m = trips[i].nPoints
    BY <1>2, TripIs
  <2>3. PICK all \in Nat : all = nextVertex
    BY <1>2, <2>1, WidthIs
  <2>4. Width(trips, i) = a + m
    BY <1>2, <2>2, WidthNext
  <2>5. Width(trips, i) <= Width(trips, k)
    <3>1. i \in Nat /\ i <= k
      BY <2>1
    <3> QED
      BY <2>1, <3>1, WidthGrows
  <2>6. a + m <= all
    BY <1>2, <2>1, <2>3, <2>4, <2>5
  <2>7. j \in 0..(m - 1)
    BY <2>2
  <2>8. StartIndices(trips)[i] = a
    <3>1. i \in 1..(Len(trips) + 1)
      BY <2>1
    <3>2. StartIndices(trips)[i] = Width(trips, i - 1)
      BY <3>1 DEF StartIndices
    <3> QED
      BY <1>2, <2>2, <3>2
  <2>9. PICK v \in Nat : v = a + j
    <3>1. a + j \in Nat
      BY ONLY <2>7, a \in Nat, m \in Nat
    <3> QED
      BY <3>1
  <2>10. v + 1 \in 1..all /\ (v + 1) - 1 = v
    BY ONLY <2>6, <2>7, <2>9, a \in Nat, m \in Nat, v \in Nat, all \in Nat
  <2>11. Prefix(vertices, nextVertex)[v + 1] = vertices[v]
    BY <2>3, <2>10 DEF Prefix
  <2>12. vertices[trips[i].offset + j] = <<trips[i].id, j>>
    BY <1>2 DEF VerticesKept
  <2> QED
    BY <1>4, <2>2, <2>8, <2>9, <2>11, <2>12
<1> QED
  BY <1>4, <1>5

\* After a tick the first trip lives, and no other started before it.
LEMMA StoreOverstays == StoreInv => OverstayBounded
<1>1. SUFFICES ASSUME StoreInv, pruned, NEW i \in 1..Len(trips)
               PROVE  \E d \in Durations : now <= trips[i].t0 + d + TRAIL_MS
  BY DEF OverstayBounded
<1>2. trips \in Seq(TripType) /\ now \in Nat
  BY <1>1 DEF StoreInv, Sound, Current, Store
<1>3. 1 \in 1..Len(trips) /\ 1 <= i /\ Len(trips) > 0
  BY <1>2
<1>4. PICK d \in Durations : trips[1].t1 = trips[1].t0 + d
  BY <1>1, <1>3 DEF StoreInv, Timed
<1>5. trips[1].t0 <= trips[i].t0
  BY <1>1, <1>3 DEF StoreInv, Timed
<1>6. ~(trips[1].t1 < now - TRAIL_MS)
  BY <1>1, <1>3 DEF StoreInv, FrontLives, Expired
<1>7. PICK a \in Nat, b \in Nat : a = trips[1].t0 /\ b = trips[i].t0
  BY <1>2, <1>3, TripIs
<1>8. d \in Nat /\ TRAIL_MS \in Nat
  BY StoreAssumption
<1>9. now <= b + d + TRAIL_MS
  <2>1. a <= b /\ ~((a + d) < (now - TRAIL_MS))
    BY <1>4, <1>5, <1>6, <1>7
  <2> QED
    BY ONLY <1>2, <1>8, <2>1, a \in Nat, b \in Nat
<1> QED
  BY <1>7, <1>9

\* For every capacity and all paths and durations, the trips lie one after the
\* other from the start of arrays that they do not outgrow.
THEOREM StoreStaysPacked == StoreSpec => []PackedInCapacity
BY InitStore, StepStore, StoreIsPacked, PTL DEF StoreSpec

\* For every instance the payload that data() keeps draws each trip of the store
\* with the vertices that were written for it.
THEOREM PayloadIsOfTrips == StoreSpec => []PayloadDrawsTrips
BY InitStore, StepStore, StoreDraws, PTL DEF StoreSpec

\* For every instance, whatever the order of the durations, a tick leaves no trip
\* that started longer ago than an animation and its trail.
THEOREM NoTripOverstays == StoreSpec => []OverstayBounded
BY InitStore, StepStore, StoreOverstays, PTL DEF StoreSpec
=============================================================================
