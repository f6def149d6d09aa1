------------------------------ MODULE Keystone ------------------------------
(***************************************************************************)
(* Keystone calibration: the corners that App.tsx keeps, the keys and      *)
(* handles that move them, and what keystone.ts keeps in localStorage.     *)
(*                                                                         *)
(* A handle that is pressed puts its own pair of listeners on the window.  *)
(* They hear every pointer: a move takes all handles that are held along,  *)
(* and the first release ends all of it and saves.  Handles stay held      *)
(* through the keys, and for good if their pointer is cancelled.           *)
(*                                                                         *)
(* setState() is taken to be done when the next event comes.  MaxMoves     *)
(* bounds the moves, and Points where a pointer can be.                    *)
(***************************************************************************)
EXTENDS Homography

CONSTANTS Windows,      \* sizes the window may have
          Points,
          Nothing,      \* localStorage has no item
          Unreadable,   \* an item that is not a list of four
          MaxMoves

ASSUME KeystoneAssumption ==
    /\ Windows \subseteq (Nat \ {0}) \X (Nat \ {0}) /\ Windows # {}
    /\ Points \subseteq Int \X Int /\ MaxMoves \in Nat
    /\ \A item \in {Nothing, Unreadable} : item \notin [1..4 -> Int \X Int]

VARIABLES
    window,       \* [innerWidth, innerHeight]
    corners,
    calibrating,  \* the handles are on the screen
    held,         \* handles whose listeners are on the window
    item,         \* localStorage: corners, Nothing or Unreadable
    blocked,      \* site data is blocked: every access throws
    moves

keystoneVars == <<window, corners, calibrating, held, item, blocked, moves>>

Corners == [1..4 -> Int \X Int]

load(win, raw) ==
    IF ~blocked /\ raw \in Corners THEN raw ELSE identityCorners(win)
save(c) == item' = IF blocked THEN item ELSE c
clear   == item' = IF blocked THEN item ELSE Nothing

KeystoneInit ==
    /\ window \in Windows /\ blocked \in BOOLEAN
    /\ item \in {Nothing, Unreadable}
    /\ corners = load(window, item)
    /\ calibrating = FALSE /\ held = {} /\ moves = 0

\* onKey(): "k"
KeyK ==
    /\ calibrating' = ~calibrating
    /\ UNCHANGED <<window, corners, held, item, blocked, moves>>

\* Mutation of KeyR: the item stays.
KeyRKeeps ==
    /\ calibrating
    /\ corners' = identityCorners(window)
    /\ UNCHANGED <<window, calibrating, held, item, blocked, moves>>

\* onKey(): "r", also in the middle of a drag.
KeyR ==
    /\ calibrating
    /\ corners' = identityCorners(window) /\ clear
    /\ UNCHANGED <<window, calibrating, held, blocked, moves>>

\* drag(i): a handle is pressed.
PointerDown(i) ==
    /\ calibrating /\ i \notin held
    /\ held' = held \cup {i}
    /\ UNCHANGED <<window, corners, calibrating, item, blocked, moves>>

\* move() of every handle that is held, whichever pointer it is.
PointerMove(p) ==
    /\ held # {} /\ moves < MaxMoves /\ moves' = moves + 1
    /\ corners' = [i \in 1..4 |-> IF i \in held THEN p ELSE corners[i]]
    /\ UNCHANGED <<window, calibrating, held, item, blocked>>

\* up() of every handle that is held.
PointerUp ==
    /\ held # {} /\ held' = {}
    /\ save(corners)
    /\ UNCHANGED <<window, corners, calibrating, blocked, moves>>

\* onResize() draws again; the corners stay where they are.
Resize ==
    /\ window' \in Windows \ {window}
    /\ UNCHANGED <<corners, calibrating, held, item, blocked, moves>>

\* The page is loaded again, whatever was going on.
Reload ==
    /\ corners' = load(window, item)
    /\ calibrating' = FALSE /\ held' = {}
    /\ UNCHANGED <<window, item, blocked, moves>>

KeystoneNext ==
    \/ KeyK \/ KeyR \/ PointerUp \/ Resize \/ Reload
    \/ \E i \in 1..4 : PointerDown(i)
    \/ \E p \in Points : PointerMove(p)

KeystoneSpec == KeystoneInit /\ [][KeystoneNext]_keystoneVars

(******************************** properties *******************************)

\* Nothing of a calibration is lost to a reload, and none comes back: while no
\* handle is held, the wall shows the corners that are stored, or, with none
\* stored, those of a window it had, whatever keys came in the middle of a drag.
WallIsStored ==
    held = {} /\ ~blocked =>
        IF item \in Corners THEN corners = item
        ELSE \E win \in Windows : corners = identityCorners(win)

\* The transform puts the corners of the window as it is now where the handles
\* are, unless three of them are on a line: two that were dragged at once are.
MatrixMapsCorners ==
    General(corners) =>
        LET css == matrix3d(window, corners)
        IN  \A i \in 1..4 : Takes(css, identityCorners(window)[i], corners[i])
=============================================================================
