----------------------------- MODULE LabelLayout -----------------------------
(***************************************************************************)
(* placeLabel() of phase4/src/labels.ts: where the label of a place goes   *)
(* on the screen.  Coordinates are pixels, y grows downwards, and a box is *)
(* [left, top, right, bottom].                                             *)
(***************************************************************************)
EXTENDS Integers, Sequences, FiniteSetsExt

CONSTANTS Rings,        \* rows to try: 64
          Gap, Offset   \* between two rows, between anchor and label: 4 and 9

ASSUME LayoutAssumption == Rings \in Nat \ {0} /\ Gap \in Nat /\ Offset \in Nat

overlaps(a, b) == a[1] < b[3] /\ a[3] > b[1] /\ a[2] < b[4] /\ a[4] > b[2]

\* Math.max(low, Math.min(high, value)): low wins if there is no room.
clamp(value, low, high) ==
    LET capped == IF value < high THEN value ELSE high
    IN  IF low > capped THEN low ELSE capped

\* The places a label tries, on the right and on the left of its anchor, in
\* the anchor's row, then in the rows below and above it in turn.
Tries == 1..(2 * Rings)
Row(try) ==
    LET ring == (try - 1) \div 2
    IN  IF ring % 2 = 1 THEN (ring + 1) \div 2 ELSE -(ring \div 2)

Box(left, top, size) == <<left, top, left + size[1], top + size[2]>>

TryBox(try, anchor, size, bounds) ==
    LET right == try % 2 = 1
    IN  Box(clamp(anchor[1] + (IF right THEN Offset ELSE -size[1] - Offset),
                  bounds[1], bounds[3] - size[1]),
            clamp(anchor[2] - size[2] \div 2 + Row(try) * (size[2] + Gap),
                  bounds[2], bounds[4] - size[2]),
            size)

\* Mutation of IsFree: the last box is not looked at.
IsFreeOfOthers(box, occupied) == \A i \in 1..(Len(occupied) - 1) : ~overlaps(box, occupied[i])

IsFree(box, occupied) == \A i \in 1..Len(occupied) : ~overlaps(box, occupied[i])

\* The first free place; without one, on the right of the anchor whatever is
\* there, even beyond the bounds.
placeLabel(anchor, size, occupied, bounds) ==
    LET free == {try \in Tries : IsFree(TryBox(try, anchor, size, bounds), occupied)}
    IN  IF free # {} THEN TryBox(Min(free), anchor, size, bounds)
        ELSE Box(anchor[1] + Offset, anchor[2] - size[2] \div 2, size)
=============================================================================
