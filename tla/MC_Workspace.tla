---------------------------- MODULE MC_Workspace ----------------------------
(***************************************************************************)
(* Workspace for TLC, on a globe of eight units around.  The lookups are   *)
(* from a city to another across the antimeridian.  Routes go through up   *)
(* to four of six stations, among them one at the antimeridian, one at     *)
(* each city, two of the same name, and one without a name.                *)
(***************************************************************************)
EXTENDS Workspace, TLC

CONSTANTS MaxStations

Source == [name |-> "source", lon |-> -3]
Target == [name |-> "target", lon |-> 3]
AtSource == <<-3, 0>>
AtTarget == <<3, 0>>

Station == [source |-> [name |-> "source", at |-> AtSource],
            b      |-> [name |-> "b", at |-> <<-1, 1>>],
            c      |-> [name |-> "c", at |-> <<4, 0>>],
            d      |-> [name |-> "b", at |-> <<3, 2>>],
            e      |-> [name |-> "", at |-> <<2, -1>>],
            f      |-> [name |-> "f", at |-> AtTarget]]

\* The resolver's routes: through stations that differ, from one near the
\* source to one near the target.
Walks ==
    {w \in UNION {[1..n -> DOMAIN Station] : n \in 2..MaxStations} :
        /\ w[1] \in {"source", "b"} /\ w[Len(w)] \in {"d", "e", "f"}
        /\ IsInjective(w)}

\* From the antimeridian cables go on from its other side, or start there.
Edge(s, t) ==
    [kind |-> IF "c" \in {s, t} THEN "submarine" ELSE "terrestrial",
     from |-> Station[s].name, to |-> Station[t].name,
     path |-> IF s # "c" THEN <<Station[s].at, Station[t].at>>
              ELSE (IF t = "f" THEN <<Station[s].at>> ELSE <<>>)
                   \o <<<<-4, 0>>, Station[t].at>>]

\* A hop between a city and a station that is not in it.
Snap(name1, at1, name2, at2) ==
    IF at1 = at2 THEN <<>>
    ELSE <<[kind |-> "terrestrial", from |-> name1, to |-> name2, path |-> <<at1, at2>>]>>

Route(w) ==
    LET first == Station[w[1]]
        last  == Station[w[Len(w)]]
        edges == [i \in 1..(Len(w) - 1) |-> Edge(w[i], w[i + 1])]
    IN  [valid |-> TRUE,
         path |-> <<AtSource, first.at>>
                  \o FlattenSeq([i \in 1..Len(edges) |->
                        IF edges[i].path[1] = Station[w[i]].at THEN Tail(edges[i].path)
                        ELSE edges[i].path])
                  \o <<AtTarget>>,
         segments |-> Snap("source", AtSource, first.name, first.at) \o edges
                      \o Snap(last.name, last.at, "target", AtTarget)]

GreatCircle == [valid |-> TRUE, path |-> <<AtSource, <<-4, 1>>, AtTarget>>, segments |-> <<>>]
Invalid == [valid |-> FALSE, path |-> <<>>, segments |-> <<>>]

Long    == Route(<<"source", "b", "c", "d", "f">>)
Another == Route(<<"b", "c", "d">>)
Third   == Route(<<"source", "c", "f">>)

Answers ==
    {<<Route(w)>> : w \in Walks} \cup
    {<<Invalid, Long>>, <<Long, Another, Third>>, <<Another, Invalid, Long, Third>>,
     <<Third, Another, Invalid>>}

MCLookups == {[from |-> Source, to |-> Target, answer |-> a] : a \in Answers}

\* A screen that is full with the badge and two or three labels.
OnScreen(p) == <<10 * p[1] + 40, 10 - 5 * p[2]>>
Size(label) == IF label = "b" THEN <<30, 6>> ELSE <<40, 6>>
Badge == <<40, 10>>
Screen == <<0, 0, 60, 14>>
=============================================================================
