---------------------------- MODULE GreedyForest ----------------------------
(***************************************************************************)
(* Kruskal's algorithm without its data structures: every edge is          *)
(* considered once, and kept if and only if the edges kept before do not   *)
(* connect its ends.                                                       *)
(***************************************************************************)
CONSTANTS Vertices, Edges

VARIABLES
    left,       \* edges not considered yet
    forest      \* edges kept

Crosses(e, S) == (e[1] \in S) # (e[2] \in S)

\* a and b are connected by F: no cut of the vertices separates them.
Joined(F, a, b) ==
    \A S \in SUBSET Vertices : a \in S /\ b \notin S => \E e \in F : Crosses(e, S)

Init == left = Edges /\ forest = {}

Consider(e) ==
    /\ e \in left
    /\ left' = left \ {e}
    /\ forest' = IF Joined(forest, e[1], e[2]) THEN forest ELSE forest \cup {e}

Next == \E e \in Edges : Consider(e)

Spec == Init /\ [][Next]_<<left, forest>>
============================================================================
