----------------------------- MODULE CellGraph -----------------------------
(* Directed graphs over the cell positions of a sheet, the way ImpSheet     *)
(* keeps them: reference_graph maps a formula cell to the cells it names,   *)
(* dependency_graph maps a cell to the formula cells that name it.  Both    *)
(* are hash maps of hash sets in the code; a missing key and an empty set   *)
(* are read the same way everywhere, so a graph is a total function here.   *)
(* Reachability is stated with closed sets, not with paths or recursion, so *)
(* that facts about it can be proved for every set of positions.            *)

CONSTANT Pos

Graph == [Pos -> SUBSET Pos]

\* No edge of g leaves S.
Closed(g, S) == \A q \in S : g[q] \subseteq S

\* What a search started at p that follows every edge of g visits: the
\* least closed set that contains p.
Reach(g, p) == {q \in Pos : \A S \in SUBSET Pos : p \in S /\ Closed(g, S) => q \in S}

\* A nonempty set that every one of its members has an edge back into.  In a
\* finite graph there is one exactly when there is a cycle.
Trap(g, S) == S # {} /\ \A q \in S : g[q] \cap S # {}

Acyclic(g) == \A S \in SUBSET Pos : ~ Trap(g, S)

\* The plain statement of a cycle through p or reached from p, which the
\* search from start_vertex p in GraphIsCircular looks for.
Circular(g, p) == \E S \in SUBSET Reach(g, p) : Trap(g, S)
=============================================================================
