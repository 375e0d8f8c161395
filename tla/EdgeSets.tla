------------------------------ MODULE EdgeSets ------------------------------
(* Directed graphs as sets of edges, for the modules in which positions     *)
(* move and a graph is looked at and changed edge by edge.                  *)

EXTENDS FiniteSets, Naturals

From(edges, S) == {e[2] : e \in {d \in edges : d[1] \in S}}

\* Everything that can be reached from S, S included.
ReachedFrom(edges, S) ==
  LET reached[n \in 0 .. Cardinality(edges)] ==
        IF n = 0 THEN S ELSE reached[n - 1] \cup From(edges, reached[n - 1])
  IN  reached[Cardinality(edges)]

\* A search from p that follows every edge comes upon a cycle.
CycleFrom(edges, p) ==
  \E q \in ReachedFrom(edges, {p}) : q \in ReachedFrom(edges, From(edges, {q}))
=============================================================================
