-------------------------- MODULE InvalidationWalk --------------------------
(* ImpSheet::InvalidateDependencyGraph, the loop that drops the caches of   *)
(* the cells that depend on one cell.  It keeps no set of the cells it has  *)
(* seen: a cell's own state tells whether to step into it, and a cell may   *)
(* be on the stack several times before it is invalidated.  One action is   *)
(* one turn of the loop.                                                    *)

EXTENDS Integers, CellGraph, SequencesExt

CONSTANT MaxTurns   \* the turns of each cell are counted up to here

ASSUME MaxTurnsAssumption == MaxTurns \in Nat

ASSUME PosAssumption == IsFiniteSet(Pos)

VARIABLES graph, start,  \* dependency_graph and the cell that changed
          valid0,        \* the cells whose caches were valid at the start
          valid,         \* those whose caches are valid now
          stack,         \* the top comes first
          turns          \* how often each cell was invalidated

vars == <<graph, start, valid0, valid, stack, turns>>

\* Formulas never form a cycle (NoCycle of Recalc), nor do their dependents.
Init ==
  /\ graph \in {g \in Graph : Acyclic(g)} /\ start \in Pos
  /\ valid0 \in SUBSET Pos /\ valid = valid0
  /\ stack = <<start>>
  /\ turns = [p \in Pos |-> 0]

Top == stack[1]

\* (Faulty: every dependent is walked.)
StepsIntoAny(d, current) == TRUE

StepsInto(d, current) == d \in current

\* (Faulty: st.top() without st.pop().)
Peeked(s) == s

Popped(s) == Tail(s)

Turn ==
  /\ stack # <<>>
  /\ valid' = valid \ {Top}
  /\ \E order \in SetToSeqs({d \in graph[Top] : StepsInto(d, valid')}) :
       stack' = order \o Popped(stack)
  /\ turns' = [turns EXCEPT ![Top] = IF @ < MaxTurns THEN @ + 1 ELSE @]
  /\ UNCHANGED <<graph, start, valid0>>

Next == Turn

Spec == Init /\ [][Next]_vars

\* The loop is sequential code that waits for nothing.
FairSpec == Spec /\ WF_vars(Next)
-----------------------------------------------------------------------------
(* Properties.                                                              *)

\* What Recalc takes the loop to do: it reaches the cells that can be reached
\* from the start through valid dependents.
Reached == Reach([q \in Pos |-> graph[q] \cap valid0], start)

\* The walk stays among those cells.
TypeOK ==
  /\ graph \in Graph /\ start \in Pos
  /\ valid \subseteq valid0 /\ valid0 \subseteq Pos
  /\ stack \in Seq(Reached)
  /\ turns \in [Pos -> 0 .. MaxTurns]

\* When the loop ends it has dropped exactly those caches.
WalkExact == stack = <<>> => valid = valid0 \ Reached

\* A cell that is on the stack twice has all its dependents behind it by the
\* time it comes up again, and finds nothing left to walk: the loop takes one
\* turn for each edge at most, not one for each path.
OneTurnPerEdge ==
  \A p \in Pos : turns[p] <= IF p = start THEN 1 ELSE Cardinality({q \in Reached : p \in graph[q]})

\* The loop ends.
Ends == <>(stack = <<>>)
=============================================================================
