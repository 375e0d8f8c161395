---------------------------- MODULE CycleSearch ----------------------------
(* ImpSheet::GraphIsCircular, the depth-first search by which SetCell finds *)
(* out whether a formula closes a cycle.  It keeps its own stack and three  *)
(* colours: a cell is white until it is entered, gray while it is on the    *)
(* path to the cell at hand, black once everything behind it has been seen. *)
(* A cell stays on the stack below the cells it names, so that it turns     *)
(* black when it is met there again; a cell named twice is on the stack     *)
(* twice.  One action is one turn of the loop.                              *)

EXTENDS Integers, CellGraph, SequencesExt

CONSTANT Starts   \* the cells a search starts from

ASSUME StartsAssumption == Starts \subseteq Pos

ASSUME PosAssumption == IsFiniteSet(Pos)

VARIABLES graph, start,   \* the arguments
          color, stack,   \* the locals; the top of the stack comes first
          result          \* "none" until the search returns

vars == <<graph, start, color, stack, result>>

Init ==
  /\ graph \in Graph /\ start \in Starts
  /\ color = [p \in Pos |-> "white"]
  /\ stack = <<start>>
  /\ result = "none"

Running == result = "none"
Top == stack[1]

\* (Faulty: st.top() without st.pop().)
Peeked(s) == s

Popped(s) == Tail(s)

\* (Faulty: two colours, a cell seen before counts as a cell on the path.)
Seen(c, p) == c[p] # "white"

OnPath(c, p) == c[p] = "gray"

\* (Faulty: the search follows the edges backwards.)
Callers(v) == {u \in Pos : v \in graph[u]}

Named(v) == graph[v]

\* (Faulty: the cell is not put back below the cells it names.)
Alone(order, v) == order

\* (Faulty: it is put back above them.)
Beneath(order, v) == <<v>> \o order

Above(order, v) == order \o <<v>>

\* A white cell is entered.  An edge back to the path, the cell itself
\* included, ends the search; else the cells named go on the stack, in whatever
\* order the hash set yields them.
Enter ==
  /\ Running /\ stack # <<>> /\ color[Top] = "white"
  /\ color' = [color EXCEPT ![Top] = "gray"]
  /\ \/ /\ \E w \in Named(Top) : OnPath(color', w)
        /\ result' = "cycle"
        /\ UNCHANGED stack
     \/ /\ ~ \E w \in Named(Top) : OnPath(color', w)
        /\ \E order \in SetToSeqs(Named(Top)) :
             stack' = Above(order, Top) \o Popped(stack)
        /\ UNCHANGED result
  /\ UNCHANGED <<graph, start>>

\* A gray cell comes up again when all above it is done.
Leave ==
  /\ Running /\ stack # <<>> /\ color[Top] = "gray"
  /\ color' = [color EXCEPT ![Top] = "black"]
  /\ stack' = Popped(stack)
  /\ UNCHANGED <<graph, start, result>>

\* A black cell was reached another way before.
Skip ==
  /\ Running /\ stack # <<>> /\ color[Top] = "black"
  /\ stack' = Popped(stack)
  /\ UNCHANGED <<graph, start, color, result>>

Return ==
  /\ Running /\ stack = <<>>
  /\ result' = "no cycle"
  /\ UNCHANGED <<graph, start, color, stack>>

Next == Enter \/ Leave \/ Skip \/ Return

Spec == Init /\ [][Next]_vars

\* The loop is sequential code that waits for nothing.
FairSpec == Spec /\ WF_vars(Next)
-----------------------------------------------------------------------------
(* Properties.                                                              *)

\* The search stays among the cells that can be reached from the start.
TypeOK ==
  /\ graph \in Graph /\ start \in Starts
  /\ color \in [Pos -> {"white", "gray", "black"}]
  /\ stack \in Seq(Reach(graph, start))
  /\ result \in {"none", "cycle", "no cycle"}

\* The search reports a cycle exactly when one can be reached from the start,
\* whatever the graph and the order of the edges.  HasCircularRefs of Recalc
\* stands on this.
AnswerExact == ~ Running => (result = "cycle" <=> Circular(graph, start))

\* Where cell p comes up first on the stack.
FirstAt(p) == CHOOSE i \in DOMAIN stack : stack[i] = p /\ \A j \in 1 .. i - 1 : stack[j] # p

\* While the search runs, the gray cells are a path of the graph, in the order
\* of the stack: each names the next gray one above it.
GrayIsPath ==
  Running => \A p \in Pos : OnPath(color, p) =>
    /\ \E i \in DOMAIN stack : stack[i] = p
    /\ LET Later == {q \in Pos : OnPath(color, q) /\ q # p /\ FirstAt(q) < FirstAt(p)}
       IN  Later # {} => \E q \in Later \cap graph[p] :
                           \A r \in Later : FirstAt(r) <= FirstAt(q)

\* Black cells are done with: all they name is black, and there is no cycle
\* among them.
BlackIsDone ==
  LET Black == {p \in Pos : color[p] = "black"}
  IN  Closed(graph, Black) /\ \A S \in SUBSET Black : ~ Trap(graph, S)

\* The search returns.
Returns == <>(~ Running)
=============================================================================
