---------------------------- MODULE FormulaMoves ----------------------------
(* What the insertion and the deletion of rows and columns do to a formula: *)
(* ImpFormula::HandleInsertedRows, HandleInsertedCols, HandleDeletedRows    *)
(* and HandleDeletedCols (imp_formula.cpp).                                 *)
(*                                                                          *)
(* A formula keeps its references twice: in the leaves of its tree, which   *)
(* are evaluated and printed, and in ref_cells, a sorted list that decides  *)
(* whether a call concerns the formula at all.  The four handlers update    *)
(* both, in loops of their own.  A formula is a record of the positions in  *)
(* its leaves, from left to right, of ref_cells and of self_hr, the last    *)
(* result of a handler that changed something; a handler is an operator     *)
(* that gives the formula it leaves and the result it returns.              *)

EXTENDS Integers, SequencesExt

Gone == [row |-> -1, col |-> -1]    \* the invalid position, printed #REF!

Results == {"NothingChanged", "ReferencesRenamedOnly", "ReferencesChanged"}

\* Position::operator<, by rows first.
Less(p, q) == p.row < q.row \/ (p.row = q.row /\ p.col < q.col)

\* std::sort: each element goes to the place its rank gives it.  Equal positions
\* cannot be told apart, and keep their order here.
Before(s, i) == {j \in DOMAIN s : Less(s[j], s[i]) \/ (s[j] = s[i] /\ j < i)}
Sorted(s) ==
  [k \in DOMAIN s |-> s[CHOOSE i \in DOMAIN s : Cardinality(Before(s, i)) = k - 1]]

\* ParseImpFormula: ref_cells holds the positions of the leaves, each once.
ParsedFormula(leaves) ==
  [tree |-> leaves, ref_cells |-> Sorted(SetToSeq(ToSet(leaves))), self_hr |-> "NothingChanged"]

HasLost(f) == \E i \in DOMAIN f.tree : f.tree[i] = Gone
-----------------------------------------------------------------------------
(* Where a position goes, along one axis, "row" or "col".                   *)

\* (Faulty: the row the insertion names stays where it is.)
InsertedAfter(p, axis, before, count) ==
  IF p[axis] > before THEN [p EXCEPT ![axis] = @ + count] ELSE p

InsertedAt(p, axis, before, count) ==
  IF p[axis] >= before THEN [p EXCEPT ![axis] = @ + count] ELSE p

\* (Faulty: a deletion of n rows takes n - 1.)
DeletedShort(p, axis, first, count) ==
  IF p[axis] < first THEN p
  ELSE IF p[axis] < first + count - 1 THEN Gone
  ELSE [p EXCEPT ![axis] = @ - count]

DeletedAt(p, axis, first, count) ==
  IF p[axis] < first THEN p
  ELSE IF p[axis] <= first + count - 1 THEN Gone
  ELSE [p EXCEPT ![axis] = @ - count]

\* MoveAstRowsByInsertion and its three siblings walk the whole tree.
MoveAst(tree, Moved(_)) == [i \in DOMAIN tree |-> Moved(tree[i])]

\* (Faulty: std::upper_bound.)
UpperBound(s, row) == 1 + Cardinality({i \in DOMAIN s : s[i].row <= row})

\* std::lower_bound by row in a sorted list: the first index not before row.
LowerBound(s, row) == 1 + Cardinality({i \in DOMAIN s : s[i].row < row})

\* (Faulty: the deleted references stay in the list.)
KeepGone(s) == Sorted(s)

\* The invalid positions sort before {0, 0} and are cut off at its lower_bound.
BeforeOrigin(s) == Cardinality({i \in DOMAIN s : Less(s[i], [row |-> 0, col |-> 0])})
DropGone(s) == LET t == Sorted(s) IN SubSeq(t, BeforeOrigin(t) + 1, Len(t))
-----------------------------------------------------------------------------
(* Insertion.                                                               *)

Unaffected(f) == [formula |-> f, result |-> "NothingChanged"]

\* self_hr forgets here that a reference was ever deleted.
Renamed(leaves, refs) ==
  [formula |-> [tree |-> leaves, ref_cells |-> refs, self_hr |-> "ReferencesRenamedOnly"],
   result |-> "ReferencesRenamedOnly"]

\* (Faulty: the row after the last referenced one is taken to concern it.)
BeyondNextRow(f, from) == from > Last(f.ref_cells).row + 1

BeyondLastRow(f, from) == from > Last(f.ref_cells).row

\* A formula that names no cell has no ref_cells.back(): HandleInsertedRows is
\* for those that do.
ShiftRows(f, before, count) ==
  Renamed(MoveAst(f.tree, LAMBDA p : InsertedAt(p, "row", before, count)),
          [i \in DOMAIN f.ref_cells |->
             IF i >= LowerBound(f.ref_cells, before)
             THEN [f.ref_cells[i] EXCEPT !.row = @ + count] ELSE f.ref_cells[i]])

HandleInsertedRows(f, before, count) ==
  IF BeyondLastRow(f, before) THEN Unaffected(f) ELSE ShiftRows(f, before, count)

BeyondLastCol(f, from) == \A i \in DOMAIN f.ref_cells : from > f.ref_cells[i].col

HandleInsertedCols(f, before, count) ==
  IF BeyondLastCol(f, before) THEN Unaffected(f)
  ELSE Renamed(MoveAst(f.tree, LAMBDA p : InsertedAt(p, "col", before, count)),
               [i \in DOMAIN f.ref_cells |-> InsertedAt(f.ref_cells[i], "col", before, count)])
-----------------------------------------------------------------------------
(* Deletion.                                                                *)

\* (Faulty: a deletion of n rows is taken to reach n + 1.)
DeletesOneMore(p, axis, first, count) == p[axis] >= first /\ p[axis] <= first + count

\* A reference to a deleted cell.
Deletes(p, axis, first, count) == p[axis] >= first /\ p[axis] <= first + count - 1

\* What both deletion handlers do last; refs is ref_cells after the loop.
\* ReferencesChanged stays, and is answered again, once it has been reached.
Deleted(f, axis, first, count, refs) ==
  LET changed == \/ f.self_hr = "ReferencesChanged"
                 \/ \E i \in DOMAIN f.ref_cells : Deletes(f.ref_cells[i], axis, first, count)
      hr == IF changed THEN "ReferencesChanged" ELSE "ReferencesRenamedOnly"
  IN  [formula |-> [tree |-> MoveAst(f.tree, LAMBDA p : DeletedAt(p, axis, first, count)),
                    ref_cells |-> IF changed THEN DropGone(refs) ELSE refs,
                    self_hr |-> hr],
       result |-> hr]

HandleDeletedRows(f, first, count) ==
  IF f.ref_cells = <<>> \/ BeyondLastRow(f, first) THEN Unaffected(f)
  ELSE Deleted(f, "row", first, count,
         [i \in DOMAIN f.ref_cells |->
            IF i < LowerBound(f.ref_cells, first) THEN f.ref_cells[i]
            ELSE IF Deletes(f.ref_cells[i], "row", first, count) THEN Gone
            ELSE [f.ref_cells[i] EXCEPT !.row = @ - count]])

HandleDeletedCols(f, first, count) ==
  IF BeyondLastCol(f, first) THEN Unaffected(f)
  ELSE Deleted(f, "col", first, count,
         [i \in DOMAIN f.ref_cells |->
            IF f.ref_cells[i].col < first THEN f.ref_cells[i]
            ELSE IF Deletes(f.ref_cells[i], "col", first, count) THEN Gone
            ELSE [f.ref_cells[i] EXCEPT !.col = @ - count]])
=============================================================================
