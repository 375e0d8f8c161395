---------------------------- MODULE FormulaRefs ----------------------------
(* A formula that belongs to no cell, through any sequence of insertions    *)
(* and deletions of rows and columns, and read in between (IFormula,        *)
(* formula.h).  What the handlers do is in FormulaMoves.                    *)
(*                                                                          *)
(* rows, cols and named are the history the handlers are measured against:  *)
(* what the rows and columns of the sheet were when the formula was parsed, *)
(* in their present order, and the cells its leaves named then.             *)

EXTENDS FormulaMoves

CONSTANTS Rows, Cols, \* how many a formula may name when it is parsed
          MaxLength,  \* bound on the rows and columns kept track of
          MaxCount,   \* bound on how many are inserted or deleted at once
          MaxLeaves   \* bound on the references in one formula

ASSUME BoundsAssumption ==
  /\ {MaxLength, MaxCount, MaxLeaves} \subseteq Nat
  /\ Rows \in 1 .. MaxLength /\ Cols \in 1 .. MaxLength

Position == [row : 0 .. MaxLength - 1, col : 0 .. MaxLength - 1]
New == -1                           \* a row or column inserted since

VARIABLES formula,   \* its tree, ref_cells and self_hr
          reply,     \* the last call and what it gave
          rows, cols, named

vars == <<formula, reply, rows, cols, named>>

Init ==
  /\ \E leaves \in SeqOf([row : 0 .. Rows - 1, col : 0 .. Cols - 1], MaxLeaves) :
       formula = ParsedFormula(leaves)
  /\ reply = [call |-> "Parse", result |-> "Value"]
  /\ rows = [i \in 1 .. Rows |-> i - 1] /\ cols = [i \in 1 .. Cols |-> i - 1]
  /\ named = formula.tree
-----------------------------------------------------------------------------
(* The history.                                                             *)

InsertedInto(s, before, count) ==
  IF before >= Len(s) THEN s
  ELSE SubSeq(s, 1, before) \o [i \in 1 .. count |-> New] \o SubSeq(s, before + 1, Len(s))

RemovedFrom(s, first, count) ==
  IF first >= Len(s) THEN s
  ELSE SubSeq(s, 1, first) \o SubSeq(s, first + count + 1, Len(s))

Fits(s, before, count) == Len(InsertedInto(s, before, count)) <= MaxLength
-----------------------------------------------------------------------------
(* The calls.                                                               *)

Becomes(handled) ==
  /\ formula' = handled.formula
  /\ reply' = [call |-> "Handle", result |-> handled.result]

\* ref_cells.back() of an empty list is undefined: the call may die, or read
\* any row there and go either way.
InsertRows(before, count) ==
  /\ Fits(rows, before, count)
  /\ \/ formula.ref_cells # <<>> /\ Becomes(HandleInsertedRows(formula, before, count))
     \/ formula.ref_cells = <<>> /\ Becomes(Unaffected(formula))
     \/ formula.ref_cells = <<>> /\ Becomes(ShiftRows(formula, before, count))
     \/ /\ formula.ref_cells = <<>>
        /\ Becomes([formula |-> formula, result |-> "Crash"])
  /\ rows' = InsertedInto(rows, before, count)
  /\ UNCHANGED <<cols, named>>

InsertCols(before, count) ==
  /\ Fits(cols, before, count)
  /\ Becomes(HandleInsertedCols(formula, before, count))
  /\ cols' = InsertedInto(cols, before, count)
  /\ UNCHANGED <<rows, named>>

DeleteRows(first, count) ==
  /\ Becomes(HandleDeletedRows(formula, first, count))
  /\ rows' = RemovedFrom(rows, first, count)
  /\ UNCHANGED <<cols, named>>

DeleteCols(first, count) ==
  /\ Becomes(HandleDeletedCols(formula, first, count))
  /\ cols' = RemovedFrom(cols, first, count)
  /\ UNCHANGED <<rows, named>>

\* A leaf that is gone is looked up like any other: that throws, or gives zero
\* in a sheet no cell was ever set in.
Evaluate ==
  /\ \E result \in {"#REF!", "Value", "Throws"} :
       /\ result = "#REF!" <=> formula.self_hr = "ReferencesChanged"
       /\ result = "Throws" => HasLost(formula)
       /\ reply' = [call |-> "Evaluate", result |-> result]
  /\ UNCHANGED <<formula, rows, cols, named>>

Next ==
  /\ reply.result # "Crash"
  /\ \/ \E from \in 0 .. MaxLength : \E count \in 1 .. MaxCount :
          \/ InsertRows(from, count)
          \/ InsertCols(from, count)
          \/ DeleteRows(from, count)
          \/ DeleteCols(from, count)
     \/ Evaluate

Spec == Init /\ [][Next]_vars
-----------------------------------------------------------------------------
(* Properties.                                                              *)

\* Leaves are positions or gone, and the list holds positions only.
TypeOK ==
  /\ \A i \in DOMAIN formula.tree : formula.tree[i] \in Position \cup {Gone}
  /\ \A i \in DOMAIN formula.ref_cells : formula.ref_cells[i] \in Position
  /\ formula.self_hr \in Results
  /\ reply.result \in Results \cup {"Value", "#REF!", "Throws", "Crash"}

\* The list GetReferencedCells returns is the valid leaves of the tree,
\* sorted and each once, although the two are updated by different loops.
RefsOfTree ==
  /\ ToSet(formula.ref_cells) = ToSet(formula.tree) \ {Gone}
  /\ \A i, j \in DOMAIN formula.ref_cells : i < j => Less(formula.ref_cells[i], formula.ref_cells[j])

\* The cell p of the parsed formula is now at q.
IsNow(q, p) ==
  /\ q.row + 1 \in DOMAIN rows /\ rows[q.row + 1] = p.row
  /\ q.col + 1 \in DOMAIN cols /\ cols[q.col + 1] = p.col

\* Where that cell is now, or Gone.
Current(p) ==
  IF \E q \in Position : IsNow(q, p) THEN CHOOSE q \in Position : IsNow(q, p) ELSE Gone

\* "All references are updated so that they point to the same cells as before":
\* whatever was inserted and deleted, every leaf names the cell it named when
\* the formula was parsed, or is gone if that cell is.
LeavesFollow == \A i \in DOMAIN formula.tree : formula.tree[i] = Current(named[i])

\* A formula is #REF! only if a cell it named was deleted.
NoFalseRef == formula.self_hr = "ReferencesChanged" => HasLost(formula)

\* What a call did to the formula.
Effect ==
  IF \E i \in DOMAIN formula.tree : formula.tree[i] # Gone /\ formula'.tree[i] = Gone THEN "ReferencesChanged"
  ELSE IF formula'.tree # formula.tree THEN "ReferencesRenamedOnly"
  ELSE "NothingChanged"

\* A handler answers what it did: the early returns, decided on ref_cells, skip
\* exactly the calls that leave the tree alone.  A formula that is #REF!
\* already, or has no valid reference left, is left out.
EffectReported ==
  [][reply'.call = "Handle" /\ formula.self_hr # "ReferencesChanged" /\ formula.ref_cells # <<>>
       => reply'.result = Effect]_vars
=============================================================================
