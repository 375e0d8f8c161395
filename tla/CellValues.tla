----------------------------- MODULE CellValues -----------------------------
(* What a cell may hold and what it evaluates to: ImpCell (imp_cell.cpp),   *)
(* ImpFormula::Evaluate (imp_formula.cpp) and the AST nodes (ast.cpp).      *)
(*                                                                          *)
(* Data is kept to what the properties tell apart.  A number is one of      *)
(* 0..MaxNum, where MaxNum stands for the largest finite double: a sum past *)
(* it is what std::isinf detects.  A text is empty, a number, or a word.    *)
(* A formula is a literal, one reference, or a sum or quotient of two       *)
(* references: enough for every way the code propagates values and errors.  *)

EXTENDS Integers, CellGraph

CONSTANTS MaxNum,      \* the largest number
          Words,       \* texts and string values that are not numbers
          Rendered,    \* a word without its leading escape sign
          EmptyText, ValueError, DivError

Num == 0 .. MaxNum
Errors == {ValueError, DivError}
Value == Num \cup Words \cup Errors
Text == Num \cup Words \cup {EmptyText}

ASSUME MaxNumAssumption == MaxNum \in Nat \ {0}

ASSUME ValuesAssumption ==
  /\ Rendered \in [Words -> Words]
  /\ Words \cap Num = {}
  /\ Errors \cap (Num \cup Words) = {}
  /\ ValueError # DivError
  /\ EmptyText \notin Num \cup Words

Absent == [kind |-> "absent"]
TextCell(t) == [kind |-> "text", text |-> t]
Blank == TextCell(EmptyText)

Literal == [kind : {"formula"}, op : {"lit"}, args : {<<>>}]
Reference == [kind : {"formula"}, op : {"cell"}, args : [1..1 -> Pos]]
Operation == [kind : {"formula"}, op : {"add", "div"}, args : [1..2 -> Pos]]
Formula == Literal \cup Reference \cup Operation

Content == {Absent} \cup {TextCell(t) : t \in Text} \cup Formula

IsFormula(c) == c.kind = "formula"

\* The positions a cell's formula names, each once: ImpFormula::ref_cells.
Refs(c) == IF IsFormula(c) THEN {c.args[i] : i \in DOMAIN c.args} ELSE {}

\* ICell::GetValue of a text cell.  Empty text reads as zero by convention.
TextValue(t) ==
  IF t = EmptyText THEN 0 ELSE IF t \in Words THEN Rendered[t] ELSE t

\* AddOp and DivOp: an infinite sum, and a quotient by zero, are #DIV/0!.
Apply(op, a, b) ==
  IF op = "add" THEN IF a + b \in Num THEN a + b ELSE DivError
                ELSE IF b = 0 THEN DivError ELSE a \div b

\* AstBinary::evaluate: the left error wins over the right one, an error over
\* a string, and a string operand is an error of its own.
Combine(op, l, r) ==
  IF l \in Errors THEN l
  ELSE IF r \in Errors THEN r
  ELSE IF l \in Words \/ r \in Words THEN ValueError
  ELSE Apply(op, l, r)

\* The tree of formula f evaluated with the values val of the cells it names.
TreeValue(f, val) ==
  IF f.op = "lit" THEN 1
  ELSE IF f.op = "cell" THEN val[f.args[1]]
  ELSE Combine(f.op, val[f.args[1]], val[f.args[2]])

\* ImpFormula::Evaluate: a formula whose tree evaluates to a string is #VALUE!.
FormulaValue(f, val) ==
  LET v == TreeValue(f, val) IN IF v \in Words THEN ValueError ELSE v

\* The value of a cell, given the values of the cells it names.  A position
\* that holds no cell counts as zero (AstCell::evaluate).
CellValue(c, val) ==
  IF IsFormula(c) THEN FormulaValue(c, val)
  ELSE IF c = Absent THEN 0
  ELSE TextValue(c.text)
=============================================================================
