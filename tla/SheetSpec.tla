----------------------------- MODULE SheetSpec -----------------------------
(* What a sheet promises to its user (ISheet, common.h): a map from         *)
(* positions to contents whose references never form a cycle, and a read    *)
(* that returns the value the contents determine.  There are no caches, no  *)
(* dependency graph and no pointers here; Recalc has them and implements    *)
(* this specification.                                                      *)
(*                                                                          *)
(* One thing the code does cannot be left out.  ClearCell frees a cell that *)
(* formulas still point to, and reading through such a formula is undefined *)
(* behaviour.  severed is the set of formulas this has happened to: a read  *)
(* is promised only for cells that do not depend on one of them.            *)

EXTENDS CellValues

CONSTANTS Texts, Formulas,   \* what the user types
          Ok, CircularDependency, Undefined

VARIABLES contents,   \* what each position holds
          severed,    \* formulas one of whose referenced cells was cleared
          reply       \* the result of the last call

vars == <<contents, severed, reply>>

RefGraph(c) == [q \in Pos |-> Refs(c[q])]

\* D is a set of cells that name only cells of D, and v gives each of them the
\* value its contents determine.
Solves(v, D) ==
  /\ Closed(RefGraph(contents), D)
  /\ v \in [D -> Value]
  /\ \A q \in D : v[q] = CellValue(contents[q], v)

Init ==
  /\ contents = [q \in Pos |-> Absent]
  /\ severed = {}
  /\ reply = Ok

SetText(p, t) ==
  /\ contents' = [contents EXCEPT ![p] = TextCell(t)]
  /\ severed' = severed \ {p}
  /\ reply' = Ok

\* A formula that would close a cycle is refused and changes nothing.  One that
\* is accepted brings the cells it names into being.  Typing a formula again in
\* the form the cell prints it (asPrinted) is not a new formula.
SetFormula(p, f, asPrinted) ==
  \/ /\ Acyclic([RefGraph(contents) EXCEPT ![p] = Refs(f)])
     /\ contents' = [q \in Pos |->
                       IF q = p THEN f
                       ELSE IF q \in Refs(f) /\ contents[q] = Absent THEN Blank
                       ELSE contents[q]]
     /\ severed' = IF contents[p] = f /\ asPrinted THEN severed ELSE severed \ {p}
     /\ reply' = Ok
  \/ /\ ~ Acyclic([RefGraph(contents) EXCEPT ![p] = Refs(f)])
     /\ reply' = CircularDependency
     /\ UNCHANGED <<contents, severed>>

ClearCell(p) ==
  /\ contents' = [contents EXCEPT ![p] = Absent]
  /\ severed' = IF contents[p] = Absent THEN severed
                ELSE (severed \cup {q \in Pos : p \in Refs(contents[q])}) \ {p}
  /\ reply' = Ok

\* The cells a read of p takes its value from.
Sources(p) == Reach(RefGraph(contents), p)

GetValue(p) ==
  /\ contents[p] # Absent
  /\ \/ /\ Sources(p) \cap severed = {}
        /\ \E D \in SUBSET Pos : \E v \in [D -> Value] :
             p \in D /\ Solves(v, D) /\ reply' = v[p]
     \/ /\ Sources(p) \cap severed # {}
        /\ reply' = Undefined
  /\ UNCHANGED <<contents, severed>>

\* A formula of the user's own, evaluated against the sheet (IFormula::Evaluate).
Evaluate(f) ==
  /\ \/ /\ \A r \in Refs(f) : Sources(r) \cap severed = {}
        /\ \E D \in SUBSET Pos : \E v \in [D -> Value] :
             Refs(f) \subseteq D /\ Solves(v, D) /\ reply' = FormulaValue(f, v)
     \/ /\ \E r \in Refs(f) : Sources(r) \cap severed # {}
        /\ reply' = Undefined
  /\ UNCHANGED <<contents, severed>>

\* Nothing is promised after undefined behaviour.
Next ==
  /\ reply # Undefined
  /\ \/ \E p \in Pos : \/ \E t \in Texts : SetText(p, t)
                       \/ \E f \in Formulas : \E asPrinted \in BOOLEAN :
                            SetFormula(p, f, asPrinted)
                       \/ ClearCell(p)
                       \/ GetValue(p)
     \/ \E f \in Formulas : Evaluate(f)

Spec == Init /\ [][Next]_vars
=============================================================================
