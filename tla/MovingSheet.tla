---------------------------- MODULE MovingSheet ----------------------------
(* What a sheet promises about rows and columns that come and go (ISheet,   *)
(* common.h; IFormula, formula.h): a map from positions to contents.        *)
(* Whatever is inserted and deleted, cells keep their contents and formulas *)
(* their references, and a read gives the value the contents determine;     *)
(* what would leave the table is refused.  There is no storage, no cache,   *)
(* no graph and no pointer here; Structure has them.                        *)
(*                                                                          *)
(* As in SheetSpec, severed is the set of formulas one of whose cells was   *)
(* cleared: nothing is promised of a read that needs one of them.  (Those   *)
(* that are #REF! anyway are not counted.)                                  *)

EXTENDS FormulaMoves, EdgeSets

CONSTANTS kMaxRows, kMaxCols,
          Texts,      \* the numbers that are typed; 0 stands for no text too
          MaxLeaves   \* bound on the references in one formula

VARIABLES contents, severed,
          call,    \* the last call
          reply,   \* what it did
          shown    \* what it gave, if it was a read

vars == <<contents, severed, call, reply, shown>>

Position == [row : 0 .. kMaxRows - 1, col : 0 .. kMaxCols - 1]
Axes == {"row", "col"}
Side(axis) == IF axis = "row" THEN kMaxRows ELSE kMaxCols
Trees == SeqOf(Position, MaxLeaves) \ {<<>>}

\* Values are numbers; the others are negative.
RefError == -1
Unknown == -2
Nothing == -3

Absent == [kind |-> "absent", text |-> 0, tree |-> <<>>]
TextOf(t) == [kind |-> "text", text |-> t, tree |-> <<>>]
FormulaOf(tree) == [kind |-> "formula", text |-> 0, tree |-> tree]

Refs(c) == ToSet(c.tree) \ {Gone}
RefEdges(cs) == UNION {{<<p, q>> : q \in Refs(cs[p])} : p \in Position}

\* A formula is the sum of its references: the leftmost error wins.
SumOf(values) ==
  LET bad == {i \in DOMAIN values : values[i] < 0}
  IN  IF \E i \in bad : values[i] = Unknown THEN Unknown
      ELSE IF bad # {} THEN values[Min(bad)]
      ELSE FoldSeq(+, 0, values)

\* The value of every cell: n rounds settle the formulas n references deep.
Settled ==
  LET value[n \in 0 .. Cardinality({p \in Position : contents[p] # Absent})] ==
        [p \in Position |->
           LET c == contents[p]
           IN  IF c.kind # "formula" THEN c.text
               ELSE IF HasLost(c) THEN RefError
               ELSE IF p \in severed \/ n = 0 THEN Unknown
               ELSE SumOf([i \in DOMAIN c.tree |-> value[n - 1][c.tree[i]]])]
  IN  value[Cardinality({p \in Position : contents[p] # Absent})]

Init ==
  /\ contents = [p \in Position |-> Absent]
  /\ severed = {} /\ call = <<>> /\ reply = "Ok" /\ shown = Nothing

\* Typing a formula again in the form the cell prints it (asPrinted) is not a
\* new formula.
Set(p, c, asPrinted) ==
  /\ reply' = "Ok" /\ shown' = Nothing
  /\ contents'[p] = c /\ \A q \in Position \ {p} : contents'[q] = contents[q]
  /\ severed' = IF contents[p] = c /\ asPrinted THEN severed ELSE severed \ {p}

ClosesCycle(p, tree) == CycleFrom(RefEdges([contents EXCEPT ![p] = FormulaOf(tree)]), p)

SetFormula(p, tree, asPrinted) ==
  \/ Set(p, FormulaOf(tree), asPrinted) /\ ~ ClosesCycle(p, tree)
  \/ /\ reply' = "CircularDependency" /\ shown' = Nothing
     /\ UNCHANGED <<contents, severed>>
     /\ ClosesCycle(p, tree)

ClearCell(p) ==
  /\ contents[p] # Absent
  /\ reply' = "Ok" /\ shown' = Nothing
  /\ contents'[p] = Absent /\ \A q \in Position \ {p} : contents'[q] = contents[q]
  /\ severed' = (severed \cup {q \in Position : p \in Refs(contents[q]) /\ ~ HasLost(contents[q])})
                \ {p}

\* Everything moves, cells and references alike: Source(q) is where what comes
\* to q was, Gone if nothing does, and To(p) where p goes.
Move(Source(_), To(_)) ==
  /\ reply' = "Ok" /\ shown' = Nothing
  /\ \A q \in Position : contents'[q] =
       IF Source(q) \in Position
       THEN [contents[Source(q)] EXCEPT !.tree = [i \in DOMAIN @ |-> IF @[i] = Gone THEN Gone ELSE To(@[i])]]
       ELSE Absent
  /\ severed' = {q \in Position : Source(q) \in severed /\ ~ HasLost(contents'[q])}

Shifted(p, axis, by) == [p EXCEPT ![axis] = @ + by]

\* Whatever is there, and whatever a formula names, has to stay in the table.
Insert(axis, before, count) ==
  LET To(p) == InsertedAt(p, axis, before, count)
      Source(q) == IF q[axis] < before THEN q
                   ELSE IF q[axis] < before + count THEN Gone ELSE Shifted(q, axis, -count)
  IN  /\ Move(Source, To)
      /\ \A p \in Position : contents[p] # Absent =>
           To(p) \in Position /\ \A r \in Refs(contents[p]) : To(r) \in Position

\* An insertion may be refused.
Refuse == reply' = "TableTooBig" /\ shown' = Nothing /\ UNCHANGED <<contents, severed>>

Delete(axis, first, count) ==
  Move(LAMBDA q : IF q[axis] < first THEN q ELSE Shifted(q, axis, count),
       LAMBDA p : DeletedAt(p, axis, first, count))

GetValue(p) ==
  /\ contents[p] # Absent
  /\ \/ reply' = "Undefined" /\ shown' = Nothing /\ Settled[p] = Unknown
     \/ reply' = "Ok" /\ shown' # Nothing /\ shown' = Settled[p]
  /\ UNCHANGED <<contents, severed>>

\* Nothing is promised after undefined behaviour.
Next ==
  /\ reply # "Undefined"
  /\ \/ \E p \in Position :
          \/ \E t \in Texts : call' = <<"SetText", p, t>> /\ Set(p, TextOf(t), TRUE)
          \/ \E tree \in Trees : \E asPrinted \in BOOLEAN :
               call' = <<"SetFormula", p, tree, asPrinted>> /\ SetFormula(p, tree, asPrinted)
          \/ call' = <<"ClearCell", p>> /\ ClearCell(p)
          \/ call' = <<"GetValue", p>> /\ GetValue(p)
     \/ \E axis \in Axes : \E from \in 0 .. Side(axis) - 1 : \E count \in 1 .. Side(axis) - from :
          \/ call' = <<"Insert", axis, from, count>> /\ (Insert(axis, from, count) \/ Refuse)
          \/ call' = <<"Delete", axis, from, count>> /\ Delete(axis, from, count)

Spec == Init /\ [][Next]_vars
=============================================================================
