----------------------------- MODULE Structure -----------------------------
(* Insertion and deletion of rows and columns (imp_sheet.cpp:46-74, 145-433)*)
(* as they meet everything else a sheet keeps: where cells are stored       *)
(* (CellStore), what happens to each formula (FormulaMoves), the two graphs,*)
(* the cached values, and the pointers from formulas to cells.  Each of     *)
(* these is updated by code of its own, and they agree only if all of them  *)
(* move the same cells by the same amount.                                  *)
(*                                                                          *)
(* The slots of the storage hold the addresses of cells, so that a cell     *)
(* that moves keeps its identity, as it does under unique_ptr, and a        *)
(* pointer to one that was freed can be told.  A formula is the sum of its  *)
(* references; single cells are set, cleared and read as in Recalc.         *)
(*                                                                          *)
(* A key with an empty set is read like a missing one everywhere but in     *)
(* CheckFormulas, and only reference_graph is looked at there: bare has its *)
(* empty keys, and those of dependency_graph are left out.                  *)

EXTENDS FormulaMoves, EdgeSets

CONSTANTS kMaxRows, kMaxCols,
          Addresses,   \* where cells can be
          Texts,       \* the numbers that are typed; 0 stands for no text too
          Written,     \* bound on the positions calls write to and formulas name
          MaxLeaves,   \* bound on the references in one formula
          MaxCalls,    \* bound on the calls that change the sheet
          Avoided      \* the defects the calls stay clear of

Defects == {"forgotten reference", "misplaced slots", "unmoved graph", "row index", "left edge",
            "short row"}

ASSUME StructureAssumption ==
  /\ {kMaxRows, kMaxCols} \subseteq Nat \ {0} /\ {MaxLeaves, MaxCalls} \subseteq Nat
  /\ Written \subseteq [row : 0 .. kMaxRows - 1, col : 0 .. kMaxCols - 1]
  /\ Texts \subseteq Nat /\ IsFiniteSet(Addresses) /\ Avoided \subseteq Defects
  /\ {"null", "dangling"} \cap Addresses = {}

VARIABLES cells, LTC, RBC,        \* the storage
          heap,                   \* the cell at each address
          memo,                   \* its state and cached_value in one
          reference, dependency,  \* the graphs, as sets of edges
          bare,                   \* the keys of reference_graph with an empty set
          call, reply, shown,     \* the last call, what it did and what it gave
          calls                   \* how many changed the sheet

vars == <<cells, LTC, RBC, heap, memo, reference, dependency, bare, call, reply, shown, calls>>

Store == INSTANCE CellStore WITH Kind <- Addresses, MaxCells <- Cardinality(Addresses)

Null == Store!Null
Position == Store!Position
Cell(p) == Store!Cell(p)
Trees == SeqOf(Written, MaxLeaves) \ {<<>>}

\* Values are numbers; the others are negative.
RefError == -1
Unknown == -2
Nothing == -3
Invalid == -4      \* CellState::Invalid
Dangling == "dangling"

Contents(kind, text, formula, ptrs) == [kind |-> kind, text |-> text, formula |-> formula, ptrs |-> ptrs]
Free == Contents("free", 0, ParsedFormula(<<>>), <<>>)
TextCell(t) == Contents("text", t, ParsedFormula(<<>>), <<>>)

\* PopulateFormulaPtrs: every leaf gets the address of the cell it names.
FormulaCell(tree) ==
  Contents("formula", 0, ParsedFormula(tree), [i \in DOMAIN tree |-> Cell(tree[i])])

IsFormula(a) == heap[a].kind = "formula"
Holding(slots) == (UNION {Range(slots[r]) : r \in DOMAIN slots}) \ {Null}
Stored == Holding(cells)

Init ==
  /\ Store!Init
  /\ heap = [a \in Addresses |-> Free]
  /\ memo = [a \in Addresses |-> Invalid]
  /\ reference = {} /\ dependency = {} /\ bare = {}
  /\ call = <<>> /\ shown = Nothing /\ calls = 0
-----------------------------------------------------------------------------
(* What several calls do.                                                   *)

\* InvalidateDependencyGraph, from several cells one after the other: it goes
\* on from a cell to those of its dependents that are valid.
Visited(S) ==
  ReachedFrom({e \in dependency : Cell(e[2]) # Null /\ memo[Cell(e[2])] # Invalid},
              {p \in S : Cell(p) # Null})

\* GetImpCell(dep_pos)->IsValid() of a dependent that is not there.
MeetsNull(S) == \E d \in From(dependency, Visited(S)) : Cell(d) = Null

\* (Faulty: nothing is invalidated.)
MemoKept(S) == memo

MemoAfterInvalidation(S) ==
  [a \in Addresses |-> IF \E p \in Visited(S) : Cell(p) = a THEN Invalid ELSE memo[a]]

\* What is left when the slots have changed: a cell no slot owns is freed, and
\* pointers to it dangle.
Keep(h, m) ==
  LET owned == Holding(cells')
  IN  /\ heap' = [a \in Addresses |->
                    IF a \notin owned THEN Free
                    ELSE [h[a] EXCEPT !.ptrs = [i \in DOMAIN @ |->
                                                  IF @[i] \in owned THEN @[i] ELSE Dangling]]]
      /\ memo' = [a \in Addresses |-> IF a \in owned THEN m[a] ELSE Invalid]

Stays(how) ==
  reply' = how /\ shown' = Nothing /\ UNCHANGED <<cells, LTC, RBC, heap, memo, reference, dependency>>

Fails(how) == Stays(how) /\ UNCHANGED bare
-----------------------------------------------------------------------------
(* Single cells.                                                            *)

\* An edge from p is put in, or p's key is removed.
KeySettled(p) == bare' = bare \ {p}

\* CreateCell, over a cell that is there (ResetCell) or at a new address.
\* The edges of p are replaced; where there was no cell, none are removed.
CreateCell(p, c) ==
  /\ IF Cell(p) # Null
     THEN /\ heap' = [heap EXCEPT ![Cell(p)] = c]
          /\ memo' = MemoAfterInvalidation({p})
          /\ UNCHANGED <<cells, LTC, RBC>>
     ELSE \E a \in {CHOOSE b \in Addresses : heap[b] = Free} :
            /\ Store!CreateEmptyCell(p, a)
            /\ heap' = [heap EXCEPT ![a] = c]
            /\ UNCHANGED memo
  /\ reference' = {e \in reference : e[1] # p \/ Cell(p) = Null}
                  \cup {<<p, q>> : q \in ToSet(c.formula.ref_cells)}
  /\ dependency' = {e \in dependency : e[2] # p \/ Cell(p) = Null}
                   \cup {<<q, p>> : q \in ToSet(c.formula.ref_cells)}
  /\ IF Cell(p) = Null /\ c.formula.ref_cells = <<>> THEN UNCHANGED bare ELSE KeySettled(p)
  /\ reply' = "Ok" /\ shown' = Nothing

\* Whether CreateCell returns early: the cell holds c, and the text typed is the
\* one GetText prints for it (asPrinted).
SameText(a, c, asPrinted) ==
  /\ heap[a].kind = c.kind /\ heap[a].text = c.text /\ heap[a].formula.tree = c.formula.tree
  /\ asPrinted

SetCell(p, c, asPrinted) ==
  IF Cell(p) # Null /\ SameText(Cell(p), c, asPrinted)
  THEN /\ reference' = reference \cup {<<p, q>> : q \in ToSet(c.formula.ref_cells)}
       /\ IF c.formula.ref_cells = <<>> THEN UNCHANGED bare ELSE KeySettled(p)
       /\ reply' = "Ok" /\ shown' = Nothing
       /\ UNCHANGED <<cells, LTC, RBC, heap, memo, dependency>>
  ELSE IF Cell(p) # Null /\ MeetsNull({p}) THEN Fails("Undefined")
  ELSE CreateCell(p, c)

SetText(p, t) == SetCell(p, TextCell(t), TRUE)

\* A cell the formula names is there already: one that is not would first be
\* set to empty text, as by a call of its own.  A refused formula leaves no key
\* behind that was empty before.
SetFormula(p, tree, asPrinted) ==
  /\ \A q \in ToSet(tree) : Cell(q) # Null
  /\ IF CycleFrom({e \in reference : e[1] # p} \cup {<<p, q>> : q \in ToSet(tree)}, p)
     THEN Stays("CircularDependency") /\ KeySettled(p)
     ELSE SetCell(p, FormulaCell(tree), asPrinted)

ClearCell(p) ==
  /\ Cell(p) # Null
  /\ IF MeetsNull({p}) THEN Fails("Undefined")
     ELSE /\ Store!DeleteCell(p)
          /\ Keep(heap, MemoAfterInvalidation({p}))
          /\ reference' = {e \in reference : e[1] # p}
          /\ dependency' = {e \in dependency : e[2] # p}
          /\ KeySettled(p)
          /\ shown' = Nothing
-----------------------------------------------------------------------------
(* Reads.                                                                   *)

SumOf(values) ==
  LET bad == {i \in DOMAIN values : values[i] < 0}
  IN  IF \E i \in bad : values[i] = Unknown THEN Unknown
      ELSE IF bad # {} THEN values[Min(bad)]
      ELSE FoldSeq(+, 0, values)

\* ImpCell::GetValue of every cell; ImpFormula::Evaluate asks for self_hr first
\* and otherwise follows the pointers, n references deep.
Evaluated ==
  LET value[n \in 0 .. Cardinality(Addresses)] ==
        [a \in Addresses |->
           IF memo[a] # Invalid THEN memo[a]
           ELSE IF ~ IsFormula(a) THEN heap[a].text
           ELSE IF heap[a].formula.self_hr = "ReferencesChanged" THEN RefError
           ELSE IF n = 0 \/ Dangling \in ToSet(heap[a].ptrs) THEN Unknown
           ELSE SumOf([i \in DOMAIN heap[a].ptrs |-> value[n - 1][heap[a].ptrs[i]]])]
  IN  value[Cardinality(Addresses)]

Evaluates(a) ==
  ReachedFrom(UNION {{<<b, heap[b].ptrs[i]>> : i \in DOMAIN heap[b].ptrs} :
                     b \in {d \in Stored : memo[d] = Invalid
                                           /\ heap[d].formula.self_hr # "ReferencesChanged"}}, {a})

GetValue(p) ==
  /\ Cell(p) # Null
  /\ IF Evaluated[Cell(p)] = Unknown THEN Fails("Undefined")
     ELSE /\ memo' = [a \in Addresses |-> IF a \in Evaluates(Cell(p)) THEN Evaluated[a] ELSE memo[a]]
          /\ reply' = "Ok" /\ shown' = Evaluated[Cell(p)]
          /\ UNCHANGED <<cells, LTC, RBC, heap, reference, dependency, bare>>
-----------------------------------------------------------------------------
(* Insertion.                                                               *)

Avoids(defect, met) == defect \in Avoided => ~ met

Formulas == {a \in Stored : IsFormula(a)}

\* An insertion sets self_hr of a formula that is #REF! back.
SomeLost == \E a \in Formulas : HasLost(heap[a].formula)

\* CheckFormulas: the last position, by rows first, that reference_graph knows.
Known == {e[1] : e \in reference} \cup {e[2] : e \in reference} \cup bare
CheckFormulas(row_count, col_count) ==
  \A p \in Known : (\A q \in Known : ~ Less(p, q)) =>
    p.row + row_count < kMaxRows /\ p.col + col_count < kMaxCols

Handled(Handle(_)) ==
  [a \in Addresses |-> IF a \in Formulas THEN [heap[a] EXCEPT !.formula = Handle(@).formula] ELSE heap[a]]

\* (Faulty: the keys stay where they are.)
MoveTargets(edges, axis, before, count) ==
  {<<e[1], InsertedAt(e[2], axis, before, count)>> : e \in edges}

\* UpdateListByRow and UpdateKeysByRow, UpdateListByCol and UpdateKeysByCol.
MoveEdges(edges, axis, before, count) ==
  {<<InsertedAt(e[1], axis, before, count), InsertedAt(e[2], axis, before, count)>> : e \in edges}

UpdateGraphsByInsertion(axis, before, count) ==
  /\ reference' = MoveEdges(reference, axis, before, count)
  /\ dependency' = MoveEdges(dependency, axis, before, count)
  /\ bare' = {InsertedAt(k, axis, before, count) : k \in bare}

\* HandleInsertedRows reads the last element of ref_cells, if there is one.
InsertRows(before, count) ==
  /\ Avoids("forgotten reference", SomeLost)
  /\ IF ~ Store!CheckCellsSize(count, 0) \/ ~ CheckFormulas(count, 0) THEN Fails("TableTooBig")
     ELSE IF \E a \in Formulas : heap[a].formula.ref_cells = <<>> THEN Fails("Undefined")
     ELSE /\ Store!CreateRows(before, count)
          /\ Keep(Handled(LAMBDA f : HandleInsertedRows(f, before, count)), memo)
          /\ UpdateGraphsByInsertion("row", before, count)
          /\ shown' = Nothing

InsertCols(before, count) ==
  /\ Avoids("forgotten reference", SomeLost)
  /\ Avoids("misplaced slots", LTC.col > 0 /\ before \in LTC.col .. RBC.col)
  /\ IF ~ Store!CheckCellsSize(0, count) \/ ~ CheckFormulas(0, count) THEN Fails("TableTooBig")
     ELSE /\ Store!CreateCols(before, count)
          /\ Keep(Handled(LAMBDA f : HandleInsertedCols(f, before, count)), memo)
          /\ UpdateGraphsByInsertion("col", before, count)
          /\ shown' = Nothing
-----------------------------------------------------------------------------
(* Deletion.                                                                *)

\* The edges DeleteRowsFromGraph and DeleteColsFromGraph leave.
EdgesLeft(edges, axis, first, count) ==
  {e \in edges : \A end \in {e[1], e[2]} : ~ Deletes(end, axis, first, count)}

\* (Faulty: as in DeleteColsFromGraph, the graph that was moved is dropped.)
DeleteRowsUnmoved(edges, first, count) == EdgesLeft(edges, "row", first, count)

\* DeleteRowsFromGraph moves the edges that are left, into a graph without
\* empty keys.
DeleteRowsFromGraph(edges, first, count) ==
  {<<DeletedAt(e[1], "row", first, count), DeletedAt(e[2], "row", first, count)>> :
     e \in EdgesLeft(edges, "row", first, count)}

\* DeleteColsFromGraph moves them in a graph of its own that it drops.
DeleteColsFromGraph(edges, first, count) == EdgesLeft(edges, "col", first, count)

\* What it leaves are the keys not deleted, some without their last reference.
BareAfterCols(first, count) ==
  {k \in bare \cup {e[1] : e \in reference} :
     /\ ~ Deletes(k, "col", first, count)
     /\ \A e \in DeleteColsFromGraph(reference, first, count) : e[1] # k}

\* With the slots erased, the formulas handled and the cells of S invalidated.
AfterErasure(handled, S, ref, dep, keys) ==
  /\ shown' = Nothing
  /\ IF reply' = "Undefined" THEN UNCHANGED <<heap, memo, reference, dependency, bare>>
     ELSE /\ Keep(handled, MemoAfterInvalidation(S))
          /\ reference' = ref /\ dependency' = dep /\ bare' = keys

\* The rows whose cells are invalidated, by position; how many cells each has
\* is taken from cells[i], which is another row if there is any above LTC.
DeletedRows(first, count) == Store!Larger(first, LTC.row) .. Store!Lesser(first + count - 1, RBC.row)
CellsOfRows(first, count) ==
  UNION {{[row |-> i, col |-> LTC.col + j] : j \in 0 .. Len(cells[i + 1]) - 1} :
         i \in DeletedRows(first, count)}

DeleteRows(first, count) ==
  /\ Avoids("row index", LTC.row > 0 /\ first + count > LTC.row)
  /\ IF \E i \in DeletedRows(first, count) : i + 1 \notin DOMAIN cells
     THEN Fails("Undefined")
     ELSE IF MeetsNull(CellsOfRows(first, count)) THEN Fails("Undefined")
     ELSE /\ Store!EraseRows(first, count)
          /\ AfterErasure(Handled(LAMBDA f : HandleDeletedRows(f, first, count)),
                          CellsOfRows(first, count),
                          DeleteRowsFromGraph(reference, first, count),
                          DeleteRowsFromGraph(dependency, first, count),
                          {})

CellsOfCols(first, count) ==
  {[row |-> i, col |-> j] : i \in LTC.row .. RBC.row,
                            j \in Store!Larger(LTC.col, first) .. Store!Lesser(RBC.col, first + count - 1)}

DeleteCols(first, count) ==
  /\ Avoids("unmoved graph",
            \E e \in EdgesLeft(reference \cup dependency, "col", first, count) :
              e[1].col >= first \/ e[2].col >= first)
  /\ Avoids("left edge", first < LTC.col /\ first + count > LTC.col)
  /\ Avoids("short row",
            first + count > LTC.col /\ first <= RBC.col
              /\ \E r \in DOMAIN cells : LTC.col + Len(cells[r]) <= Store!Lesser(RBC.col, first + count - 1))
  /\ IF MeetsNull(CellsOfCols(first, count)) THEN Fails("Undefined")
     ELSE /\ Store!EraseCols(first, count)
          /\ AfterErasure(Handled(LAMBDA f : HandleDeletedCols(f, first, count)),
                          CellsOfCols(first, count),
                          DeleteColsFromGraph(reference, first, count),
                          DeleteColsFromGraph(dependency, first, count),
                          BareAfterCols(first, count))
-----------------------------------------------------------------------------
Change ==
  \/ \E p \in Written :
       /\ Cell(p) # Null \/ Cardinality(Stored) < Cardinality(Addresses)
       /\ \/ \E t \in Texts : SetText(p, t) /\ call' = <<"SetText", p, t>>
          \/ \E tree \in Trees : \E asPrinted \in BOOLEAN :
               SetFormula(p, tree, asPrinted) /\ call' = <<"SetFormula", p, tree, asPrinted>>
  \/ \E p \in Position : ClearCell(p) /\ call' = <<"ClearCell", p>>
  \/ \E from \in 0 .. kMaxRows - 1 : \E count \in 1 .. kMaxRows - from :
       \/ InsertRows(from, count) /\ call' = <<"Insert", "row", from, count>>
       \/ DeleteRows(from, count) /\ call' = <<"Delete", "row", from, count>>
  \/ \E from \in 0 .. kMaxCols - 1 : \E count \in 1 .. kMaxCols - from :
       \/ InsertCols(from, count) /\ call' = <<"Insert", "col", from, count>>
       \/ DeleteCols(from, count) /\ call' = <<"Delete", "col", from, count>>

Read == \E p \in Position : GetValue(p) /\ call' = <<"GetValue", p>>

\* Nothing is described after undefined behaviour.
Next ==
  /\ reply # "Undefined"
  /\ (calls < MaxCalls /\ Change /\ calls' = calls + 1) \/ (Read /\ UNCHANGED calls)

Spec == Init /\ [][Next]_vars
-----------------------------------------------------------------------------
(* Properties.                                                              *)

FormulaAt(p) == Cell(p) # Null /\ IsFormula(Cell(p))
Leaves(p) == ToSet(heap[Cell(p)].formula.tree) \ {Gone}

\* After any insertions and deletions both graphs say what the formulas say, at
\* the positions they and the cells they name have now: this is what
\* invalidation, the search for cycles and CheckFormulas go by.
GraphsFollow ==
  /\ reference = UNION {{<<p, q>> : q \in Leaves(p)} : p \in {r \in Position : FormulaAt(r)}}
  /\ dependency = {<<e[2], e[1]>> : e \in reference}

\* A formula's pointers and its references go the same way: what is evaluated
\* through the pointer is the cell the text names, unless that was cleared, and
\* a reference that is gone has no pointer left.
PointersFollow ==
  \A p \in Position : FormulaAt(p) =>
    LET c == heap[Cell(p)]
    IN  \A i \in DOMAIN c.ptrs :
          /\ c.formula.tree[i] = Gone => c.ptrs[i] = Dangling
          /\ c.ptrs[i] # Dangling => c.formula.tree[i] # Gone /\ Cell(c.formula.tree[i]) = c.ptrs[i]

\* The two checks of an insertion look at different structures, CheckCellsSize at
\* the far corner of the storage and CheckFormulas at reference_graph; but what
\* the first lets through the second does not refuse, unless DeleteColsFromGraph
\* has left a key without references beyond that corner.
RefusalsAgree ==
  \A rows \in 0 .. kMaxRows, cols \in 0 .. kMaxCols :
    Store!CheckCellsSize(rows, cols) =>
      CheckFormulas(rows, cols) \/ \E k \in bare : k.row > RBC.row \/ k.col > RBC.col

\* The sheet keeps its promise: storage, graphs, caches and pointers, each moved
\* by its own code, never show in a reply, and whatever would leave the table is
\* refused before anything has changed.
ContentsAt(p) ==
  IF Cell(p) = Null THEN [kind |-> "absent", text |-> 0, tree |-> <<>>]
  ELSE LET c == heap[Cell(p)] IN [kind |-> c.kind, text |-> c.text, tree |-> c.formula.tree]

Promise == INSTANCE MovingSheet WITH
  contents <- [p \in Position |-> ContentsAt(p)],
  severed <- {p \in Position : /\ FormulaAt(p) /\ ~ HasLost(heap[Cell(p)].formula)
                               /\ Dangling \in ToSet(heap[Cell(p)].ptrs)}
KeepsPromise == Promise!Spec
=============================================================================
