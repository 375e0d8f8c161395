# Verification of the spreadsheet engine

TLA+ models of the spreadsheet engine in `src/src/` (C++, about 1800 lines without
tests, parser and vendored code), TLC runs that model-check them, and TLAPS proofs
about the recalculation engine, its two loops, the references of formulas, the
storage of cells and all of them together under insertions and deletions. The source
is the reference: every definition is
translated from the code, and `PROJECT.json` names the lines each one stands for.

The library is single-threaded and keeps everything in memory: there are no threads,
messages, timeouts or restarts. What makes it hard are **long sequences of calls over
redundant state** - the same references are kept in the trees of the formulas, in
`ref_cells`, in two graphs and in raw pointers, values are cached, and positions are
translated through two corners - and **loops that read the structures they change**.

- [Inventory](#inventory)
- [Modules](#modules)
- [Runs, bounds and fairness](#runs-bounds-and-fairness)
- [Proofs](#proofs)
- [Findings](#findings)
- [What is not modelled](#what-is-not-modelled)
- [Plan](#plan)

## Inventory

| component | state | operations | what is hard about it | what makes it correct |
|---|---|---|---|---|
| **sheet interface** (`common.h`, `formula.h`) | - | `SetCell`, `GetCell`, `ClearCell`, `Insert/DeleteRows/Cols`, `GetPrintableSize`, `Print*`, `IFormula::Evaluate` | it promises that none of what is below shows | reads give the value the contents determine; a refused call changes nothing |
| **recalculation engine** (`imp_sheet.cpp`, `imp_cell.cpp`) | contents, `CellState` and `cached_value` of each cell, `reference_graph`, `dependency_graph`, `cell_ptr` in the trees | `SetCell`, `ClearCell`, `GetValue`, `InvalidateDependencyGraph`, `PopulateFormulaPtrs` | invalidation stops at invalid cells; the circularity check edits the graph; reads fill caches; cells are freed under pointers | no stale value, no cycle, both graphs are what the formulas say, no freed pointer followed |
| **circularity search** (`GraphIsCircular`) | an explicit stack, three colours | one loop | a cell is on the stack once for each edge into it | it ends, and answers exactly whether a cycle can be reached |
| **values and evaluation** (`ast.cpp`, `binary_ops.h`, `imp_cell.cpp`) | none | `evaluate` of each node, text to value | errors, strings and overflow propagate by different rules | the first error wins, a formula never yields a string |
| **formula references** (`imp_formula.cpp`) | leaves of the tree, `ref_cells` (sorted), `self_hr` | `HandleInserted/DeletedRows/Cols`, `Evaluate` | the tree and the list are updated by separate loops, an early return skips both, `self_hr` is answer and memory at once | every leaf follows its cell, both agree, a lost cell gives `#REF!` |
| **cell storage** (`imp_sheet.cpp`) | ragged rows of slots, corners `LTC` and `RBC` | `CreateEmptyCell`, `DeleteCell`, `Create/EraseRows/Cols`, `GetImpCell` | growth in four directions, rows shorter than others or empty, corners that never move back | a call moves or changes the cells it names and no other |
| **insertion and deletion** (`imp_sheet.cpp`) | all of the above | `CheckCellsSize`, `CheckFormulas`, then formulas, then graphs, then storage | four structures have to move together | a sheet after an insertion is the sheet before, moved |
| **printing of the sheet** | none | `GetPrintableSize`, `PrintValues`, `PrintTexts` | null slots, offsets of ragged rows | the bounding rectangle of all text |
| **printing of expressions** (`ast.cpp`) | none | `print`, `print_as_left_son`, `print_as_right_son` | brackets that may be dropped | the printed text parses to the same tree |
| **position names** (`imp_common.cpp`) | none | `Position::ToString`, `FromString` | bijective base 26, `int` arithmetic on unbounded input | round trip, one name for a position |
| **formula parser** (`Formula.g4`, `FormulaCustomListener.h`) | a stack during one parse | `ParseImpFormula` | operands leave the stack in the wrong order; brackets leave no node | the tree has the value the grammar gives the text |
| **ANTLR runtime**, **tests** | - | - | vendored; not part of the program | - |

How they interact, all by plain calls in one thread:

- `SetCell` parses, runs the circularity search on `reference_graph` with the new
  formula's edges put in, makes the cells the formula names (each by `SetCell`
  again), and then writes the cell: invalidate along `dependency_graph`, remove the
  old edges, free or replace the contents, put in the new edges.
- `GetValue` of a formula evaluates its tree; `AstCell` follows `cell_ptr` into
  another cell's `GetValue`, and each one fills its cache on the way back.
- `ClearCell` invalidates, removes edges and frees the cell; trees keep `cell_ptr`.
- Insertion and deletion walk all formulas (`Handle...`), rename both graphs, then
  move the storage; nothing is rolled back if one of the steps fails.

## Modules

| module | models | extends |
|---|---|---|
| `CellGraph` | graphs over positions; reachability by closed sets, cycles by *traps* (nonempty sets each member of which points back into the set) | - |
| `CellValues` | contents, texts and values; `AddOp`, `DivOp`, how errors and strings propagate | `CellGraph` |
| `SheetSpec` | **abstract**: contents only; a read returns the value they determine | `CellValues` |
| `Recalc` | the recalculation engine, one action for each public call | `CellValues`; `INSTANCE SheetSpec` |
| `MCRecalc` | instances of `Recalc` for TLC | `Recalc` |
| `CycleSearch` | the loop of `GraphIsCircular`, one action for each kind of turn | `CellGraph` |
| `InvalidationWalk` | the loop of `InvalidateDependencyGraph`, one turn an action | `CellGraph` |
| `FormulaMoves` | what the four handlers do to a formula (operators, no state) | - |
| `FormulaRefs` | a formula of its own under insertions and deletions, with a history of what rows and columns it was parsed against | `FormulaMoves` |
| `CellStore` | the ragged rows and their corners under every call that changes them; the printable size and the lines printed | - |
| `EdgeSets` | graphs as sets of edges, for modules in which positions move | - |
| `MovingSheet` | **abstract**: a map from positions to contents under every call that changes a sheet | `FormulaMoves`, `EdgeSets` |
| `Structure` | **composition**: insertion and deletion whole, over storage, formulas, graphs, caches and pointers, with single cells set, cleared and read in between | `FormulaMoves`, `EdgeSets`; `INSTANCE CellStore`, `INSTANCE MovingSheet` |
| `MCStructure` | instances of `Structure` for TLC | `Structure` |
| `ExprText` | the listener that builds trees, the printing of trees, the grammar, evaluation of all operations | - |
| `PositionNames` | `ToString` and `FromString` | - |
| `RecalcProofs`, `CycleSearchProofs`, `InvalidationWalkProofs`, `FormulaMovesProofs`, `FormulaRefsProofs`, `CellStoreProofs`, `StructureProofs` | theorems | the module each is named after |
| `SequenceFacts` | lemmas about least and greatest numbers, ranks, orders of finite sets, what concatenation, splicing, cutting and padding do to each element of a sequence, and rounds that settle | - |

### How state and actions correspond to the code

**Recalc.** `content[q]` is the text or formula of the cell at `q`, or `Absent`;
`memo[q]` is `state` and `cached_value` in one (`Invalid` for `CellState::Invalid`);
`reference` and `dependency` are the graphs, as total functions, because a missing key
and an empty set are read the same way by everything `Recalc` models (`CheckFormulas`,
which tells them apart, is in `Structure`); `dangling` is the set of formulas
whose tree holds a `cell_ptr` to a freed cell. `SetText`, `SetFormula`, `ClearCell`,
`GetValue` and `Evaluate` are the public calls, whole: `SetFormula` holds the check and
what it leaves in `reference_graph` (`ReferenceAfterCheck`), `PopulateFormulaPtrs`
(`Populated`) and `CreateCell` with `ResetCell`. `asPrinted` says whether the text
typed is the one the cell would print, on which `CreateCell`'s early return depends.
A read that follows a freed pointer is `Undefined`, and nothing is described after it.
Numbers are `0..MaxNum`, where a sum past `MaxNum` is what `std::isinf` detects;
formulas are a literal, a reference, a sum or a quotient of two references. Positions
have no coordinates here: where a cell lies is `CellStore`'s business.

**CycleSearch, InvalidationWalk.** `Recalc` takes each loop as one operator
(`Circular`, `Invalidated`). These two modules are the loops, with their stacks, and
`AnswerExact` and `WalkExact` say that the loops compute what `Recalc` takes them to.
The order in which a hash set yields its elements is a nondeterministic choice.

**FormulaMoves, FormulaRefs.** `tree` is the leaves from left to right, `ref_cells` and `self_hr`
are the members of that name. A deleted cell's leaf is the invalid position. `rows`,
`cols` and `named` are history: which rows and columns of the time of parsing are where
now, and which cells the leaves named then. `ref_cells.back()` of an empty list is
undefined: the action may crash or go either way.

**CellStore.** `cells`, `LTC` and `RBC` as in `ImpSheet`, except that sequences count
from 1; a slot is null or holds one of `Kind`: in the runs of this module a cell without
text or one with text, in `Structure` the address of a cell. `SetCell` is
`CreateCell` as far as the storage goes, the other actions are the functions of that
name. `vector::erase` outside of the vector is `Undefined`. `Line` is a line of `PrintTexts`,
as the fields between its tabs.

**Structure.** The slots of `CellStore` hold *addresses*, so that a cell that moves
stays the same cell, as it does under `unique_ptr`; `heap` is what is at each address,
`memo` its cache. A formula's `ptrs` are the `cell_ptr`s of its leaves; what no slot
owns any more is freed, and pointers to it become `Dangling` (`Keep`). `InsertRows` and
the other three follow the order of the code - checks, formulas, graphs (with the
invalidations of a deletion), storage - and take their parts from `FormulaMoves` and
from the actions of `CellStore`, instantiated on the same variables. `call` records the
request, so that a step has to be what *that* request promises. The bookkeeping of both
graphs has the code's form: edges are renamed by `MoveEdges`, dropped by `EdgesLeft`,
renamed in one deletion and, as in the code, not in the other. `bare` holds the keys of
`reference_graph` whose set is empty, which `DeleteColsFromGraph` leaves
(`BareAfterCols`), which move and go with the others, and which `CheckFormulas` counts;
what else reads the graphs does not see them, and those of `dependency_graph`, which
nothing counts, are left out. `asPrinted` is as in `Recalc`: a formula typed again is
passed over only in the form the cell prints; in any other it is written again, and its
pointers are repaired. `SetFormula` asks that
the cells named exist, since `PopulateFormulaPtrs` would make them by the same `SetText`
that is an action here (`Recalc` has the nested calls).

**MovingSheet.** No storage, graphs, caches or pointers: `contents` by position,
`severed` as in `SheetSpec`, ended by any formula but one typed again as it is printed.
An insertion moves everything, and only if all of it stays
in the table, or is refused and changes nothing; a deletion moves everything; a read
gives what the contents determine.

**ExprText.** `st` is the listener's stack, and `exitLeaf`, `exitUnaryOp` and
`exitBinaryOp` its handlers; every stack they can make is a state. `GetExpression`
prints a tree as a sequence of tokens, `Parse` reads one by the precedences of
`Formula.g4` and builds the tree with the same handlers. Numbers are integers modulo a
prime: division is exact there, so that the algebra by which brackets go is what is
checked and not the rounding.

**PositionNames.** Names are sequences of character codes, `AsInt` the low bits an `int`
keeps. `Type` lengthens a name by one character, `StepAside` walks `pos` along the
diagonal of the table, on which every row and every column occurs.

## Runs, bounds and fairness

| run | instance | checks |
|---|---|---|
| `recalc` | 3 cells, three texts (a number, a word, the empty text), formulas in every direction with a sum and a quotient; 12,145 states | `TypeOK` `GraphsAgree` `NoCycle` `PointersLive` `CacheCoherent` (together the inductive invariant); `CacheFresh`: nothing cached differs from evaluating the contents from nothing; `ReadsDetermined`: a read has one result; `InvalidationExact`: a call drops no cache, or the caches of exactly the cells that depend on some one cell, and replaces no cached value (it does not say of which; that nothing stale is left is `CacheFresh`); `KeepsPromise`: refinement of `SheetSpec` |
| `recalc_cleared` | as above | violated: `ReadsAreDefined` |
| `cycle_search` | all 65,536 graphs of 4 cells, every order of edges | `AnswerExact` `GrayIsPath` `BlackIsDone`; `Returns` |
| `invalidation_walk` | all acyclic graphs of 4 cells, every start, every set of valid caches | `WalkExact`, `OneTurnPerEdge` (no turn for every *path*); `Ends` |
| `formularefs` | formulas of up to 2 references parsed on 3 x 2 cells, insertions and deletions of 1 or 2 rows or columns, up to 4 rows and columns tracked | `LeavesFollow`: every leaf names the cell it named when parsed, or is gone with it; `RefsOfTree`; `NoFalseRef`; `EffectReported` |
| `cellstore` | a 3 x 3 table, up to 3 cells at once; 43,453 states | `CornersEnclose`, `SizeExact`, `PrintShowsView`, `CellsStayPut`, `InsertionMoves`, `DeletionMoves` |
| `cellstore_print` | as above | violated: `PrintIsSafe` |
| `structure` | a 3 x 3 table, 3 cells at once, formulas of one reference, four calls that change the sheet and any number of reads; 212,763 states | `GraphsFollow`: both graphs are what the formulas say where they are now; `PointersFollow`: pointers and references go the same way; `RefusalsAgree`: `CheckFormulas` refuses no insertion that `CheckCellsSize` lets through; `KeepsPromise`: refinement of `MovingSheet` |
| `structure_graph` | as above, with three calls and one defect let in | violated: `GraphsFollow` |
| `expr_text` | trees of up to 7 nodes over 3 cells and two literals, cells worth numbers modulo 5, a word or an error; 119,984 states | `SameValue`: the text, read again, is worth what the tree is; `PrintStable`; `NoSpareBrackets` |
| `expr_value` | as above | violated: `DescribesFormula` |
| `position_names` | the real table of 16384 rows and columns; names of up to 6 of the characters A Z x - 0 1 5 6, `int`s of 16 bits; 315,977 states | `RoundTrip`, `NamesExact` |

**Why these bounds.** Three cells give a chain of two references, two paths that meet
again (`a` names `b` and `c`, `b` names `c`), and every cycle up to length three; the
properties of `recalc` are proved for any number, and for all formulas. `MaxNum = 1` makes `1 + 1` the
overflow and every quotient by zero occur. Four cells are needed for the loops: two
different paths of length two to one cell. Two leaves are enough for `FormulaRefs`
since handlers treat leaves one by one, and only the order of two in `ref_cells` can go
wrong; four rows let an insertion of two fall before, between and after them. In
`CellStore` a table of side three has cells before, at and after every row and column,
ragged and empty rows and null slots on either side; `MaxCells` bounds the cells there
are at once, not the length of the histories. `MaxLength` and `MaxTurns` are caps of
history variables: insertions that would make the history longer than `MaxLength` are
not taken, and turns beyond `MaxTurns` are not counted (the bound `OneTurnPerEdge`
states is 3, below it).

Four calls are what the shortest histories of interest take in `Structure`: two or three
cells set, a formula between them, one insertion or deletion, and the reads before and
after it are not counted; each of the six defects below shows within them. `Written`
keeps calls to four positions, one at the corner of the table, one below it and two
inside, so that storage begins at the edge in some histories and inside in others;
insertions and deletions take cells to all others. Seven nodes are three binary
operators, the least in which a product stands below a sum below a product on either
side, and every value modulo 5 tells the bracketings apart. Typing a formula again
whose cell was cleared and set in between takes five calls, one more than the bound: that
its pointers are repaired then, unless it is typed as it is printed, is proved
(`SheetKeepsPromise`), and checked in `recalc`. In `PositionNames` the width
16 lets an overflow happen within six characters; 32 bits need ten digits.

**What the excepted cases are.** `InsertionMoves` and `DeletionMoves` speak of calls
that return, and except what the code gets wrong: columns inserted inside a stored area
that does not begin at column A, and deletions that reach across the upper or left edge
of the stored area. `SizeExact` excepts nothing: it says what
the size is also where it is wrong (see the findings). `RefusalsAgree` excepts what is refused on account
of a key without references that a deletion of columns has left beyond the far corner.
`EffectReported` excepts formulas that are `#REF!` already and
formulas without references. `SameValue` excepts the two cases of finding 3,
`NoSpareBrackets` brackets after a sign, which `main.cpp:191` expects, and `NamesExact`
numbers that overflow.

**Defects that are avoided.** `Structure` has a constant `Avoided`, a set of defects of
the code by name. A call that would meet one of them is not taken; everything else is.
The passing run avoids all six, so it shows that these six, as described in `Structure`
by the conditions under which they bite, are all that stands between the code and
`MovingSheet` within the bounds. Taking any one of them out of the `.cfg` makes TLC find
the violation:

| defect | where | what goes wrong | violates |
|---|---|---|---|
| `"unmoved graph"` | `imp_sheet.cpp:394` | `DeleteColsFromGraph` drops the graph it has moved | `GraphsFollow` (run `structure_graph`) |
| `"row index"` | `imp_sheet.cpp:341` | rows are indexed by position instead of by offset from `LTC.row`, as in `EraseRows` (`:356`) | `KeepsPromise` |
| `"misplaced slots"` | `imp_sheet.cpp:285` | `CreateCols` inserts at index `before`, not `before - LTC.col` | `GraphsFollow` |
| `"left edge"` | `imp_sheet.cpp:422` | a deletion across the left edge of the storage leaves `LTC.col` | `KeepsPromise` |
| `"short row"` | `imp_sheet.cpp:427` | a deletion erases slots that a shorter row does not have | `KeepsPromise` |
| `"forgotten reference"` | `imp_formula.cpp:39, 59` | an insertion forgets that a formula is `#REF!` | `KeepsPromise` |

**Deadlock** is off where behaviours really end: the loops return, and nothing is
described after undefined behaviour.

**Fairness** is used in `CycleSearch` and `InvalidationWalk` only, as `WF_vars(Next)`:
each is one sequential loop that waits for nothing, so it takes its next turn as long
as there is one. The other specifications state safety alone: the user need not call
anything.

## Proofs

All invariants and action properties of the runs `recalc`, `cycle_search`,
`invalidation_walk`, `formularefs`, `cellstore` and `structure` are
theorems, those of the last two with the exceptions and hypotheses named here, for every
value of the constants; so are the two refinements, of `SheetSpec` by `Recalc` and of
`MovingSheet` by `Structure`, and results that no run states. What remains with TLC is
listed at the end of this section.

| module | theorem | statement |
|---|---|---|
| `RecalcProofs` | `Invariance` | `Spec => []IInv` |
| | `TypeCorrect`, `GraphsAlwaysAgree`, `NeverCyclic`, `PointersStayLive`, `CachesStayCoherent` | its five conjuncts |
| | `NeverStale` | `[]CacheFresh` |
| | `InvalidatesExactly` | `InvalidationExact` |
| | `ReadsHaveOneResult`, `ReadsAlwaysDetermined` | two ways to fill the caches in one read are the same; `[]ReadsDetermined`: there is one |
| | `EngineKeepsPromise` | `KeepsPromise`, the refinement of `SheetSpec` |
| | `SearchFromPSuffices` | if there was no cycle before, it is enough to look for one from the cell that is written |
| `CycleSearchProofs` | `Invariance`, `TypeCorrect`, `GrayStaysPath`, `BlackStaysDone` | the inductive invariant, `[]TypeOK`, `[]GrayIsPath`, `[]BlackIsDone` |
| | `SearchIsExact` | `[]AnswerExact` |
| `InvalidationWalkProofs` | `WalkInvariance`, `TypeCorrect`, `InvalidationIsExact` | the invariant of the walk, `[]TypeOK`, `[]WalkExact` |
| | `EdgeInvariance`, `WalkIsLinear` | the invariant that counts, `[]OneTurnPerEdge` |
| `FormulaRefsProofs` | `Invariance`, `TypeCorrect` | the inductive invariant, `[]TypeOK` |
| | `ReferencesFollow`, `ListIsLeaves`, `NoFalseAlarm`, `AnswersAreTrue` | `[]LeavesFollow`, `[]RefsOfTree`, `[]NoFalseRef`, `EffectReported` |
| `CellStoreProofs` | `Invariance`, `TypeCorrect`, `CornersHold` | the inductive invariant, `[]TypeOK`, `[]CornersEnclose` |
| | `OthersStay`, `InsertedExactly`, `DeletedExactly` | `CellsStayPut`, `InsertionMoves`, `DeletionMoves` |
| | `SizeIsExact`, `PrintIsExact` | `[]SizeExact`, `[]PrintShowsView` |
| `StructureProofs` | `SheetSound` | the inductive invariant |
| | `GraphsFollowAlways`, `PointersFollowAlways` | `[]GraphsFollow`, `[]PointersFollow`, with four defects avoided: of deletions of columns that would have to move an edge the first is false |
| | `RefusalsAgreeAlways` | `[]RefusalsAgree`, with the same four avoided |
| | `ValuesSound` | references go in no circle, and what is cached is what the cells around it give |
| | `SheetKeepsPromise` | `KeepsPromise`, the refinement of `MovingSheet` |

**Assumptions**: the named `ASSUME`s of the modules, which TLC evaluates in every run.
Those of `CellValues` and `Recalc` only say that words, numbers, errors and the model's
own markers are different things and that what users type are texts and formulas; the
bounds are natural numbers. `CycleSearch` and `InvalidationWalk` assume that there are
finitely many positions (the table has `kMaxRows * kMaxCols`): without it a cell could
name infinitely many others, and no order of them would fit on a stack. `Recalc` needs
no such assumption. `CellStore` and `Structure` assume a table with at least one row and
one column, that a null slot is no cell and a dangling pointer no address, and `Structure`
that there are finitely many addresses.

### The engine

`IInv == TypeOK /\ GraphsAgree /\ NoCycle /\ PointersLive /\ CacheCoherent`. None of the
last four is inductive alone. Invalidation steps only into dependents that are valid;
that this finds all stale caches needs `CacheCoherent` (a valid cell names only valid
cells, so nothing valid hides behind an invalid one) and `GraphsAgree` (the walk sees
every dependent). `CacheCoherent` is kept by a write because the walk dropped whatever
depended on the old contents (`InvalidatedClosed`, `WrittenMemoCoherent`). The
circularity check looks at `reference_graph`, so `NoCycle` needs `GraphsAgree`
(`CheckIsExact`). A read fills caches only of cells that exist, which is `PointersLive`.
`CacheFresh` then follows without induction: the cells whose cached value differs from
the solution would form a trap, and `NoCycle` says there is none.

That a read has a result is an induction over the depth of references, which is out of
reach in that form. `ReadsExist` does it with sets: some parts of what a read evaluates
can be filled (`Filling`); two fillings agree where they meet (`FillingsAgree`), so the
union of all of them is one (`FillableFilled`); and if a cell were left over, one of
those left over would name no other, and could be filled last (`AllFillable`).

The refinement maps `contents` to `content` and `severed` to `dangling`, one lemma for
each action; for reads, the caches after the read are the solution the abstract read
asks for (`KnownSolves`). It is stronger than the run in one respect: it maps every
action to the abstract action with the same arguments, which `SheetSpec` does not record
(`MovingSheet` does, in `call`).

### The two loops

`GraphIsCircular` puts a cell on the stack once for every edge into it and marks cells
only when they come up, so the stack alone is no path. The invariant says how the path
is in it: every gray cell is on the stack (`GrayOnStack`); what lies above a gray cell,
up to the next gray one, is named by it (`AboveIsNamed`), so consecutive gray cells are
joined by edges; and what a gray cell names is black or comes up before it does again
(`NamedIsAhead`), so a cell that turns black names black cells only. `BlackIsDone` then
gives the answer "no cycle", and an edge to a gray cell, which closes the path, the
answer "cycle". Where a cell comes up first is `FirstAt`; `FirstPushed` and `FirstPopped`
say how a push and a pop move it.

`InvalidateDependencyGraph` keeps no set of visited cells; it stops at cells already
invalid. `WalkExact` follows from: what a dropped cell names is dropped, was invalid, or
is on the stack (`NamedIsAhead`), and whatever is dropped can be reached
(`DroppedIsReached`). That it is also linear is `EdgeInv`: a cell that comes up a second
time has nothing valid left to step into except what is still ahead on the stack above
it (`RepeatsAreIdle`), so that each cell puts another on the stack once, and the turns
at a cell, taken and still to come, are no more than the cells that name it
(`CountedByNamers`).

### References

`FormulaMovesProofs` is about the handlers on formulas that are `Consistent`: `ref_cells`
is sorted, without repetition, and holds just the valid leaves; `self_hr` is
`ReferencesChanged` only if a leaf is gone. Each handler leaves a consistent formula whose
leaves have moved as the axis, the line and the count say, the early returns included:
they are taken only if no leaf would move (`LastIsLowest`, `BeyondMovesNothing`), and the
part of the sorted list from `lower_bound` on is exactly what moves (`LowerBoundSplits`).
`Sorted` is defined by ranks, so that `SortedOrders` is a fact about a strict total order
of finitely many indices (`RankIsPlace`). After a deletion the invalid positions sort
first and are what is cut off (`GoneIsDropped`).

`FormulaRefsProofs!IInv` adds the history: `rows` and `cols` name each line of the time of
parsing once at most, and every leaf is where its row *and* its column are now, or is gone
with one of them. Insertion and deletion move lines and positions alike (`LinesInserted`,
`LinesRemoved` and the four `...Follows` lemmas).

### Storage

`IInv` is `Enclosed`: the corners enclose what is stored, `RBC.row` is exactly that of the
last row, while `RBC.col` only bounds the rows, since deletions leave rows shorter. Of a
storage without rows it says only how far deletions can have taken the corners: nothing
puts them back, and `CreateEmptyCell` starts anew when it finds no rows. Every operation is
a shift of indices once slots beyond the end of a row, or of the last row, are read as
null (`ElementOr`, `SlotAt`): `SplicedElement`, `CutElement`, `PaddedElement` say so of
one vector, `CellCreated`, `RowsCreated`, `RowsErased`, `ColsCreated`, `ColsErased` of the
ragged rows, and the corners are what turns a shift of indices into the shift of positions
that was asked for. The theorems about insertions and deletions except the same cases as
the properties (see above), and the lemmas cover the invariant in the excepted ones too.

`SizeExact` rests on the last row and the last column that hold text
(`LastRowWithText`, `LastColWithText`), and on `SizeWithoutText`: of a storage
without text the size counts the rows above it; `PrintShowsView` rests on `SizeOfText`.

### Structure

The first four theorems have one hypothesis, `StaysClear`: the calls stay clear of
"misplaced slots", "unmoved graph", "row index" and "left edge". Each of the four breaks
`IInv`; the other two of the table above break only what reads give, or stop the
program, and the invariants hold with them let in.

`IInv` is `WellStored /\ OneOwner /\ HeapSound /\ PointersSound /\ GraphsSound /\
RefsWithin`. `WellStored` is `Enclosed` of the storage, at addresses instead of kinds of
cells. `OneOwner` and `HeapSound` say that an address is in one slot at most, and that
what is at it is a cell just when some slot has it: without them a formula freed in one
place could stay in another, and a new cell could come to the address of a live one.
`PointersSound` is `PointersFollow` in the form that can be kept: a pointer that is not
dangling leads to the cell its leaf names. `GraphsSound` is `GraphsFollow` edge by edge.
`RefsWithin` says that no formula names a cell beyond the far corner, `RBC`, also when
the cell was cleared and the rows are gone. It is what makes `CheckFormulas` enough,
which looks at one position only: `CheckCellsSize` goes by the far corner, and that
never moves back past a reference. `CellStoreProofs` says how the far corner moves
(`CornerGrows`, `CornerInserted`, `RowCornerErased`, `ColCornerErased`). With it a
deletion of rows reads no row that is not there, and invalidation never meets a
dependent that is not (`NeverMeetsNull`), so that the two outcomes `"Undefined"` the
model has for them do not happen.

All four calls that move cells are one argument. `Insertion` and `Deletion` are maps of
positions; `CellsMove` says that the slots follow such a map (`RowsMove`, `ColsMove`,
`RowsGo`, `ColsGo`, from the lemmas about the storage), `MovesWith` that a formula does
(from the lemmas about the handlers), `GraphsMove` that the edges do, while pointers stand
still. `SheetMoves` concludes that a sheet that was sound is sound: no two positions meet
under the map (`InsertionIsMove`, `DeletionIsMove`), so owners stay single; the cell a
pointer leads to and the leaf that names it move by the same map, or are gone by it.
Deleted columns are the exception in the code - edges stay where they are - and the
argument applies because no edge that is left had to move, which is what `StaysClear`
says of them. `CellWritten` and `CellFreed` are the calls on single cells.

`RefusalsAgreeAlways` is `RefsWithin` again: what a formula names, and the cell it is in,
are within the far corner (`CellsWithin`), so that where that corner may move, so may
both ends of every edge. Of the keys without references it needs only that they are
positions (`BarePlaced`).

`ValuesSound` is about the values. `VInv` adds to `IInv` that references go in no circle
(`Acyclic`), that a formula which has lost a reference has `self_hr` say so
(`LossKnown`), and that a cached value is what the cached values it was computed from
give (`CachesSound`). It needs "forgotten reference" avoided too (`StaysRight`), since
`LossKnown` is what that defect breaks. `Acyclic` is kept by `SetFormula`, whose search
sees the references the formulas have (`NoCircleCloses`), and by everything that moves
cells, because no two positions meet (`MovedAcyclic`). A call keeps some caches and drops
the others (`CachesKept`); what is kept rests on what is kept (`KeptCachesSound`),
because the walk goes on from a cell it reaches to every dependent that is cached
(`VisitedCloses`, `SparedRest`), and because the positions from which a deletion starts
it cover all cells that go, while these are where they were (`RowsCovered`,
`ColsCovered`). A read adds what it has evaluated together with all it rests on
(`EvaluatesCloses`).

`SheetKeepsPromise` needs all six defects avoided, `Avoided = Defects`, as the run has
them. `Sheet` and `Severed` are what `MovingSheet` sees of a state. A call on a single
cell changes them at one position (`SetAsPromised`, `ClearCellAsPromised`), and the
cycle `SetFormula` looks for in the graph is the cycle the formulas would make
(`FormulaEdges`). For the calls that move cells, `MovedContents` takes what `SheetMoves`
knows - slots, formulas and pointers have moved by one map - to the contents read
backwards, as `MovingSheet` has them: what is at a position now is what was at its
source. Pointers dangle afterwards for what had been cleared before, or for what was
lost, and then the formula is `#REF!`; so a move severs no formula. An insertion that is
not refused leaves every cell and every reference in the table (`InsertAsPromised`), and
`InsertRows` reads no empty list (`RefsKnown`).

For reads, both sides are recursions over the depth of references: the code's, through
pointers and caches (`Evaluated`), and the promise's, through positions and texts
(`Settled`). Neither needs an induction over that depth. Each is a sequence of rounds
(`EvaluatedInRounds`, `SettledInRounds`), and `RoundsSettle`, in `SequenceFacts`, says
that rounds in which a value depends on those it needs alone, with needs in no circle,
are over after as many as there are elements: each round settles one more at least, as
what is not settled yet would otherwise be a circle. So `Evaluated` and `Settled` solve
one equation each (`EvaluatedSettles`, `SettledSettles`); the cells where they differ
would each name another of them, and that is a circle as well (`ReadsAgree`). The same
lemma shows that `ReachedFrom` reaches everything (`ReachedIsLeast`), and that a sum is a
number (`SumIsNat`).

### Only model-checked

- `Returns` and `Ends`, that the two loops terminate: liveness under fairness.
- `ExprText`: its properties are about recursive functions over trees and tokens, and
  would need induction over data.
- `PositionNames`: likewise about recursive functions over names. `RoundTrip` is checked
  for every row and column of the real table, so that a proof would add nothing about
  this program; `NamesExact` is checked up to a length.

## Findings

Each of the first four is a run TLC finds violated; `PROJECT.json` quotes the
documentation.

1. `recalc_cleared` - `ClearCell` frees a cell that formulas point to (`ast.cpp:119`);
   reading such a formula follows the freed pointer. `formula.h` promises zero.
2. `structure_graph` - `DeleteColsFromGraph` never puts the moved graph in place
   (`imp_sheet.cpp:394`).
3. `expr_value` - a literal of more than six significant digits is printed rounded
   (`ast.h:53`), so the text of the formula is another formula. With literals left out
   there is one more case: `A1/(-(B1*C1))` is printed `A1/-B1*C1` (`ast.h:68`).
4. `cellstore_print` - `RowHasPrintableCells` calls through null slots
   (`imp_sheet.cpp:460`).
5. In a storage without text that begins below row 1, `GetPrintableSize` counts the rows
   above it (`imp_sheet.cpp:82-88`, with the offsets of `:603-622`). `SetCell(C3, "")`, or
   setting C3 and clearing it, gives {2, 3}, and `PrintTexts` writes two blank lines.
   `common.h:159-161` says that the size is the rectangle around all cells with a text
   that is not empty, and the tests expect {0, 0} of sheets without text, an empty one
   (`main.cpp:91`) and one with an empty text in A1 (`SheetTester.cpp:182-185`), which
   is the case the code gets right. `SizeExact` has no run in which it fails: it states
   both cases, and that there is no third.

The other five rows of the table of defects above are found by a change of
`structure.cfg`. Also met while modelling, and described by the models:

- `HandleInsertedRows` takes `back()` of an empty list (`imp_formula.cpp:31`); the
  actions `InsertRows` of `FormulaRefs` and `Structure` have the outcomes.
- After a deletion of a referenced cell, later deletions that only rename are answered
  `ReferencesChanged` (`imp_formula.cpp:84`, against `formula.h:20-25`).
- `CheckCellsSize` refuses an insertion below or right of everything stored, which
  would move nothing out of the table (`imp_sheet.cpp:145`, against `common.h:146-149`):
  `Refuse` is always allowed in `MovingSheet`.
- So does `CheckFormulas`, on account of a key that `DeleteColsFromGraph` has left without
  references (`imp_sheet.cpp:155, 388`); on account of anything else it never refuses
  what `CheckCellsSize` lets through (`RefusalsAgree`).
- `CheckFormulas` looks at one position only (`imp_sheet.cpp:152`), but cannot let a
  reference out: every cell a formula names has been stored, and the corners
  `CheckCellsSize` goes by never move back (`RefsWithin`, `InsertAsPromised`).
- A row without text is printed as one tab whatever the number of columns
  (`imp_sheet.cpp:95, 98`): `Line`.
- A number that overflows an `int` is read as another position (`imp_common.cpp:50`),
  and `FromString` of letters alone reads the character after the text
  (`imp_common.cpp:72`).

## What is not modelled

- **The ANTLR runtime and the generated parser.** Vendored and generated, they are about
  nine tenths of the lines under `src/`, and none of them is this program's logic. What
  the program takes from them is modelled in `ExprText`: the precedences of `Formula.g4`
  and the order in which the walk calls the listener. A text that is no formula throws
  before anything has changed. For this reason the definitions cover a large share of
  the engine's own files and a small one of all files.
- **Tests**: they hold no state of the program.
- Text output and the wording of exceptions, rounding of doubles.
- `printable_LTC` and `printable_RBC` (`ExpandPrintableArea`, `SqueezePrintableArea`,
  `FindTopOffset`): written, never read for a result.
- Crashes, restarts, timeouts, lost messages: the program has none of them.

## Plan

Done, in this order: the engine with its abstract specification (`Recalc`,
`SheetSpec`), its proofs, the two loops, `FormulaRefs`, `CellStore`; then the composition
`Structure` with `MovingSheet`, `ExprText`, `PositionNames` and the printed lines.

Then the proofs about `CycleSearch`, `InvalidationWalk`, `FormulaMoves` with
`FormulaRefs`, and `CellStore`, and at last those about `Structure`, which use the last
two: that the sheet is sound, that its values are right, and that it implements
`MovingSheet`.

What could follow: `NamesExact` for names of any length, and the values of printed
expressions, `SameValue`, for trees of any depth.
