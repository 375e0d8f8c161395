----------------------------- MODULE CellStore -----------------------------
(* Where ImpSheet keeps its cells (imp_sheet.cpp): a vector of rows, each a *)
(* vector of slots that may be null.  Rows are ragged: a row ends at the    *)
(* last column ever set in it, and may be empty.  LTC is the position of    *)
(* the first slot of every row, RBC that of the last row and of the longest *)
(* row; lookup, growth, insertion, deletion and printing all translate      *)
(* positions through these two corners.                                     *)
(*                                                                          *)
(* The actions are the functions that change the storage, as the public     *)
(* calls use them.  A cell is told apart only by whether its text is empty. *)
(* printable_LTC and printable_RBC are left out: they are written, but never *)
(* read by anything that matters.                                           *)

EXTENDS Integers, SequencesExt

CONSTANTS kMaxRows, kMaxCols,
          Kind,       \* what a slot may hold: here how a cell prints
          MaxCells    \* bound on the cells there are at once

ASSUME BoundsAssumption ==
  kMaxRows \in Nat \ {0} /\ kMaxCols \in Nat \ {0} /\ MaxCells \in Nat

Null == "null"

ASSUME KindAssumption == Null \notin Kind

Position == [row : 0 .. kMaxRows - 1, col : 0 .. kMaxCols - 1]

VARIABLES cells, LTC, RBC,
          reply   \* what the last call did: "Ok", "TableTooBig", "Undefined"

vars == <<cells, LTC, RBC, reply>>

Init ==
  /\ cells = <<>>
  /\ LTC = [row |-> kMaxRows, col |-> kMaxCols]
  /\ RBC = [row |-> -1, col |-> -1]
  /\ reply = "Ok"

\* GetImpCell: the slot of a position, null outside of what is stored.
Cell(p) ==
  LET r == p.row - LTC.row + 1
      c == p.col - LTC.col + 1
  IN  IF r \in DOMAIN cells /\ c \in DOMAIN cells[r] THEN cells[r][c] ELSE Null

Put(p, x) == [cells EXCEPT ![p.row - LTC.row + 1][p.col - LTC.col + 1] = x]

Larger(i, j) == IF i < j THEN j ELSE i
Lesser(i, j) == IF i < j THEN i ELSE j
Nulls(n) == [i \in 1 .. Larger(n, 0) |-> Null]
Emptys(n) == [i \in 1 .. Larger(n, 0) |-> <<>>]
-----------------------------------------------------------------------------
(* Single cells.                                                            *)

\* (Faulty: only rows that hold a cell before the new one move right.)
WidenedHere(rows, left, r) == [rows EXCEPT ![r] = Nulls(left) \o @]

\* All stored rows get slots on their left, the empty ones excepted.
Widened(rows, left, r) ==
  [i \in DOMAIN rows |-> IF rows[i] = <<>> THEN <<>> ELSE Nulls(left) \o rows[i]]

\* CreateEmptyCell: the storage grows up, down, left or right to reach p; to
\* the right only in p's own row.
CreateEmptyCell(p, kind) ==
  LET corner == IF cells = <<>> THEN p ELSE LTC
      up == Larger(corner.row - p.row, 0)
      left == Larger(corner.col - p.col, 0)
      r == Larger(p.row - corner.row, 0) + 1
      c == Larger(p.col - corner.col, 0) + 1
      rows == Emptys(up) \o cells \o Emptys(r - Len(cells))
      wide == Widened(rows, left, r)
      row == wide[r] \o Nulls(c - Len(wide[r]))
  IN  /\ cells' = [wide EXCEPT ![r] = [row EXCEPT ![c] = kind]]
      /\ LTC' = [row |-> corner.row - up, col |-> corner.col - left]
      /\ RBC' = [row |-> IF r > Len(cells) /\ up = 0 THEN LTC'.row + Len(rows) - 1 ELSE RBC.row,
                 col |-> IF c > Len(wide[r]) THEN Larger(RBC.col, LTC'.col + c - 1) ELSE RBC.col]

\* CreateCell.
SetCell(p, kind) ==
  /\ IF Cell(p) = Null THEN CreateEmptyCell(p, kind)
     ELSE cells' = Put(p, kind) /\ UNCHANGED <<LTC, RBC>>
  /\ reply' = "Ok"

\* DeleteCell: the slot stays, and neither corner moves back.
DeleteCell(p) ==
  /\ Cell(p) # Null
  /\ cells' = Put(p, Null)
  /\ reply' = "Ok"
  /\ UNCHANGED <<LTC, RBC>>
-----------------------------------------------------------------------------
(* Rows and columns.                                                        *)

\* (Faulty: the largest position may be one beyond the last.)
TooBigByOne(corner, count, max) == corner + count > max

\* (Faulty: what is about to be added is not counted.)
TooBigAlready(corner, count, max) == corner >= max

TooBig(corner, count, max) == corner + count >= max

\* It goes by the corner, whether there is a cell as far out or not.
CheckCellsSize(rows, cols) == ~ TooBig(RBC.row, rows, kMaxRows) /\ ~ TooBig(RBC.col, cols, kMaxCols)

Refuse == reply' = "TableTooBig" /\ UNCHANGED <<cells, LTC, RBC>>

InsertedInto(s, at, new) == SubSeq(s, 1, at) \o new \o SubSeq(s, at + 1, Len(s))

\* (Faulty: the row the insertion names stays where it is.)
AfterRow(before) == before - LTC.row + 1

RowOffset(before) == before - LTC.row

CreateRows(before, count) ==
  \/ ~ CheckCellsSize(count, 0) /\ Refuse
  \/ /\ CheckCellsSize(count, 0)
     /\ IF cells = <<>> \/ RowOffset(before) >= Len(cells)
        THEN UNCHANGED <<cells, LTC, RBC>>
        ELSE /\ RBC' = [RBC EXCEPT !.row = @ + count]
             /\ IF RowOffset(before) < 0
                THEN LTC' = [LTC EXCEPT !.row = @ + count] /\ UNCHANGED cells
                ELSE cells' = InsertedInto(cells, RowOffset(before), Emptys(count)) /\ UNCHANGED LTC
     /\ reply' = "Ok"

\* The slots go in at index before of each row, not at before - LTC.col.
CreateCols(before, count) ==
  \/ ~ CheckCellsSize(0, count) /\ Refuse
  \/ /\ CheckCellsSize(0, count)
     /\ IF cells = <<>> \/ before > RBC.col
        THEN UNCHANGED <<cells, LTC, RBC>>
        ELSE /\ RBC' = [RBC EXCEPT !.col = @ + count]
             /\ IF before < LTC.col
                THEN LTC' = [LTC EXCEPT !.col = @ + count] /\ UNCHANGED cells
                ELSE /\ cells' = [i \in DOMAIN cells |->
                                    IF before < Len(cells[i])
                                    THEN InsertedInto(cells[i], before, Nulls(count))
                                    ELSE cells[i]]
                     /\ UNCHANGED LTC
     /\ reply' = "Ok"

\* (Faulty: the last of the elements stays.)
ErasedShort(s, from, to) == SubSeq(s, 1, from) \o SubSeq(s, to + 1, Len(s))

\* vector::erase of the elements from..to, counted from zero.
Erased(s, from, to) == SubSeq(s, 1, from) \o SubSeq(s, to + 2, Len(s))
EraseInside(s, from, to) == from <= to + 1 /\ to + 1 <= Len(s)

Undefined == reply' = "Undefined" /\ UNCHANGED <<cells, LTC, RBC>>

\* The last index is cut off at RBC.row, a position, not at RBC.row - LTC.row;
\* and rows deleted above LTC do not move LTC if some below it go too.
EraseRows(first, count) ==
  LET from == Larger(0, first - LTC.row)
      to == Lesser(first + count - 1 - LTC.row, RBC.row)
  IN  \/ /\ first + count - 1 < LTC.row
         /\ LTC' = [LTC EXCEPT !.row = @ - count]
         /\ RBC' = [RBC EXCEPT !.row = @ - count]
         /\ reply' = "Ok" /\ UNCHANGED cells
      \/ /\ first + count - 1 >= LTC.row /\ first > RBC.row
         /\ reply' = "Ok" /\ UNCHANGED <<cells, LTC, RBC>>
      \/ /\ first + count - 1 >= LTC.row /\ first <= RBC.row
         /\ IF EraseInside(cells, from, to)
            THEN /\ cells' = Erased(cells, from, to)
                 /\ RBC' = [RBC EXCEPT !.row = @ - (to - from + 1)]
                 /\ reply' = "Ok" /\ UNCHANGED LTC
            ELSE Undefined

\* Every row loses the same slots, whether it reaches that far or not.
EraseCols(first, count) ==
  LET from == Larger(LTC.col, first) - LTC.col
      to == Lesser(RBC.col, first + count - 1) - LTC.col
  IN  \/ /\ first + count - 1 < LTC.col
         /\ LTC' = [LTC EXCEPT !.col = @ - count]
         /\ RBC' = [RBC EXCEPT !.col = @ - count]
         /\ reply' = "Ok" /\ UNCHANGED cells
      \/ /\ first + count - 1 >= LTC.col /\ first > RBC.col
         /\ reply' = "Ok" /\ UNCHANGED <<cells, LTC, RBC>>
      \/ /\ first + count - 1 >= LTC.col /\ first <= RBC.col
         /\ IF \A i \in DOMAIN cells : EraseInside(cells[i], from, to)
            THEN /\ cells' = [i \in DOMAIN cells |-> Erased(cells[i], from, to)]
                 /\ RBC' = [RBC EXCEPT !.col = @ - (to - from + 1)]
                 /\ reply' = "Ok" /\ UNCHANGED LTC
            ELSE Undefined
-----------------------------------------------------------------------------
Held == {p \in Position : Cell(p) # Null}

\* Nothing is described after undefined behaviour.
Next ==
  /\ reply # "Undefined"
  /\ \/ \E p \in Position : \/ \E kind \in Kind :
                                 Cardinality(Held \cup {p}) <= MaxCells /\ SetCell(p, kind)
                            \/ DeleteCell(p)
     \/ \E from \in 0 .. kMaxRows - 1 : \E count \in 1 .. kMaxRows - from :
          CreateRows(from, count) \/ EraseRows(from, count)
     \/ \E from \in 0 .. kMaxCols - 1 : \E count \in 1 .. kMaxCols - from :
          CreateCols(from, count) \/ EraseCols(from, count)

Spec == Init /\ [][Next]_vars
-----------------------------------------------------------------------------
(* The area that is printed.                                                *)

HasText(r) == \E c \in DOMAIN cells[r] : cells[r][c] = "text"

\* FindBottomOffset: rows without text at the end, and the last column, counted
\* from LTC, in which any row has text.
RowsWithoutText == Cardinality({r \in DOMAIN cells : \A s \in r .. Len(cells) : ~ HasText(s)})

\* (Faulty: the first row's last text decides, not the longest row's.)
LastTextOfFirst ==
  IF cells # <<>> /\ HasText(1)
  THEN (CHOOSE c \in DOMAIN cells[1] :
          cells[1][c] = "text" /\ \A d \in c + 1 .. Len(cells[1]) : cells[1][d] # "text") - 1
  ELSE 0

LastTextIndex ==
  Max({0} \cup UNION {{c - 1 : c \in {d \in DOMAIN cells[r] : cells[r][d] = "text"}} :
                      r \in DOMAIN cells})

GetPrintableSize ==
  LET v == RBC.row + 1 - RowsWithoutText
      h == LTC.col + LastTextIndex + 1
  IN  IF cells = <<>> \/ v <= 0 \/ h <= 0 THEN [rows |-> 0, cols |-> 0]
      ELSE [rows |-> v, cols |-> h]

\* RowHasPrintableCells follows every slot up to the first text.
FollowsNull(r) ==
  \E c \in DOMAIN cells[r] : cells[r][c] = Null /\ \A d \in 1 .. c - 1 : cells[r][d] # "text"

\* The rows PrintTexts and PrintValues ask it about.
PrintedRows == {r \in DOMAIN cells : LTC.row + r <= GetPrintableSize.rows}

Field(row, col) == IF Cell([row |-> row, col |-> col]) = "text" THEN "text" ELSE "blank"

\* (Faulty: the first field of a line is that of the first column stored.)
LineFromCorner(row) ==
  IF row < LTC.row \/ ~ HasText(row - LTC.row + 1) THEN <<"blank", "blank">>
  ELSE [i \in 1 .. GetPrintableSize.cols - LTC.col |-> Field(row, LTC.col + i - 1)]

\* PrintTexts, the fields between the tabs of a line: a row without text, and
\* one above the storage, is printed as one tab, however many columns there are.
Line(row) ==
  IF row < LTC.row \/ ~ HasText(row - LTC.row + 1) THEN <<"blank", "blank">>
  ELSE [i \in 1 .. GetPrintableSize.cols |-> Field(row, i - 1)]

PrintTexts == [i \in 1 .. GetPrintableSize.rows |-> Line(i - 1)]
-----------------------------------------------------------------------------
(* Properties.                                                              *)

\* Types; neither corner leaves the table by more than a deletion above an
\* empty storage takes it (EraseRows moves the corners of no cells at all).
TypeOK ==
  /\ cells \in Seq(Seq({Null} \cup Kind))
  /\ {LTC.row, RBC.row} \subseteq -1 - kMaxRows .. kMaxRows
  /\ {LTC.col, RBC.col} \subseteq -1 - kMaxCols .. kMaxCols
  /\ reply \in {"Ok", "TableTooBig", "Undefined"}

\* The corners enclose what is stored, through growth, insertion and deletion:
\* no cell is beyond what CheckCellsSize looks at, so that an insertion never
\* pushes one out of the table.
CornersEnclose ==
  cells # <<>> =>
    /\ RBC.row = LTC.row + Len(cells) - 1
    /\ \A r \in DOMAIN cells : LTC.col + Len(cells[r]) - 1 <= RBC.col
    /\ LTC.row >= 0 /\ LTC.col >= 0 /\ RBC.row < kMaxRows /\ RBC.col < kMaxCols

Side == Larger(kMaxRows, kMaxCols)
View == [p \in Position |-> Cell(p)]

\* What a sheet without corners would hold after an insertion or a deletion.
Below(p, axis, n) == [p EXCEPT ![axis] = @ - n]
ViewAfterInsertion(axis, before, count) ==
  [p \in Position |-> IF p[axis] < before THEN View[p]
                      ELSE IF p[axis] < before + count THEN Null
                      ELSE View[Below(p, axis, count)]]
ViewAfterDeletion(axis, first, count) ==
  [p \in Position |-> IF p[axis] < first THEN View[p]
                      ELSE IF Below(p, axis, -count) \in Position THEN View[Below(p, axis, -count)]
                      ELSE Null]

\* Setting (CreateEmptyCell) or clearing (DeleteCell) a cell, in whatever
\* direction the storage has to grow, changes what is found at that position and nowhere else.
CellsStayPut ==
  [][\A p \in Position :
       /\ \A kind \in Kind : SetCell(p, kind) => View' = [View EXCEPT ![p] = kind]
       /\ DeleteCell(p) => View' = [View EXCEPT ![p] = Null]]_vars

\* An insertion of rows (CreateRows) moves every cell as it should, always; one
\* of columns (CreateCols) if the first column is in use, or all that is stored lies on one side.
InsertionMoves ==
  [][reply' = "Ok" => \A from \in 0 .. Side, count \in 1 .. Side :
       /\ CreateRows(from, count) => View' = ViewAfterInsertion("row", from, count)
       /\ (LTC.col = 0 \/ from < LTC.col \/ from > RBC.col) /\ CreateCols(from, count)
            => View' = ViewAfterInsertion("col", from, count)]_vars

\* A deletion (EraseRows, EraseCols) that returns moves every cell as it should
\* if it does not reach across the upper or left edge of what is stored.
DeletionMoves ==
  [][reply' = "Ok" => \A from \in 0 .. Side, count \in 1 .. Side :
       /\ (from >= LTC.row \/ from + count <= LTC.row) /\ EraseRows(from, count)
            => View' = ViewAfterDeletion("row", from, count)
       /\ (from >= LTC.col \/ from + count <= LTC.col) /\ EraseCols(from, count)
            => View' = ViewAfterDeletion("col", from, count)]_vars

\* The smallest rectangle from A1 that holds all text; nothing if there is none.
Filled == {p \in Position : View[p] = "text"}
Rectangle ==
  IF Filled = {} THEN [rows |-> 0, cols |-> 0]
  ELSE [rows |-> Max({p.row : p \in Filled}) + 1, cols |-> Max({p.col : p \in Filled}) + 1]

\* GetPrintableSize is that rectangle, of every sheet that has text and of every
\* one that has no rows or begins at the first row of the table.  Of a storage
\* without text that begins further down it is not what common.h says: the rows
\* above the storage are counted, and its first column.
SizeExact ==
  GetPrintableSize = IF Filled = {} /\ cells # <<>> /\ LTC.row > 0
                     THEN [rows |-> LTC.row, cols |-> LTC.col + 1]
                     ELSE Rectangle

\* What PrintTexts prints is the sheet: line by line and field by field the text
\* of the cell at that position, nothing where there is none, and no text is
\* left out; unless RowHasPrintableCells comes upon a slot without a cell.
PrintShowsView ==
  (\A r \in PrintedRows : ~ FollowsNull(r)) =>
    \A p \in Position :
      View[p] = "text" <=>
        /\ p.row + 1 \in DOMAIN PrintTexts /\ p.col + 1 \in DOMAIN PrintTexts[p.row + 1]
        /\ PrintTexts[p.row + 1][p.col + 1] = "text"

\* What common.h says of printing: a cell that is not there prints as nothing.
PrintIsSafe == \A r \in PrintedRows : ~ FollowsNull(r)
=============================================================================
