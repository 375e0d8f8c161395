-------------------------- MODULE StructureProofs --------------------------
(* Theorems about Structure, for a table of any size, any number of cells,  *)
(* and formulas of any length.                                              *)
(*                                                                          *)
(* What each call does to the slots is known from CellStoreProofs, and what *)
(* it does to a formula from FormulaMovesProofs.  Here both are said to     *)
(* move along one map of positions, and everything else a sheet keeps is    *)
(* shown to follow that map.                                                *)
(*                                                                          *)
(* What a cell evaluates to, and what MovingSheet says the contents settle  *)
(* to, are both computed in rounds.  References go in no circle, so that    *)
(* both settle (RoundsSettle, in SequenceFacts), and there they agree.      *)

EXTENDS Structure, FormulaMovesProofs

\* The lemmas about the storage, of slots that hold addresses.
Proved == INSTANCE CellStoreProofs WITH Kind <- Addresses, MaxCells <- Cardinality(Addresses)

-----------------------------------------------------------------------------
(* The invariant.                                                           *)

\* The slots lie within the corners.
WellStored == cells \in Proved!Rows /\ Proved!Enclosed(cells, LTC, RBC)

\* A cell has one owner: its address is in one slot.
OneOwner == \A p, q \in Position : Cell(p) = Cell(q) /\ Cell(p) # Null => p = q

\* What a cell may be.
Sound(c) ==
  /\ c = Contents(c.kind, c.text, c.formula, c.ptrs)
  /\ c.kind \in {"text", "formula"} /\ (c.kind = "text" => c.formula.tree = <<>>)
  /\ Consistent(c.formula)
  /\ DOMAIN c.ptrs = DOMAIN c.formula.tree

HeapSound ==
  /\ DOMAIN heap = Addresses
  /\ \A a \in Addresses : IF a \in Stored THEN Sound(heap[a]) ELSE heap[a] = Free

\* Where a pointer of the formula at an address leads.
PointerSound(a) ==
  \A i \in DOMAIN heap[a].ptrs : heap[a].ptrs[i] # Dangling =>
    /\ heap[a].ptrs[i] # Null
    /\ \E q \in Position : heap[a].formula.tree[i] = q /\ Cell(q) = heap[a].ptrs[i]

PointersSound == \A a \in Stored : PointerSound(a)

Names(p, q) == p \in Position /\ FormulaAt(p) /\ q \in Leaves(p)

GraphsSound ==
  /\ \A e \in reference \cup dependency : e = <<e[1], e[2]>>
  /\ \A p, q : <<p, q>> \in reference <=> Names(p, q)
  /\ \A p, q : <<q, p>> \in dependency <=> Names(p, q)

\* Storage without rows lies behind its own corner.
Behind == cells = <<>> => RBC.row < LTC.row

\* A formula has a reference, and none of them is beyond the far corner, whether
\* there still is a cell or not.
RefsWithin ==
  /\ Behind
  /\ \A a \in Stored : IsFormula(a) => heap[a].formula.tree # <<>>
  /\ \A p, q : Names(p, q) => q.row <= RBC.row /\ q.col <= RBC.col

IInv == WellStored /\ OneOwner /\ HeapSound /\ PointersSound /\ GraphsSound /\ RefsWithin
-----------------------------------------------------------------------------
(* What is known of the storage.                                            *)

\* The assumptions the lemmas about the storage are proved under.
LEMMA StoreAssumptions ==
  /\ Proved!Null \notin Addresses
  /\ kMaxRows \in Nat \ {0} /\ kMaxCols \in Nat \ {0} /\ Cardinality(Addresses) \in Nat
  /\ Null = Proved!Null /\ Position = Proved!Position /\ Dangling \notin Addresses /\ Null # Dangling
<1>1. Cardinality(Addresses) \in Nat BY StructureAssumption, FS_CardinalityType
<1> QED BY <1>1, StructureAssumption
        DEF Proved!Null, Null, Store!Null, Position, Store!Position, Proved!Position, Dangling

\* What is found at the positions is what the slots hold.
LEMMA SlotsHold ==
  ASSUME NEW rows \in Proved!Rows, NEW l, NEW b, Proved!Enclosed(rows, l, b)
  PROVE  /\ \A p \in Position : Proved!CellAt(rows, l, p) \in Addresses \cup {Null}
         /\ \A a : a \in Holding(rows) <=>
                     a # Null /\ \E p \in Position : Proved!CellAt(rows, l, p) = a
<1>1. /\ \A p \in Position : Proved!CellAt(rows, l, p) \in Proved!Slot
      /\ \A p \in Position : Proved!CellAt(rows, l, p) # Null =>
           \E r \in DOMAIN rows : \E c \in DOMAIN rows[r] : rows[r][c] = Proved!CellAt(rows, l, p)
      /\ \A r \in DOMAIN rows : \A c \in DOMAIN rows[r] :
           \E p \in Position : Proved!CellAt(rows, l, p) = rows[r][c]
  BY StoreAssumptions, Proved!SlotsReached
<1>2. \A p \in Position : Proved!CellAt(rows, l, p) \in Addresses \cup {Null}
  BY <1>1, StoreAssumptions DEF Proved!Slot
<1>3. \A a : a \in Holding(rows) <=>
               a # Null /\ \E r \in DOMAIN rows : \E c \in DOMAIN rows[r] : rows[r][c] = a
  BY DEF Holding, Range
<1> QED BY <1>1, <1>2, <1>3

\* What is found at a position, before a step and after it.
LEMMA CellsFound ==
  /\ WellStored => /\ \A p \in Position : Cell(p) = Proved!CellAt(cells, LTC, p)
                   /\ \A p \in Position : Cell(p) \in Addresses \cup {Null}
                   /\ \A a : a \in Stored <=> a # Null /\ \E p \in Position : Cell(p) = a
  /\ WellStored' => /\ \A p \in Position : Cell(p)' = Proved!CellAt(cells', LTC', p)
                    /\ \A p \in Position : Cell(p)' \in Addresses \cup {Null}
                    /\ \A a : a \in Stored' <=> a # Null /\ \E p \in Position : Cell(p)' = a
<1>1. ASSUME NEW rows \in Proved!Rows, NEW l, NEW p
      PROVE  Proved!CellAt(rows, l, p)
               = IF p.row - l.row + 1 \in DOMAIN rows
                    /\ p.col - l.col + 1 \in DOMAIN rows[p.row - l.row + 1]
                 THEN rows[p.row - l.row + 1][p.col - l.col + 1] ELSE Proved!Null
  BY StoreAssumptions, Proved!SlotIsRead
<1>2. ASSUME WellStored
      PROVE  /\ \A p \in Position : Cell(p) = Proved!CellAt(cells, LTC, p)
             /\ \A p \in Position : Cell(p) \in Addresses \cup {Null}
             /\ \A a : a \in Stored <=> a # Null /\ \E p \in Position : Cell(p) = a
  <2>1. \A p \in Position : Cell(p) = Proved!CellAt(cells, LTC, p)
    BY <1>1, <1>2, StoreAssumptions DEF WellStored, Cell, Store!Cell, Store!Null, Null
  <2> QED BY <1>2, <2>1, SlotsHold DEF WellStored, Stored
<1>3. ASSUME WellStored'
      PROVE  /\ \A p \in Position : Cell(p)' = Proved!CellAt(cells', LTC', p)
             /\ \A p \in Position : Cell(p)' \in Addresses \cup {Null}
             /\ \A a : a \in Stored' <=> a # Null /\ \E p \in Position : Cell(p)' = a
  <2>1. \A p \in Position : Cell(p)' = Proved!CellAt(cells', LTC', p)
    BY <1>1, <1>3, StoreAssumptions DEF WellStored, Cell, Store!Cell, Store!Null, Null
  <2> QED BY <1>3, <2>1, SlotsHold DEF WellStored, Stored
<1> QED BY <1>2, <1>3

\* Where a cell is found there are rows.
LEMMA CellsAreRows ==
  /\ \A p : Cell(p) # Null => cells # <<>>
  /\ \A p : Cell(p)' # Null => cells' # <<>>
<1>1. DOMAIN <<>> = {} OBVIOUS
<1> QED BY <1>1 DEF Cell, Store!Cell, Null

\* The corners and the number of rows.
LEMMA StorageShape ==
  ASSUME WellStored
  PROVE  /\ LTC.row \in Nat /\ RBC.row \in Int /\ RBC.col \in Int
         /\ RBC.row < kMaxRows /\ RBC.col < kMaxCols
         /\ cells # <<>> => RBC.row = LTC.row + Len(cells) - 1
         /\ DOMAIN cells = 1 .. Len(cells) /\ Len(cells) \in Nat
         /\ cells = <<>> <=> Len(cells) = 0
<1>1. /\ LTC \in [row : 0 .. kMaxRows, col : 0 .. kMaxCols] /\ RBC \in [row : Int, col : Int]
      /\ RBC.row < kMaxRows /\ RBC.col < kMaxCols
      /\ cells # <<>> => RBC.row = LTC.row + Len(cells) - 1
  BY StoreAssumptions DEF WellStored, Proved!Enclosed
<1>2. LTC.row \in Nat /\ RBC.row \in Int /\ RBC.col \in Int
  <2>1. LTC.row \in 0 .. kMaxRows /\ kMaxRows \in Nat BY <1>1, StoreAssumptions
  <2>2. LTC.row \in Nat BY <2>1
  <2>3. RBC.row \in Int /\ RBC.col \in Int BY <1>1
  <2> QED BY <2>2, <2>3
<1>3. DOMAIN cells = 1 .. Len(cells) /\ Len(cells) \in Nat
  BY StoreAssumptions, Proved!RowTypes DEF WellStored
<1>4. cells = <<>> <=> Len(cells) = 0
  <2> DEFINE S == Seq(Proved!Slot)
  <2>1. cells \in Seq(S) BY DEF WellStored, Proved!Rows
  <2> HIDE DEF S
  <2> QED BY <2>1
<1> QED BY <1>1, <1>2, <1>3, <1>4

\* CreateEmptyCell puts the address where it should be, and moves nothing.
LEMMA CellPut ==
  ASSUME WellStored, NEW p \in Position, NEW a \in Addresses, Store!CreateEmptyCell(p, a)
  PROVE  /\ WellStored' /\ \A q \in Position : Cell(q)' = IF q = p THEN a ELSE Cell(q)
         /\ cells # <<>> => RBC.row <= RBC'.row /\ RBC.col <= RBC'.col
<1>1. Proved!CreateEmptyCell(p, a)
  BY Zenon DEF Store!CreateEmptyCell, Proved!CreateEmptyCell, Store!Emptys, Proved!Emptys, Store!Nulls,
         Proved!Nulls, Store!Larger, Proved!Larger, Store!Widened, Proved!Widened, Store!Null,
         Proved!Null
<1>2. /\ WellStored'
      /\ \A q \in Position : Proved!CellAt(cells', LTC', q)
           = IF q = p THEN a ELSE Proved!CellAt(cells, LTC, q)
  BY <1>1, StoreAssumptions, Proved!CellCreated DEF WellStored
<1>3. cells # <<>> => RBC.row <= RBC'.row /\ RBC.col <= RBC'.col
  BY <1>1, StoreAssumptions, Proved!CornerGrows DEF WellStored
<1>4. \A q \in Position : Cell(q)' = IF q = p THEN a ELSE Cell(q) BY <1>2, CellsFound, SMTT(60)
<1> QED BY <1>2, <1>3, <1>4

\* DeleteCell takes one address out.
LEMMA CellTaken ==
  ASSUME WellStored, NEW p \in Position, Store!DeleteCell(p)
  PROVE  /\ Cell(p) # Null /\ reply' = "Ok" /\ WellStored' /\ UNCHANGED <<LTC, RBC>>
         /\ cells' = <<>> => cells = <<>>
         /\ \A q \in Position : Cell(q)' = IF q = p THEN Null ELSE Cell(q)
<1>1. /\ Proved!Cell(p) # Proved!Null /\ cells' = Proved!Put(p, Proved!Null) /\ reply' = "Ok"
      /\ UNCHANGED <<LTC, RBC>> /\ Cell(p) # Null
  BY DEF Store!DeleteCell, Cell, Store!Cell, Proved!Cell, Store!Null, Proved!Null, Null,
         Store!Put, Proved!Put
<1>2. /\ WellStored'
      /\ \A q \in Position : Proved!CellAt(cells', LTC', q)
           = IF q = p THEN Null ELSE Proved!CellAt(cells, LTC, q)
  BY <1>1, StoreAssumptions, Proved!SlotChanged DEF WellStored, Proved!Slot
<1>3. cells' = <<>> => cells = <<>>
  <2>1. DOMAIN cells' = DOMAIN cells BY <1>1 DEF Proved!Put
  <2>2. DOMAIN <<>> = {} OBVIOUS
  <2>3. DOMAIN cells = 1 .. Len(cells) /\ Len(cells) \in Nat /\ (cells = <<>> <=> Len(cells) = 0)
    BY StorageShape
  <2>4. cells # <<>> => 1 \in DOMAIN cells BY <2>3
  <2> QED BY <2>1, <2>2, <2>4
<1> QED BY <1>1, <1>2, <1>3, CellsFound
-----------------------------------------------------------------------------
(* Moving cells.                                                            *)

\* Where an insertion and a deletion take each position.
Insertion(axis, before, count) == [p \in Place \cup {Gone} |-> InsertedAt(p, axis, before, count)]
Deletion(axis, first, count) == [p \in Place \cup {Gone} |-> DeletedAt(p, axis, first, count)]

\* A map along which positions move, and may be lost, without meeting.
Moves(To) ==
  /\ To \in [Place \cup {Gone} -> Place \cup {Gone}] /\ To[Gone] = Gone
  /\ \A p, q \in Place : To[p] = To[q] /\ To[p] # Gone => p = q

\* The step moves every cell along the map, or frees it where the map loses it,
\* and puts no other cell anywhere.
CellsMove(To) ==
  /\ \A p \in Position : Cell(p) # Null /\ To[p] # Gone => To[p] \in Position /\ Cell(To[p])' = Cell(p)
  /\ \A q \in Position : Cell(q)' # Null => \E p \in Position : To[p] = q /\ Cell(p) = Cell(q)'

\* The step takes the far corner, which CheckCellsSize goes by, along with all
\* that is not beyond it, whether there is a cell or not.
CornerMoves(To) ==
  /\ Behind => Behind'
  /\ cells # <<>> =>
       \A q \in Place : q.row <= RBC.row /\ q.col <= RBC.col /\ To[q] # Gone =>
                          To[q].row <= RBC'.row /\ To[q].col <= RBC'.col

LEMMA PositionsArePlaces ==
  /\ Position \subseteq Place
  /\ \A p \in Position : /\ p.row \in 0 .. kMaxRows - 1 /\ p.col \in 0 .. kMaxCols - 1
                         /\ p = [row |-> p.row, col |-> p.col] /\ p # Gone
BY StoreAssumptions DEF Position, Store!Position, Place, Gone

\* The maps, by axis.
LEMMA MapsByAxis ==
  ASSUME NEW q \in Place, NEW at \in Nat, NEW count \in Nat
  PROVE  /\ q["row"] = q.row /\ q["col"] = q.col
         /\ InsertedAt(q, "row", at, count) =
              IF q.row < at THEN q ELSE [row |-> q.row + count, col |-> q.col]
         /\ InsertedAt(q, "col", at, count) =
              IF q.col < at THEN q ELSE [row |-> q.row, col |-> q.col + count]
         /\ DeletedAt(q, "row", at, count) = IF q.row < at THEN q
                                             ELSE IF q.row < at + count THEN Gone
                                             ELSE [row |-> q.row - count, col |-> q.col]
         /\ DeletedAt(q, "col", at, count) = IF q.col < at THEN q
                                             ELSE IF q.col < at + count THEN Gone
                                             ELSE [row |-> q.row, col |-> q.col - count]
<1>1. q.row \in Nat /\ q.col \in Nat BY DEF Place
<1>2. /\ \A n : [q EXCEPT !["row"] = n] = [row |-> n, col |-> q.col]
      /\ \A n : [q EXCEPT !["col"] = n] = [row |-> q.row, col |-> n]
  BY DEF Place
<1>3. /\ [q EXCEPT !["row"] = q.row + count] = [row |-> q.row + count, col |-> q.col]
      /\ [q EXCEPT !["col"] = q.col + count] = [row |-> q.row, col |-> q.col + count]
      /\ [q EXCEPT !["row"] = q.row - count] = [row |-> q.row - count, col |-> q.col]
      /\ [q EXCEPT !["col"] = q.col - count] = [row |-> q.row, col |-> q.col - count]
  BY <1>2
<1>4. /\ q.row >= at <=> ~ q.row < at
      /\ q.col >= at <=> ~ q.col < at
      /\ q.row <= at + count - 1 <=> q.row < at + count
      /\ q.col <= at + count - 1 <=> q.col < at + count
  BY <1>1
<1>5. q["row"] = q.row /\ q["col"] = q.col OBVIOUS
<1>6. InsertedAt(q, "row", at, count) = IF q.row < at THEN q ELSE [row |-> q.row + count, col |-> q.col]
  BY <1>3, <1>4 DEF InsertedAt
<1>7. InsertedAt(q, "col", at, count) = IF q.col < at THEN q ELSE [row |-> q.row, col |-> q.col + count]
  BY <1>3, <1>4 DEF InsertedAt
<1>8. DeletedAt(q, "row", at, count) = IF q.row < at THEN q
                                       ELSE IF q.row < at + count THEN Gone
                                       ELSE [row |-> q.row - count, col |-> q.col]
  BY <1>3, <1>4 DEF DeletedAt
<1>9. DeletedAt(q, "col", at, count) = IF q.col < at THEN q
                                       ELSE IF q.col < at + count THEN Gone
                                       ELSE [row |-> q.row, col |-> q.col - count]
  BY <1>3, <1>4 DEF DeletedAt
<1> QED BY <1>5, <1>6, <1>7, <1>8, <1>9

LEMMA BelowByAxis ==
  ASSUME NEW q \in Position, NEW n \in Int
  PROVE  /\ Proved!Below(q, "row", n) = [row |-> q.row - n, col |-> q.col]
         /\ Proved!Below(q, "col", n) = [row |-> q.row, col |-> q.col - n]
BY StoreAssumptions, Proved!PositionMoves

\* A record of the right fields is a position.
LEMMA PositionFields ==
  ASSUME NEW i \in Int, NEW j \in Int
  PROVE  [row |-> i, col |-> j] \in Position <=> i \in 0 .. kMaxRows - 1 /\ j \in 0 .. kMaxCols - 1
BY DEF Position, Store!Position

LEMMA InsertionIsMove ==
  ASSUME NEW axis \in Axes, NEW before \in Nat, NEW count \in Nat
  PROVE  /\ Moves(Insertion(axis, before, count))
         /\ \A p \in Place : Insertion(axis, before, count)[p] # Gone
<1> DEFINE To == Insertion(axis, before, count)
<1>1. \A p \in Place \cup {Gone} : To[p] = InsertedAt(p, axis, before, count) BY DEF Insertion
<1>2. \A p, q \in Place \cup {Gone} :
        /\ To[p] \in Place \cup {Gone} /\ (To[p] = Gone <=> p = Gone)
        /\ Less(p, q) => Less(To[p], To[q])
  BY <1>1, InsertionKeepsOrder
<1>3. To = [p \in Place \cup {Gone} |-> To[p]] BY DEF Insertion
<1>4. Gone \notin Place BY DEF Gone, Place
<1> HIDE DEF To
<1>5. \A p, q \in Place : To[p] = To[q] => p = q BY <1>2, LessOrders
<1> QED BY <1>2, <1>3, <1>4, <1>5 DEF Moves, To

LEMMA DeletionIsMove ==
  ASSUME NEW axis \in Axes, NEW first \in Nat, NEW count \in Nat
  PROVE  /\ Moves(Deletion(axis, first, count))
         /\ \A p \in Place : Deletion(axis, first, count)[p] = Gone <=> Deletes(p, axis, first, count)
<1> DEFINE To == Deletion(axis, first, count)
<1>1. \A p \in Place \cup {Gone} : To[p] = DeletedAt(p, axis, first, count) BY DEF Deletion
<1>2. \A p, q \in Place \cup {Gone} :
        /\ To[p] \in Place \cup {Gone}
        /\ To[p] = Gone <=> p = Gone \/ Deletes(p, axis, first, count)
        /\ Less(p, q) /\ To[p] # Gone /\ To[q] # Gone => Less(To[p], To[q])
  BY <1>1, DeletionKeepsOrder
<1>3. To = [p \in Place \cup {Gone} |-> To[p]] BY DEF Deletion
<1>4. Gone \notin Place BY DEF Gone, Place
<1> HIDE DEF To
<1>5. \A p, q \in Place : To[p] = To[q] /\ To[p] # Gone => p = q BY <1>2, LessOrders
<1> QED BY <1>2, <1>3, <1>4, <1>5 DEF Moves, To

\* An insertion moves a position away from where Below finds it again, and so
\* does a deletion.
LEMMA InsertionBack ==
  ASSUME NEW axis \in Axes, NEW at \in Nat, NEW count \in Nat \ {0}, NEW q \in Position
  PROVE  LET Back(x) == Proved!Below(x, axis, count)
             To(x) == InsertedAt(x, axis, at, count)
         IN  /\ q[axis] >= at + count => Back(q) \in Position /\ To(Back(q)) = q
             /\ q[axis] >= at /\ q[axis] + count < (IF axis = "row" THEN kMaxRows ELSE kMaxCols) =>
                  To(q) \in Position /\ To(q)[axis] >= at + count /\ Back(To(q)) = q
<1> DEFINE Back(x) == Proved!Below(x, axis, count)
           To(x) == InsertedAt(x, axis, at, count)
<1>1. /\ q.row \in 0 .. kMaxRows - 1 /\ q.col \in 0 .. kMaxCols - 1 /\ q \in Place
      /\ q = [row |-> q.row, col |-> q.col] /\ kMaxRows \in Nat /\ kMaxCols \in Nat
  BY PositionsArePlaces, StoreAssumptions
<1>2. CASE axis = "row"
  <2>1. ASSUME q.row >= at + count PROVE Back(q) \in Position /\ To(Back(q)) = q
    <3>1. Back(q) = [row |-> q.row - count, col |-> q.col] BY <1>2, BelowByAxis
    <3>2. Back(q) \in Position /\ Back(q) \in Place
      BY <1>1, <2>1, <3>1, PositionFields, PositionsArePlaces
    <3>3. To(Back(q)) = [row |-> Back(q).row + count, col |-> Back(q).col]
      BY <1>1, <1>2, <2>1, <3>1, <3>2, MapsByAxis
    <3> QED BY <1>1, <3>1, <3>2, <3>3
  <2>2. ASSUME q.row >= at, q.row + count < kMaxRows
        PROVE  To(q) \in Position /\ To(q).row >= at + count /\ Back(To(q)) = q
    <3>1. To(q) = [row |-> q.row + count, col |-> q.col] BY <1>1, <1>2, <2>2, MapsByAxis
    <3>2. To(q) \in Position BY <1>1, <2>2, <3>1, PositionFields
    <3>3. Back(To(q)) = [row |-> To(q).row - count, col |-> To(q).col] BY <1>2, <3>2, BelowByAxis
    <3> QED BY <1>1, <2>2, <3>1, <3>2, <3>3
  <2> QED BY <1>2, <2>1, <2>2
<1>3. CASE axis = "col"
  <2>1. ASSUME q.col >= at + count PROVE Back(q) \in Position /\ To(Back(q)) = q
    <3>1. Back(q) = [row |-> q.row, col |-> q.col - count] BY <1>3, BelowByAxis
    <3>2. Back(q) \in Position /\ Back(q) \in Place
      BY <1>1, <2>1, <3>1, PositionFields, PositionsArePlaces
    <3>3. To(Back(q)) = [row |-> Back(q).row, col |-> Back(q).col + count]
      BY <1>1, <1>3, <2>1, <3>1, <3>2, MapsByAxis
    <3> QED BY <1>1, <3>1, <3>2, <3>3
  <2>2. ASSUME q.col >= at, q.col + count < kMaxCols
        PROVE  To(q) \in Position /\ To(q).col >= at + count /\ Back(To(q)) = q
    <3>1. To(q) = [row |-> q.row, col |-> q.col + count] BY <1>1, <1>3, <2>2, MapsByAxis
    <3>2. To(q) \in Position BY <1>1, <2>2, <3>1, PositionFields
    <3>3. Back(To(q)) = [row |-> To(q).row, col |-> To(q).col - count] BY <1>3, <3>2, BelowByAxis
    <3> QED BY <1>1, <2>2, <3>1, <3>2, <3>3
  <2> QED BY <1>3, <2>1, <2>2
<1> QED BY <1>2, <1>3 DEF Axes

LEMMA DeletionBack ==
  ASSUME NEW axis \in Axes, NEW at \in Nat, NEW count \in Nat \ {0}, NEW q \in Position
  PROVE  LET Back(x) == Proved!Below(x, axis, -count)
             To(x) == DeletedAt(x, axis, at, count)
         IN  /\ q[axis] >= at /\ Back(q) \in Position => To(Back(q)) = q
             /\ q[axis] >= at /\ To(q) # Gone =>
                  To(q) \in Position /\ To(q)[axis] >= at /\ Back(To(q)) = q
<1> DEFINE Back(x) == Proved!Below(x, axis, -count)
           To(x) == DeletedAt(x, axis, at, count)
<1>1. /\ q.row \in 0 .. kMaxRows - 1 /\ q.col \in 0 .. kMaxCols - 1 /\ q \in Place
      /\ q = [row |-> q.row, col |-> q.col] /\ kMaxRows \in Nat /\ kMaxCols \in Nat
      /\ -count \in Int
  BY PositionsArePlaces, StoreAssumptions
<1>2. CASE axis = "row"
  <2>1. ASSUME q.row >= at, Back(q) \in Position PROVE To(Back(q)) = q
    <3>1. Back(q) = [row |-> q.row + count, col |-> q.col] BY <1>1, <1>2, BelowByAxis
    <3>2. Back(q) \in Place BY <2>1, PositionsArePlaces
    <3>3. To(Back(q)) = [row |-> Back(q).row - count, col |-> Back(q).col]
      BY <1>1, <1>2, <2>1, <3>1, <3>2, MapsByAxis, SMTT(60)
    <3> QED BY <1>1, <3>1, <3>3
  <2>2. ASSUME q.row >= at, To(q) # Gone
        PROVE  To(q) \in Position /\ To(q).row >= at /\ Back(To(q)) = q
    <3>1. To(q) = [row |-> q.row - count, col |-> q.col] /\ q.row >= at + count
      BY <1>1, <1>2, <2>2, MapsByAxis
    <3>2. To(q) \in Position BY <1>1, <2>2, <3>1, PositionFields
    <3>3. Back(To(q)) = [row |-> To(q).row + count, col |-> To(q).col]
      BY <1>1, <1>2, <3>1, <3>2, BelowByAxis
    <3> QED BY <1>1, <2>2, <3>1, <3>2, <3>3
  <2> QED BY <1>2, <2>1, <2>2
<1>3. CASE axis = "col"
  <2>1. ASSUME q.col >= at, Back(q) \in Position PROVE To(Back(q)) = q
    <3>1. Back(q) = [row |-> q.row, col |-> q.col + count] BY <1>1, <1>3, BelowByAxis
    <3>2. Back(q) \in Place BY <2>1, PositionsArePlaces
    <3>3. To(Back(q)) = [row |-> Back(q).row, col |-> Back(q).col - count]
      BY <1>1, <1>3, <2>1, <3>1, <3>2, MapsByAxis
    <3> QED BY <1>1, <3>1, <3>3
  <2>2. ASSUME q.col >= at, To(q) # Gone
        PROVE  To(q) \in Position /\ To(q).col >= at /\ Back(To(q)) = q
    <3>1. To(q) = [row |-> q.row, col |-> q.col - count] /\ q.col >= at + count
      BY <1>1, <1>3, <2>2, MapsByAxis
    <3>2. To(q) \in Position BY <1>1, <2>2, <3>1, PositionFields
    <3>3. Back(To(q)) = [row |-> To(q).row, col |-> To(q).col + count]
      BY <1>1, <1>3, <3>1, <3>2, BelowByAxis
    <3> QED BY <1>1, <2>2, <3>1, <3>2, <3>3
  <2> QED BY <1>3, <2>1, <2>2
<1> QED BY <1>2, <1>3 DEF Axes

\* What is found after an insertion into the storage has moved along the map.
LEMMA InsertedCellsMove ==
  ASSUME WellStored, WellStored', NEW axis \in Axes, NEW before \in Nat, NEW count \in Nat \ {0},
         Proved!InsertedAt(cells, LTC, cells', LTC', axis, before, count),
         \A p \in Position : Cell(p) # Null =>
           p[axis] + count < (IF axis = "row" THEN kMaxRows ELSE kMaxCols)
  PROVE  CellsMove(Insertion(axis, before, count))
<1> DEFINE To == Insertion(axis, before, count)
           Back(q) == Proved!Below(q, axis, count)
<1>1. \A p \in Position : /\ Cell(p) = Proved!CellAt(cells, LTC, p)
                          /\ Cell(p)' = Proved!CellAt(cells', LTC', p)
  BY CellsFound
<1>2. \A q \in Position : /\ q[axis] \in Nat /\ To[q] = InsertedAt(q, axis, before, count)
                          /\ q[axis] < before => To[q] = q
  BY PositionsArePlaces, MapsByAxis DEF Insertion, Axes
<1>3. \A q \in Position :
        Cell(q)' = IF q[axis] < before THEN Cell(q)
                   ELSE IF q[axis] < before + count THEN Null
                   ELSE Proved!CellAt(cells, LTC, Back(q))
  BY <1>1, StoreAssumptions DEF Proved!InsertedAt
<1>4. ASSUME NEW q \in Position, q[axis] >= before + count
      PROVE  Back(q) \in Position /\ InsertedAt(Back(q), axis, before, count) = q
  BY <1>4, <1>2, InsertionBack
<1>5. ASSUME NEW p \in Position, p[axis] >= before, Cell(p) # Null
      PROVE  To[p] \in Position /\ To[p][axis] >= before + count /\ Back(To[p]) = p
  BY <1>5, <1>2, InsertionBack
<1>6. ASSUME NEW p \in Position, Cell(p) # Null
      PROVE  To[p] \in Position /\ Cell(To[p])' = Cell(p)
  <2>1. CASE p[axis] < before BY <1>2, <1>3, <2>1
  <2>2. CASE p[axis] >= before
    <3>1. ~ To[p][axis] < before /\ ~ To[p][axis] < before + count /\ To[p] \in Position
      BY <1>2, <1>5, <1>6, <2>2
    <3> QED BY <1>1, <1>3, <1>5, <1>6, <2>2, <3>1
  <2> QED BY <1>2, <2>1, <2>2
<1>7. ASSUME NEW q \in Position, Cell(q)' # Null
      PROVE  \E p \in Position : To[p] = q /\ Cell(p) = Cell(q)'
  <2>1. CASE q[axis] < before BY <1>2, <1>3, <2>1
  <2>2. CASE q[axis] >= before + count
    <3>1. /\ Back(q) \in Position /\ To[Back(q)] = q /\ ~ q[axis] < before
          /\ ~ q[axis] < before + count
      BY <1>2, <1>4, <2>2
    <3> QED BY <1>1, <1>3, <3>1
  <2> QED BY <1>2, <1>3, <1>7, <2>1, <2>2
<1> QED BY <1>6, <1>7 DEF CellsMove

\* And after a deletion.
LEMMA DeletedCellsMove ==
  ASSUME WellStored, WellStored', NEW axis \in Axes, NEW first \in Nat, NEW count \in Nat \ {0},
         Proved!DeletedAt(cells, LTC, cells', LTC', axis, first, count)
  PROVE  CellsMove(Deletion(axis, first, count))
<1> DEFINE To == Deletion(axis, first, count)
           Back(q) == Proved!Below(q, axis, -count)
<1>1. \A p \in Position : /\ Cell(p) = Proved!CellAt(cells, LTC, p)
                          /\ Cell(p)' = Proved!CellAt(cells', LTC', p)
  BY CellsFound
<1>2. \A q \in Position : /\ q[axis] \in Nat /\ To[q] = DeletedAt(q, axis, first, count)
                          /\ q[axis] < first => To[q] = q
  BY PositionsArePlaces, MapsByAxis DEF Deletion, Axes
<1>3. \A q \in Position :
        Cell(q)' = IF q[axis] < first THEN Cell(q)
                   ELSE IF Back(q) \in Position THEN Proved!CellAt(cells, LTC, Back(q))
                   ELSE Null
  BY <1>1, StoreAssumptions DEF Proved!DeletedAt
<1>4. ASSUME NEW q \in Position, q[axis] >= first, Back(q) \in Position
      PROVE  DeletedAt(Back(q), axis, first, count) = q
  BY <1>4, <1>2, DeletionBack
<1>5. ASSUME NEW p \in Position, p[axis] >= first, To[p] # Gone
      PROVE  To[p] \in Position /\ To[p][axis] >= first /\ Back(To[p]) = p
  BY <1>5, <1>2, DeletionBack
<1>6. ASSUME NEW p \in Position, Cell(p) # Null, To[p] # Gone
      PROVE  To[p] \in Position /\ Cell(To[p])' = Cell(p)
  <2>1. CASE p[axis] < first BY <1>2, <1>3, <2>1
  <2>2. CASE p[axis] >= first
    <3>1. ~ To[p][axis] < first /\ To[p] \in Position BY <1>2, <1>5, <1>6, <2>2
    <3> QED BY <1>1, <1>3, <1>5, <1>6, <2>2, <3>1
  <2> QED BY <1>2, <2>1, <2>2
<1>7. ASSUME NEW q \in Position, Cell(q)' # Null
      PROVE  \E p \in Position : To[p] = q /\ Cell(p) = Cell(q)'
  <2>1. CASE q[axis] < first BY <1>2, <1>3, <2>1
  <2>2. CASE q[axis] >= first
    <3>1. Back(q) \in Position BY <1>2, <1>3, <1>7, <2>2
    <3>2. To[Back(q)] = q BY <1>2, <1>4, <2>2, <3>1
    <3>3. Cell(q)' = Cell(Back(q)) BY <1>1, <1>2, <1>3, <2>2, <3>1
    <3> QED BY <3>1, <3>2, <3>3
  <2> QED BY <1>2, <2>1, <2>2
<1> QED BY <1>6, <1>7 DEF CellsMove

\* No cell is beyond the corner that CheckCellsSize looks at.
LEMMA CellsWithin ==
  ASSUME WellStored, NEW p \in Position, Cell(p) # Null
  PROVE  /\ p.row <= RBC.row /\ p.col <= RBC.col /\ p["row"] = p.row /\ p["col"] = p.col
         /\ RBC.row \in Int /\ RBC.col \in Int /\ LTC.col \in Nat
<1>1. p.row \in Nat /\ p.col \in Nat BY PositionsArePlaces
<1>2. RBC.row \in Int /\ RBC.col \in Int /\ LTC.col \in Nat BY DEF WellStored, Proved!Enclosed
<1>3. Proved!CellAt(cells, LTC, p) # Proved!Null BY CellsFound, StoreAssumptions
<1>4. ~ (p.row > RBC.row) /\ ~ (p.col > RBC.col)
  BY <1>3, StoreAssumptions, Proved!NothingOutside DEF WellStored
<1> QED BY <1>1, <1>2, <1>4

\* CreateRows, when the table is big enough.
LEMMA RowsMove ==
  ASSUME WellStored, NEW before \in Nat, NEW count \in Nat \ {0},
         Store!CheckCellsSize(count, 0), Store!CreateRows(before, count)
  PROVE  /\ WellStored' /\ reply' = "Ok"
         /\ CellsMove(Insertion("row", before, count)) /\ CornerMoves(Insertion("row", before, count))
<1>1. Proved!CreateRows(before, count) /\ reply' = "Ok"
  BY StoreAssumptions
  DEF Store!CreateRows, Proved!CreateRows, Store!CheckCellsSize, Proved!CheckCellsSize, Store!TooBig,
      Proved!TooBig, Store!Refuse, Proved!Refuse, Store!RowOffset, Proved!RowOffset,
      Store!InsertedInto, Proved!InsertedInto, Store!Emptys, Proved!Emptys, Store!Larger, Proved!Larger
<1>2. /\ WellStored'
      /\ Proved!InsertedAt(cells, LTC, cells', LTC', "row", before, count)
  BY <1>1, StoreAssumptions, Proved!RowsCreated DEF WellStored
<1>3. \A p \in Position : Cell(p) # Null => p["row"] + count < kMaxRows
  <2> TAKE p \in Position
  <2>1. HAVE Cell(p) # Null
  <2>2. ~ (RBC.row + count >= kMaxRows) BY DEF Store!CheckCellsSize, Store!TooBig
  <2> QED BY <2>1, <2>2, CellsWithin, PositionsArePlaces, StoreAssumptions
<1>4. "row" \in Axes BY DEF Axes
<1>5. CornerMoves(Insertion("row", before, count))
  <2> DEFINE To == Insertion("row", before, count)
  <2>1. /\ cells' = <<>> => cells = <<>>
        /\ cells = <<>> => UNCHANGED <<LTC, RBC>>
        /\ \A i \in Nat : cells # <<>> /\ i <= RBC.row =>
             RBC'.col = RBC.col /\ (IF i < before THEN i ELSE i + count) <= RBC'.row
    <3>1. 0 \in Nat OBVIOUS
    <3> QED BY <1>1, <3>1, StoreAssumptions, Proved!CornerInserted DEF WellStored
  <2>2. ASSUME NEW q \in Place, cells # <<>>, q.row <= RBC.row, q.col <= RBC.col
        PROVE  To[q].row <= RBC'.row /\ To[q].col <= RBC'.col
    <3>1. q.row \in Nat BY DEF Place
    <3>2. To[q] = IF q.row < before THEN q ELSE [row |-> q.row + count, col |-> q.col]
      BY MapsByAxis DEF Insertion
    <3> QED BY <2>1, <2>2, <3>1, <3>2
  <2> QED BY <2>1, <2>2 DEF CornerMoves, Behind
<1> QED BY <1>1, <1>2, <1>3, <1>4, <1>5, InsertedCellsMove

\* CreateCols, where it puts the slots in the right place.
LEMMA ColsMove ==
  ASSUME WellStored, NEW before \in Nat, NEW count \in Nat \ {0},
         Store!CheckCellsSize(0, count), Store!CreateCols(before, count),
         ~ (LTC.col > 0 /\ before \in LTC.col .. RBC.col)
  PROVE  /\ WellStored' /\ reply' = "Ok"
         /\ CellsMove(Insertion("col", before, count)) /\ CornerMoves(Insertion("col", before, count))
<1>1. Proved!CreateCols(before, count) /\ reply' = "Ok"
  BY StoreAssumptions
  DEF Store!CreateCols, Proved!CreateCols, Store!CheckCellsSize, Proved!CheckCellsSize, Store!TooBig,
      Proved!TooBig, Store!Refuse, Proved!Refuse, Store!InsertedInto, Proved!InsertedInto,
      Store!Nulls, Proved!Nulls, Store!Null, Proved!Null, Store!Larger, Proved!Larger
<1>2. LTC.col = 0 \/ before < LTC.col \/ before > RBC.col
  BY DEF WellStored, Proved!Enclosed
<1>3. /\ WellStored'
      /\ Proved!InsertedAt(cells, LTC, cells', LTC', "col", before, count)
  BY <1>1, <1>2, StoreAssumptions, Proved!ColsCreated DEF WellStored
<1>4. \A p \in Position : Cell(p) # Null => p["col"] + count < kMaxCols
  <2> TAKE p \in Position
  <2>1. HAVE Cell(p) # Null
  <2>2. ~ (RBC.col + count >= kMaxCols) BY DEF Store!CheckCellsSize, Store!TooBig
  <2> QED BY <2>1, <2>2, CellsWithin, PositionsArePlaces, StoreAssumptions
<1>5. "col" \in Axes BY DEF Axes
<1>6. CornerMoves(Insertion("col", before, count))
  <2> DEFINE To == Insertion("col", before, count)
  <2>1. /\ cells' = <<>> => cells = <<>>
        /\ cells = <<>> => UNCHANGED <<LTC, RBC>>
        /\ \A i \in Nat : cells # <<>> /\ i <= RBC.col =>
             RBC'.row = RBC.row /\ (IF i < before THEN i ELSE i + count) <= RBC'.col
    <3>1. 0 \in Nat OBVIOUS
    <3> QED BY <1>1, <3>1, StoreAssumptions, Proved!CornerInserted DEF WellStored
  <2>2. ASSUME NEW q \in Place, cells # <<>>, q.row <= RBC.row, q.col <= RBC.col
        PROVE  To[q].row <= RBC'.row /\ To[q].col <= RBC'.col
    <3>1. q.col \in Nat BY DEF Place
    <3>2. To[q] = IF q.col < before THEN q ELSE [row |-> q.row, col |-> q.col + count]
      BY MapsByAxis DEF Insertion
    <3> QED BY <2>1, <2>2, <3>1, <3>2
  <2> QED BY <2>1, <2>2 DEF CornerMoves, Behind
<1> QED BY <1>1, <1>3, <1>4, <1>5, <1>6, InsertedCellsMove

\* EraseRows, where it counts from the right row, unless the code is undefined.
LEMMA RowsGo ==
  ASSUME WellStored, NEW first \in Nat, NEW count \in Nat \ {0},
         Store!EraseRows(first, count), ~ (LTC.row > 0 /\ first + count > LTC.row)
  PROVE  /\ reply' = "Undefined" => UNCHANGED <<cells, LTC, RBC>>
         /\ reply' # "Undefined" =>
              reply' = "Ok" /\ WellStored' /\ CellsMove(Deletion("row", first, count))
         /\ Behind => reply' = "Ok" /\ CornerMoves(Deletion("row", first, count))
<1>1. Proved!EraseRows(first, count)
  BY DEF Store!EraseRows, Proved!EraseRows, Store!Larger, Proved!Larger, Store!Lesser, Proved!Lesser,
         Store!EraseInside, Proved!EraseInside, Store!Erased, Proved!Erased,
         Store!Undefined, Proved!Undefined
<1>2. /\ reply' = "Undefined" => UNCHANGED <<cells, LTC, RBC>>
      /\ reply' # "Undefined" => reply' = "Ok"
  BY DEF Store!EraseRows, Store!Undefined
<1>3. first >= LTC.row \/ first + count <= LTC.row BY DEF WellStored, Proved!Enclosed
<1>4. /\ WellStored'
      /\ reply' = "Ok" => Proved!DeletedAt(cells, LTC, cells', LTC', "row", first, count)
  BY <1>1, <1>3, StoreAssumptions, Proved!RowsErased DEF WellStored
<1>5. "row" \in Axes BY DEF Axes
<1>6. ASSUME Behind PROVE reply' = "Ok" /\ CornerMoves(Deletion("row", first, count))
  <2> DEFINE To == Deletion("row", first, count)
  <2>1. LTC.row = 0 \/ first + count <= LTC.row BY DEF WellStored, Proved!Enclosed
  <2>2. /\ reply' = "Ok" /\ (cells' = <<>> => RBC'.row < LTC'.row)
        /\ cells # <<>> => /\ RBC'.col = RBC.col
                           /\ \A i \in Nat : i <= RBC.row /\ i < first => i <= RBC'.row
                           /\ \A i \in Nat : i <= RBC.row /\ i >= first + count => i - count <= RBC'.row
    BY <1>1, <1>6, <2>1, StoreAssumptions, Proved!RowCornerErased DEF WellStored, Behind
  <2>3. ASSUME NEW q \in Place, cells # <<>>, q.row <= RBC.row, q.col <= RBC.col, To[q] # Gone
        PROVE  To[q].row <= RBC'.row /\ To[q].col <= RBC'.col
    <3>1. q.row \in Nat BY DEF Place
    <3>2. To[q] = IF q.row < first THEN q ELSE IF q.row < first + count THEN Gone
                  ELSE [row |-> q.row - count, col |-> q.col]
      BY MapsByAxis DEF Deletion
    <3> QED BY <2>2, <2>3, <3>1, <3>2
  <2> QED BY <2>2, <2>3 DEF CornerMoves, Behind
<1> QED BY <1>2, <1>4, <1>5, <1>6, DeletedCellsMove

\* EraseCols, where it does not reach across the left edge.
LEMMA ColsGo ==
  ASSUME WellStored, NEW first \in Nat, NEW count \in Nat \ {0},
         Store!EraseCols(first, count), ~ (first < LTC.col /\ first + count > LTC.col)
  PROVE  /\ reply' = "Undefined" => UNCHANGED <<cells, LTC, RBC>>
         /\ reply' # "Undefined" =>
              /\ reply' = "Ok" /\ WellStored'
              /\ CellsMove(Deletion("col", first, count)) /\ CornerMoves(Deletion("col", first, count))
         /\ reply' = "Ok"
            \/ /\ first + count > LTC.col /\ first <= RBC.col
               /\ \E r \in DOMAIN cells :
                    LTC.col + Len(cells[r]) <= Store!Lesser(RBC.col, first + count - 1)
<1>1. Proved!EraseCols(first, count)
  BY DEF Store!EraseCols, Proved!EraseCols, Store!Larger, Proved!Larger, Store!Lesser, Proved!Lesser,
         Store!EraseInside, Proved!EraseInside, Store!Erased, Proved!Erased,
         Store!Undefined, Proved!Undefined
<1>2. /\ reply' = "Undefined" => UNCHANGED <<cells, LTC, RBC>>
      /\ reply' # "Undefined" => reply' = "Ok"
  BY DEF Store!EraseCols, Store!Undefined
<1>3. first >= LTC.col \/ first + count <= LTC.col BY DEF WellStored, Proved!Enclosed
<1>4. /\ WellStored'
      /\ reply' = "Ok" => Proved!DeletedAt(cells, LTC, cells', LTC', "col", first, count)
  BY <1>1, <1>3, StoreAssumptions, Proved!ColsErased DEF WellStored
<1>5. "col" \in Axes BY DEF Axes
<1>6. /\ LTC'.row = LTC.row /\ RBC'.row = RBC.row /\ (cells' = <<>> => cells = <<>>)
      /\ \/ reply' = "Ok"
         \/ /\ first + count > LTC.col /\ first <= RBC.col
            /\ \E r \in DOMAIN cells :
                 LTC.col + Len(cells[r]) <= Proved!Lesser(RBC.col, first + count - 1)
      /\ cells # <<>> /\ reply' = "Ok" =>
           /\ \A i \in Nat : i <= RBC.col /\ i < first => i <= RBC'.col
           /\ \A i \in Nat : i <= RBC.col /\ i >= first + count => i - count <= RBC'.col
  BY <1>1, <1>3, StoreAssumptions, Proved!ColCornerErased DEF WellStored
<1>7. ASSUME reply' = "Ok" PROVE CornerMoves(Deletion("col", first, count))
  <2> DEFINE To == Deletion("col", first, count)
  <2>1. ASSUME NEW q \in Place, cells # <<>>, q.row <= RBC.row, q.col <= RBC.col, To[q] # Gone
        PROVE  To[q].row <= RBC'.row /\ To[q].col <= RBC'.col
    <3>1. q.col \in Nat BY DEF Place
    <3>2. To[q] = IF q.col < first THEN q ELSE IF q.col < first + count THEN Gone
                  ELSE [row |-> q.row, col |-> q.col - count]
      BY MapsByAxis DEF Deletion
    <3> QED BY <1>6, <1>7, <2>1, <3>1, <3>2
  <2> QED BY <1>6, <2>1 DEF CornerMoves, Behind
<1>8. \A i, j : Proved!Lesser(i, j) = Store!Lesser(i, j) BY DEF Proved!Lesser, Store!Lesser
<1> QED BY <1>2, <1>4, <1>5, <1>6, <1>7, <1>8, DeletedCellsMove
-----------------------------------------------------------------------------
(* What a step that moves, frees or writes cells leaves.                    *)

\* A cell that is still owned keeps all but the pointers to those that are not.
LEMMA OwnedKept ==
  ASSUME NEW h, NEW m, Keep(h, m), NEW a \in Addresses, a \in Stored', Sound(h[a])
  PROVE  /\ Sound(heap[a])' /\ heap'[a].kind = h[a].kind /\ heap'[a].text = h[a].text
         /\ heap'[a].formula = h[a].formula /\ DOMAIN heap'[a].ptrs = DOMAIN h[a].ptrs
         /\ \A i \in DOMAIN h[a].ptrs :
              heap'[a].ptrs[i] = IF h[a].ptrs[i] \in Stored' THEN h[a].ptrs[i] ELSE Dangling
<1> DEFINE c == h[a]
           ptrs == [i \in DOMAIN c.ptrs |-> IF c.ptrs[i] \in Stored' THEN c.ptrs[i] ELSE Dangling]
<1>1. heap'[a] = [c EXCEPT !.ptrs = ptrs] BY DEF Keep, Stored
<1>2. c = Contents(c.kind, c.text, c.formula, c.ptrs) BY DEF Sound
<1>3. heap'[a] = Contents(c.kind, c.text, c.formula, ptrs) BY <1>1, <1>2 DEF Contents
<1>4. DOMAIN ptrs = DOMAIN c.ptrs OBVIOUS
<1>5. /\ heap'[a].kind = c.kind /\ heap'[a].text = c.text /\ heap'[a].formula = c.formula
      /\ heap'[a].ptrs = ptrs
  BY <1>3 DEF Contents
<1>6. Sound(heap'[a]) BY <1>3, <1>4, <1>5 DEF Sound
<1> QED BY <1>4, <1>5, <1>6

\* Any other is freed.
LEMMA OthersFreed ==
  ASSUME NEW h, NEW m, Keep(h, m)
  PROVE  DOMAIN heap' = Addresses /\ \A a \in Addresses : a \notin Stored' => heap'[a] = Free
BY DEF Keep, Stored

\* What a formula names, before a step and after it.
LEMMA NamesLeaf ==
  ASSUME NEW p, NEW q
  PROVE  /\ Names(p, q) <=> /\ p \in Position /\ Cell(p) # Null /\ IsFormula(Cell(p)) /\ q # Gone
                            /\ \E i \in DOMAIN heap[Cell(p)].formula.tree :
                                 heap[Cell(p)].formula.tree[i] = q
         /\ Names(p, q)' <=> /\ p \in Position /\ Cell(p)' # Null /\ IsFormula(Cell(p))' /\ q # Gone
                             /\ \E i \in DOMAIN heap'[Cell(p)'].formula.tree :
                                  heap'[Cell(p)'].formula.tree[i] = q
BY StoreAssumptions DEF Names, FormulaAt, Leaves, ToSet, IsFormula

\* It is a place, and the one that names it is in the storage.
LEMMA NamesPlaces ==
  ASSUME IInv, NEW p, NEW q, Names(p, q)
  PROVE  p \in Place /\ q \in Place /\ cells # <<>>
<1>1. p \in Position /\ Cell(p) # Null /\ q # Gone BY NamesLeaf
<1>2. PICK i \in DOMAIN heap[Cell(p)].formula.tree : heap[Cell(p)].formula.tree[i] = q BY NamesLeaf
<1>3. Cell(p) \in Addresses /\ Cell(p) \in Stored BY <1>1, CellsFound DEF IInv
<1>4. Consistent(heap[Cell(p)].formula) BY <1>3 DEF IInv, HeapSound, Sound
<1> QED BY <1>1, <1>2, <1>4, CellsAreRows, ListsOfFormula, PositionsArePlaces

LEMMA TreeHasLeaf ==
  ASSUME NEW f, Consistent(f), f.tree # <<>>
  PROVE  1 \in DOMAIN f.tree
<1> DEFINE s == f.tree
           S == Place \cup {Gone}
<1>1. s \in Seq(S) /\ s # <<>> BY DEF Consistent
<1> HIDE DEF s, S
<1>2. Len(s) \in Nat \ {0} /\ DOMAIN s = 1 .. Len(s) BY <1>1
<1>3. 1 \in DOMAIN s BY <1>2
<1> QED BY <1>3 DEF s

\* The handlers and the graphs follow the map.
FormulasMove(h, To) ==
  \A a \in Stored :
    /\ ~ IsFormula(a) => h[a] = heap[a]
    /\ IsFormula(a) =>
         /\ h[a] = [heap[a] EXCEPT !.formula = h[a].formula]
         /\ Consistent(h[a].formula)
         /\ h[a].formula.tree = [i \in DOMAIN heap[a].formula.tree |-> To[heap[a].formula.tree[i]]]

MovedAlong(edges, To) ==
  {<<To[e[1]], To[e[2]]>> : e \in {d \in edges : To[d[1]] # Gone /\ To[d[2]] # Gone}}

GraphsMove(To) == reference' = MovedAlong(reference, To) /\ dependency' = MovedAlong(dependency, To)

\* The step moves the sheet along the map: its cells and the far corner, its
\* formulas and its graphs.
AllMove(To) ==
  /\ Moves(To) /\ WellStored' /\ CellsMove(To) /\ CornerMoves(To) /\ GraphsMove(To)
  /\ \E h, m : Keep(h, m) /\ FormulasMove(h, To)

\* A cell that is not lost is what it was, its references moved and its pointers
\* as they were, or dangling if they led to a cell that is lost.
LEMMA MovedKept ==
  ASSUME IInv, NEW To, AllMove(To), NEW a \in Stored'
  PROVE  /\ a \in Stored /\ a \in Addresses /\ Sound(heap[a]) /\ Sound(heap[a])'
         /\ heap'[a].kind = heap[a].kind /\ heap'[a].text = heap[a].text
         /\ DOMAIN heap'[a].formula.tree = DOMAIN heap[a].formula.tree
         /\ \A i \in DOMAIN heap[a].formula.tree :
              heap'[a].formula.tree[i] = To[heap[a].formula.tree[i]]
         /\ DOMAIN heap'[a].ptrs = DOMAIN heap[a].ptrs
         /\ \A i \in DOMAIN heap[a].ptrs :
              heap'[a].ptrs[i] = IF heap[a].ptrs[i] \in Stored' THEN heap[a].ptrs[i] ELSE Dangling
<1>1. PICK h, m : Keep(h, m) /\ FormulasMove(h, To) BY DEF AllMove
<1>2. a \in Stored /\ a \in Addresses BY CellsFound DEF IInv, AllMove, CellsMove
<1> DEFINE c == heap[a]
<1>3. Sound(c) /\ c = Contents(c.kind, c.text, c.formula, c.ptrs) BY <1>2 DEF IInv, HeapSound, Sound
<1>4. /\ Sound(h[a]) /\ h[a].kind = c.kind /\ h[a].text = c.text /\ h[a].ptrs = c.ptrs
      /\ DOMAIN h[a].formula.tree = DOMAIN c.formula.tree
      /\ \A i \in DOMAIN c.formula.tree : h[a].formula.tree[i] = To[c.formula.tree[i]]
  <2>1. CASE ~ IsFormula(a)
    <3>1. h[a] = c BY <1>1, <1>2, <2>1 DEF FormulasMove
    <3>2. c.formula.tree = <<>> BY <1>3, <2>1 DEF Sound, IsFormula
    <3>3. DOMAIN <<>> = {} OBVIOUS
    <3> QED BY <1>3, <3>1, <3>2, <3>3
  <2>2. CASE IsFormula(a)
    <3>1. /\ h[a] = [c EXCEPT !.formula = h[a].formula] /\ Consistent(h[a].formula)
          /\ h[a].formula.tree = [i \in DOMAIN c.formula.tree |-> To[c.formula.tree[i]]]
      BY <1>1, <1>2, <2>2 DEF FormulasMove
    <3>2. h[a] = Contents(c.kind, c.text, h[a].formula, c.ptrs) BY <1>3, <3>1 DEF Contents
    <3>3. h[a].kind = c.kind /\ h[a].text = c.text /\ h[a].ptrs = c.ptrs BY <3>2 DEF Contents
    <3>4. DOMAIN h[a].formula.tree = DOMAIN c.formula.tree BY <3>1
    <3>5. c.kind \in {"text", "formula"} /\ DOMAIN c.ptrs = DOMAIN c.formula.tree
      BY <1>3 DEF Sound
    <3>6. h[a].kind = "formula" BY <2>2, <3>3 DEF IsFormula
    <3>7. Sound(h[a]) BY <3>1, <3>2, <3>3, <3>4, <3>5, <3>6 DEF Sound
    <3> QED BY <3>1, <3>3, <3>4, <3>7
  <2> QED BY <2>1, <2>2
<1>5. /\ Sound(heap[a])' /\ heap'[a].kind = h[a].kind /\ heap'[a].text = h[a].text
      /\ heap'[a].formula = h[a].formula /\ DOMAIN heap'[a].ptrs = DOMAIN h[a].ptrs
      /\ \A i \in DOMAIN h[a].ptrs :
           heap'[a].ptrs[i] = IF h[a].ptrs[i] \in Stored' THEN h[a].ptrs[i] ELSE Dangling
  BY <1>1, <1>2, <1>4, OwnedKept
<1> QED BY <1>2, <1>3, <1>4, <1>5

\* Everything a sheet keeps follows the cells along a map: the formulas do by
\* their handlers, the graphs by code of their own, and the pointers by standing
\* still.
LEMMA SheetMoves ==
  ASSUME IInv, NEW To, AllMove(To)
  PROVE  IInv'
<1>1. /\ \A p \in Position : Cell(p) \in Addresses \cup {Null} /\ p \in Place
      /\ \A a : a \in Stored <=> a # Null /\ \E p \in Position : Cell(p) = a
      /\ \A p \in Position : Cell(p)' \in Addresses \cup {Null}
      /\ \A a : a \in Stored' <=> a # Null /\ \E p \in Position : Cell(p)' = a
      /\ Null \notin Addresses /\ Dangling \notin Addresses
  BY CellsFound, PositionsArePlaces, StoreAssumptions DEF IInv, AllMove
<1>2. /\ \A p, q \in Position : Cell(p) = Cell(q) /\ Cell(p) # Null => p = q
      /\ \A a \in Stored : Sound(heap[a])
      /\ \A p, q \in Place : To[p] = To[q] /\ To[p] # Gone => p = q
      /\ \A p \in Position : Cell(p) # Null /\ To[p] # Gone =>
           To[p] \in Position /\ Cell(To[p])' = Cell(p)
      /\ \A q \in Position : Cell(q)' # Null => \E p \in Position : To[p] = q /\ Cell(p) = Cell(q)'
      /\ To[Gone] = Gone /\ Gone \notin Place
  BY <1>1 DEF IInv, OneOwner, HeapSound, AllMove, Moves, CellsMove, Gone, Place
<1>3. \A a \in Stored' : a \in Stored /\ a \in Addresses BY <1>1, <1>2
<1>4. OneOwner'
  <2> SUFFICES ASSUME NEW p \in Position, NEW q \in Position, Cell(p)' = Cell(q)', Cell(p)' # Null
               PROVE  p = q
    BY DEF OneOwner
  <2>1. PICK x \in Position : To[x] = p /\ Cell(x) = Cell(p)' BY <1>2
  <2>2. PICK y \in Position : To[y] = q /\ Cell(y) = Cell(q)' BY <1>2
  <2> QED BY <1>2, <2>1, <2>2
<1>5. ASSUME NEW a \in Stored'
      PROVE  /\ a \in Stored /\ Sound(heap[a])' /\ heap'[a].kind = heap[a].kind
             /\ DOMAIN heap'[a].formula.tree = DOMAIN heap[a].formula.tree
             /\ \A i \in DOMAIN heap[a].formula.tree :
                  heap'[a].formula.tree[i] = To[heap[a].formula.tree[i]]
             /\ DOMAIN heap'[a].ptrs = DOMAIN heap[a].ptrs
             /\ \A i \in DOMAIN heap[a].ptrs :
                  heap'[a].ptrs[i] = IF heap[a].ptrs[i] \in Stored' THEN heap[a].ptrs[i] ELSE Dangling
  BY MovedKept
<1>6. HeapSound'
  <2>1. PICK h, m : Keep(h, m) BY DEF AllMove
  <2> QED BY <1>5, <2>1, OthersFreed DEF HeapSound
<1>7. PointersSound'
  <2> SUFFICES ASSUME NEW a \in Stored', NEW i \in DOMAIN heap'[a].ptrs, heap'[a].ptrs[i] # Dangling
               PROVE  /\ heap'[a].ptrs[i] # Null
                      /\ \E q \in Position : heap'[a].formula.tree[i] = q /\ Cell(q)' = heap'[a].ptrs[i]
    BY DEF PointersSound, PointerSound
  <2> DEFINE q == heap[a].formula.tree[i]
  <2>1. a \in Stored /\ PointerSound(a) /\ Sound(heap[a]) BY <1>2, <1>3 DEF IInv, PointersSound
  <2>2. i \in DOMAIN heap[a].ptrs /\ heap'[a].ptrs[i] = heap[a].ptrs[i] /\ heap[a].ptrs[i] \in Stored'
    BY <1>5
  <2>3. q \in Position /\ Cell(q) = heap[a].ptrs[i] /\ Cell(q) # Null
    BY <1>1, <2>1, <2>2 DEF PointerSound
  <2>4. PICK z \in Position : Cell(z)' = Cell(q) BY <1>1, <2>2, <2>3
  <2>5. To[q] = z /\ z # Gone BY <1>1, <1>2, <2>3, <2>4
  <2>6. IsFormula(a) /\ i \in DOMAIN heap[a].formula.tree BY <2>1, <2>2 DEF Sound, IsFormula
  <2>7. heap'[a].formula.tree[i] = z BY <1>5, <2>5, <2>6
  <2> QED BY <2>2, <2>3, <2>4, <2>7
<1>8. ASSUME NEW P, NEW Q
      PROVE  Names(P, Q)' <=> \E p, q : Names(p, q) /\ To[p] = P /\ To[q] = Q /\ P # Gone /\ Q # Gone
  <2>1. ASSUME Names(P, Q)'
        PROVE  \E p, q : Names(p, q) /\ To[p] = P /\ To[q] = Q /\ P # Gone /\ Q # Gone
    <3>1. P \in Position /\ Cell(P)' # Null /\ heap'[Cell(P)'].kind = "formula" /\ Q # Gone
      BY <2>1, NamesLeaf DEF IsFormula
    <3>2. PICK i \in DOMAIN heap'[Cell(P)'].formula.tree : heap'[Cell(P)'].formula.tree[i] = Q
      BY <2>1, NamesLeaf
    <3>3. PICK p \in Position : To[p] = P /\ Cell(p) = Cell(P)' BY <1>2, <3>1
    <3>4. Cell(p) \in Stored' BY <1>1, <3>1, <3>3
    <3> DEFINE q == heap[Cell(p)].formula.tree[i]
    <3>5. IsFormula(Cell(p)) /\ i \in DOMAIN heap[Cell(p)].formula.tree /\ To[q] = Q
      BY <1>5, <3>1, <3>2, <3>3, <3>4 DEF IsFormula
    <3>6. q # Gone BY <1>2, <3>1, <3>5
    <3>7. Names(p, q) BY <3>1, <3>3, <3>5, <3>6, NamesLeaf
    <3>8. P # Gone BY <1>1, <1>2, <3>1
    <3> QED BY <3>1, <3>3, <3>5, <3>7, <3>8
  <2>2. ASSUME NEW p, NEW q, Names(p, q), To[p] = P, To[q] = Q, P # Gone, Q # Gone
        PROVE  Names(P, Q)'
    <3>1. p \in Position /\ Cell(p) # Null /\ IsFormula(Cell(p)) BY <2>2, NamesLeaf
    <3>2. PICK i \in DOMAIN heap[Cell(p)].formula.tree : heap[Cell(p)].formula.tree[i] = q
      BY <2>2, NamesLeaf
    <3>3. P \in Position /\ Cell(P)' = Cell(p) BY <1>2, <2>2, <3>1
    <3>4. Cell(p) \in Stored' BY <1>1, <3>1, <3>3
    <3>5. /\ heap'[Cell(p)].kind = "formula" /\ i \in DOMAIN heap'[Cell(p)].formula.tree
          /\ heap'[Cell(p)].formula.tree[i] = Q
      BY <1>5, <2>2, <3>1, <3>2, <3>4 DEF IsFormula
    <3> QED BY <2>2, <3>1, <3>3, <3>5, NamesLeaf DEF IsFormula
  <2> QED BY <2>1, <2>2
<1>9. GraphsSound'
  <2>1. /\ \A e \in reference \cup dependency : e = <<e[1], e[2]>>
        /\ \A p, q : <<p, q>> \in reference <=> Names(p, q)
        /\ \A p, q : <<q, p>> \in dependency <=> Names(p, q)
    BY DEF IInv, GraphsSound
  <2> USE DEF AllMove, GraphsMove, MovedAlong
  <2>2. \A e \in reference' \cup dependency' : e = <<e[1], e[2]>> OBVIOUS
  <2>3. ASSUME NEW P, NEW Q
        PROVE  <<P, Q>> \in reference' <=>
                 \E p, q : Names(p, q) /\ To[p] = P /\ To[q] = Q /\ P # Gone /\ Q # Gone
    <3>1. ASSUME <<P, Q>> \in reference'
          PROVE  \E p, q : Names(p, q) /\ To[p] = P /\ To[q] = Q /\ P # Gone /\ Q # Gone
      <4>1. PICK e \in reference :
              To[e[1]] # Gone /\ To[e[2]] # Gone /\ <<P, Q>> = <<To[e[1]], To[e[2]]>>
        BY <3>1
      <4>2. Names(e[1], e[2]) BY <2>1
      <4> QED BY <4>1, <4>2
    <3>2. ASSUME NEW p, NEW q, Names(p, q), To[p] = P, To[q] = Q, P # Gone, Q # Gone
          PROVE  <<P, Q>> \in reference'
      <4>1. <<p, q>> \in reference BY <2>1, <3>2
      <4> QED BY <3>2, <4>1
    <3> QED BY <3>1, <3>2
  <2>4. ASSUME NEW P, NEW Q
        PROVE  <<Q, P>> \in dependency' <=>
                 \E p, q : Names(p, q) /\ To[p] = P /\ To[q] = Q /\ P # Gone /\ Q # Gone
    <3>1. ASSUME <<Q, P>> \in dependency'
          PROVE  \E p, q : Names(p, q) /\ To[p] = P /\ To[q] = Q /\ P # Gone /\ Q # Gone
      <4>1. PICK e \in dependency :
              To[e[1]] # Gone /\ To[e[2]] # Gone /\ <<Q, P>> = <<To[e[1]], To[e[2]]>>
        BY <3>1
      <4>2. Names(e[2], e[1]) BY <2>1
      <4> QED BY <4>1, <4>2
    <3>2. ASSUME NEW p, NEW q, Names(p, q), To[p] = P, To[q] = Q, P # Gone, Q # Gone
          PROVE  <<Q, P>> \in dependency'
      <4>1. <<q, p>> \in dependency BY <2>1, <3>2
      <4> QED BY <3>2, <4>1
    <3> QED BY <3>1, <3>2
  <2> QED BY <1>8, <2>2, <2>3, <2>4 DEF GraphsSound
<1>10. RefsWithin'
  <2>1. CornerMoves(To) BY DEF AllMove
  <2>2. Behind' BY <2>1 DEF IInv, RefsWithin, CornerMoves
  <2>3. ASSUME NEW a \in Stored', IsFormula(a)' PROVE heap'[a].formula.tree # <<>>
    <3>1. heap[a].formula.tree # <<>> BY <1>5, <2>3 DEF IInv, RefsWithin, IsFormula
    <3>2. Consistent(heap[a].formula) BY <1>2, <1>5 DEF Sound
    <3>3. DOMAIN heap[a].formula.tree # {} BY <3>1, <3>2, TreeHasLeaf
    <3>4. DOMAIN <<>> = {} OBVIOUS
    <3> QED BY <1>5, <3>3, <3>4
  <2>4. ASSUME NEW P, NEW Q, Names(P, Q)' PROVE Q.row <= RBC'.row /\ Q.col <= RBC'.col
    <3>1. PICK p, q : Names(p, q) /\ To[p] = P /\ To[q] = Q /\ P # Gone /\ Q # Gone BY <1>8, <2>4
    <3>2. q \in Place /\ cells # <<>> BY <3>1, NamesPlaces
    <3>3. q.row <= RBC.row /\ q.col <= RBC.col BY <3>1 DEF IInv, RefsWithin
    <3> QED BY <2>1, <3>1, <3>2, <3>3 DEF CornerMoves
  <2> QED BY <2>2, <2>3, <2>4 DEF RefsWithin
<1>11. WellStored' BY DEF AllMove
<1> QED BY <1>4, <1>6, <1>7, <1>9, <1>10, <1>11 DEF IInv

\* A cell is written, at its address or at a free one.
LEMMA CellWritten ==
  ASSUME IInv, WellStored', NEW p \in Position, NEW a \in Addresses,
         a = Cell(p) \/ (Cell(p) = Null /\ a \notin Stored),
         \A q \in Position : Cell(q)' = IF q = p THEN a ELSE Cell(q),
         cells # <<>> => RBC.row <= RBC'.row /\ RBC.col <= RBC'.col,
         NEW c, Sound(c), heap' = [heap EXCEPT ![a] = c],
         c.kind = "formula" => c.formula.tree # <<>>,
         \A i \in DOMAIN c.ptrs : /\ c.ptrs[i] # Null /\ c.formula.tree[i] \in Position
                                  /\ Cell(c.formula.tree[i]) = c.ptrs[i],
         reference' = {e \in reference : e[1] # p \/ Cell(p) = Null}
                      \cup {<<p, q>> : q \in ToSet(c.formula.ref_cells)},
         dependency' = {e \in dependency : e[2] # p \/ Cell(p) = Null}
                       \cup {<<q, p>> : q \in ToSet(c.formula.ref_cells)}
  PROVE  IInv'
<1>1. /\ \A q \in Position : Cell(q) \in Addresses \cup {Null}
      /\ \A b : b \in Stored <=> b # Null /\ \E q \in Position : Cell(q) = b
      /\ \A b : b \in Stored' <=> b # Null /\ \E q \in Position : Cell(q)' = b
      /\ Null \notin Addresses /\ Dangling \notin Addresses
  BY CellsFound, StoreAssumptions DEF IInv
<1>2. /\ \A x, y \in Position : Cell(x) = Cell(y) /\ Cell(x) # Null => x = y
      /\ \A b \in Stored : Sound(heap[b]) /\ PointerSound(b)
      /\ DOMAIN heap = Addresses /\ \A b \in Addresses : b \notin Stored => heap[b] = Free
  BY <1>1 DEF IInv, OneOwner, HeapSound, PointersSound
<1>3. \A b : b \in Stored' <=> b = a \/ b \in Stored
  <2>1. ASSUME NEW b \in Stored PROVE b = a \/ b \in Stored'
    <3>1. PICK q \in Position : Cell(q) = b /\ b # Null BY <1>1
    <3> QED BY <1>1, <3>1
  <2>2. a \in Stored' BY <1>1
  <2>3. ASSUME NEW b \in Stored' PROVE b = a \/ b \in Stored BY <1>1
  <2> QED BY <2>1, <2>2, <2>3
<1>4. /\ heap'[a] = c /\ DOMAIN heap' = Addresses
      /\ \A b \in Addresses : b # a => heap'[b] = heap[b]
  BY <1>2
<1>5. \A q \in Position : q # p => Cell(q) # a BY <1>1, <1>2
<1>6. OneOwner' BY <1>1, <1>2, <1>5 DEF OneOwner
<1>7. HeapSound' BY <1>1, <1>2, <1>3, <1>4 DEF HeapSound
<1>8. PointersSound'
  <2> SUFFICES ASSUME NEW b \in Stored', NEW i \in DOMAIN heap'[b].ptrs, heap'[b].ptrs[i] # Dangling
               PROVE  /\ heap'[b].ptrs[i] # Null
                      /\ \E q \in Position : heap'[b].formula.tree[i] = q /\ Cell(q)' = heap'[b].ptrs[i]
    BY DEF PointersSound, PointerSound
  <2>1. \E q \in Position : /\ heap'[b].formula.tree[i] = q /\ Cell(q) = heap'[b].ptrs[i]
                            /\ Cell(q) # Null
    <3>1. CASE b = a BY <1>4, <3>1
    <3>2. CASE b # a
      <4>1. PointerSound(b) /\ heap'[b] = heap[b] BY <1>1, <1>2, <1>3, <1>4, <3>2
      <4> QED BY <4>1 DEF PointerSound
    <3> QED BY <3>1, <3>2
  <2>2. PICK q \in Position : /\ heap'[b].formula.tree[i] = q /\ Cell(q) = heap'[b].ptrs[i]
                             /\ Cell(q) # Null
    BY <2>1
  <2>3. Cell(q)' = Cell(q) BY <2>2
  <2> QED BY <2>2, <2>3
<1>9. \A q : q \in ToSet(c.formula.ref_cells) <=>
               c.kind = "formula" /\ q # Gone
               /\ \E i \in DOMAIN c.formula.tree : c.formula.tree[i] = q
  <2>1. /\ c.kind \in {"text", "formula"} /\ (c.kind = "text" => c.formula.tree = <<>>)
        /\ ToSet(c.formula.ref_cells) = ToSet(c.formula.tree) \ {Gone}
    BY DEF Sound, Consistent
  <2>2. \A f : \A q : q \in ToSet(f) <=> \E i \in DOMAIN f : f[i] = q BY DEF ToSet
  <2>3. DOMAIN <<>> = {} OBVIOUS
  <2> QED BY <2>1, <2>2, <2>3
<1>10. ASSUME NEW P, NEW Q
       PROVE  Names(P, Q)' <=> (Names(P, Q) /\ (P # p \/ Cell(p) = Null))
                              \/ (P = p /\ Q \in ToSet(c.formula.ref_cells))
  <2>1. CASE P = p
    <3>1. Cell(P)' = a /\ a # Null BY <1>1, <2>1
    <3>2. Cell(p) = Null => ~ Names(P, Q) BY <2>1, NamesLeaf
    <3> QED BY <1>4, <1>9, <2>1, <3>1, <3>2, NamesLeaf DEF IsFormula
  <2>2. CASE P # p
    <3>1. P \in Position /\ Cell(P) # Null =>
            Cell(P)' = Cell(P) /\ heap'[Cell(P)] = heap[Cell(P)]
      BY <1>1, <1>4, <1>5, <2>2
    <3>2. P \in Position => Cell(P)' = Cell(P) BY <2>2
    <3> QED BY <2>2, <3>1, <3>2, NamesLeaf DEF IsFormula
  <2> QED BY <2>1, <2>2
<1>11. GraphsSound'
  <2>1. /\ \A e \in reference \cup dependency : e = <<e[1], e[2]>>
        /\ \A x, y : <<x, y>> \in reference <=> Names(x, y)
        /\ \A x, y : <<y, x>> \in dependency <=> Names(x, y)
    BY DEF IInv, GraphsSound
  <2>2. \A e \in reference' \cup dependency' : e = <<e[1], e[2]>> BY <2>1
  <2>3. \A P, Q : <<P, Q>> \in reference' <=> (Names(P, Q) /\ (P # p \/ Cell(p) = Null))
            \/ (P = p /\ Q \in ToSet(c.formula.ref_cells))
    BY <2>1
  <2>4. \A P, Q : <<Q, P>> \in dependency' <=> (Names(P, Q) /\ (P # p \/ Cell(p) = Null))
            \/ (P = p /\ Q \in ToSet(c.formula.ref_cells))
    BY <2>1
  <2> QED BY <1>10, <2>2, <2>3, <2>4 DEF GraphsSound
<1>12. RefsWithin'
  <2>1. Behind' BY <1>1, CellsAreRows DEF Behind
  <2>2. ASSUME NEW b \in Stored', IsFormula(b)' PROVE heap'[b].formula.tree # <<>>
    <3>1. CASE b = a BY <1>4, <2>2, <3>1 DEF IsFormula
    <3>2. CASE b # a
      <4>1. b \in Stored /\ heap'[b] = heap[b] BY <1>1, <1>3, <1>4, <3>2
      <4> QED BY <2>2, <4>1 DEF IInv, RefsWithin, IsFormula
    <3> QED BY <3>1, <3>2
  <2>3. ASSUME NEW P, NEW Q, Names(P, Q)' PROVE Q.row <= RBC'.row /\ Q.col <= RBC'.col
    <3>1. Q \in Place /\ cells # <<>> /\ Q.row <= RBC.row /\ Q.col <= RBC.col
      <4>1. CASE Names(P, Q) BY <4>1, NamesPlaces DEF IInv, RefsWithin
      <4>2. CASE Q \in ToSet(c.formula.ref_cells)
        <5>1. PICK i \in DOMAIN c.formula.tree : c.formula.tree[i] = Q BY <1>9, <4>2
        <5>2. i \in DOMAIN c.ptrs BY <5>1 DEF Sound
        <5>3. Q \in Position /\ Cell(Q) # Null BY <5>1, <5>2
        <5> QED BY <5>3, CellsAreRows, CellsWithin, PositionsArePlaces DEF IInv
      <4> QED BY <1>10, <2>3, <4>1, <4>2
    <3>2. Q.row \in Nat /\ Q.col \in Nat BY <3>1 DEF Place
    <3>3. RBC.row \in Int /\ RBC.col \in Int /\ RBC'.row \in Int /\ RBC'.col \in Int
      BY DEF IInv, WellStored, Proved!Enclosed
    <3> QED BY <3>1, <3>2, <3>3
  <2> QED BY <2>1, <2>2, <2>3 DEF RefsWithin
<1> QED BY <1>6, <1>7, <1>8, <1>11, <1>12 DEF IInv

\* A cell is freed, and what names it stays.
LEMMA CellFreed ==
  ASSUME IInv, WellStored', NEW p \in Position, Cell(p) # Null,
         \A q \in Position : Cell(q)' = IF q = p THEN Null ELSE Cell(q),
         UNCHANGED <<LTC, RBC>>, cells' = <<>> => cells = <<>>,
         NEW m, Keep(heap, m),
         reference' = {e \in reference : e[1] # p}, dependency' = {e \in dependency : e[2] # p}
  PROVE  IInv'
<1>1. /\ \A q \in Position : Cell(q) \in Addresses \cup {Null}
      /\ \A b : b \in Stored <=> b # Null /\ \E q \in Position : Cell(q) = b
      /\ \A b : b \in Stored' <=> b # Null /\ \E q \in Position : Cell(q)' = b
      /\ Null \notin Addresses /\ Dangling \notin Addresses
  BY CellsFound, StoreAssumptions DEF IInv
<1>2. /\ \A x, y \in Position : Cell(x) = Cell(y) /\ Cell(x) # Null => x = y
      /\ \A b \in Stored : Sound(heap[b]) /\ PointerSound(b)
  BY <1>1 DEF IInv, OneOwner, HeapSound, PointersSound
<1>3. \A b : b \in Stored' => b \in Stored /\ b # Cell(p) /\ b \in Addresses BY <1>1, <1>2
<1>4. \A b \in Stored' :
        /\ Sound(heap[b])' /\ heap'[b].kind = heap[b].kind /\ heap'[b].formula = heap[b].formula
        /\ DOMAIN heap'[b].ptrs = DOMAIN heap[b].ptrs
        /\ \A i \in DOMAIN heap[b].ptrs :
             heap'[b].ptrs[i] = IF heap[b].ptrs[i] \in Stored' THEN heap[b].ptrs[i] ELSE Dangling
  BY <1>2, <1>3, OwnedKept
<1>5. OneOwner' BY <1>2 DEF OneOwner
<1>6. HeapSound' BY <1>4, OthersFreed DEF HeapSound
<1>7. PointersSound'
  <2> SUFFICES ASSUME NEW b \in Stored', NEW i \in DOMAIN heap'[b].ptrs, heap'[b].ptrs[i] # Dangling
               PROVE  /\ heap'[b].ptrs[i] # Null
                      /\ \E q \in Position : heap'[b].formula.tree[i] = q /\ Cell(q)' = heap'[b].ptrs[i]
    BY DEF PointersSound, PointerSound
  <2>1. i \in DOMAIN heap[b].ptrs /\ heap'[b].ptrs[i] = heap[b].ptrs[i] /\ heap[b].ptrs[i] \in Stored'
    BY <1>4
  <2> DEFINE q == heap[b].formula.tree[i]
  <2>2. q \in Position /\ Cell(q) = heap[b].ptrs[i] BY <1>1, <1>2, <1>3, <2>1 DEF PointerSound
  <2>3. heap'[b].formula.tree[i] = q /\ Cell(q) # Cell(p) BY <1>3, <1>4, <2>1, <2>2
  <2> QED BY <1>1, <2>1, <2>2, <2>3
<1>8. ASSUME NEW P, NEW Q PROVE Names(P, Q)' <=> Names(P, Q) /\ P # p
  <2>1. CASE P = p BY <2>1, NamesLeaf
  <2>2. CASE P # p
    <3>1. P \in Position /\ Cell(P) # Null =>
            /\ Cell(P)' = Cell(P) /\ heap'[Cell(P)].kind = heap[Cell(P)].kind
            /\ heap'[Cell(P)].formula = heap[Cell(P)].formula
      BY <1>1, <1>4, <2>2
    <3>2. P \in Position => Cell(P)' = Cell(P) BY <2>2
    <3> QED BY <2>2, <3>1, <3>2, NamesLeaf DEF IsFormula
  <2> QED BY <2>1, <2>2
<1>9. GraphsSound'
  <2>1. /\ \A e \in reference \cup dependency : e = <<e[1], e[2]>>
        /\ \A x, y : <<x, y>> \in reference <=> Names(x, y)
        /\ \A x, y : <<y, x>> \in dependency <=> Names(x, y)
    BY DEF IInv, GraphsSound
  <2> QED BY <1>8, <2>1 DEF GraphsSound
<1>10. RefsWithin' BY <1>3, <1>4, <1>8 DEF IInv, RefsWithin, Behind, IsFormula
<1> QED BY <1>5, <1>6, <1>7, <1>9, <1>10 DEF IInv
-----------------------------------------------------------------------------
(* The steps.                                                               *)

LEMMA NothingMoves ==
  ASSUME IInv, UNCHANGED <<cells, LTC, RBC, heap, reference, dependency>>
  PROVE  IInv'
BY DEF IInv, WellStored, OneOwner, HeapSound, PointersSound, PointerSound, GraphsSound, RefsWithin,
       Behind, Names, FormulaAt, IsFormula, Leaves, Stored, Holding, Cell, Store!Cell

\* CreateCell writes over the cell that is there, or at an address that is free.
LEMMA CellComes ==
  ASSUME IInv, NEW p \in Position, Cell(p) # Null \/ Cardinality(Stored) < Cardinality(Addresses),
         NEW c, CreateCell(p, c)
  PROVE  \E a \in Addresses :
           /\ a = Cell(p) \/ (Cell(p) = Null /\ a \notin Stored)
           /\ WellStored' /\ \A q \in Position : Cell(q)' = IF q = p THEN a ELSE Cell(q)
           /\ cells # <<>> => RBC.row <= RBC'.row /\ RBC.col <= RBC'.col
           /\ heap' = [heap EXCEPT ![a] = c]
<1>1. CASE Cell(p) # Null
  <2>1. heap' = [heap EXCEPT ![Cell(p)] = c] /\ UNCHANGED <<cells, LTC, RBC>>
    BY <1>1 DEF CreateCell
  <2>2. WellStored' BY <2>1 DEF IInv, WellStored
  <2>3. Cell(p) \in Addresses BY <1>1, CellsFound DEF IInv
  <2>4. \A q \in Position : Cell(q)' = Cell(q) BY <2>1 DEF Cell, Store!Cell
  <2>5. PICK a \in Addresses : a = Cell(p) BY <2>3
  <2>6. heap' = [heap EXCEPT ![a] = c] BY <2>1, <2>5
  <2>7. \A q \in Position : Cell(q)' = IF q = p THEN a ELSE Cell(q) BY <2>4, <2>5
  <2>8. cells # <<>> => RBC.row <= RBC'.row /\ RBC.col <= RBC'.col
    <3>1. RBC' = RBC BY <2>1
    <3>2. RBC.row \in Int /\ RBC.col \in Int BY DEF IInv, WellStored, Proved!Enclosed
    <3> QED BY <3>1, <3>2
  <2> QED BY <2>2, <2>5, <2>6, <2>7, <2>8
<1>2. CASE Cell(p) = Null
  <2> DEFINE a == CHOOSE b \in Addresses : heap[b] = Free
  <2>1. Store!CreateEmptyCell(p, a) /\ heap' = [heap EXCEPT ![a] = c]
    BY <1>2 DEF CreateCell
  <2>2. /\ Stored \subseteq Addresses
        /\ \A b \in Addresses : IF b \in Stored THEN Sound(heap[b]) ELSE heap[b] = Free
    BY CellsFound DEF IInv, HeapSound
  <2>3. \E b \in Addresses : heap[b] = Free
    <3>1. Stored # Addresses BY <1>2, StoreAssumptions
    <3> QED BY <2>2, <3>1
  <2>4. a \in Addresses /\ heap[a] = Free BY <2>3
  <2> HIDE DEF a
  <2>5. a \notin Stored BY <2>2, <2>4 DEF Sound, Free, Contents
  <2>6. PICK b \in Addresses : b = a BY <2>4
  <2>7. /\ WellStored' /\ \A q \in Position : Cell(q)' = IF q = p THEN b ELSE Cell(q)
        /\ cells # <<>> => RBC.row <= RBC'.row /\ RBC.col <= RBC'.col
    BY <2>1, <2>6, CellPut DEF IInv
  <2> QED BY <1>2, <2>1, <2>5, <2>6, <2>7
<1> QED BY <1>1, <1>2

LEMMA CreateCellKeeps ==
  ASSUME IInv, NEW p \in Position, Cell(p) # Null \/ Cardinality(Stored) < Cardinality(Addresses),
         NEW c, Sound(c), c.kind = "formula" => c.formula.tree # <<>>,
         \A i \in DOMAIN c.ptrs : /\ c.ptrs[i] # Null /\ c.formula.tree[i] \in Position
                                  /\ Cell(c.formula.tree[i]) = c.ptrs[i],
         CreateCell(p, c)
  PROVE  IInv'
<1>1. PICK a \in Addresses :
        /\ a = Cell(p) \/ (Cell(p) = Null /\ a \notin Stored)
        /\ WellStored' /\ \A q \in Position : Cell(q)' = IF q = p THEN a ELSE Cell(q)
        /\ cells # <<>> => RBC.row <= RBC'.row /\ RBC.col <= RBC'.col
        /\ heap' = [heap EXCEPT ![a] = c]
  BY CellComes
<1> QED BY <1>1, CellWritten DEF CreateCell

LEMMA SetCellKeeps ==
  ASSUME IInv, NEW p \in Position, Cell(p) # Null \/ Cardinality(Stored) < Cardinality(Addresses),
         NEW c, Sound(c), c.kind = "formula" => c.formula.tree # <<>>,
         \A i \in DOMAIN c.ptrs : /\ c.ptrs[i] # Null /\ c.formula.tree[i] \in Position
                                  /\ Cell(c.formula.tree[i]) = c.ptrs[i],
         NEW asPrinted, SetCell(p, c, asPrinted)
  PROVE  IInv'
<1>1. CASE Cell(p) # Null /\ SameText(Cell(p), c, asPrinted)
  <2>1. /\ reference' = reference \cup {<<p, q>> : q \in ToSet(c.formula.ref_cells)}
        /\ UNCHANGED <<cells, LTC, RBC, heap, dependency>>
    BY <1>1 DEF SetCell
  <2>2. /\ ToSet(c.formula.ref_cells) = ToSet(c.formula.tree) \ {Gone}
        /\ c.kind \in {"text", "formula"} /\ (c.kind = "text" => c.formula.tree = <<>>)
    BY DEF Sound, Consistent
  <2>3. \A f : \A q : q \in ToSet(f) <=> \E i \in DOMAIN f : f[i] = q BY DEF ToSet
  <2>4. DOMAIN <<>> = {} OBVIOUS
  <2>5. heap[Cell(p)].kind = c.kind /\ heap[Cell(p)].formula.tree = c.formula.tree
    BY <1>1 DEF SameText
  <2>6. \A q \in ToSet(c.formula.ref_cells) : Names(p, q)
    BY <1>1, <2>2, <2>3, <2>4, <2>5, NamesLeaf DEF IsFormula
  <2>7. \A q \in ToSet(c.formula.ref_cells) : <<p, q>> \in reference
    BY <2>6 DEF IInv, GraphsSound
  <2>8. reference' = reference BY <2>1, <2>7
  <2> QED BY <2>1, <2>8, NothingMoves
<1>2. CASE ~ (Cell(p) # Null /\ SameText(Cell(p), c, asPrinted)) /\ Cell(p) # Null /\ MeetsNull({p})
  BY <1>2, NothingMoves DEF SetCell, Fails, Stays
<1>3. CASE ~ (Cell(p) # Null /\ SameText(Cell(p), c, asPrinted)) /\ ~ (Cell(p) # Null /\ MeetsNull({p}))
  <2>1. CreateCell(p, c) BY <1>3 DEF SetCell
  <2> QED BY <2>1, CreateCellKeeps
<1> QED BY <1>1, <1>2, <1>3

LEMMA SetTextKeeps ==
  ASSUME IInv, NEW p \in Position, Cell(p) # Null \/ Cardinality(Stored) < Cardinality(Addresses),
         NEW t, SetText(p, t)
  PROVE  IInv'
<1> DEFINE c == TextCell(t)
<1>1. c.kind = "text" /\ c.formula = ParsedFormula(<<>>) /\ c.ptrs = <<>> /\ c.text = t
  BY DEF TextCell, Contents
<1>2. Consistent(c.formula) /\ c.formula.tree = <<>>
  <2>1. <<>> \in Seq(Place) OBVIOUS
  <2> QED BY <1>1, <2>1, ParsedConsistent
<1>3. Sound(c) BY <1>1, <1>2 DEF Sound, TextCell
<1>4. SetCell(p, c, TRUE) BY DEF SetText
<1>5. DOMAIN c.ptrs = {} /\ c.kind # "formula" BY <1>1
<1> HIDE DEF c
<1> QED BY <1>3, <1>4, <1>5, SetCellKeeps

LEMMA SetFormulaKeeps ==
  ASSUME IInv, NEW p \in Position, Cell(p) # Null \/ Cardinality(Stored) < Cardinality(Addresses),
         NEW tree \in Seq(Written), tree # <<>>,
         NEW asPrinted \in BOOLEAN, SetFormula(p, tree, asPrinted)
  PROVE  IInv'
<1> DEFINE c == FormulaCell(tree)
<1>1. CASE SetCell(p, c, asPrinted)
  <2>1. /\ c.kind = "formula" /\ c.formula = ParsedFormula(tree) /\ c.text = 0
        /\ c.ptrs = [i \in DOMAIN tree |-> Cell(tree[i])]
    BY DEF FormulaCell, Contents
  <2>2. \A i \in DOMAIN tree : tree[i] \in Position /\ Cell(tree[i]) # Null
    <3>1. Written \subseteq Position BY StructureAssumption DEF Position, Store!Position
    <3>2. \A q \in ToSet(tree) : Cell(q) # Null BY DEF SetFormula
    <3> QED BY <3>1, <3>2 DEF ToSet
  <2>3. Consistent(c.formula) /\ c.formula.tree = tree
    <3>1. tree \in Seq(Place) BY <2>2, PositionsArePlaces
    <3> QED BY <2>1, <3>1, ParsedConsistent
  <2>4. DOMAIN c.ptrs = DOMAIN tree BY <2>1
  <2>5. Sound(c) BY <2>1, <2>3, <2>4 DEF Sound, FormulaCell, Contents
  <2>6. \A i \in DOMAIN c.ptrs : /\ c.ptrs[i] # Null /\ c.formula.tree[i] \in Position
                                 /\ Cell(c.formula.tree[i]) = c.ptrs[i]
    BY <2>1, <2>2, <2>3
  <2>7. c.formula.tree # <<>> BY <2>3
  <2> HIDE DEF c
  <2> QED BY <1>1, <2>5, <2>6, <2>7, SetCellKeeps
<1>2. CASE Stays("CircularDependency") BY <1>2, NothingMoves DEF Stays
<1> QED BY <1>1, <1>2 DEF SetFormula

LEMMA ClearCellKeeps ==
  ASSUME IInv, NEW p \in Position, ClearCell(p)
  PROVE  IInv'
<1>1. CASE MeetsNull({p}) BY <1>1, NothingMoves DEF ClearCell, Fails, Stays
<1>2. CASE ~ MeetsNull({p})
  <2>1. /\ Cell(p) # Null /\ Store!DeleteCell(p) /\ Keep(heap, MemoAfterInvalidation({p}))
        /\ reference' = {e \in reference : e[1] # p} /\ dependency' = {e \in dependency : e[2] # p}
    BY <1>2 DEF ClearCell
  <2>2. /\ WellStored' /\ \A q \in Position : Cell(q)' = IF q = p THEN Null ELSE Cell(q)
        /\ UNCHANGED <<LTC, RBC>> /\ (cells' = <<>> => cells = <<>>)
    BY <2>1, CellTaken DEF IInv
  <2> HIDE DEF MemoAfterInvalidation
  <2> QED BY <2>1, <2>2, CellFreed
<1> QED BY <1>1, <1>2

LEMMA GetValueKeeps ==
  ASSUME IInv, NEW p, GetValue(p)
  PROVE  IInv'
BY NothingMoves DEF GetValue, Fails, Stays

\* The graphs know only positions that are valid.
LEMMA EdgesOfPlaces ==
  ASSUME IInv, NEW e \in reference \cup dependency
  PROVE  e[1] \in Place /\ e[2] \in Place
<1>1. Names(e[1], e[2]) \/ Names(e[2], e[1]) BY DEF IInv, GraphsSound
<1> QED BY <1>1, NamesPlaces

LEMMA StoredSound ==
  ASSUME IInv, NEW a \in Stored
  PROVE  a \in Addresses /\ Sound(heap[a])
<1>1. a \in Addresses BY CellsFound DEF IInv
<1> QED BY <1>1 DEF IInv, HeapSound

\* A sheet in which all has been moved by an insertion.
LEMMA InsertedSheet ==
  ASSUME IInv, NEW axis \in Axes, NEW before \in Nat, NEW count \in Nat \ {0},
         WellStored', CellsMove(Insertion(axis, before, count)),
         CornerMoves(Insertion(axis, before, count)),
         NEW h, NEW m, Keep(h, m),
         \A a \in Stored : ~ IsFormula(a) => h[a] = heap[a],
         \A a \in Stored : IsFormula(a) =>
           \E g : /\ h[a] = [heap[a] EXCEPT !.formula = g.formula]
                 /\ MovesWith(heap[a].formula, LeavesInserted(heap[a].formula, axis, before, count), g),
         UpdateGraphsByInsertion(axis, before, count)
  PROVE  AllMove(Insertion(axis, before, count))
<1> DEFINE To == Insertion(axis, before, count)
<1>1. Moves(To) /\ \A p \in Place : To[p] # Gone BY InsertionIsMove
<1>2. GraphsMove(To)
  <2>1. ASSUME NEW edges, edges \in {reference, dependency}
        PROVE  MoveEdges(edges, axis, before, count) = MovedAlong(edges, To)
    <3>1. \A e \in edges : e[1] \in Place /\ e[2] \in Place BY <2>1, EdgesOfPlaces
    <3>2. {d \in edges : To[d[1]] # Gone /\ To[d[2]] # Gone} = edges BY <1>1, <3>1
    <3>3. \A e \in edges : /\ To[e[1]] = InsertedAt(e[1], axis, before, count)
                          /\ To[e[2]] = InsertedAt(e[2], axis, before, count)
      BY <3>1 DEF Insertion
    <3> HIDE DEF To
    <3> QED BY <3>2, <3>3 DEF MoveEdges, MovedAlong
  <2> HIDE DEF To
  <2> QED BY <2>1 DEF UpdateGraphsByInsertion, GraphsMove
<1>3. ASSUME NEW a \in Stored, IsFormula(a)
      PROVE  /\ h[a] = [heap[a] EXCEPT !.formula = h[a].formula]
             /\ Consistent(h[a].formula)
             /\ h[a].formula.tree = [i \in DOMAIN heap[a].formula.tree |-> To[heap[a].formula.tree[i]]]
  <2> DEFINE f == heap[a].formula
  <2>1. Sound(heap[a]) BY StoredSound
  <2>2. PICK g : /\ h[a] = [heap[a] EXCEPT !.formula = g.formula]
                 /\ MovesWith(f, LeavesInserted(f, axis, before, count), g)
    BY <1>3
  <2>3. h[a].formula = g.formula BY <2>1, <2>2 DEF Sound, Contents
  <2>4. Consistent(f) BY <2>1 DEF Sound
  <2>5. \A i \in DOMAIN f.tree : f.tree[i] \in Place \cup {Gone} BY <2>4, ListsOfFormula
  <2>6. \A i \in DOMAIN f.tree : InsertedAt(f.tree[i], axis, before, count) = To[f.tree[i]]
    BY <2>5 DEF Insertion
  <2>7. g.formula.tree = [i \in DOMAIN f.tree |-> To[f.tree[i]]]
    BY <2>2, <2>6 DEF MovesWith, LeavesInserted
  <2> QED BY <2>2, <2>3, <2>7 DEF MovesWith
<1>4. CellsMove(To) /\ CornerMoves(To) OBVIOUS
<1> HIDE DEF To
<1>5. Moves(To) BY <1>1
<1>6. FormulasMove(h, To) BY <1>3 DEF FormulasMove
<1>7. AllMove(To) BY <1>2, <1>4, <1>5, <1>6 DEF AllMove
<1> QED BY <1>7 DEF To

\* What DeleteRowsFromGraph leaves, and what DeleteColsFromGraph should.
MovedEdgesLeft(edges, axis, first, count) ==
  {<<DeletedAt(e[1], axis, first, count), DeletedAt(e[2], axis, first, count)>> :
     e \in EdgesLeft(edges, axis, first, count)}

\* A sheet in which all has been moved by a deletion.
LEMMA DeletedSheet ==
  ASSUME IInv, NEW axis \in Axes, NEW first \in Nat, NEW count \in Nat \ {0},
         WellStored', CellsMove(Deletion(axis, first, count)), CornerMoves(Deletion(axis, first, count)),
         NEW h, NEW m, Keep(h, m),
         \A a \in Stored : ~ IsFormula(a) => h[a] = heap[a],
         \A a \in Stored : IsFormula(a) =>
           \E g : /\ h[a] = [heap[a] EXCEPT !.formula = g.formula]
                 /\ MovesWith(heap[a].formula, LeavesDeleted(heap[a].formula, axis, first, count), g),
         reference' = MovedEdgesLeft(reference, axis, first, count),
         dependency' = MovedEdgesLeft(dependency, axis, first, count)
  PROVE  AllMove(Deletion(axis, first, count))
<1> DEFINE To == Deletion(axis, first, count)
<1>1. Moves(To) /\ \A p \in Place : To[p] = Gone <=> Deletes(p, axis, first, count)
  BY DeletionIsMove
<1>2. GraphsMove(To)
  <2>1. ASSUME NEW edges, edges \in {reference, dependency}
        PROVE  MovedEdgesLeft(edges, axis, first, count) = MovedAlong(edges, To)
    <3>1. \A e \in edges : e[1] \in Place /\ e[2] \in Place BY <2>1, EdgesOfPlaces
    <3>2. {d \in edges : To[d[1]] # Gone /\ To[d[2]] # Gone} = EdgesLeft(edges, axis, first, count)
      BY <1>1, <3>1 DEF EdgesLeft
    <3>3. \A e \in edges : /\ To[e[1]] = DeletedAt(e[1], axis, first, count)
                          /\ To[e[2]] = DeletedAt(e[2], axis, first, count)
      BY <3>1 DEF Deletion
    <3>4. EdgesLeft(edges, axis, first, count) \subseteq edges BY DEF EdgesLeft
    <3> HIDE DEF To
    <3> QED BY <3>2, <3>3, <3>4 DEF MovedEdgesLeft, MovedAlong
  <2> HIDE DEF To
  <2> QED BY <2>1 DEF GraphsMove
<1>3. ASSUME NEW a \in Stored, IsFormula(a)
      PROVE  /\ h[a] = [heap[a] EXCEPT !.formula = h[a].formula]
             /\ Consistent(h[a].formula)
             /\ h[a].formula.tree = [i \in DOMAIN heap[a].formula.tree |-> To[heap[a].formula.tree[i]]]
  <2> DEFINE f == heap[a].formula
  <2>1. Sound(heap[a]) BY StoredSound
  <2>2. PICK g : /\ h[a] = [heap[a] EXCEPT !.formula = g.formula]
                 /\ MovesWith(f, LeavesDeleted(f, axis, first, count), g)
    BY <1>3
  <2>3. h[a].formula = g.formula BY <2>1, <2>2 DEF Sound, Contents
  <2>4. Consistent(f) BY <2>1 DEF Sound
  <2>5. \A i \in DOMAIN f.tree : f.tree[i] \in Place \cup {Gone} BY <2>4, ListsOfFormula
  <2>6. \A i \in DOMAIN f.tree : DeletedAt(f.tree[i], axis, first, count) = To[f.tree[i]]
    BY <2>5 DEF Deletion
  <2>7. g.formula.tree = [i \in DOMAIN f.tree |-> To[f.tree[i]]]
    BY <2>2, <2>6 DEF MovesWith, LeavesDeleted
  <2> QED BY <2>2, <2>3, <2>7 DEF MovesWith
<1>4. CellsMove(To) /\ CornerMoves(To) OBVIOUS
<1> HIDE DEF To
<1>5. Moves(To) BY <1>1
<1>6. FormulasMove(h, To) BY <1>3 DEF FormulasMove
<1>7. AllMove(To) BY <1>2, <1>4, <1>5, <1>6 DEF AllMove
<1> QED BY <1>7 DEF To

LEMMA InsertRowsMoves ==
  ASSUME IInv, NEW before \in Nat, NEW count \in Nat \ {0}, InsertRows(before, count)
  PROVE  \/ Fails("TableTooBig")
         \/ Fails("Undefined") /\ \E a \in Formulas : heap[a].formula.ref_cells = <<>>
         \/ /\ AllMove(Insertion("row", before, count)) /\ Store!CheckCellsSize(count, 0)
            /\ reply' = "Ok" /\ shown' = Nothing
<1> DEFINE h == Handled(LAMBDA f : HandleInsertedRows(f, before, count))
<1>1. \/ Fails("TableTooBig")
      \/ Fails("Undefined") /\ \E a \in Formulas : heap[a].formula.ref_cells = <<>>
      \/ /\ Store!CheckCellsSize(count, 0) /\ Store!CreateRows(before, count) /\ Keep(h, memo)
         /\ UpdateGraphsByInsertion("row", before, count) /\ shown' = Nothing
         /\ \A a \in Formulas : heap[a].formula.ref_cells # <<>>
  BY DEF InsertRows
<1>2. CASE /\ Store!CheckCellsSize(count, 0) /\ Store!CreateRows(before, count) /\ Keep(h, memo)
           /\ UpdateGraphsByInsertion("row", before, count) /\ shown' = Nothing
           /\ \A a \in Formulas : heap[a].formula.ref_cells # <<>>
  <2>1. /\ WellStored' /\ CellsMove(Insertion("row", before, count)) /\ reply' = "Ok"
        /\ CornerMoves(Insertion("row", before, count))
    BY <1>2, RowsMove DEF IInv
  <2>2. \A a \in Stored : ~ IsFormula(a) => h[a] = heap[a] BY StoredSound DEF Handled, Formulas
  <2>3. \A a \in Stored : IsFormula(a) =>
          \E g : /\ h[a] = [heap[a] EXCEPT !.formula = g.formula]
                /\ MovesWith(heap[a].formula, LeavesInserted(heap[a].formula, "row", before, count), g)
    <3> SUFFICES ASSUME NEW a \in Stored, IsFormula(a)
                 PROVE  LET g == HandleInsertedRows(heap[a].formula, before, count)
                        IN  /\ h[a] = [heap[a] EXCEPT !.formula = g.formula]
                            /\ MovesWith(heap[a].formula,
                                       LeavesInserted(heap[a].formula, "row", before, count), g)
      OBVIOUS
    <3>1. Consistent(heap[a].formula) /\ a \in Addresses /\ a \in Formulas
      BY StoredSound DEF Sound, Formulas
    <3> QED BY <1>2, <3>1, InsertedRowsHandled DEF Handled
  <2> HIDE DEF h
  <2> QED BY <1>2, <2>1, <2>2, <2>3, InsertedSheet DEF Axes
<1> QED BY <1>1, <1>2

LEMMA InsertColsMoves ==
  ASSUME IInv, NEW before \in Nat, NEW count \in Nat \ {0}, InsertCols(before, count),
         "misplaced slots" \in Avoided
  PROVE  \/ Fails("TableTooBig")
         \/ /\ AllMove(Insertion("col", before, count)) /\ Store!CheckCellsSize(0, count)
            /\ reply' = "Ok" /\ shown' = Nothing
<1> DEFINE h == Handled(LAMBDA f : HandleInsertedCols(f, before, count))
<1>1. \/ Fails("TableTooBig")
      \/ /\ Store!CheckCellsSize(0, count) /\ Store!CreateCols(before, count) /\ Keep(h, memo)
         /\ UpdateGraphsByInsertion("col", before, count) /\ shown' = Nothing
         /\ ~ (LTC.col > 0 /\ before \in LTC.col .. RBC.col)
  BY DEF InsertCols, Avoids
<1>2. CASE /\ Store!CheckCellsSize(0, count) /\ Store!CreateCols(before, count) /\ Keep(h, memo)
           /\ UpdateGraphsByInsertion("col", before, count) /\ shown' = Nothing
           /\ ~ (LTC.col > 0 /\ before \in LTC.col .. RBC.col)
  <2>1. /\ WellStored' /\ CellsMove(Insertion("col", before, count)) /\ reply' = "Ok"
        /\ CornerMoves(Insertion("col", before, count))
    BY <1>2, ColsMove DEF IInv
  <2>2. \A a \in Stored : ~ IsFormula(a) => h[a] = heap[a] BY StoredSound DEF Handled, Formulas
  <2>3. \A a \in Stored : IsFormula(a) =>
          \E g : /\ h[a] = [heap[a] EXCEPT !.formula = g.formula]
                /\ MovesWith(heap[a].formula, LeavesInserted(heap[a].formula, "col", before, count), g)
    <3> SUFFICES ASSUME NEW a \in Stored, IsFormula(a)
                 PROVE  LET g == HandleInsertedCols(heap[a].formula, before, count)
                        IN  /\ h[a] = [heap[a] EXCEPT !.formula = g.formula]
                            /\ MovesWith(heap[a].formula,
                                       LeavesInserted(heap[a].formula, "col", before, count), g)
      OBVIOUS
    <3>1. Consistent(heap[a].formula) /\ a \in Addresses /\ a \in Formulas
      BY StoredSound DEF Sound, Formulas
    <3> QED BY <3>1, InsertedColsHandled DEF Handled
  <2> HIDE DEF h
  <2> QED BY <1>2, <2>1, <2>2, <2>3, InsertedSheet DEF Axes
<1> QED BY <1>1, <1>2

\* The graphs lead to cells that are there.
LEMMA NeverMeetsNull ==
  ASSUME IInv, NEW S
  PROVE  ~ MeetsNull(S)
<1> SUFFICES ASSUME NEW d \in From(dependency, Visited(S)), Cell(d) = Null PROVE FALSE
  BY DEF MeetsNull
<1>1. PICK e \in dependency : e[2] = d BY DEF From
<1>2. Names(e[2], e[1]) BY <1>1 DEF IInv, GraphsSound
<1> QED BY <1>1, <1>2, NamesLeaf

\* The rows an erasure goes through, in storage that starts at row lr, ends at
\* row br and has n rows, if it starts there or is not reached.
LEMMA ErasedRowsStored ==
  ASSUME NEW lr \in Nat, NEW br \in Int, NEW n \in Nat, NEW first \in Nat, NEW count \in Nat \ {0},
         n = 0 => br < lr, n # 0 => br = lr + n - 1, ~ (lr > 0 /\ first + count > lr),
         NEW i \in Store!Larger(first, lr) .. Store!Lesser(first + count - 1, br)
  PROVE  i + 1 \in 1 .. n
<1>1. i \in Int /\ lr <= i /\ i <= first + count - 1 /\ i <= br
  BY DEF Store!Larger, Store!Lesser
<1>2. lr = 0 BY <1>1
<1>3. n # 0 BY <1>1
<1> QED BY <1>1, <1>2, <1>3

\* The rows whose cells are invalidated are stored, and EraseRows erases no
\* others, so that neither is undefined.
LEMMA DeleteRowsMoves ==
  ASSUME IInv, NEW first \in Nat, NEW count \in Nat \ {0}, DeleteRows(first, count),
         "row index" \in Avoided
  PROVE  AllMove(Deletion("row", first, count)) /\ reply' = "Ok" /\ shown' = Nothing
<1> DEFINE h == Handled(LAMBDA f : HandleDeletedRows(f, first, count))
           S == CellsOfRows(first, count)
           Ref == DeleteRowsFromGraph(reference, first, count)
           Dep == DeleteRowsFromGraph(dependency, first, count)
<1>1. ~ (LTC.row > 0 /\ first + count > LTC.row) BY DEF DeleteRows, Avoids
<1>2. \A i \in DeletedRows(first, count) : i + 1 \in DOMAIN cells
  <2> SUFFICES ASSUME NEW i \in DeletedRows(first, count) PROVE i + 1 \in DOMAIN cells OBVIOUS
  <2>1. /\ LTC.row \in Nat /\ RBC.row \in Int /\ (cells # <<>> => RBC.row = LTC.row + Len(cells) - 1)
        /\ DOMAIN cells = 1 .. Len(cells) /\ Len(cells) \in Nat /\ (cells = <<>> <=> Len(cells) = 0)
    BY StorageShape DEF IInv
  <2>2. cells = <<>> => RBC.row < LTC.row BY DEF IInv, RefsWithin, Behind
  <2>3. i \in Store!Larger(first, LTC.row) .. Store!Lesser(first + count - 1, RBC.row)
    BY DEF DeletedRows
  <2>4. i + 1 \in 1 .. Len(cells) BY <1>1, <2>1, <2>2, <2>3, ErasedRowsStored
  <2> QED BY <2>1, <2>4
<1>3. Store!EraseRows(first, count) /\ AfterErasure(h, S, Ref, Dep, {})
  <2> HIDE DEF h, S, Ref, Dep
  <2> QED BY <1>2, NeverMeetsNull DEF DeleteRows, h, S, Ref, Dep
<1>4. /\ WellStored' /\ reply' = "Ok"
      /\ CellsMove(Deletion("row", first, count)) /\ CornerMoves(Deletion("row", first, count))
  <2>1. "Ok" # "Undefined" OBVIOUS
  <2> QED BY <1>1, <1>3, <2>1, RowsGo DEF IInv, RefsWithin
<1>5. /\ Keep(h, MemoAfterInvalidation(S)) /\ shown' = Nothing
      /\ reference' = MovedEdgesLeft(reference, "row", first, count)
      /\ dependency' = MovedEdgesLeft(dependency, "row", first, count)
  <2> HIDE DEF h, S
  <2> QED BY <1>3, <1>4 DEF AfterErasure, DeleteRowsFromGraph, MovedEdgesLeft
<1>6. \A a \in Stored : ~ IsFormula(a) => h[a] = heap[a] BY StoredSound DEF Handled, Formulas
<1>7. \A a \in Stored : IsFormula(a) =>
        \E g : /\ h[a] = [heap[a] EXCEPT !.formula = g.formula]
              /\ MovesWith(heap[a].formula, LeavesDeleted(heap[a].formula, "row", first, count), g)
  <2> SUFFICES ASSUME NEW a \in Stored, IsFormula(a)
               PROVE  LET g == HandleDeletedRows(heap[a].formula, first, count)
                      IN  /\ h[a] = [heap[a] EXCEPT !.formula = g.formula]
                          /\ MovesWith(heap[a].formula,
                                     LeavesDeleted(heap[a].formula, "row", first, count), g)
    OBVIOUS
  <2>1. Consistent(heap[a].formula) /\ a \in Addresses /\ a \in Formulas
    BY StoredSound DEF Sound, Formulas
  <2> QED BY <2>1, DeletedRowsHandled DEF Handled
<1> HIDE DEF h, S
<1> QED BY <1>4, <1>5, <1>6, <1>7, DeletedSheet DEF Axes

\* What is left of a deletion of columns stays.
LEMMA LeftOfDeleted ==
  ASSUME NEW q \in Place, NEW first \in Nat, NEW count \in Nat \ {0}, ~ (q.col >= first)
  PROVE  DeletedAt(q, "col", first, count) = q
<1>1. q.col \in Nat BY DEF Place
<1>2. q.col < first BY <1>1
<1> QED BY <1>2, MapsByAxis

\* DeleteColsFromGraph leaves the edges where they are, so that the call keeps
\* the graphs only when none of them had to move.  EraseCols is defined where
\* every row reaches as far as what it erases.
LEMMA DeleteColsMoves ==
  ASSUME IInv, NEW first \in Nat, NEW count \in Nat \ {0}, DeleteCols(first, count),
         {"unmoved graph", "left edge"} \subseteq Avoided
  PROVE  \/ /\ reply' = "Undefined" /\ "short row" \notin Avoided
            /\ UNCHANGED <<cells, LTC, RBC, heap, memo, reference, dependency>>
         \/ AllMove(Deletion("col", first, count)) /\ reply' = "Ok" /\ shown' = Nothing
<1> DEFINE h == Handled(LAMBDA f : HandleDeletedCols(f, first, count))
           S == CellsOfCols(first, count)
           Ref == DeleteColsFromGraph(reference, first, count)
           Dep == DeleteColsFromGraph(dependency, first, count)
           Keys == BareAfterCols(first, count)
<1>1. /\ ~ (first < LTC.col /\ first + count > LTC.col)
      /\ \A e \in EdgesLeft(reference \cup dependency, "col", first, count) :
           ~ (e[1].col >= first \/ e[2].col >= first)
      /\ "short row" \in Avoided =>
           ~ (/\ first + count > LTC.col /\ first <= RBC.col
              /\ \E r \in DOMAIN cells :
                   LTC.col + Len(cells[r]) <= Store!Lesser(RBC.col, first + count - 1))
  BY DEF DeleteCols, Avoids
<1>2. Store!EraseCols(first, count) /\ AfterErasure(h, S, Ref, Dep, Keys)
  <2> HIDE DEF h, S, Ref, Dep, Keys
  <2> QED BY NeverMeetsNull DEF DeleteCols, h, S, Ref, Dep, Keys
<1>3. /\ reply' = "Undefined" => UNCHANGED <<cells, LTC, RBC>>
      /\ reply' # "Undefined" =>
           /\ reply' = "Ok" /\ WellStored'
           /\ CellsMove(Deletion("col", first, count)) /\ CornerMoves(Deletion("col", first, count))
      /\ "short row" \in Avoided => reply' = "Ok"
  BY <1>1, <1>2, ColsGo DEF IInv
<1>4. CASE reply' = "Undefined"
  <2>1. "Ok" # "Undefined" OBVIOUS
  <2> HIDE DEF h, S, Ref, Dep, Keys
  <2> QED BY <1>2, <1>3, <1>4, <2>1 DEF AfterErasure
<1>5. CASE reply' # "Undefined"
  <2>1. /\ WellStored' /\ reply' = "Ok"
        /\ CellsMove(Deletion("col", first, count)) /\ CornerMoves(Deletion("col", first, count))
    BY <1>3, <1>5
  <2>2. ASSUME NEW edges, edges \in {reference, dependency}
        PROVE  EdgesLeft(edges, "col", first, count) = MovedEdgesLeft(edges, "col", first, count)
    <3>1. ASSUME NEW e \in EdgesLeft(edges, "col", first, count)
          PROVE  <<DeletedAt(e[1], "col", first, count), DeletedAt(e[2], "col", first, count)>> = e
      <4>1. e \in edges /\ e \in EdgesLeft(reference \cup dependency, "col", first, count)
        BY <2>2 DEF EdgesLeft
      <4>2. ~ (e[1].col >= first) /\ ~ (e[2].col >= first) BY <1>1, <4>1
      <4>3. e[1] \in Place /\ e[2] \in Place BY <2>2, <4>1, EdgesOfPlaces
      <4>4. DeletedAt(e[1], "col", first, count) = e[1] /\ DeletedAt(e[2], "col", first, count) = e[2]
        BY <4>2, <4>3, LeftOfDeleted
      <4>5. e = <<e[1], e[2]>> BY <2>2, <4>1 DEF IInv, GraphsSound
      <4> QED BY <4>2, <4>3, <4>4, <4>5
    <3> QED BY <3>1 DEF MovedEdgesLeft
  <2>3. /\ Keep(h, MemoAfterInvalidation(S)) /\ shown' = Nothing
        /\ reference' = MovedEdgesLeft(reference, "col", first, count)
        /\ dependency' = MovedEdgesLeft(dependency, "col", first, count)
    <3> HIDE DEF h, S
    <3> QED BY <1>2, <1>5, <2>2 DEF AfterErasure, DeleteColsFromGraph
  <2>4. \A a \in Stored : ~ IsFormula(a) => h[a] = heap[a] BY StoredSound DEF Handled, Formulas
  <2>5. \A a \in Stored : IsFormula(a) =>
          \E g : /\ h[a] = [heap[a] EXCEPT !.formula = g.formula]
                /\ MovesWith(heap[a].formula, LeavesDeleted(heap[a].formula, "col", first, count), g)
    <3> SUFFICES ASSUME NEW a \in Stored, IsFormula(a)
                 PROVE  LET g == HandleDeletedCols(heap[a].formula, first, count)
                        IN  /\ h[a] = [heap[a] EXCEPT !.formula = g.formula]
                            /\ MovesWith(heap[a].formula,
                                       LeavesDeleted(heap[a].formula, "col", first, count), g)
      OBVIOUS
    <3>1. Consistent(heap[a].formula) /\ a \in Addresses /\ a \in Formulas
      BY StoredSound DEF Sound, Formulas
    <3> QED BY <3>1, DeletedColsHandled DEF Handled
  <2> HIDE DEF h, S
  <2> QED BY <2>1, <2>3, <2>4, <2>5, DeletedSheet DEF Axes
<1> QED BY <1>4, <1>5
-----------------------------------------------------------------------------
(* The theorems.                                                            *)

\* The calls whose defects are stayed clear of, for all that follows.
StaysClear == {"misplaced slots", "unmoved graph", "row index", "left edge"} \subseteq Avoided

LEMMA InitIsSound == Init => IInv
<1> SUFFICES ASSUME Init PROVE IInv OBVIOUS
<1>1. /\ cells = <<>> /\ LTC = [row |-> kMaxRows, col |-> kMaxCols] /\ RBC = [row |-> -1, col |-> -1]
      /\ heap = [a \in Addresses |-> Free] /\ reference = {} /\ dependency = {}
  BY DEF Init, Store!Init
<1>2. WellStored BY <1>1, StoreAssumptions DEF WellStored, Proved!Rows, Proved!Enclosed
<1>3. Stored = {} BY <1>1 DEF Stored, Holding
<1>4. \A p \in Position : Cell(p) = Null BY <1>2, <1>3, CellsFound
<1>5. \A p, q : ~ Names(p, q) BY <1>4, NamesLeaf
<1>6. RefsWithin BY <1>1, <1>3, <1>5, StoreAssumptions DEF RefsWithin, Behind
<1> QED BY <1>1, <1>2, <1>3, <1>4, <1>5, <1>6
        DEF IInv, OneOwner, HeapSound, PointersSound, GraphsSound

LEMMA StepKeepsSound ==
  ASSUME StaysClear, IInv, [Next]_vars
  PROVE  IInv'
<1>1. CASE UNCHANGED vars BY <1>1, NothingMoves DEF vars
<1>2. CASE Read BY <1>2, GetValueKeeps DEF Read
<1>3. CASE Change
  <2>1. ASSUME NEW p \in Written, Cell(p) # Null \/ Cardinality(Stored) < Cardinality(Addresses),
               NEW t, SetText(p, t)
        PROVE  IInv'
    <3>1. p \in Position BY StructureAssumption DEF Position, Store!Position
    <3> QED BY <2>1, <3>1, SetTextKeeps
  <2>2. ASSUME NEW p \in Written, Cell(p) # Null \/ Cardinality(Stored) < Cardinality(Addresses),
               NEW tree \in Trees, NEW asPrinted \in BOOLEAN, SetFormula(p, tree, asPrinted)
        PROVE  IInv'
    <3>1. p \in Position BY StructureAssumption DEF Position, Store!Position
    <3>2. tree \in Seq(Written) /\ tree # <<>> BY DEF Trees, SeqOf
    <3> QED BY <2>2, <3>1, <3>2, SetFormulaKeeps
  <2>3. ASSUME NEW p \in Position, ClearCell(p) PROVE IInv' BY <2>3, ClearCellKeeps
  <2>4. ASSUME NEW from \in 0 .. kMaxRows - 1, NEW count \in 1 .. kMaxRows - from,
               InsertRows(from, count) \/ DeleteRows(from, count)
        PROVE  IInv'
    <3>1. from \in Nat /\ count \in Nat \ {0} BY StoreAssumptions
    <3>2. "row index" \in Avoided BY DEF StaysClear
    <3>3. \/ \E how : Fails(how)
          \/ AllMove(Insertion("row", from, count)) \/ AllMove(Deletion("row", from, count))
      BY <2>4, <3>1, <3>2, InsertRowsMoves, DeleteRowsMoves
    <3>4. (\E how : Fails(how)) => IInv' BY NothingMoves DEF Fails, Stays
    <3> QED BY <3>3, <3>4, SheetMoves
  <2>5. ASSUME NEW from \in 0 .. kMaxCols - 1, NEW count \in 1 .. kMaxCols - from,
               InsertCols(from, count) \/ DeleteCols(from, count)
        PROVE  IInv'
    <3>1. from \in Nat /\ count \in Nat \ {0} BY StoreAssumptions
    <3>2. "misplaced slots" \in Avoided /\ {"unmoved graph", "left edge"} \subseteq Avoided
      BY DEF StaysClear
    <3>3. \/ UNCHANGED <<cells, LTC, RBC, heap, reference, dependency>>
          \/ AllMove(Insertion("col", from, count)) \/ AllMove(Deletion("col", from, count))
      BY <2>5, <3>1, <3>2, InsertColsMoves, DeleteColsMoves DEF Fails, Stays
    <3> QED BY <3>3, NothingMoves, SheetMoves
  <2> QED BY <1>3, <2>1, <2>2, <2>3, <2>4, <2>5 DEF Change
<1> QED BY <1>1, <1>2, <1>3 DEF Next

\* Storage, cells, pointers and graphs fit together after any calls that stay
\* clear of the four defects (ImpSheet's whole state but its cached values).
THEOREM SheetSound ==
  ASSUME StaysClear
  PROVE  Spec => []IInv
<1>1. IInv /\ [Next]_vars => IInv' BY StepKeepsSound
<1> QED BY <1>1, InitIsSound, PTL DEF Spec

\* Both graphs say what the formulas say (UpdateListByRow and its siblings,
\* DeleteRowsFromGraph, CreateCell), where the formulas and the cells are now,
\* while the calls stay clear of four defects; among them are the deletions of
\* columns that would have to move an edge, of which it is not true
\* (DeleteColsFromGraph).
THEOREM GraphsFollowAlways ==
  ASSUME StaysClear
  PROVE  Spec => []GraphsFollow
<1>1. IInv => GraphsFollow
  <2> SUFFICES ASSUME IInv PROVE GraphsFollow OBVIOUS
  <2>1. /\ \A e \in reference \cup dependency : e = <<e[1], e[2]>>
        /\ \A p, q : <<p, q>> \in reference <=> Names(p, q)
        /\ \A p, q : <<q, p>> \in dependency <=> Names(p, q)
    BY DEF IInv, GraphsSound
  <2> DEFINE Named == UNION {{<<p, q>> : q \in Leaves(p)} : p \in {r \in Position : FormulaAt(r)}}
  <2>2. \A e : e \in Named <=> \E p, q : e = <<p, q>> /\ Names(p, q) BY DEF Names
  <2>3. \A e : e \in reference <=> \E p, q : e = <<p, q>> /\ Names(p, q) BY <2>1
  <2>4. reference = Named BY <2>2, <2>3
  <2> DEFINE Turned == {<<e[2], e[1]>> : e \in reference}
  <2>5. ASSUME NEW e \in dependency PROVE e \in Turned
    <3>1. <<e[2], e[1]>> \in reference /\ e = <<e[1], e[2]>> BY <2>1
    <3>2. PICK d \in reference : d = <<e[2], e[1]>> BY <3>1
    <3>3. e = <<d[2], d[1]>> BY <3>1, <3>2
    <3> QED BY <3>3
  <2>6. ASSUME NEW e \in reference PROVE <<e[2], e[1]>> \in dependency
    <3>1. <<e[1], e[2]>> \in reference BY <2>1
    <3> QED BY <2>1, <3>1
  <2>7. dependency = Turned BY <2>5, <2>6
  <2> QED BY <2>4, <2>7 DEF GraphsFollow
<1> QED BY <1>1, SheetSound, PTL

\* A formula's pointer leads to the cell its text names, or nowhere; to nowhere
\* where the text says #REF! (PopulateFormulaPtrs and the four handlers), while
\* the calls stay clear of the four defects.
THEOREM PointersFollowAlways ==
  ASSUME StaysClear
  PROVE  Spec => []PointersFollow
<1>1. IInv => PointersFollow
  <2> SUFFICES ASSUME IInv, NEW p \in Position, FormulaAt(p), NEW i \in DOMAIN heap[Cell(p)].ptrs,
                      heap[Cell(p)].ptrs[i] # Dangling
               PROVE  /\ heap[Cell(p)].formula.tree[i] # Gone
                      /\ Cell(heap[Cell(p)].formula.tree[i]) = heap[Cell(p)].ptrs[i]
    BY DEF PointersFollow
  <2>1. Cell(p) \in Stored BY CellsFound DEF IInv, FormulaAt
  <2>2. PointerSound(Cell(p)) BY <2>1 DEF IInv, PointersSound
  <2> QED BY <2>2, PositionsArePlaces DEF PointerSound
<1> QED BY <1>1, SheetSound, PTL
\* The empty keys are positions, or were before they were moved.
BarePlaced == bare \subseteq Place

\* No call leaves an empty key that is none.
LEMMA StepKeepsBarePlaced ==
  ASSUME IInv, BarePlaced, [Next]_vars
  PROVE  BarePlaced'
<1>1. CASE UNCHANGED vars BY <1>1 DEF vars, BarePlaced
<1>2. CASE Read BY <1>2 DEF Read, GetValue, Fails, BarePlaced
<1>3. CASE Change
  <2>1. ASSUME NEW p, NEW c, NEW asPrinted, SetCell(p, c, asPrinted) PROVE BarePlaced'
    BY <2>1 DEF SetCell, CreateCell, KeySettled, Fails, BarePlaced
  <2>2. ASSUME NEW p, NEW t, SetText(p, t) PROVE BarePlaced' BY <2>1, <2>2 DEF SetText
  <2>3. ASSUME NEW p, NEW tree, NEW asPrinted, SetFormula(p, tree, asPrinted) PROVE BarePlaced'
    BY <2>1, <2>3 DEF SetFormula, KeySettled, BarePlaced
  <2>4. ASSUME NEW p, ClearCell(p) PROVE BarePlaced'
    BY <2>4 DEF ClearCell, KeySettled, Fails, BarePlaced
  <2>5. ASSUME NEW axis \in {"row", "col"}, NEW from \in Nat, NEW count \in Nat \ {0},
               UpdateGraphsByInsertion(axis, from, count)
        PROVE  BarePlaced'
    <3>1. ASSUME NEW k \in Place PROVE InsertedAt(k, axis, from, count) \in Place
      <4>1. k.row \in Nat /\ k.col \in Nat BY DEF Place
      <4>2. \/ InsertedAt(k, axis, from, count) = k
            \/ InsertedAt(k, axis, from, count) = [row |-> k.row + count, col |-> k.col]
            \/ InsertedAt(k, axis, from, count) = [row |-> k.row, col |-> k.col + count]
        BY MapsByAxis
      <4> QED BY <4>1, <4>2 DEF Place
    <3> QED BY <2>5, <3>1 DEF UpdateGraphsByInsertion, BarePlaced
  <2>6. ASSUME NEW from \in Nat, NEW count \in Nat \ {0},
               InsertRows(from, count) \/ InsertCols(from, count)
        PROVE  BarePlaced'
    <3>1. CASE UNCHANGED bare BY <3>1 DEF BarePlaced
    <3>2. CASE \/ UpdateGraphsByInsertion("row", from, count)
               \/ UpdateGraphsByInsertion("col", from, count)
      BY <2>5, <3>2
    <3> QED BY <2>6, <3>1, <3>2 DEF InsertRows, InsertCols, Fails
  <2>7. ASSUME NEW from \in Nat, NEW count \in Nat \ {0}, DeleteRows(from, count)
        PROVE  BarePlaced'
    BY <2>7 DEF DeleteRows, AfterErasure, Fails, BarePlaced
  <2>8. ASSUME NEW from \in Nat, NEW count \in Nat \ {0}, DeleteCols(from, count)
        PROVE  BarePlaced'
    <3>1. bare' = BareAfterCols(from, count) \/ UNCHANGED bare
      BY <2>8 DEF DeleteCols, AfterErasure, Fails
    <3>2. {e[1] : e \in reference} \subseteq Place BY EdgesOfPlaces
    <3> QED BY <3>1, <3>2 DEF BareAfterCols, BarePlaced
  <2>9. 0 .. kMaxRows - 1 \subseteq Nat /\ 0 .. kMaxCols - 1 \subseteq Nat BY StoreAssumptions
  <2>10. \A from \in Nat, n \in Int : 1 .. n - from \subseteq Nat \ {0} OBVIOUS
  <2>11. ASSUME NEW from \in 0 .. kMaxRows - 1, NEW count \in 1 .. kMaxRows - from,
                InsertRows(from, count) \/ DeleteRows(from, count)
         PROVE  BarePlaced'
    BY <2>6, <2>7, <2>9, <2>10, <2>11, StoreAssumptions
  <2>12. ASSUME NEW from \in 0 .. kMaxCols - 1, NEW count \in 1 .. kMaxCols - from,
                InsertCols(from, count) \/ DeleteCols(from, count)
         PROVE  BarePlaced'
    BY <2>6, <2>8, <2>9, <2>10, <2>12, StoreAssumptions
  <2> QED BY <1>3, <2>2, <2>3, <2>4, <2>11, <2>12 DEF Change
<1> QED BY <1>1, <1>2, <1>3 DEF Next

\* CheckFormulas refuses nothing that CheckCellsSize lets through, but for the
\* keys DeleteColsFromGraph leaves empty: both ends of every reference are within
\* the corner of the storage, that of the cell and that of what it names.
THEOREM RefusalsAgreeAlways ==
  ASSUME StaysClear
  PROVE  Spec => []RefusalsAgree
<1>1. Init => BarePlaced BY DEF Init, BarePlaced
<1>2. IInv /\ BarePlaced /\ [Next]_vars => BarePlaced' BY StepKeepsBarePlaced
<1>3. IInv /\ BarePlaced => RefusalsAgree
  <2> SUFFICES ASSUME IInv, BarePlaced, NEW rows \in 0 .. kMaxRows, NEW cols \in 0 .. kMaxCols,
                      Store!CheckCellsSize(rows, cols),
                      ~ \E k \in bare : k.row > RBC.row \/ k.col > RBC.col,
                      NEW p \in Known
               PROVE  p.row + rows < kMaxRows /\ p.col + cols < kMaxCols
    BY DEF RefusalsAgree, CheckFormulas
  <2>1. RBC.row \in Int /\ RBC.col \in Int BY StorageShape DEF IInv
  <2> DEFINE Inside == p.row \in Nat /\ p.col \in Nat /\ p.row <= RBC.row /\ p.col <= RBC.col
  <2>2. Inside
    <3>1. CASE p \in bare BY <2>1, <3>1 DEF BarePlaced, Place
    <3>2. ASSUME NEW e \in reference, p = e[1] \/ p = e[2] PROVE Inside
      <4>1. Names(e[1], e[2]) /\ p \in Place BY <3>2, EdgesOfPlaces DEF IInv, GraphsSound
      <4>2. CASE p = e[1]
        <5>1. p \in Position /\ Cell(p) # Null BY <4>1, <4>2, NamesLeaf
        <5> QED BY <4>1, <5>1, CellsWithin DEF IInv, Place
      <4>3. CASE p = e[2] BY <4>1, <4>3 DEF IInv, RefsWithin, Place
      <4> QED BY <3>2, <4>2, <4>3
    <3> QED BY <3>1, <3>2 DEF Known
  <2>3. RBC.row + rows < kMaxRows /\ RBC.col + cols < kMaxCols
    BY <2>1, StoreAssumptions DEF Store!CheckCellsSize, Store!TooBig
  <2>4. kMaxRows \in Nat /\ kMaxCols \in Nat /\ rows \in Nat /\ cols \in Nat BY StoreAssumptions
  <2>5. p.row \in Nat /\ p.col \in Nat /\ p.row <= RBC.row /\ p.col <= RBC.col BY <2>2
  <2> HIDE DEF Inside
  <2>6. p.row + rows < kMaxRows BY <2>1, <2>3, <2>4, <2>5
  <2>7. p.col + cols < kMaxCols BY <2>1, <2>3, <2>4, <2>5
  <2> QED BY <2>6, <2>7
<1> QED BY <1>1, <1>2, <1>3, SheetSound, PTL DEF Spec

-----------------------------------------------------------------------------
(* The promise.                                                             *)

\* A formula one of whose cells was cleared, and none of whose cells was lost.
SeveredAt(p) ==
  /\ FormulaAt(p) /\ ~ HasLost(heap[Cell(p)].formula)
  /\ Dangling \in ToSet(heap[Cell(p)].ptrs)

\* The two parts of the mapping.
Sheet == [p \in Position |-> ContentsAt(p)]
Severed == {p \in Position : SeveredAt(p)}

\* What MovingSheet calls the same.
LEMMA SameNames ==
  /\ Promise!Gone = Gone /\ Promise!Position = Position /\ Promise!Nothing = Nothing
  /\ \A f : Promise!HasLost(f) <=> HasLost(f)
  /\ \A s : Promise!ToSet(s) = ToSet(s)
  /\ \A p, axis, at, count : Promise!InsertedAt(p, axis, at, count) = InsertedAt(p, axis, at, count)
  /\ \A p, axis, at, count : Promise!DeletedAt(p, axis, at, count) = DeletedAt(p, axis, at, count)
<1>1. Promise!Gone = Gone /\ Promise!Nothing = Nothing
  BY DEF Promise!Gone, Gone, Promise!Nothing, Nothing
<1>2. Promise!Position = Position BY DEF Promise!Position, Position, Store!Position
<1>3. \A f : Promise!HasLost(f) <=> HasLost(f) BY <1>1 DEF HasLost, Promise!HasLost
<1>4. \A s : Promise!ToSet(s) = ToSet(s) BY DEF ToSet, Promise!ToSet
<1>5. /\ \A p, axis, at, count : Promise!InsertedAt(p, axis, at, count) = InsertedAt(p, axis, at, count)
      /\ \A p, axis, at, count : Promise!DeletedAt(p, axis, at, count) = DeletedAt(p, axis, at, count)
  BY <1>1 DEF Promise!InsertedAt, InsertedAt, Promise!DeletedAt, DeletedAt
<1> QED BY <1>1, <1>2, <1>3, <1>4, <1>5

\* The search for cycles that the promise is stated with.
LEMMA SameSearch ==
  ASSUME NEW edges, NEW p
  PROVE  CycleFrom(edges, p) <=> Promise!CycleFrom(edges, p)
BY Zenon DEF CycleFrom, Promise!CycleFrom, ReachedFrom, Promise!ReachedFrom, From, Promise!From,
             Cardinality, Promise!Cardinality, IsFiniteSet, Promise!IsFiniteSet

\* The contents, position by position.
LEMMA ContentsByPosition ==
  /\ \A p \in Position : ContentsAt(p) = IF Cell(p) = Null THEN Promise!Absent
       ELSE [kind |-> heap[Cell(p)].kind, text |-> heap[Cell(p)].text,
             tree |-> heap[Cell(p)].formula.tree]
  /\ \A p \in Position : ContentsAt(p)' = IF Cell(p)' = Null THEN Promise!Absent
       ELSE [kind |-> heap'[Cell(p)'].kind, text |-> heap'[Cell(p)'].text,
             tree |-> heap'[Cell(p)'].formula.tree]
BY DEF ContentsAt, Promise!Absent

LEMMA SameContents ==
  ASSUME UNCHANGED <<cells, LTC, heap>>
  PROVE  /\ \A p \in Position : ContentsAt(p)' = ContentsAt(p)
         /\ \A p \in Position : SeveredAt(p)' <=> SeveredAt(p)
<1>1. \A p \in Position : Cell(p)' = Cell(p) BY DEF Cell, Store!Cell
<1>2. \A p \in Position : ContentsAt(p)' = ContentsAt(p) BY <1>1, ContentsByPosition
<1>3. \A p \in Position : SeveredAt(p)' <=> SeveredAt(p)
  BY <1>1 DEF SeveredAt, FormulaAt, IsFormula
<1> QED BY <1>2, <1>3

\* A call that changes one cell keeps the promise of it.
LEMMA SetAsPromised ==
  ASSUME NEW p \in Position, NEW c, NEW asPrinted, reply' = "Ok", shown' = Nothing, ContentsAt(p)' = c,
         \A q \in Position : q # p => ContentsAt(q)' = ContentsAt(q),
         \A q \in Position : SeveredAt(q)' <=> SeveredAt(q) /\ (q # p \/ (ContentsAt(p) = c /\ asPrinted))
  PROVE  Promise!Set(p, c, asPrinted)
<1>1. p \in Promise!Position BY SameNames
<1>2. [q \in Position |-> ContentsAt(q)]'[p] = c OBVIOUS
<1>3. \A q \in Promise!Position \ {p} :
        [z \in Position |-> ContentsAt(z)]'[q] = [z \in Position |-> ContentsAt(z)][q]
  BY SameNames
<1> DEFINE Broken == {z \in Position : SeveredAt(z)}
<1>4. Broken' = IF [q \in Position |-> ContentsAt(q)][p] = c /\ asPrinted THEN Broken ELSE Broken \ {p}
  OBVIOUS
<1> QED BY <1>2, <1>3, <1>4, SameNames DEF Promise!Set, SeveredAt

\* What the promise knows of a cell.
ShownOf(c) == [kind |-> c.kind, text |-> c.text, tree |-> c.formula.tree]

\* A call that writes a cell, all of whose pointers lead to cells, keeps the
\* promise of it.
LEMMA CreateCellAsPromised ==
  ASSUME IInv, NEW p \in Position, Cell(p) # Null \/ Cardinality(Stored) < Cardinality(Addresses),
         NEW c, NEW asPrinted, Dangling \notin ToSet(c.ptrs),
         ~ (ContentsAt(p) = ShownOf(c) /\ asPrinted), CreateCell(p, c)
  PROVE  Promise!Set(p, ShownOf(c), asPrinted)
<1>1. PICK a \in Addresses :
        /\ a = Cell(p) \/ (Cell(p) = Null /\ a \notin Stored)
        /\ \A q \in Position : Cell(q)' = IF q = p THEN a ELSE Cell(q)
        /\ heap' = [heap EXCEPT ![a] = c]
  BY CellComes
<1>2. a # Null /\ DOMAIN heap = Addresses BY StoreAssumptions DEF IInv, HeapSound
<1>3. heap'[a] = c BY <1>1, <1>2
<1>4. ASSUME NEW q \in Position, q # p
      PROVE  Cell(q)' = Cell(q) /\ (Cell(q) # Null => heap'[Cell(q)] = heap[Cell(q)])
  <2>1. Cell(q)' = Cell(q) BY <1>1, <1>4
  <2>2. ASSUME Cell(q) # Null PROVE heap'[Cell(q)] = heap[Cell(q)]
    <3>1. Cell(q) \in Stored /\ Cell(q) \in Addresses BY <2>2, CellsFound, StoreAssumptions DEF IInv
    <3>2. Cell(q) # a BY <1>1, <1>4, <2>2, <3>1 DEF IInv, OneOwner
    <3> QED BY <1>1, <1>2, <3>1, <3>2
  <2> QED BY <2>1, <2>2
<1>5. ContentsAt(p)' = ShownOf(c)
  <2>1. Cell(p)' = a BY <1>1
  <2> QED BY <1>2, <1>3, <2>1, ContentsByPosition DEF ShownOf
<1>6. \A q \in Position : q # p => ContentsAt(q)' = ContentsAt(q) BY <1>4, ContentsByPosition
<1>7. ~ SeveredAt(p)'
  <2>1. Cell(p)' = a BY <1>1
  <2> QED BY <1>3, <2>1 DEF SeveredAt
<1>8. \A q \in Position : q # p => (SeveredAt(q)' <=> SeveredAt(q))
  BY <1>4 DEF SeveredAt, FormulaAt, IsFormula
<1>9. reply' = "Ok" /\ shown' = Nothing BY DEF CreateCell
<1> QED BY <1>5, <1>6, <1>7, <1>8, <1>9, SetAsPromised

LEMMA SetCellAsPromised ==
  ASSUME IInv, NEW p \in Position, Cell(p) # Null \/ Cardinality(Stored) < Cardinality(Addresses),
         NEW c, c.kind \in {"text", "formula"}, Dangling \notin ToSet(c.ptrs),
         NEW asPrinted, SetCell(p, c, asPrinted)
  PROVE  Promise!Set(p, ShownOf(c), asPrinted)
<1>1. CASE Cell(p) # Null /\ SameText(Cell(p), c, asPrinted)
  <2>1. /\ reply' = "Ok" /\ shown' = Nothing /\ UNCHANGED <<cells, LTC, heap>>
    BY <1>1 DEF SetCell
  <2>2. ContentsAt(p) = ShownOf(c) /\ asPrinted
    BY <1>1, ContentsByPosition DEF SameText, ShownOf
  <2> QED BY <2>1, <2>2, SameContents, SetAsPromised
<1>2. CASE ~ (Cell(p) # Null /\ SameText(Cell(p), c, asPrinted))
  <2>1. CreateCell(p, c) BY <1>2, NeverMeetsNull DEF SetCell
  <2>2. ~ (ContentsAt(p) = ShownOf(c) /\ asPrinted)
    <3>1. CASE Cell(p) = Null
      <4>1. ContentsAt(p).kind = "absent" BY <3>1, ContentsByPosition DEF Promise!Absent
      <4>2. ShownOf(c).kind = c.kind BY DEF ShownOf
      <4> QED BY <4>1, <4>2
    <3>2. CASE Cell(p) # Null
      <4>1. /\ ContentsAt(p).kind = heap[Cell(p)].kind /\ ContentsAt(p).text = heap[Cell(p)].text
            /\ ContentsAt(p).tree = heap[Cell(p)].formula.tree
        BY <3>2, ContentsByPosition
      <4>2. ShownOf(c).kind = c.kind /\ ShownOf(c).text = c.text /\ ShownOf(c).tree = c.formula.tree
        BY DEF ShownOf
      <4> QED BY <1>2, <3>2, <4>1, <4>2 DEF SameText
    <3> QED BY <3>1, <3>2
  <2> QED BY <2>1, <2>2, CreateCellAsPromised
<1> QED BY <1>1, <1>2

LEMMA SetTextAsPromised ==
  ASSUME IInv, NEW p \in Position, Cell(p) # Null \/ Cardinality(Stored) < Cardinality(Addresses),
         NEW t, SetText(p, t)
  PROVE  Promise!Set(p, Promise!TextOf(t), TRUE)
<1> DEFINE c == TextCell(t)
<1>1. c.kind = "text" /\ c.formula.tree = <<>> /\ c.ptrs = <<>> /\ c.text = t
  BY DEF TextCell, Contents, ParsedFormula
<1>2. ToSet(<<>>) = {} BY DEF ToSet
<1>3. ShownOf(c) = Promise!TextOf(t) BY <1>1 DEF ShownOf, Promise!TextOf
<1>4. SetCell(p, c, TRUE) BY DEF SetText
<1> HIDE DEF c
\* A text is always typed as it is printed.
<1>5. PICK asPrinted : asPrinted = TRUE OBVIOUS
<1>6. SetCell(p, c, asPrinted) BY <1>4, <1>5
<1>7. Promise!Set(p, ShownOf(c), asPrinted) BY <1>1, <1>2, <1>6, SetCellAsPromised
<1> QED BY <1>3, <1>5, <1>7

\* What SetFormula searches for a cycle is what the formulas would say.
LEMMA FormulaEdges ==
  ASSUME IInv, NEW p \in Position, NEW tree \in Seq(Position)
  PROVE  {e \in reference : e[1] # p} \cup {<<p, q>> : q \in ToSet(tree)}
           = Promise!RefEdges([[q \in Position |-> ContentsAt(q)] EXCEPT ![p] = Promise!FormulaOf(tree)])
<1> DEFINE cs == [[q \in Position |-> ContentsAt(q)] EXCEPT ![p] = Promise!FormulaOf(tree)]
<1>1. /\ \A e \in reference : e = <<e[1], e[2]>>
      /\ \A x, y : <<x, y>> \in reference <=> Names(x, y)
  BY DEF IInv, GraphsSound
<1>2. Promise!Refs(cs[p]) = ToSet(tree)
  <2>1. cs[p].tree = tree BY DEF Promise!FormulaOf
  <2>2. Gone \notin ToSet(tree) BY PositionsArePlaces DEF ToSet
  <2> QED BY <2>1, <2>2, SameNames DEF Promise!Refs
<1>3. ASSUME NEW x \in Position, x # p, NEW y PROVE y \in Promise!Refs(cs[x]) <=> Names(x, y)
  <2>1. cs[x] = ContentsAt(x) BY <1>3
  <2>2. ToSet(<<>>) = {} BY DEF ToSet
  <2>3. CASE Cell(x) = Null
    <3>1. ContentsAt(x).tree = <<>> BY <2>3, ContentsByPosition DEF Promise!Absent
    <3> QED BY <2>1, <2>2, <2>3, <3>1, SameNames DEF Promise!Refs, Names, FormulaAt
  <2>4. CASE Cell(x) # Null
    <3>1. ContentsAt(x).tree = heap[Cell(x)].formula.tree BY <2>4, ContentsByPosition
    <3>2. Cell(x) \in Stored BY <2>4, CellsFound DEF IInv
    <3>3. ~ IsFormula(Cell(x)) => heap[Cell(x)].formula.tree = <<>>
      BY <3>2, StoredSound DEF Sound, IsFormula
    <3> QED BY <2>1, <2>2, <2>4, <3>1, <3>3, SameNames DEF Promise!Refs, Names, FormulaAt, Leaves
  <2> QED BY <2>3, <2>4
<1> DEFINE L == {e \in reference : e[1] # p} \cup {<<p, q>> : q \in ToSet(tree)}
           R == Promise!RefEdges(cs)
<1>4. \A e : e \in R <=> \E x \in Position : \E y \in Promise!Refs(cs[x]) : e = <<x, y>>
  <2> HIDE DEF cs
  <2> QED BY SameNames DEF Promise!RefEdges
<1>5. ASSUME NEW e \in L PROVE e \in R
  <2>1. CASE e \in reference /\ e[1] # p
    <3>1. Names(e[1], e[2]) /\ e = <<e[1], e[2]>> BY <1>1, <2>1
    <3>2. e[1] \in Position BY <3>1 DEF Names
    <3> HIDE DEF cs
    <3> QED BY <1>3, <1>4, <2>1, <3>1, <3>2
  <2>2. CASE \E q \in ToSet(tree) : e = <<p, q>>
    <3> HIDE DEF cs
    <3> QED BY <1>2, <1>4, <2>2
  <2> QED BY <2>1, <2>2
<1>6. ASSUME NEW e \in R PROVE e \in L
  <2> HIDE DEF cs, R
  <2>1. PICK x \in Position : \E y \in Promise!Refs(cs[x]) : e = <<x, y>> BY <1>4
  <2>2. PICK y \in Promise!Refs(cs[x]) : e = <<x, y>> BY <2>1
  <2>3. CASE x = p BY <1>2, <2>2, <2>3
  <2>4. CASE x # p
    <3>1. e \in reference BY <1>1, <1>3, <2>2, <2>4
    <3>2. e[1] = x BY <2>2
    <3> QED BY <2>4, <3>1, <3>2
  <2> QED BY <2>3, <2>4
<1> QED BY <1>5, <1>6

LEMMA SetFormulaAsPromised ==
  ASSUME IInv, NEW p \in Position, Cell(p) # Null \/ Cardinality(Stored) < Cardinality(Addresses),
         NEW tree \in Seq(Written), NEW asPrinted \in BOOLEAN, SetFormula(p, tree, asPrinted)
  PROVE  Promise!SetFormula(p, tree, asPrinted)
<1> DEFINE c == FormulaCell(tree)
           edges == {e \in reference : e[1] # p} \cup {<<p, q>> : q \in ToSet(tree)}
<1>1. tree \in Seq(Position)
  <2>1. Written \subseteq Position BY StructureAssumption DEF Position, Store!Position
  <2> QED BY <2>1
<1>2. CycleFrom(edges, p) <=> Promise!ClosesCycle(p, tree)
  BY <1>1, FormulaEdges, SameSearch DEF Promise!ClosesCycle
<1>3. CASE CycleFrom(edges, p)
  <2>1. reply' = "CircularDependency" /\ shown' = Nothing /\ UNCHANGED <<cells, LTC, heap>>
    BY <1>3 DEF SetFormula, Stays
  <2>2. UNCHANGED <<[q \in Position |-> ContentsAt(q)], {q \in Position : SeveredAt(q)}>>
    BY <2>1, SameContents
  <2> HIDE DEF edges
  <2> QED BY <1>2, <1>3, <2>1, <2>2, SameNames DEF Promise!SetFormula, SeveredAt
<1>4. CASE ~ CycleFrom(edges, p)
  <2>1. SetCell(p, c, asPrinted) BY <1>4 DEF SetFormula
  <2>2. /\ c.kind = "formula" /\ c.text = 0 /\ c.formula.tree = tree
        /\ c.ptrs = [i \in DOMAIN tree |-> Cell(tree[i])]
    BY DEF FormulaCell, Contents, ParsedFormula
  <2>3. Dangling \notin ToSet(c.ptrs)
    <3>1. \A i \in DOMAIN tree : tree[i] \in Position BY <1>1
    <3>2. \A i \in DOMAIN tree : Cell(tree[i]) \in Addresses \cup {Null} BY <3>1, CellsFound DEF IInv
    <3> QED BY <2>2, <3>2, StoreAssumptions DEF ToSet
  <2>4. ShownOf(c) = Promise!FormulaOf(tree) BY <2>2 DEF ShownOf, Promise!FormulaOf
  <2> HIDE DEF c, edges
  <2>5. Promise!Set(p, ShownOf(c), asPrinted) BY <2>1, <2>2, <2>3, SetCellAsPromised
  <2> QED BY <1>2, <1>4, <2>4, <2>5 DEF Promise!SetFormula
<1> QED BY <1>3, <1>4

LEMMA ClearCellAsPromised ==
  ASSUME IInv, NEW p \in Position, ClearCell(p)
  PROVE  Promise!ClearCell(p)
<1> DEFINE a == Cell(p)
<1>1. /\ a # Null /\ Store!DeleteCell(p) /\ Keep(heap, MemoAfterInvalidation({p}))
      /\ shown' = Nothing
  BY NeverMeetsNull DEF ClearCell
<1>2. /\ WellStored' /\ reply' = "Ok"
      /\ \A q \in Position : Cell(q)' = IF q = p THEN Null ELSE Cell(q)
  BY <1>1, CellTaken DEF IInv
<1>3. /\ \A b : b \in Stored <=> b # Null /\ \E q \in Position : Cell(q) = b
      /\ \A b : b \in Stored' <=> b # Null /\ \E q \in Position : Cell(q)' = b
      /\ Null \notin Addresses /\ Dangling \notin Addresses
      /\ \A q \in Position : Cell(q) \in Addresses \cup {Null}
  BY <1>2, CellsFound, StoreAssumptions DEF IInv
<1>4. \A b : b \in Stored' <=> b \in Stored /\ b # a
  BY <1>1, <1>2, <1>3 DEF IInv, OneOwner
<1>5. ASSUME NEW q \in Position, q # p, Cell(q) # Null
      PROVE  /\ Cell(q)' = Cell(q) /\ Cell(q) \in Stored /\ Sound(heap[Cell(q)])
             /\ PointerSound(Cell(q))
             /\ heap'[Cell(q)].kind = heap[Cell(q)].kind /\ heap'[Cell(q)].text = heap[Cell(q)].text
             /\ heap'[Cell(q)].formula = heap[Cell(q)].formula
             /\ DOMAIN heap'[Cell(q)].ptrs = DOMAIN heap[Cell(q)].ptrs
             /\ \A i \in DOMAIN heap[Cell(q)].ptrs :
                  heap'[Cell(q)].ptrs[i]
                    = IF heap[Cell(q)].ptrs[i] \in Stored' THEN heap[Cell(q)].ptrs[i] ELSE Dangling
  <2>1. Cell(q) \in Stored /\ Cell(q)' = Cell(q) BY <1>2, <1>3, <1>5
  <2>2. Cell(q) \in Stored' BY <1>1, <1>2, <1>3, <1>5, <2>1
  <2>3. Sound(heap[Cell(q)]) /\ Cell(q) \in Addresses /\ PointerSound(Cell(q))
    BY <2>1, StoredSound DEF IInv, PointersSound
  <2> HIDE DEF MemoAfterInvalidation
  <2> QED BY <1>1, <2>1, <2>2, <2>3, OwnedKept
<1>6. ContentsAt(p) # Promise!Absent
  <2>1. ContentsAt(p).kind \in {"text", "formula"}
    <3>1. a \in Stored BY <1>1, <1>3
    <3> QED BY <1>1, <3>1, StoredSound, ContentsByPosition DEF Sound
  <2> QED BY <2>1 DEF Promise!Absent
<1>7. ContentsAt(p)' = Promise!Absent BY <1>2, ContentsByPosition
<1>8. ASSUME NEW q \in Position, q # p PROVE ContentsAt(q)' = ContentsAt(q)
  <2>1. CASE Cell(q) = Null BY <1>2, <1>8, <2>1, ContentsByPosition
  <2>2. CASE Cell(q) # Null BY <1>5, <1>8, <2>2, ContentsByPosition
  <2> QED BY <2>1, <2>2
<1>9. ASSUME NEW q \in Position
      PROVE  SeveredAt(q)' <=>
               q # p /\ (SeveredAt(q) \/ (/\ p \in ToSet(ContentsAt(q).tree) \ {Gone}
                                        /\ ~ HasLost(ContentsAt(q))))
  <2>1. CASE q = p BY <1>2, <2>1 DEF SeveredAt, FormulaAt
  <2>2. CASE q # p /\ Cell(q) = Null
    <3>1. ContentsAt(q).tree = <<>> BY <2>2, ContentsByPosition DEF Promise!Absent
    <3>2. ToSet(<<>>) = {} BY DEF ToSet
    <3> QED BY <1>2, <2>2, <3>1, <3>2 DEF SeveredAt, FormulaAt
  <2>3. CASE q # p /\ Cell(q) # Null
    <3> DEFINE b == Cell(q)
               tree == heap[b].formula.tree
               ptrs == heap[b].ptrs
    <3>1. /\ b # Null /\ Cell(q)' = b /\ heap'[b].kind = heap[b].kind
          /\ heap'[b].formula = heap[b].formula /\ DOMAIN heap'[b].ptrs = DOMAIN ptrs
          /\ \A i \in DOMAIN ptrs : heap'[b].ptrs[i] = IF ptrs[i] \in Stored' THEN ptrs[i] ELSE Dangling
          /\ Sound(heap[b])
      BY <1>5, <2>3
    <3>2. /\ \A i \in DOMAIN ptrs : ptrs[i] # Dangling =>
               ptrs[i] # Null /\ tree[i] \in Position /\ Cell(tree[i]) = ptrs[i]
          /\ DOMAIN ptrs = DOMAIN tree
      BY <1>5, <2>3 DEF PointerSound, Sound
    <3>3. ContentsAt(q).tree = tree BY <2>3, ContentsByPosition
    <3>4. IsFormula(b) \/ DOMAIN tree = {}
      <4>1. DOMAIN <<>> = {} OBVIOUS
      <4> QED BY <3>1, <4>1 DEF Sound, IsFormula
    <3> HIDE DEF b, tree, ptrs
    <3>5. \A i \in DOMAIN ptrs : heap'[b].ptrs[i] = Dangling <=> ptrs[i] = Dangling \/ tree[i] = p
      <4>1. Dangling \notin Stored' BY <1>2, <1>3
      <4>2. \A i \in DOMAIN ptrs : ptrs[i] # Dangling =>
              /\ ptrs[i] \in Stored
              /\ ptrs[i] = a <=> tree[i] = p
        BY <1>1, <1>3, <3>2 DEF IInv, OneOwner
      <4> QED BY <1>4, <3>1, <3>2, <4>1, <4>2
    <3>6. SeveredAt(q) <=>
            /\ IsFormula(b) /\ ~ HasLost(heap[b].formula)
            /\ \E i \in DOMAIN ptrs : ptrs[i] = Dangling
      BY <3>1 DEF SeveredAt, FormulaAt, ToSet, b, ptrs
    <3>7. SeveredAt(q)' <=>
            /\ IsFormula(b) /\ ~ HasLost(heap[b].formula)
            /\ \E i \in DOMAIN ptrs : heap'[b].ptrs[i] = Dangling
      BY <3>1 DEF SeveredAt, FormulaAt, ToSet, IsFormula
    <3>8. HasLost(ContentsAt(q)) <=> HasLost(heap[b].formula) BY <3>3 DEF HasLost, tree
    <3>9. p \in ToSet(ContentsAt(q).tree) \ {Gone} <=> \E i \in DOMAIN tree : tree[i] = p
      BY <3>3, PositionsArePlaces DEF ToSet
    <3> QED BY <2>3, <3>2, <3>4, <3>5, <3>6, <3>7, <3>8, <3>9
  <2> QED BY <2>1, <2>2, <2>3
<1> DEFINE cs == [q \in Position |-> ContentsAt(q)]
           severed == {q \in Position : SeveredAt(q)}
<1>10. cs[p] # Promise!Absent /\ cs'[p] = Promise!Absent BY <1>6, <1>7
<1>11. \A q \in Promise!Position \ {p} : cs'[q] = cs[q] BY <1>8, SameNames
<1>12. severed' = (severed \cup {q \in Promise!Position : /\ p \in Promise!Refs(cs[q])
                                                         /\ ~ Promise!HasLost(cs[q])}) \ {p}
  <2>1. \A q \in Position : Promise!Refs(cs[q]) = ToSet(ContentsAt(q).tree) \ {Gone}
    BY SameNames DEF Promise!Refs
  <2>2. \A q \in Position : Promise!HasLost(cs[q]) <=> HasLost(ContentsAt(q)) BY SameNames
  <2>3. Promise!Position = Position BY SameNames
  <2>4. severed' = {q \in Position : SeveredAt(q)'} OBVIOUS
  <2> HIDE DEF cs
  <2> QED BY <1>9, <2>1, <2>2, <2>3, <2>4
<1> QED BY <1>1, <1>2, <1>10, <1>11, <1>12, SameNames DEF Promise!ClearCell, SeveredAt

\* Where what is found at each position after a move was before; Gone, or
\* beyond the table, if nothing comes there.
Comes(source, To) ==
  \A q \in Position : IF source[q] \in Position THEN To[source[q]] = q
                      ELSE \A p \in Position : To[p] # q

\* A cell that comes brings its contents, and its references have moved.
LEMMA MovedContents ==
  ASSUME IInv, NEW To, AllMove(To), NEW source, Comes(source, To), NEW q \in Position
  PROVE  /\ ContentsAt(q)' =
              IF source[q] \in Position
              THEN [ContentsAt(source[q]) EXCEPT !.tree =
                      [i \in DOMAIN ContentsAt(source[q]).tree |-> To[ContentsAt(source[q]).tree[i]]]]
              ELSE Promise!Absent
         /\ SeveredAt(q)' <=> /\ source[q] \in Position /\ SeveredAt(source[q])
                              /\ ~ HasLost(ContentsAt(q)')
<1>1. /\ \A a : a \in Stored <=> a # Null /\ \E p \in Position : Cell(p) = a
      /\ \A a : a \in Stored' <=> a # Null /\ \E p \in Position : Cell(p)' = a
      /\ Dangling \notin Addresses /\ \A p \in Position : Cell(p) \in Addresses \cup {Null}
      /\ Null # Dangling
  BY CellsFound, StoreAssumptions DEF IInv, AllMove
<1>2. /\ \A p \in Position : Cell(p) # Null /\ To[p] # Gone => To[p] \in Position /\ Cell(To[p])' = Cell(p)
      /\ \A z \in Position : Cell(z)' # Null => \E p \in Position : To[p] = z /\ Cell(p) = Cell(z)'
      /\ To[Gone] = Gone
      /\ \A p, z \in Position : To[p] = To[z] /\ To[p] # Gone => p = z
  BY PositionsArePlaces DEF AllMove, CellsMove, Moves
<1>3. CASE source[q] \notin Position
  <2>1. Cell(q)' = Null BY <1>2, <1>3 DEF Comes
  <2> QED BY <1>3, <2>1, ContentsByPosition DEF SeveredAt, FormulaAt
<1>4. CASE source[q] \in Position
  <2> DEFINE p == source[q]
             c == ContentsAt(p)
  <2>1. To[p] = q /\ q # Gone BY <1>4, PositionsArePlaces DEF Comes
  <2>2. PICK a \in Addresses \cup {Null} : a = Cell(p) /\ Cell(q)' = a
    <3>1. CASE Cell(p) # Null BY <1>1, <1>2, <1>4, <2>1, <3>1
    <3>2. CASE Cell(p) = Null BY <1>2, <1>4, <2>1, <3>2
    <3> QED BY <3>1, <3>2
  <2>3. CASE a = Null
    <3>1. c = Promise!Absent /\ ContentsAt(q)' = Promise!Absent
      BY <1>4, <2>2, <2>3, ContentsByPosition
    <3>2. [Promise!Absent EXCEPT !.tree = [i \in DOMAIN Promise!Absent.tree |-> To[Promise!Absent.tree[i]]]]
            = Promise!Absent
      <4>1. [i \in DOMAIN <<>> |-> To[<<>>[i]]] = <<>> OBVIOUS
      <4>2. Promise!Absent.tree = <<>> BY DEF Promise!Absent
      <4> QED BY <4>1, <4>2 DEF Promise!Absent
    <3>3. ~ SeveredAt(p) /\ ~ SeveredAt(q)' BY <2>2, <2>3 DEF SeveredAt, FormulaAt
    <3> QED BY <1>4, <3>1, <3>2, <3>3
  <2>4. CASE a # Null
    <3> DEFINE tree == heap[a].formula.tree
               moved == heap'[a].formula.tree
               ptrs == heap[a].ptrs
    <3>1. a \in Stored /\ a \in Stored' BY <1>1, <1>4, <2>2, <2>4
    <3>2. /\ Sound(heap[a]) /\ Sound(heap[a])'
          /\ heap'[a].kind = heap[a].kind /\ heap'[a].text = heap[a].text
          /\ DOMAIN moved = DOMAIN tree /\ \A i \in DOMAIN tree : moved[i] = To[tree[i]]
          /\ DOMAIN heap'[a].ptrs = DOMAIN ptrs
          /\ \A i \in DOMAIN ptrs : heap'[a].ptrs[i] = IF ptrs[i] \in Stored' THEN ptrs[i] ELSE Dangling
      BY <3>1, MovedKept
    <3>3. moved = [i \in DOMAIN tree |-> To[tree[i]]]
      <4>1. heap'[a].formula.tree \in Seq(Place \cup {Gone}) BY <3>2 DEF Sound, Consistent
      <4>2. moved \in Seq(Place \cup {Gone}) BY <4>1
      <4> HIDE DEF moved, tree
      <4> QED BY <3>2, <4>2
    <3>4. c = [kind |-> heap[a].kind, text |-> heap[a].text, tree |-> tree]
      BY <1>4, <2>2, <2>4, ContentsByPosition
    <3>5. ContentsAt(q)' = [kind |-> heap[a].kind, text |-> heap[a].text, tree |-> moved]
      BY <2>2, <2>4, <3>2, ContentsByPosition
    <3>6. /\ \A i \in DOMAIN ptrs : ptrs[i] # Dangling =>
               ptrs[i] # Null /\ tree[i] \in Position /\ Cell(tree[i]) = ptrs[i]
          /\ DOMAIN ptrs = DOMAIN tree
      BY <3>1, <3>2 DEF IInv, PointersSound, PointerSound, Sound
    <3>7. SeveredAt(p) <=>
            /\ IsFormula(a) /\ ~ HasLost(heap[a].formula)
            /\ \E i \in DOMAIN ptrs : ptrs[i] = Dangling
      BY <2>2, <2>4 DEF SeveredAt, FormulaAt, ToSet
    <3>8. SeveredAt(q)' <=>
            /\ IsFormula(a) /\ ~ HasLost(heap'[a].formula)
            /\ \E i \in DOMAIN ptrs : heap'[a].ptrs[i] = Dangling
      BY <2>2, <2>4, <3>2 DEF SeveredAt, FormulaAt, ToSet, IsFormula
    <3>9. HasLost(ContentsAt(q)') <=> HasLost(heap'[a].formula) BY <3>5 DEF HasLost
    <3>10. ASSUME ~ HasLost(heap'[a].formula)
           PROVE  /\ ~ HasLost(heap[a].formula)
                  /\ \A i \in DOMAIN ptrs : heap'[a].ptrs[i] = Dangling <=> ptrs[i] = Dangling
      <4>1. \A i \in DOMAIN tree : tree[i] # Gone /\ To[tree[i]] # Gone
        BY <1>2, <3>2, <3>10 DEF HasLost
      <4>2. Dangling \notin Stored' BY <1>1, <2>2, <1>2
      <4>3. ASSUME NEW i \in DOMAIN ptrs, ptrs[i] # Dangling PROVE ptrs[i] \in Stored'
        <5>1. tree[i] \in Position /\ Cell(tree[i]) = ptrs[i] /\ ptrs[i] # Null /\ To[tree[i]] # Gone
          BY <3>6, <4>1, <4>3
        <5> QED BY <1>1, <1>2, <5>1
      <4> QED BY <3>2, <4>1, <4>2, <4>3 DEF HasLost
    <3> HIDE DEF c, moved, tree, ptrs
    <3>11. ContentsAt(q)' = [c EXCEPT !.tree = [i \in DOMAIN c.tree |-> To[c.tree[i]]]]
      BY <3>3, <3>4, <3>5
    <3>12. SeveredAt(q)' <=> SeveredAt(p) /\ ~ HasLost(ContentsAt(q)')
      BY <3>7, <3>8, <3>9, <3>10
    <3> QED BY <1>4, <3>11, <3>12 DEF c
  <2> QED BY <2>3, <2>4
<1> QED BY <1>3, <1>4

\* Where what comes to q was, before an insertion and before a deletion.
InsertedFrom(q, axis, before, count) ==
  IF q[axis] < before THEN q
  ELSE IF q[axis] < before + count THEN Gone ELSE Promise!Shifted(q, axis, -count)
DeletedFrom(q, axis, first, count) == IF q[axis] < first THEN q ELSE Promise!Shifted(q, axis, count)

LEMMA SourcesByAxis ==
  ASSUME NEW q \in Position, NEW at \in Nat, NEW count \in Nat
  PROVE  /\ InsertedFrom(q, "row", at, count)
              = IF q.row < at THEN q
                ELSE IF q.row < at + count THEN Gone ELSE [row |-> q.row - count, col |-> q.col]
         /\ InsertedFrom(q, "col", at, count)
              = IF q.col < at THEN q
                ELSE IF q.col < at + count THEN Gone ELSE [row |-> q.row, col |-> q.col - count]
         /\ DeletedFrom(q, "row", at, count)
              = IF q.row < at THEN q ELSE [row |-> q.row + count, col |-> q.col]
         /\ DeletedFrom(q, "col", at, count)
              = IF q.col < at THEN q ELSE [row |-> q.row, col |-> q.col + count]
<1>1. q \in Place /\ q.row \in Int /\ q.col \in Int BY PositionsArePlaces
<1>2. ASSUME NEW x \in Place
      PROVE  /\ \A n : [x EXCEPT !["row"] = n] = [row |-> n, col |-> x.col]
             /\ \A n : [x EXCEPT !["col"] = n] = [row |-> x.row, col |-> n]
  BY DEF Place
<1>3. q["row"] = q.row /\ q["col"] = q.col OBVIOUS
<1>4. q.row + (-count) = q.row - count /\ q.col + (-count) = q.col - count BY <1>1
<1>5. /\ Promise!Shifted(q, "row", -count) = [row |-> q.row - count, col |-> q.col]
      /\ Promise!Shifted(q, "col", -count) = [row |-> q.row, col |-> q.col - count]
      /\ Promise!Shifted(q, "row", count) = [row |-> q.row + count, col |-> q.col]
      /\ Promise!Shifted(q, "col", count) = [row |-> q.row, col |-> q.col + count]
  BY <1>1, <1>2, <1>3, <1>4 DEF Promise!Shifted
<1> QED BY <1>3, <1>5 DEF InsertedFrom, DeletedFrom

LEMMA InsertionComes ==
  ASSUME NEW axis \in Axes, NEW before \in Nat, NEW count \in Nat \ {0}
  PROVE  Comes([q \in Position |-> InsertedFrom(q, axis, before, count)],
               Insertion(axis, before, count))
<1> SUFFICES ASSUME NEW q \in Position
             PROVE  IF InsertedFrom(q, axis, before, count) \in Position
                    THEN InsertedAt(InsertedFrom(q, axis, before, count), axis, before, count) = q
                    ELSE \A p \in Position : InsertedAt(p, axis, before, count) # q
  BY PositionsArePlaces DEF Comes, Insertion
<1>1. /\ \A p \in Position : /\ p.row \in 0 .. kMaxRows - 1 /\ p.col \in 0 .. kMaxCols - 1 /\ p \in Place
                             /\ p = [row |-> p.row, col |-> p.col]
      /\ kMaxRows \in Nat /\ kMaxCols \in Nat /\ Gone \notin Position
  BY PositionsArePlaces, StoreAssumptions
<1>2. CASE axis = "row"
  <2>1. CASE q.row < before BY <1>1, <1>2, <2>1, SourcesByAxis, MapsByAxis
  <2>2. CASE ~ q.row < before /\ q.row < before + count
    <3>1. InsertedFrom(q, "row", before, count) = Gone BY <2>2, SourcesByAxis
    <3>2. ASSUME NEW p \in Position PROVE InsertedAt(p, "row", before, count) # q
      <4>1. InsertedAt(p, "row", before, count)
              = IF p.row < before THEN p ELSE [row |-> p.row + count, col |-> p.col]
        BY <1>1, MapsByAxis
      <4>2. p.row \in Int /\ q.row \in Int BY <1>1
      <4> QED BY <2>2, <4>1, <4>2
    <3> QED BY <1>1, <1>2, <3>1, <3>2
  <2>3. CASE ~ q.row < before + count
    <3> DEFINE p == [row |-> q.row - count, col |-> q.col]
    <3>1. q.row \in Int /\ q.col \in 0 .. kMaxCols - 1 BY <1>1
    <3>2. InsertedFrom(q, "row", before, count) = p BY <2>3, <3>1, SourcesByAxis
    <3>3. p \in Position /\ p \in Place
      <4>1. q.row - count \in 0 .. kMaxRows - 1 BY <1>1, <2>3
      <4> QED BY <1>1, <3>1, <4>1, PositionFields
    <3>4. InsertedAt(p, "row", before, count)
            = IF p.row < before THEN p ELSE [row |-> p.row + count, col |-> p.col]
      BY <3>3, MapsByAxis
    <3>5. ~ p.row < before /\ p.row + count = q.row BY <2>3, <3>1
    <3> QED BY <1>1, <1>2, <3>2, <3>3, <3>4, <3>5
  <2> QED BY <2>1, <2>2, <2>3
<1>3. CASE axis = "col"
  <2>1. CASE q.col < before BY <1>1, <1>3, <2>1, SourcesByAxis, MapsByAxis
  <2>2. CASE ~ q.col < before /\ q.col < before + count
    <3>1. InsertedFrom(q, "col", before, count) = Gone BY <2>2, SourcesByAxis
    <3>2. ASSUME NEW p \in Position PROVE InsertedAt(p, "col", before, count) # q
      <4>1. InsertedAt(p, "col", before, count)
              = IF p.col < before THEN p ELSE [row |-> p.row, col |-> p.col + count]
        BY <1>1, MapsByAxis
      <4>2. p.col \in Int /\ q.col \in Int BY <1>1
      <4> QED BY <2>2, <4>1, <4>2
    <3> QED BY <1>1, <1>3, <3>1, <3>2
  <2>3. CASE ~ q.col < before + count
    <3> DEFINE p == [row |-> q.row, col |-> q.col - count]
    <3>1. q.col \in Int /\ q.row \in 0 .. kMaxRows - 1 BY <1>1
    <3>2. InsertedFrom(q, "col", before, count) = p BY <2>3, <3>1, SourcesByAxis
    <3>3. p \in Position /\ p \in Place
      <4>1. q.col - count \in 0 .. kMaxCols - 1 BY <1>1, <2>3
      <4> QED BY <1>1, <3>1, <4>1, PositionFields
    <3>4. InsertedAt(p, "col", before, count)
            = IF p.col < before THEN p ELSE [row |-> p.row, col |-> p.col + count]
      BY <3>3, MapsByAxis
    <3>5. ~ p.col < before /\ p.col + count = q.col BY <2>3, <3>1
    <3> QED BY <1>1, <1>3, <3>2, <3>3, <3>4, <3>5
  <2> QED BY <2>1, <2>2, <2>3
<1> QED BY <1>2, <1>3 DEF Axes

LEMMA DeletionComes ==
  ASSUME NEW axis \in Axes, NEW first \in Nat, NEW count \in Nat \ {0}
  PROVE  Comes([q \in Position |-> DeletedFrom(q, axis, first, count)], Deletion(axis, first, count))
<1> SUFFICES ASSUME NEW q \in Position
             PROVE  IF DeletedFrom(q, axis, first, count) \in Position
                    THEN DeletedAt(DeletedFrom(q, axis, first, count), axis, first, count) = q
                    ELSE \A p \in Position : DeletedAt(p, axis, first, count) # q
  BY PositionsArePlaces DEF Comes, Deletion
<1>1. /\ \A p \in Position : /\ p.row \in 0 .. kMaxRows - 1 /\ p.col \in 0 .. kMaxCols - 1 /\ p \in Place
                             /\ p = [row |-> p.row, col |-> p.col] /\ p # Gone
      /\ kMaxRows \in Nat /\ kMaxCols \in Nat
  BY PositionsArePlaces, StoreAssumptions
<1>2. CASE axis = "row"
  <2>1. CASE q.row < first BY <1>1, <1>2, <2>1, SourcesByAxis, MapsByAxis
  <2>2. CASE ~ q.row < first
    <3> DEFINE z == [row |-> q.row + count, col |-> q.col]
    <3>1. q.row \in Int /\ q.col \in 0 .. kMaxCols - 1 BY <1>1
    <3>2. DeletedFrom(q, "row", first, count) = z BY <2>2, SourcesByAxis
    <3>3. ASSUME NEW p \in Position
          PROVE  DeletedAt(p, "row", first, count) = q <=> p = z
      <4>1. p.row \in Int BY <1>1
      <4>2. DeletedAt(p, "row", first, count) = IF p.row < first THEN p
                                               ELSE IF p.row < first + count THEN Gone
                                               ELSE [row |-> p.row - count, col |-> p.col]
        BY <1>1, MapsByAxis
      <4>3. CASE p.row < first BY <2>2, <3>1, <4>1, <4>2, <4>3
      <4>4. CASE ~ p.row < first /\ p.row < first + count
        <5>1. p # z BY <2>2, <3>1, <4>1, <4>4
        <5> QED BY <1>1, <4>2, <4>4, <5>1
      <4>5. CASE ~ p.row < first + count
        <5>1. DeletedAt(p, "row", first, count) = [row |-> p.row - count, col |-> p.col]
          BY <4>1, <4>2, <4>5
        <5>2. p.row - count = q.row <=> p.row = q.row + count BY <3>1, <4>1
        <5>3. p = [row |-> p.row, col |-> p.col] /\ q = [row |-> q.row, col |-> q.col] BY <1>1
        <5> QED BY <5>1, <5>2, <5>3
      <4> QED BY <4>3, <4>4, <4>5
    <3> HIDE DEF z
    <3> QED BY <1>2, <3>2, <3>3
  <2> QED BY <2>1, <2>2
<1>3. CASE axis = "col"
  <2>1. CASE q.col < first BY <1>1, <1>3, <2>1, SourcesByAxis, MapsByAxis
  <2>2. CASE ~ q.col < first
    <3> DEFINE z == [row |-> q.row, col |-> q.col + count]
    <3>1. q.col \in Int /\ q.row \in 0 .. kMaxRows - 1 BY <1>1
    <3>2. DeletedFrom(q, "col", first, count) = z BY <2>2, SourcesByAxis
    <3>3. ASSUME NEW p \in Position
          PROVE  DeletedAt(p, "col", first, count) = q <=> p = z
      <4>1. p.col \in Int BY <1>1
      <4>2. DeletedAt(p, "col", first, count) = IF p.col < first THEN p
                                               ELSE IF p.col < first + count THEN Gone
                                               ELSE [row |-> p.row, col |-> p.col - count]
        BY <1>1, MapsByAxis
      <4>3. CASE p.col < first BY <2>2, <3>1, <4>1, <4>2, <4>3
      <4>4. CASE ~ p.col < first /\ p.col < first + count
        <5>1. p # z BY <2>2, <3>1, <4>1, <4>4
        <5> QED BY <1>1, <4>2, <4>4, <5>1
      <4>5. CASE ~ p.col < first + count
        <5>1. DeletedAt(p, "col", first, count) = [row |-> p.row, col |-> p.col - count]
          BY <4>1, <4>2, <4>5
        <5>2. p.col - count = q.col <=> p.col = q.col + count BY <3>1, <4>1
        <5>3. p = [row |-> p.row, col |-> p.col] /\ q = [row |-> q.row, col |-> q.col] BY <1>1
        <5> QED BY <5>1, <5>2, <5>3
      <4> QED BY <4>3, <4>4, <4>5
    <3> HIDE DEF z
    <3> QED BY <1>3, <3>2, <3>3
  <2> QED BY <2>1, <2>2
<1> QED BY <1>2, <1>3 DEF Axes

\* What a formula keeps is a place, or nothing.
LEMMA ContentsPlaces ==
  ASSUME IInv, NEW p \in Position, NEW i \in DOMAIN ContentsAt(p).tree
  PROVE  ContentsAt(p).tree[i] \in Place \cup {Gone}
<1>1. DOMAIN <<>> = {} OBVIOUS
<1>2. CASE Cell(p) = Null BY <1>1, <1>2, ContentsByPosition DEF Promise!Absent
<1>3. CASE Cell(p) # Null
  <2>1. ContentsAt(p).tree = heap[Cell(p)].formula.tree BY <1>3, ContentsByPosition
  <2>2. Cell(p) \in Stored BY <1>3, CellsFound DEF IInv
  <2>3. heap[Cell(p)].formula.tree \in Seq(Place \cup {Gone})
    BY <2>2, StoredSound DEF Sound, Consistent
  <2> DEFINE tree == heap[Cell(p)].formula.tree
             S == Place \cup {Gone}
  <2>4. tree \in Seq(S) /\ i \in DOMAIN tree BY <2>1, <2>3
  <2> HIDE DEF tree, S
  <2>5. tree[i] \in S BY <2>4
  <2> QED BY <2>1, <2>5 DEF tree, S
<1> QED BY <1>2, <1>3

\* A sheet that has moved keeps the promise of a call that moves all there is.
LEMMA MovedAsPromised ==
  ASSUME IInv, NEW To, AllMove(To), NEW source, Comes(source, To), NEW q \in Position
  PROVE  /\ Sheet'[q] = IF source[q] \in Position
                       THEN [Sheet[source[q]] EXCEPT !.tree =
                               [i \in DOMAIN @ |-> IF @[i] = Gone THEN Gone ELSE To[@[i]]]]
                       ELSE Promise!Absent
         /\ q \in Severed' <=> /\ source[q] \in Severed
                              /\ ~ HasLost(Sheet'[q])
<1>1. To[Gone] = Gone BY DEF AllMove, Moves
<1>2. /\ Sheet'[q] = ContentsAt(q)' /\ (q \in Severed' <=> SeveredAt(q)')
      /\ source[q] \in Severed <=> source[q] \in Position /\ SeveredAt(source[q])
  BY DEF Sheet, Severed
<1>3. SeveredAt(q)' <=> /\ source[q] \in Position /\ SeveredAt(source[q])
                        /\ ~ HasLost(ContentsAt(q)')
  BY MovedContents
<1>4. CASE source[q] \notin Position BY <1>2, <1>3, <1>4, MovedContents
<1>5. CASE source[q] \in Position
  <2> DEFINE c == Sheet[source[q]]
  <2>1. c = ContentsAt(source[q]) BY <1>5 DEF Sheet
  <2>2. Sheet'[q] = [c EXCEPT !.tree = [i \in DOMAIN c.tree |-> To[c.tree[i]]]]
    BY <1>2, <1>5, <2>1, MovedContents
  <2>3. [i \in DOMAIN c.tree |-> To[c.tree[i]]]
          = [i \in DOMAIN c.tree |-> IF c.tree[i] = Gone THEN Gone ELSE To[c.tree[i]]]
    BY <1>1
  <2> QED BY <1>2, <1>3, <1>5, <2>2, <2>3
<1> QED BY <1>4, <1>5

LEMMA InsertAsPromised ==
  ASSUME IInv, NEW axis \in Axes, NEW before \in Nat, NEW count \in Nat \ {0},
         AllMove(Insertion(axis, before, count)), reply' = "Ok", shown' = Nothing
  PROVE  Promise!Insert(axis, before, count)
<1> DEFINE To == Insertion(axis, before, count)
           source == [q \in Position |-> InsertedFrom(q, axis, before, count)]
<1>1. /\ \A p \in Place : To[p] \in Place /\ To[p] # Gone
      /\ \A p \in Place : To[p] = InsertedAt(p, axis, before, count)
  <2>1. Moves(To) /\ \A p \in Place : To[p] # Gone BY InsertionIsMove
  <2> QED BY <2>1 DEF Moves, Insertion
<1>2. \A q \in Position :
        /\ Sheet'[q] = IF source[q] \in Position
                       THEN [Sheet[source[q]] EXCEPT !.tree =
                               [i \in DOMAIN @ |-> IF @[i] = Gone THEN Gone ELSE To[@[i]]]]
                       ELSE Promise!Absent
        /\ q \in Severed' <=> source[q] \in Severed /\ ~ HasLost(Sheet'[q])
  <2>1. Comes(source, To) BY InsertionComes
  <2> HIDE DEF source
  <2> QED BY <2>1, MovedAsPromised
<1>3. ASSUME NEW q \in Position, source[q] \in Position, NEW i \in DOMAIN Sheet[source[q]].tree,
             Sheet[source[q]].tree[i] # Gone
      PROVE  To[Sheet[source[q]].tree[i]] = InsertedAt(Sheet[source[q]].tree[i], axis, before, count)
  BY <1>1, <1>3, ContentsPlaces DEF Sheet
<1>4. ASSUME NEW p \in Position, Sheet[p] # Promise!Absent
      PROVE  /\ InsertedAt(p, axis, before, count) \in Position
             /\ \A r \in ToSet(Sheet[p].tree) \ {Gone} : InsertedAt(r, axis, before, count) \in Position
  <2>1. Cell(p) # Null /\ Sheet[p].tree = heap[Cell(p)].formula.tree BY <1>4, ContentsByPosition DEF Sheet
  <2>2. InsertedAt(p, axis, before, count) \in Position
    BY <1>1, <2>1, PositionsArePlaces DEF AllMove, CellsMove
  <2>3. ASSUME NEW r \in ToSet(Sheet[p].tree) \ {Gone}
        PROVE  InsertedAt(r, axis, before, count) \in Position
    <3>1. IsFormula(Cell(p))
      <4>1. Cell(p) \in Stored BY <2>1, CellsFound DEF IInv
      <4>2. Sheet[p].tree # <<>> BY DEF ToSet
      <4> QED BY <2>1, <4>1, <4>2, StoredSound DEF Sound, IsFormula
    <3>2. Names(p, r) BY <2>1, <3>1 DEF Names, FormulaAt, Leaves
    <3>3. r \in Place /\ r.row <= RBC.row /\ r.col <= RBC.col
      BY <3>2, NamesPlaces DEF IInv, RefsWithin
    <3>4. To[r] \in Place /\ To[r].row <= RBC'.row /\ To[r].col <= RBC'.col
      BY <1>1, <2>1, <3>3, CellsAreRows DEF AllMove, CornerMoves
    <3>5. /\ RBC'.row \in Int /\ RBC'.col \in Int /\ RBC'.row < kMaxRows /\ RBC'.col < kMaxCols
      <4>1. WellStored' BY DEF AllMove
      <4> QED BY <4>1, StoreAssumptions DEF WellStored, Proved!Enclosed
    <3> DEFINE z == To[r]
    <3>6. z \in Place /\ z.row <= RBC'.row /\ z.col <= RBC'.col BY <3>4
    <3> HIDE DEF z
    <3>7. z.row \in Nat /\ z.col \in Nat /\ z = [row |-> z.row, col |-> z.col] BY <3>6 DEF Place
    <3>8. z.row \in 0 .. kMaxRows - 1 /\ z.col \in 0 .. kMaxCols - 1
      BY <3>5, <3>6, <3>7, StoreAssumptions
    <3>9. z \in Position BY <3>7, <3>8, PositionFields
    <3> QED BY <1>1, <3>3, <3>9 DEF z
  <2> QED BY <2>2, <2>3
<1>5. Promise!Insert(axis, before, count)
  <2>1. /\ Promise!Position = Position /\ Promise!Gone = Gone
        /\ \A f : Promise!HasLost(f) <=> HasLost(f)
        /\ \A x : Promise!Refs(x) = ToSet(x.tree) \ {Gone}
        /\ \A x : Promise!InsertedAt(x, axis, before, count) = InsertedAt(x, axis, before, count)
    BY SameNames DEF Promise!Refs
  <2>2. \A q \in Position : source[q] = InsertedFrom(q, axis, before, count) OBVIOUS
  <2>3. reply' = "Ok" /\ shown' = Promise!Nothing BY SameNames
  <2>4. \A q \in Promise!Position : Sheet'[q] =
          IF InsertedFrom(q, axis, before, count) \in Promise!Position
          THEN [Sheet[InsertedFrom(q, axis, before, count)] EXCEPT !.tree =
                  [i \in DOMAIN @ |-> IF @[i] = Promise!Gone THEN Promise!Gone
                                      ELSE Promise!InsertedAt(@[i], axis, before, count)]]
          ELSE Promise!Absent
    <3> SUFFICES ASSUME NEW q \in Position
                 PROVE  Sheet'[q] =
                          IF source[q] \in Position
                          THEN [Sheet[source[q]] EXCEPT !.tree =
                                  [i \in DOMAIN @ |-> IF @[i] = Gone THEN Gone
                                                      ELSE InsertedAt(@[i], axis, before, count)]]
                          ELSE Promise!Absent
      BY <2>1, <2>2
    <3> HIDE DEF source, To
    <3>1. CASE source[q] \in Position
      <4> DEFINE tree == Sheet[source[q]].tree
      <4>1. [i \in DOMAIN tree |-> IF tree[i] = Gone THEN Gone ELSE To[tree[i]]]
              = [i \in DOMAIN tree |-> IF tree[i] = Gone THEN Gone
                                       ELSE InsertedAt(tree[i], axis, before, count)]
        BY <1>3, <3>1
      <4> QED BY <1>2, <3>1, <4>1
    <3>2. CASE source[q] \notin Position BY <1>2, <3>2
    <3> QED BY <3>1, <3>2
  <2>5. Severed' = {q \in Promise!Position : /\ InsertedFrom(q, axis, before, count) \in Severed
                                            /\ ~ Promise!HasLost(Sheet'[q])}
    <3>1. Severed' \subseteq Position BY DEF Severed
    <3>2. \A q \in Position : q \in Severed' <=> /\ InsertedFrom(q, axis, before, count) \in Severed
                                                 /\ ~ HasLost(Sheet'[q])
      BY <1>2, <2>2
    <3> QED BY <2>1, <3>1, <3>2, Zenon
  <2>6. \A p \in Promise!Position : Sheet[p] # Promise!Absent =>
          /\ Promise!InsertedAt(p, axis, before, count) \in Promise!Position
          /\ \A r \in Promise!Refs(Sheet[p]) : Promise!InsertedAt(r, axis, before, count) \in Promise!Position
    BY <1>4, <2>1
  <2> HIDE DEF To, source
  <2> QED BY <2>3, <2>4, <2>5, <2>6
          DEF Promise!Insert, Promise!Move, InsertedFrom, Sheet, Severed, SeveredAt, Promise!Gone, Gone
<1> QED BY <1>5

LEMMA DeleteAsPromised ==
  ASSUME IInv, NEW axis \in Axes, NEW first \in Nat, NEW count \in Nat \ {0},
         AllMove(Deletion(axis, first, count)), reply' = "Ok", shown' = Nothing
  PROVE  Promise!Delete(axis, first, count)
<1> DEFINE To == Deletion(axis, first, count)
           source == [q \in Position |-> DeletedFrom(q, axis, first, count)]
<1>1. \A p \in Place : To[p] = DeletedAt(p, axis, first, count) BY DEF Deletion
<1>2. \A q \in Position :
        /\ Sheet'[q] = IF source[q] \in Position
                       THEN [Sheet[source[q]] EXCEPT !.tree =
                               [i \in DOMAIN @ |-> IF @[i] = Gone THEN Gone ELSE To[@[i]]]]
                       ELSE Promise!Absent
        /\ q \in Severed' <=> source[q] \in Severed /\ ~ HasLost(Sheet'[q])
  <2>1. Comes(source, To) BY DeletionComes
  <2> HIDE DEF source
  <2> QED BY <2>1, MovedAsPromised
<1>3. ASSUME NEW q \in Position, source[q] \in Position, NEW i \in DOMAIN Sheet[source[q]].tree,
             Sheet[source[q]].tree[i] # Gone
      PROVE  To[Sheet[source[q]].tree[i]] = DeletedAt(Sheet[source[q]].tree[i], axis, first, count)
  BY <1>1, <1>3, ContentsPlaces DEF Sheet
<1>4. Promise!Delete(axis, first, count)
  <2>1. /\ Promise!Position = Position /\ Promise!Gone = Gone
        /\ \A f : Promise!HasLost(f) <=> HasLost(f)
        /\ \A x : Promise!DeletedAt(x, axis, first, count) = DeletedAt(x, axis, first, count)
    BY SameNames
  <2>2. \A q \in Position : source[q] = DeletedFrom(q, axis, first, count) OBVIOUS
  <2>3. reply' = "Ok" /\ shown' = Promise!Nothing BY SameNames
  <2>4. \A q \in Promise!Position : Sheet'[q] =
          IF DeletedFrom(q, axis, first, count) \in Promise!Position
          THEN [Sheet[DeletedFrom(q, axis, first, count)] EXCEPT !.tree =
                  [i \in DOMAIN @ |-> IF @[i] = Promise!Gone THEN Promise!Gone
                                      ELSE Promise!DeletedAt(@[i], axis, first, count)]]
          ELSE Promise!Absent
    <3> SUFFICES ASSUME NEW q \in Position
                 PROVE  Sheet'[q] =
                          IF source[q] \in Position
                          THEN [Sheet[source[q]] EXCEPT !.tree =
                                  [i \in DOMAIN @ |-> IF @[i] = Gone THEN Gone
                                                      ELSE DeletedAt(@[i], axis, first, count)]]
                          ELSE Promise!Absent
      BY <2>1, <2>2
    <3> HIDE DEF source, To
    <3>1. CASE source[q] \in Position
      <4> DEFINE tree == Sheet[source[q]].tree
      <4>1. [i \in DOMAIN tree |-> IF tree[i] = Gone THEN Gone ELSE To[tree[i]]]
              = [i \in DOMAIN tree |-> IF tree[i] = Gone THEN Gone
                                       ELSE DeletedAt(tree[i], axis, first, count)]
        BY <1>3, <3>1
      <4> QED BY <1>2, <3>1, <4>1
    <3>2. CASE source[q] \notin Position BY <1>2, <3>2
    <3> QED BY <3>1, <3>2
  <2>5. Severed' = {q \in Promise!Position : /\ DeletedFrom(q, axis, first, count) \in Severed
                                            /\ ~ Promise!HasLost(Sheet'[q])}
    <3>1. Severed' \subseteq Position BY DEF Severed
    <3>2. \A q \in Position : q \in Severed' <=> /\ DeletedFrom(q, axis, first, count) \in Severed
                                                 /\ ~ HasLost(Sheet'[q])
      BY <1>2, <2>2
    <3> QED BY <2>1, <3>1, <3>2, Zenon
  <2> HIDE DEF To, source
  <2> QED BY <2>3, <2>4, <2>5
          DEF Promise!Delete, Promise!Move, DeletedFrom, Sheet, Severed, SeveredAt, Promise!Gone, Gone
<1> QED BY <1>4

\* No reference is lost, and a formula has one.
LEMMA RefsKnown ==
  ASSUME IInv, ~ SomeLost, NEW a \in Formulas
  PROVE  heap[a].formula.ref_cells # <<>>
<1>1. /\ Sound(heap[a]) /\ heap[a].formula.tree # <<>> /\ ~ HasLost(heap[a].formula)
  BY StoredSound DEF Formulas, IInv, RefsWithin, SomeLost
<1>2. PICK i \in DOMAIN heap[a].formula.tree : TRUE BY <1>1, TreeHasLeaf DEF Sound
<1>3. heap[a].formula.tree[i] \in ToSet(heap[a].formula.ref_cells)
  BY <1>1 DEF Sound, Consistent, HasLost, ToSet
<1>4. ToSet(<<>>) = {} BY DEF ToSet
<1> QED BY <1>3, <1>4

\* ImpSheet::InsertRows and InsertCols of a sheet that would be too big.
LEMMA RefusedAsPromised ==
  ASSUME Fails("TableTooBig")
  PROVE  Promise!Refuse
<1>1. /\ reply' = "TableTooBig" /\ shown' = Promise!Nothing /\ UNCHANGED <<cells, LTC, heap>>
  BY SameNames DEF Fails, Stays
<1>2. UNCHANGED <<Sheet, Severed>> BY <1>1, SameContents DEF Sheet, Severed
<1> QED BY <1>1, <1>2 DEF Promise!Refuse, Sheet, Severed, SeveredAt

LEMMA ChangeAsPromised ==
  ASSUME Avoided = Defects, IInv, reply # "Undefined", Change
  PROVE  Promise!Next
<1>1. /\ Promise!Position = Position /\ Written \subseteq Position
      /\ Promise!Side("row") = kMaxRows /\ Promise!Side("col") = kMaxCols
      /\ {"row", "col"} = Promise!Axes /\ {"row", "col"} = Axes
  BY SameNames, StructureAssumption
  DEF Position, Store!Position, Promise!Side, Promise!Axes, Axes
<1>2. ASSUME NEW p \in Written, Cell(p) # Null \/ Cardinality(Stored) < Cardinality(Addresses),
             NEW t \in Texts, SetText(p, t), call' = <<"SetText", p, t>>
      PROVE  Promise!Next
  <2>1. Promise!Set(p, Promise!TextOf(t), TRUE) BY <1>1, <1>2, SetTextAsPromised
  <2> QED BY <1>1, <1>2, <2>1 DEF Promise!Next
<1>3. ASSUME NEW p \in Written, Cell(p) # Null \/ Cardinality(Stored) < Cardinality(Addresses),
             NEW tree \in Trees, NEW asPrinted \in BOOLEAN, SetFormula(p, tree, asPrinted),
             call' = <<"SetFormula", p, tree, asPrinted>>
      PROVE  Promise!Next
  <2>1. tree \in Seq(Written) BY DEF Trees, SeqOf
  <2>2. tree \in Promise!Trees
    BY <1>1 DEF Trees, SeqOf, Promise!Trees, Promise!SeqOf
  <2>3. Promise!SetFormula(p, tree, asPrinted) BY <1>1, <1>3, <2>1, SetFormulaAsPromised
  <2> QED BY <1>1, <1>3, <2>2, <2>3 DEF Promise!Next
<1>4. ASSUME NEW p \in Position, ClearCell(p), call' = <<"ClearCell", p>>
      PROVE  Promise!Next
  <2>1. Promise!ClearCell(p) BY <1>4, ClearCellAsPromised
  <2> QED BY <1>1, <1>4, <2>1 DEF Promise!Next
<1>5. ASSUME NEW from \in 0 .. kMaxRows - 1, NEW count \in 1 .. kMaxRows - from,
             InsertRows(from, count), call' = <<"Insert", "row", from, count>>
      PROVE  Promise!Next
  <2>1. from \in Nat /\ count \in Nat \ {0} BY StoreAssumptions
  <2>2. ~ SomeLost BY <1>5 DEF InsertRows, Avoids, Defects
  <2>3. Promise!Refuse \/ Promise!Insert("row", from, count)
    BY <1>1, <1>5, <2>1, <2>2, RefsKnown, InsertRowsMoves, InsertAsPromised, RefusedAsPromised
  <2> QED BY <1>1, <1>5, <2>3 DEF Promise!Next
<1>6. ASSUME NEW from \in 0 .. kMaxRows - 1, NEW count \in 1 .. kMaxRows - from,
             DeleteRows(from, count), call' = <<"Delete", "row", from, count>>
      PROVE  Promise!Next
  <2>1. from \in Nat /\ count \in Nat \ {0} BY StoreAssumptions
  <2>2. "row index" \in Avoided BY DEF Defects
  <2>3. Promise!Delete("row", from, count)
    BY <1>1, <1>6, <2>1, <2>2, DeleteRowsMoves, DeleteAsPromised
  <2> QED BY <1>1, <1>6, <2>3 DEF Promise!Next
<1>7. ASSUME NEW from \in 0 .. kMaxCols - 1, NEW count \in 1 .. kMaxCols - from,
             InsertCols(from, count), call' = <<"Insert", "col", from, count>>
      PROVE  Promise!Next
  <2>1. from \in Nat /\ count \in Nat \ {0} BY StoreAssumptions
  <2>2. "misplaced slots" \in Avoided BY DEF Defects
  <2>3. Promise!Refuse \/ Promise!Insert("col", from, count)
    BY <1>1, <1>7, <2>1, <2>2, InsertColsMoves, InsertAsPromised, RefusedAsPromised
  <2> QED BY <1>1, <1>7, <2>3 DEF Promise!Next
<1>8. ASSUME NEW from \in 0 .. kMaxCols - 1, NEW count \in 1 .. kMaxCols - from,
             DeleteCols(from, count), call' = <<"Delete", "col", from, count>>
      PROVE  Promise!Next
  <2>1. from \in Nat /\ count \in Nat \ {0} BY StoreAssumptions
  <2>2. {"unmoved graph", "left edge"} \subseteq Avoided /\ "short row" \in Avoided BY DEF Defects
  <2>3. Promise!Delete("col", from, count)
    BY <1>1, <1>8, <2>1, <2>2, DeleteColsMoves, DeleteAsPromised
  <2> QED BY <1>1, <1>8, <2>3 DEF Promise!Next
<1> QED BY <1>2, <1>3, <1>4, <1>5, <1>6, <1>7, <1>8 DEF Change

LEMMA InitAsPromised == Init => Promise!Init
<1> SUFFICES ASSUME Init PROVE Promise!Init OBVIOUS
<1>1. cells = <<>> /\ reply = "Ok" /\ call = <<>> /\ shown = Promise!Nothing
  BY SameNames DEF Init, Store!Init
<1>2. \A p : Cell(p) = Null BY <1>1, CellsAreRows
<1>3. Sheet = [p \in Promise!Position |-> Promise!Absent]
  BY <1>2, SameNames, ContentsByPosition DEF Sheet
<1>4. Severed = {} BY <1>2 DEF Severed, SeveredAt, FormulaAt
<1> QED BY <1>1, <1>3, <1>4 DEF Promise!Init, Sheet, Severed, SeveredAt

-----------------------------------------------------------------------------
(* Reaching, round by round.                                                *)

\* The rounds of ReachedFrom, N of them.
RoundsOf(g, edges, S, N) ==
  /\ ReachedFrom(edges, S) = g[N] /\ g[0] = S
  /\ \A n \in 0 .. N - 1 : g[n + 1] = g[n] \cup From(edges, g[n])

\* ReachedFrom is the last of its rounds: the function it is defined by exists.
LEMMA ReachedInRounds ==
  ASSUME NEW edges, NEW S, NEW N \in Nat, N = Cardinality(edges)
  PROVE  \E g : RoundsOf(g, edges, S, N)
<1> DEFINE Ends == {e[2] : e \in edges}
           V == SUBSET (S \cup Ends)
           F == [X \in V |-> X \cup From(edges, X)]
<1>1. F \in [V -> V] /\ S \in V
  <2>1. \A X : From(edges, X) \subseteq Ends BY DEF From
  <2> HIDE DEF Ends
  <2> QED BY <2>1
<1>2. \A X \in V : F[X] = X \cup From(edges, X) OBVIOUS
<1> HIDE DEF F, V
<1>3. PICK h \in [0 .. N -> V] : Iterates(h, F, S, N) BY <1>1, IterationExists
<1>4. h[0] = S /\ \A n \in 0 .. N - 1 : h[n + 1] = h[n] \cup From(edges, h[n])
  <2>1. \A n \in 0 .. N - 1 : n \in 0 .. N OBVIOUS
  <2> QED BY <1>2, <1>3, <2>1 DEF Iterates
\* The function that ReachedFrom is defined by.
<1> DEFINE Rounds(r) == r = [n \in 0 .. N |-> IF n = 0 THEN S ELSE r[n - 1] \cup From(edges, r[n - 1])]
           r == CHOOSE f : Rounds(f)
<1>5. Rounds(r)
  <2> DEFINE f == [n \in 0 .. N |-> h[n]]
  <2>1. ASSUME NEW n \in 0 .. N
        PROVE  f[n] = IF n = 0 THEN S ELSE f[n - 1] \cup From(edges, f[n - 1])
    <3>1. CASE n = 0 BY <1>4, <3>1
    <3>2. CASE n # 0
      <4>1. n - 1 \in 0 .. N - 1 /\ n - 1 \in 0 .. N /\ (n - 1) + 1 = n BY <3>2
      <4> QED BY <1>4, <3>2, <4>1
    <3> QED BY <3>1, <3>2
  <2>2. f = [n \in 0 .. N |-> f[n]] OBVIOUS
  <2> HIDE DEF f
  <2>3. Rounds(f) BY <2>1, <2>2
  <2> QED BY <2>3
<1>6. ReachedFrom(edges, S) = r[N] BY DEF ReachedFrom
<1> HIDE DEF r
<1>7. r[0] = S /\ \A n \in 0 .. N - 1 : r[n + 1] = r[n] \cup From(edges, r[n])
  <2>1. 0 \in 0 .. N OBVIOUS
  <2>2. \A n \in 0 .. N - 1 : n + 1 \in 0 .. N /\ n + 1 # 0 /\ (n + 1) - 1 = n OBVIOUS
  <2>3. r[0] = S BY <1>5, <2>1
  <2>4. \A n \in 0 .. N - 1 : r[n + 1] = r[n] \cup From(edges, r[n]) BY <1>5, <2>2
  <2> QED BY <2>3, <2>4
<1> QED BY <1>6, <1>7 DEF RoundsOf

\* ReachedFrom is the least set that holds S and is closed under the edges: as
\* many rounds as there are edges are enough.
LEMMA ReachedIsLeast ==
  ASSUME NEW edges, IsFiniteSet(edges), NEW S
  PROVE  /\ S \subseteq ReachedFrom(edges, S)
         /\ \A e \in edges : e[1] \in ReachedFrom(edges, S) => e[2] \in ReachedFrom(edges, S)
         /\ \A X : S \subseteq X /\ (\A e \in edges : e[1] \in X => e[2] \in X)
                     => ReachedFrom(edges, S) \subseteq X
<1>1. PICK N \in Nat : N = Cardinality(edges) BY FS_CardinalityType
<1> PICK g : RoundsOf(g, edges, S, N) BY <1>1, ReachedInRounds
<1>2. /\ ReachedFrom(edges, S) = g[N] /\ g[0] = S
      /\ \A n \in 0 .. N - 1 : g[n + 1] = g[n] \cup From(edges, g[n])
  BY DEF RoundsOf
<1>3. \A n \in 0 .. N : S \subseteq g[n]
  <2> DEFINE T == {n \in Nat : n <= N /\ ~ (S \subseteq g[n])}
  <2> SUFFICES ASSUME T # {} PROVE FALSE BY <1>1
  <2> HIDE DEF T
  <2>1. PICK n \in T : \A m \in T : n <= m BY LeastNat DEF T
  <2>2. n \in Nat /\ n <= N /\ ~ (S \subseteq g[n]) BY <2>1 DEF T
  <2>3. n - 1 \in 0 .. N - 1 /\ ~ (n <= n - 1) /\ (n - 1) + 1 = n BY <1>1, <1>2, <2>2
  <2>4. S \subseteq g[n - 1] BY <1>1, <2>1, <2>3 DEF T
  <2>5. g[n] = g[n - 1] \cup From(edges, g[n - 1]) BY <1>2, <2>3
  <2> QED BY <2>2, <2>4, <2>5
<1>4. ASSUME NEW X, S \subseteq X, \A e \in edges : e[1] \in X => e[2] \in X
      PROVE  \A n \in 0 .. N : g[n] \subseteq X
  <2> DEFINE T == {n \in Nat : n <= N /\ ~ (g[n] \subseteq X)}
  <2> SUFFICES ASSUME T # {} PROVE FALSE BY <1>1
  <2> HIDE DEF T
  <2>1. PICK n \in T : \A m \in T : n <= m BY LeastNat DEF T
  <2>2. n \in Nat /\ n <= N /\ ~ (g[n] \subseteq X) BY <2>1 DEF T
  <2>3. n - 1 \in 0 .. N - 1 /\ ~ (n <= n - 1) /\ (n - 1) + 1 = n BY <1>1, <1>2, <1>4, <2>2
  <2>4. g[n - 1] \subseteq X BY <1>1, <2>1, <2>3 DEF T
  <2>5. g[n] = g[n - 1] \cup From(edges, g[n - 1]) BY <1>2, <2>3
  <2>6. From(edges, g[n - 1]) \subseteq X BY <1>4, <2>4 DEF From
  <2> QED BY <2>2, <2>4, <2>5, <2>6
<1>6. \A n \in 0 .. N : g[n] \subseteq S \cup {e[2] : e \in edges} BY <1>4
<1>7. ASSUME NEW k \in 0 .. N PROVE \A n \in 0 .. N : k <= n => g[k] \subseteq g[n]
  <2> DEFINE T == {n \in Nat : k <= n /\ n <= N /\ ~ (g[k] \subseteq g[n])}
  <2> SUFFICES ASSUME T # {} PROVE FALSE BY <1>1
  <2> HIDE DEF T
  <2>1. PICK n \in T : \A m \in T : n <= m BY LeastNat DEF T
  <2>2. n \in Nat /\ n <= N /\ k < n /\ ~ (g[k] \subseteq g[n]) BY <2>1 DEF T
  <2>3. n - 1 \in 0 .. N - 1 /\ ~ (n <= n - 1) /\ (n - 1) + 1 = n /\ k <= n - 1 BY <1>1, <2>2
  <2>4. g[k] \subseteq g[n - 1] BY <1>1, <2>1, <2>3 DEF T
  <2>5. g[n] = g[n - 1] \cup From(edges, g[n - 1]) BY <1>2, <2>3
  <2> QED BY <2>2, <2>4, <2>5
<1>5. From(edges, g[N]) \subseteq g[N]
  <2> SUFFICES ASSUME ~ (From(edges, g[N]) \subseteq g[N]) PROVE FALSE OBVIOUS
  <2> DEFINE Ends == {e[2] : e \in edges}
             G == [n \in 0 .. N + 1 |-> IF n = N + 1 THEN g[N] \cup From(edges, g[N]) ELSE g[n]]
             W == [n \in 0 .. N + 1 |-> G[n] \ S]
  <2>1. IsFiniteSet(Ends) /\ Cardinality(Ends) <= N /\ Cardinality(Ends) \in Nat
    <3> DEFINE f == [e \in edges |-> e[2]]
    <3>1. f \in Surjection(edges, Ends) BY DEF Surjection
    <3> QED BY <1>1, <3>1, FS_Surjection, FS_CardinalityType
  <2>2. ASSUME NEW n \in 0 .. N PROVE ~ (From(edges, g[n]) \subseteq g[n])
    <3> SUFFICES ASSUME From(edges, g[n]) \subseteq g[n] PROVE FALSE OBVIOUS
    <3>1. g[N] \subseteq g[n]
      <4>1. S \subseteq g[n] /\ \A e \in edges : e[1] \in g[n] => e[2] \in g[n]
        BY <1>3 DEF From
      <4>2. N \in 0 .. N BY <1>1
      <4> QED BY <1>4, <4>1, <4>2
    <3>2. \A m \in 0 .. N : n <= m => g[n] \subseteq g[m] BY <1>7
    <3>3. g[n] \subseteq g[N] BY <1>1, <3>2
    <3>4. g[n] = g[N] BY <3>1, <3>3
    <3>5. From(edges, g[N]) \subseteq g[N] BY <3>4
    <3> QED BY <3>5
  <2>3. \A n \in 0 .. N + 1 : S \subseteq G[n] BY <1>1, <1>3
  <2>4. ASSUME NEW n \in 0 .. N PROVE G[n] = g[n] /\ G[n + 1] = g[n] \cup From(edges, g[n])
    BY <1>1, <1>2
  <2> HIDE DEF G, Ends
  <2>5. \A n \in 0 .. N : W[n] \subseteq W[n + 1] /\ W[n + 1] # W[n]
    <3> SUFFICES ASSUME NEW n \in 0 .. N PROVE W[n] \subseteq W[n + 1] /\ W[n + 1] # W[n] OBVIOUS
    <3>1. n \in 0 .. N + 1 /\ n + 1 \in 0 .. N + 1 BY <1>1
    <3>2. W[n] = G[n] \ S /\ W[n + 1] = G[n + 1] \ S BY <3>1
    <3> QED BY <2>2, <2>3, <2>4, <3>1, <3>2
  <2>6. \A n \in 0 .. N + 1 : W[n] \subseteq Ends
    <3> SUFFICES ASSUME NEW n \in 0 .. N + 1 PROVE G[n] \subseteq S \cup Ends OBVIOUS
    <3>1. CASE n = 0 BY <1>1, <1>2, <2>4, <3>1
    <3>2. CASE n # 0
      <4>1. n - 1 \in 0 .. N /\ (n - 1) + 1 = n BY <1>1, <3>2
      <4>2. G[n] = g[n - 1] \cup From(edges, g[n - 1]) BY <2>4, <4>1
      <4>3. g[n - 1] \subseteq S \cup Ends BY <1>6, <4>1 DEF Ends
      <4>4. From(edges, g[n - 1]) \subseteq Ends BY DEF From, Ends
      <4> QED BY <4>2, <4>3, <4>4
    <3> QED BY <3>1, <3>2
  <2> HIDE DEF W
  <2>7. N + 1 \in Nat /\ (N + 1) - 1 = N BY <1>1
  <2>8. N + 1 <= Cardinality(Ends) BY <2>1, <2>5, <2>6, <2>7, RoundsGrow
  <2> QED BY <1>1, <2>1, <2>8
<1>8. N \in 0 .. N BY <1>1
<1>9. S \subseteq g[N] /\ \A e \in edges : e[1] \in g[N] => e[2] \in g[N]
  BY <1>3, <1>5, <1>8 DEF From
<1>10. \A X : S \subseteq X /\ (\A e \in edges : e[1] \in X => e[2] \in X) => g[N] \subseteq X
  BY <1>4, <1>8
<1> QED BY <1>2, <1>9, <1>10

-----------------------------------------------------------------------------
(* What is cached.                                                          *)

\* What a value may be.
Values == Nat \cup {RefError, Unknown}

\* A sum of values is a value (AstBinary::evaluate), and an unknown one if one of its
\* operands is.
LEMMA SumOfValues ==
  ASSUME NEW k \in Nat, NEW s \in [1 .. k -> Values]
  PROVE  /\ SumOf(s) \in Values
         /\ \A i \in 1 .. k : s[i] = Unknown => SumOf(s) = Unknown
<1> DEFINE bad == {i \in DOMAIN s : s[i] < 0}
<1>1. \A i \in 1 .. k : s[i] \in Values /\ (s[i] \in Nat \/ s[i] = RefError \/ s[i] = Unknown)
  BY DEF Values
<1>2. \A i : i \in bad <=> i \in 1 .. k /\ s[i] \notin Nat BY <1>1 DEF RefError, Unknown
<1> HIDE DEF bad
<1>3. SumOf(s) = IF \E i \in bad : s[i] = Unknown THEN Unknown
                 ELSE IF bad # {} THEN s[Min(bad)] ELSE FoldSeq(+, 0, s)
  BY DEF SumOf, bad
<1>4. CASE \E i \in bad : s[i] = Unknown BY <1>3, <1>4 DEF Values
<1>7. \A i \in 1 .. k : s[i] = Unknown => i \in bad BY <1>2 DEF Unknown
<1>5. CASE bad # {} /\ ~ \E i \in bad : s[i] = Unknown
  <2>1. bad \in SUBSET Nat BY <1>2
  <2>2. \E n \in bad : \A m \in bad : n <= m BY <1>5, <2>1, LeastNat
  <2>3. Min(bad) \in bad BY <2>2 DEF Min
  <2>4. SumOf(s) = s[Min(bad)] /\ s[Min(bad)] \in Values BY <1>1, <1>2, <1>3, <1>5, <2>3
  <2>5. \A i \in 1 .. k : s[i] # Unknown BY <1>5, <1>7
  <2> QED BY <2>4, <2>5
<1>6. CASE bad = {}
  <2>1. s \in [1 .. k -> Nat] BY <1>2, <1>6
  <2>2. FoldSeq(+, 0, s) \in Nat BY <2>1, SumIsNat
  <2>3. \A i \in 1 .. k : s[i] # Unknown BY <1>2, <1>6 DEF Unknown
  <2> QED BY <1>3, <1>6, <2>2, <2>3 DEF Values
<1> QED BY <1>4, <1>5, <1>6

\* References do not go in a circle.
Acyclic == NoTrapIn(Position, reference)

\* A formula that has lost a reference remembers it.
LossKnown ==
  \A a \in Stored : HasLost(heap[a].formula) => heap[a].formula.self_hr = "ReferencesChanged"

\* What is cached is what the cells around it give, and rests on valid caches.
CacheSound(a) ==
  LET c == heap[a]
  IN  memo[a] # Invalid =>
        /\ memo[a] \in Values
        /\ c.kind = "text" => memo[a] = c.text
        /\ HasLost(c.formula) => memo[a] = RefError
        /\ c.kind = "formula" /\ ~ HasLost(c.formula) =>
             /\ \A i \in DOMAIN c.ptrs : c.ptrs[i] # Dangling /\ memo[c.ptrs[i]] # Invalid
             /\ memo[a] = SumOf([i \in DOMAIN c.ptrs |-> memo[c.ptrs[i]]])

\* A freed address has no cache.
CachesSound ==
  /\ \A a \in Addresses \ Stored : memo[a] = Invalid
  /\ \A a \in Stored : heap[a].text \in Nat /\ CacheSound(a)

\* The invariant of a sheet whose values can be relied on.
VInv == IInv /\ Acyclic /\ LossKnown /\ CachesSound

\* What a cell is worth if v says what the others are.
ValueBy(v, a) ==
  IF memo[a] # Invalid THEN memo[a]
  ELSE IF ~ IsFormula(a) THEN heap[a].text
  ELSE IF heap[a].formula.self_hr = "ReferencesChanged" THEN RefError
  ELSE IF Dangling \in ToSet(heap[a].ptrs) THEN Unknown
  ELSE SumOf([i \in DOMAIN heap[a].ptrs |-> v[heap[a].ptrs[i]]])

\* The pointers a read follows.
Follows(a) ==
  /\ a \in Stored /\ memo[a] = Invalid /\ IsFormula(a)
  /\ heap[a].formula.self_hr # "ReferencesChanged" /\ Dangling \notin ToSet(heap[a].ptrs)
\* The steps from a cell to the ones its evaluation reads.
Needs == {e \in Addresses \X Addresses :
            Follows(e[1]) /\ \E i \in DOMAIN heap[e[1]].ptrs : heap[e[1]].ptrs[i] = e[2]}

\* Each of them leads to the cell that is named.
LEMMA FollowedPointers ==
  ASSUME VInv, NEW a \in Stored, IsFormula(a), Dangling \notin ToSet(heap[a].ptrs)
  PROVE  /\ \E k \in Nat : DOMAIN heap[a].ptrs = 1 .. k
         /\ DOMAIN heap[a].ptrs = DOMAIN heap[a].formula.tree
         /\ ~ HasLost(heap[a].formula)
         /\ \A i \in DOMAIN heap[a].ptrs :
              /\ heap[a].ptrs[i] \in Addresses /\ heap[a].ptrs[i] \in Stored
              /\ heap[a].formula.tree[i] \in Position
              /\ Cell(heap[a].formula.tree[i]) = heap[a].ptrs[i]
<1>1. Sound(heap[a]) /\ PointerSound(a) BY StoredSound DEF VInv, IInv, PointersSound
<1>2. DOMAIN heap[a].ptrs = DOMAIN heap[a].formula.tree /\ Consistent(heap[a].formula)
  BY <1>1 DEF Sound
<1>3. \E k \in Nat : DOMAIN heap[a].ptrs = 1 .. k BY <1>2, ListsOfFormula
<1>4. ASSUME NEW i \in DOMAIN heap[a].ptrs
      PROVE  /\ heap[a].ptrs[i] \in Addresses /\ heap[a].ptrs[i] \in Stored
             /\ heap[a].formula.tree[i] \in Position
             /\ Cell(heap[a].formula.tree[i]) = heap[a].ptrs[i]
  <2>1. heap[a].ptrs[i] # Dangling BY DEF ToSet
  <2>2. PICK q \in Position : heap[a].formula.tree[i] = q /\ Cell(q) = heap[a].ptrs[i]
    BY <1>1, <2>1 DEF PointerSound
  <2>3. heap[a].ptrs[i] # Null BY <1>1, <2>1 DEF PointerSound
  <2> QED BY <2>2, <2>3, CellsFound DEF VInv, IInv
<1>5. ~ HasLost(heap[a].formula)
  <2>1. \A p \in Position : p # Gone BY PositionsArePlaces
  <2> QED BY <1>2, <1>4, <2>1 DEF HasLost
<1> QED BY <1>2, <1>3, <1>4, <1>5

-----------------------------------------------------------------------------
(* What a read evaluates.                                                   *)

\* No cell needs itself to be evaluated: pointers follow the references, and those do
\* not go in a circle.
LEMMA NeedsNothingInACircle ==
  ASSUME VInv
  PROVE  NoTrapIn(Addresses, Needs)
<1> SUFFICES ASSUME NEW X \in SUBSET Addresses, X # {}, \A x \in X : \E y \in X : <<x, y>> \in Needs
             PROVE  FALSE
  BY DEF NoTrapIn
<1> DEFINE Z == {p \in Position : Cell(p) \in X}
<1>1. ASSUME NEW p \in Z PROVE \E q \in Z : <<p, q>> \in reference
  <2>1. p \in Position /\ Cell(p) \in X OBVIOUS
  <2>2. PICK y \in X : <<Cell(p), y>> \in Needs BY <2>1
  <2>3. Follows(Cell(p)) /\ \E i \in DOMAIN heap[Cell(p)].ptrs : heap[Cell(p)].ptrs[i] = y
    BY <2>2 DEF Needs
  <2>4. PICK i \in DOMAIN heap[Cell(p)].ptrs : heap[Cell(p)].ptrs[i] = y BY <2>3
  <2> DEFINE q == heap[Cell(p)].formula.tree[i]
  <2>5. /\ Cell(p) \in Stored /\ IsFormula(Cell(p)) /\ Dangling \notin ToSet(heap[Cell(p)].ptrs)
    BY <2>3 DEF Follows
  <2>6. i \in DOMAIN heap[Cell(p)].formula.tree /\ q \in Position /\ Cell(q) = y
    BY <2>4, <2>5, FollowedPointers
  <2> HIDE DEF q
  <2>7. Cell(p) # Null BY <2>5, CellsFound DEF VInv, IInv
  <2>8. Names(p, q) BY <2>1, <2>5, <2>6, <2>7, NamesLeaf, PositionsArePlaces DEF q
  <2>9. <<p, q>> \in reference BY <2>8 DEF VInv, IInv, GraphsSound
  <2> QED BY <2>6, <2>9
<1>2. Z # {}
  <2>1. PICK x \in X : TRUE OBVIOUS
  <2>2. PICK y \in X : <<x, y>> \in Needs OBVIOUS
  <2>3. x \in Stored BY <2>2 DEF Needs, Follows
  <2> QED BY <2>1, <2>3, CellsFound DEF VInv, IInv
<1>3. Z \in SUBSET Position OBVIOUS
<1> HIDE DEF Z
<1>4. PICK p \in Z : \A q \in Z : <<p, q>> \notin reference
  BY <1>2, <1>3 DEF VInv, Acyclic, NoTrapIn
<1> QED BY <1>1, <1>4

\* What a cell is worth is a value if what the others are is.
LEMMA ValueIsValue ==
  ASSUME VInv, NEW v \in [Addresses -> Values], NEW a \in Addresses
  PROVE  ValueBy(v, a) \in Values
<1>1. CASE memo[a] # Invalid
  <2>1. a \in Stored BY <1>1 DEF VInv, CachesSound
  <2>2. memo[a] \in Values BY <1>1, <2>1 DEF VInv, CachesSound, CacheSound
  <2> QED BY <1>1, <2>2 DEF ValueBy
<1>2. CASE memo[a] = Invalid /\ ~ IsFormula(a)
  <2>1. heap[a].text \in Nat
    <3>1. CASE a \in Stored BY <3>1 DEF VInv, CachesSound
    <3>2. CASE a \notin Stored BY <3>2 DEF VInv, IInv, HeapSound, Free, Contents
    <3> QED BY <3>1, <3>2
  <2> QED BY <1>2, <2>1 DEF ValueBy, Values
<1>3. CASE memo[a] = Invalid /\ IsFormula(a) /\ heap[a].formula.self_hr = "ReferencesChanged"
  BY <1>3 DEF ValueBy, Values
<1>4. CASE /\ memo[a] = Invalid /\ IsFormula(a) /\ heap[a].formula.self_hr # "ReferencesChanged"
           /\ Dangling \in ToSet(heap[a].ptrs)
  BY <1>4 DEF ValueBy, Values
<1>5. CASE /\ memo[a] = Invalid /\ IsFormula(a) /\ heap[a].formula.self_hr # "ReferencesChanged"
           /\ Dangling \notin ToSet(heap[a].ptrs)
  <2>1. a \in Stored BY <1>5 DEF VInv, IInv, HeapSound, Free, Contents, IsFormula
  <2>2. PICK k \in Nat : DOMAIN heap[a].ptrs = 1 .. k BY <1>5, <2>1, FollowedPointers
  <2> DEFINE s == [i \in DOMAIN heap[a].ptrs |-> v[heap[a].ptrs[i]]]
  <2>3. \A i \in DOMAIN heap[a].ptrs : heap[a].ptrs[i] \in Addresses
    BY <1>5, <2>1, FollowedPointers
  <2>4. s \in [1 .. k -> Values] BY <2>2, <2>3
  <2>5. ValueBy(v, a) = SumOf(s) BY <1>5 DEF ValueBy
  <2> HIDE DEF s
  <2> QED BY <2>4, <2>5, SumOfValues
<1> QED BY <1>1, <1>2, <1>3, <1>4, <1>5

\* Evaluation as rounds of ValueBy.
EvaluatedIn(g, N) ==
  /\ Evaluated = g[N] /\ g \in [0 .. N + 1 -> [Addresses -> Values]]
  /\ \A n \in 0 .. N : \A a \in Addresses : g[n + 1][a] = ValueBy(g[n], a)

\* Evaluated is the last of its rounds.
LEMMA EvaluatedInRounds ==
  ASSUME VInv, NEW N \in Nat, N = Cardinality(Addresses)
  PROVE  \E g : EvaluatedIn(g, N)
<1> DEFINE V == [Addresses -> Values]
           F == [v \in V |-> [a \in Addresses |-> ValueBy(v, a)]]
           Late(a) == /\ memo[a] = Invalid /\ IsFormula(a)
                      /\ heap[a].formula.self_hr # "ReferencesChanged"
           U == [a \in Addresses |-> Unknown]
           A == [a \in Addresses |-> IF Late(a) THEN Unknown ELSE ValueBy(U, a)]
           Body(f, n, a) ==
             IF memo[a] # Invalid THEN memo[a]
             ELSE IF ~ IsFormula(a) THEN heap[a].text
             ELSE IF heap[a].formula.self_hr = "ReferencesChanged" THEN RefError
             ELSE IF n = 0 \/ Dangling \in ToSet(heap[a].ptrs) THEN Unknown
             ELSE SumOf([i \in DOMAIN heap[a].ptrs |-> f[n - 1][heap[a].ptrs[i]]])
           Rounds(f) == f = [n \in 0 .. N |-> [a \in Addresses |-> Body(f, n, a)]]
           r == CHOOSE f : Rounds(f)
<1>1. U \in V BY DEF Values
<1>2. F \in [V -> V]
  <2>1. \A v \in V : \A a \in Addresses : ValueBy(v, a) \in Values BY ValueIsValue
  <2> QED BY <2>1
<1>3. A \in V
  <2>1. \A a \in Addresses : ValueBy(U, a) \in Values BY <1>1, ValueIsValue
  <2> HIDE DEF U, Late
  <2> QED BY <2>1 DEF Values
<1>4. \A f : \A a \in Addresses : Body(f, 0, a) = A[a] BY DEF ValueBy
<1>5. \A f : \A n \in 1 .. N : \A a \in Addresses : Body(f, n, a) = ValueBy(f[n - 1], a)
  BY DEF ValueBy
<1>6. \A v \in V : F[v] = [a \in Addresses |-> ValueBy(v, a)] OBVIOUS
<1> HIDE DEF Body, F, A, U, V
<1>7. PICK h \in [0 .. N + 1 -> V] : Iterates(h, F, A, N + 1)
  BY <1>2, <1>3, IterationExists
<1>8. h[0] = A /\ \A n \in 0 .. N : h[n] \in V /\ h[n + 1] = [a \in Addresses |-> ValueBy(h[n], a)]
  <2>1. \A n \in 0 .. N : n \in 0 .. N + 1 /\ n \in 0 .. (N + 1) - 1 OBVIOUS
  <2> QED BY <1>6, <1>7, <2>1 DEF Iterates
<1>9. A = [a \in Addresses |-> A[a]] BY DEF A
<1>10. \E f : Rounds(f)
  <2> DEFINE f == [n \in 0 .. N |-> h[n]]
  <2>1. ASSUME NEW n \in 0 .. N PROVE f[n] = [a \in Addresses |-> Body(f, n, a)]
    <3>1. CASE n = 0
      <4>1. f[n] = A BY <1>8, <3>1
      <4>2. \A a \in Addresses : Body(f, n, a) = A[a] BY <1>4, <3>1
      <4> QED BY <1>9, <4>1, <4>2
    <3>2. CASE n # 0
      <4>1. n \in 1 .. N /\ n - 1 \in 0 .. N /\ (n - 1) + 1 = n BY <3>2
      <4>2. f[n] = [a \in Addresses |-> ValueBy(h[n - 1], a)] BY <1>8, <4>1
      <4>3. f[n - 1] = h[n - 1] BY <4>1
      <4> HIDE DEF f
      <4>4. \A a \in Addresses : Body(f, n, a) = ValueBy(h[n - 1], a) BY <1>5, <4>1, <4>3
      <4> QED BY <4>2, <4>4
    <3> QED BY <3>1, <3>2
  <2>2. f = [n \in 0 .. N |-> f[n]] OBVIOUS
  <2> HIDE DEF f
  <2>3. Rounds(f) BY <2>1, <2>2
  <2> QED BY <2>3
<1>11. Rounds(r) BY <1>10
<1>12. Evaluated = r[N] BY DEF Evaluated, Body
<1> HIDE DEF r
<1>13. \A n \in 0 .. N : r[n] = [a \in Addresses |-> Body(r, n, a)] BY <1>11
<1>14. \A n \in 0 .. N : r[n] = h[n]
  <2> DEFINE T == {n \in Nat : n <= N /\ r[n] # h[n]}
  <2> SUFFICES ASSUME T # {} PROVE FALSE OBVIOUS
  <2> HIDE DEF T
  <2>1. PICK n \in T : \A m \in T : n <= m BY LeastNat DEF T
  <2>2. n \in Nat /\ n <= N /\ r[n] # h[n] BY <2>1 DEF T
  <2>3. CASE n = 0
    <3>1. \A a \in Addresses : Body(r, n, a) = A[a] BY <1>4, <2>3
    <3>2. r[n] = [a \in Addresses |-> Body(r, n, a)] BY <1>13, <2>2
    <3>3. r[n] = A BY <1>9, <3>1, <3>2
    <3> QED BY <1>8, <2>2, <2>3, <3>3
  <2>4. CASE n # 0
    <3>1. n \in 1 .. N /\ n - 1 \in 0 .. N /\ (n - 1) + 1 = n /\ ~ (n <= n - 1) /\ n - 1 \in Nat
      BY <2>2, <2>4
    <3>2. r[n - 1] = h[n - 1] BY <2>1, <3>1 DEF T
    <3>3. \A a \in Addresses : Body(r, n, a) = ValueBy(h[n - 1], a) BY <1>5, <3>1, <3>2
    <3>4. r[n] = [a \in Addresses |-> Body(r, n, a)] BY <1>13, <2>2
    <3>5. h[n] = [a \in Addresses |-> ValueBy(h[n - 1], a)] BY <1>8, <3>1
    <3> QED BY <2>2, <3>3, <3>4, <3>5
  <2> QED BY <2>3, <2>4
<1>15. N \in 0 .. N OBVIOUS
<1>16. \A n \in 0 .. N : \A a \in Addresses : h[n + 1][a] = ValueBy(h[n], a) BY <1>8
<1>17. Evaluated = h[N] BY <1>12, <1>14, <1>15
<1> QED BY <1>7, <1>16, <1>17 DEF EvaluatedIn, V

\* Evaluation has settled when it ends: every cell is worth what the others say.
LEMMA EvaluatedSettles ==
  ASSUME VInv
  PROVE  /\ Evaluated \in [Addresses -> Values]
         /\ \A a \in Addresses : Evaluated[a] = ValueBy(Evaluated, a)
<1>1. PICK N \in Nat : N = Cardinality(Addresses) BY StoreAssumptions
<1>2. PICK g : EvaluatedIn(g, N) BY <1>1, EvaluatedInRounds
<1>3. \A n \in 0 .. N : g[n] \in [Addresses -> Values]
  <2>1. \A n \in 0 .. N : n \in 0 .. N + 1 OBVIOUS
  <2> QED BY <1>2, <2>1 DEF EvaluatedIn
<1>4. Local(g, N, Addresses, Needs)
  <2> SUFFICES ASSUME NEW n \in 0 .. N, NEW m \in 0 .. N, NEW a \in Addresses,
                      \A b \in Addresses : <<a, b>> \in Needs => g[n][b] = g[m][b]
               PROVE  g[n + 1][a] = g[m + 1][a]
    BY DEF Local
  <2>1. g[n + 1][a] = ValueBy(g[n], a) /\ g[m + 1][a] = ValueBy(g[m], a) BY <1>2 DEF EvaluatedIn
  <2>2. CASE /\ memo[a] = Invalid /\ IsFormula(a) /\ heap[a].formula.self_hr # "ReferencesChanged"
             /\ Dangling \notin ToSet(heap[a].ptrs)
    <3>1. a \in Stored BY <2>2 DEF VInv, IInv, HeapSound, Free, Contents, IsFormula
    <3>2. Follows(a) BY <2>2, <3>1 DEF Follows
    <3>3. \A i \in DOMAIN heap[a].ptrs : heap[a].ptrs[i] \in Addresses
      BY <2>2, <3>1, FollowedPointers
    <3>4. ASSUME NEW i \in DOMAIN heap[a].ptrs
          PROVE  g[n][heap[a].ptrs[i]] = g[m][heap[a].ptrs[i]]
      <4>1. <<a, heap[a].ptrs[i]>> \in Needs BY <3>2, <3>3 DEF Needs
      <4> QED BY <3>3, <4>1
    <3>5. [i \in DOMAIN heap[a].ptrs |-> g[n][heap[a].ptrs[i]]]
            = [i \in DOMAIN heap[a].ptrs |-> g[m][heap[a].ptrs[i]]]
      BY <3>4
    <3>6. ValueBy(g[n], a) = ValueBy(g[m], a) BY <2>2, <3>5 DEF ValueBy
    <3> QED BY <2>1, <3>6
  <2>3. CASE ~ (/\ memo[a] = Invalid /\ IsFormula(a)
                /\ heap[a].formula.self_hr # "ReferencesChanged"
                /\ Dangling \notin ToSet(heap[a].ptrs))
    BY <2>1, <2>3 DEF ValueBy
  <2> QED BY <2>2, <2>3
<1>5. \A a \in Addresses : g[N + 1][a] = g[N][a]
  <2>1. IsFiniteSet(Addresses) BY StructureAssumption
  <2>2. Cardinality(Addresses) <= N BY <1>1
  <2> QED BY <1>4, <2>1, <2>2, NeedsNothingInACircle, RoundsSettle
<1>6. N \in 0 .. N OBVIOUS
<1>7. Evaluated = g[N] BY <1>2 DEF EvaluatedIn
<1>8. \A a \in Addresses : g[N + 1][a] = ValueBy(g[N], a) BY <1>2, <1>6 DEF EvaluatedIn
<1> QED BY <1>3, <1>5, <1>6, <1>7, <1>8

-----------------------------------------------------------------------------
(* What the promise settles, and that it is the same.                       *)

\* MovingSheet's names for values are this module's.
LEMMA SameValues ==
  /\ Promise!RefError = RefError /\ Promise!Unknown = Unknown
  /\ \A s : Promise!SumOf(s) = SumOf(s)
<1>1. Promise!RefError = RefError /\ Promise!Unknown = Unknown
  BY DEF Promise!RefError, RefError, Promise!Unknown, Unknown
<1>2. \A S : Promise!Min(S) = Min(S) BY DEF Promise!Min, Min
<1>3. \A s : Promise!FoldSeq(+, 0, s) = FoldSeq(+, 0, s)
  BY DEF Promise!FoldSeq, FoldSeq, Promise!FoldFunction, FoldFunction, Promise!FoldFunctionOnSet,
         FoldFunctionOnSet, Promise!MapThenFoldSet, MapThenFoldSet
<1>4. \A s : Promise!SumOf(s) = SumOf(s) BY <1>1, <1>2, <1>3 DEF Promise!SumOf, SumOf
<1> QED BY <1>1, <1>4

\* What the promise makes of a position, if v says what the others are worth.
WorthBy(v, p) ==
  IF Sheet[p].kind # "formula" THEN Sheet[p].text
  ELSE IF HasLost(Sheet[p]) THEN RefError
  ELSE IF p \in Severed THEN Unknown
  ELSE SumOf([i \in DOMAIN Sheet[p].tree |-> v[Sheet[p].tree[i]]])

\* What the sheet shows where there is no cell.
LEMMA NothingShown ==
  ASSUME NEW p \in Position, Cell(p) = Null
  PROVE  Sheet[p] = Promise!Absent /\ Sheet[p].kind = "absent" /\ Sheet[p].text = 0
<1>1. Sheet[p] = ContentsAt(p) BY DEF Sheet
<1>2. Sheet[p] = Promise!Absent BY <1>1, ContentsByPosition
<1> QED BY <1>2 DEF Promise!Absent

\* What the sheet shows where there is a cell.
LEMMA CellShown ==
  ASSUME VInv, NEW p \in Position, Cell(p) # Null
  PROVE  /\ Cell(p) \in Stored /\ Cell(p) \in Addresses /\ Sheet[p] # Promise!Absent
         /\ Sheet[p].kind = heap[Cell(p)].kind /\ Sheet[p].text = heap[Cell(p)].text
         /\ Sheet[p].tree = heap[Cell(p)].formula.tree
         /\ heap[Cell(p)].kind \in {"text", "formula"} /\ heap[Cell(p)].text \in Nat
         /\ (HasLost(Sheet[p]) <=> HasLost(heap[Cell(p)].formula))
         /\ (HasLost(heap[Cell(p)].formula)
              <=> heap[Cell(p)].formula.self_hr = "ReferencesChanged")
         /\ (p \in Severed <=> /\ IsFormula(Cell(p)) /\ ~ HasLost(heap[Cell(p)].formula)
                               /\ Dangling \in ToSet(heap[Cell(p)].ptrs))
<1>1. Sheet[p] = ContentsAt(p) BY DEF Sheet
<1>2. Cell(p) \in Stored BY CellsFound DEF VInv, IInv
<1>3. Sound(heap[Cell(p)]) /\ Cell(p) \in Addresses BY <1>2, StoredSound DEF VInv
<1>4. Sheet[p] = [kind |-> heap[Cell(p)].kind, text |-> heap[Cell(p)].text,
                  tree |-> heap[Cell(p)].formula.tree]
  BY <1>1, ContentsByPosition
<1>5. /\ Sheet[p].kind = heap[Cell(p)].kind /\ Sheet[p].text = heap[Cell(p)].text
      /\ Sheet[p].tree = heap[Cell(p)].formula.tree
  BY <1>4
<1>6. heap[Cell(p)].kind \in {"text", "formula"} BY <1>3 DEF Sound
<1>7. Sheet[p] # Promise!Absent BY <1>5, <1>6 DEF Promise!Absent
<1>8. heap[Cell(p)].text \in Nat BY <1>2 DEF VInv, CachesSound
<1>9. HasLost(Sheet[p]) <=> HasLost(heap[Cell(p)].formula) BY <1>5 DEF HasLost
<1>10. HasLost(heap[Cell(p)].formula) <=> heap[Cell(p)].formula.self_hr = "ReferencesChanged"
  BY <1>2, <1>3 DEF Sound, Consistent, VInv, LossKnown
<1>11. p \in Severed <=> /\ IsFormula(Cell(p)) /\ ~ HasLost(heap[Cell(p)].formula)
                         /\ Dangling \in ToSet(heap[Cell(p)].ptrs)
  BY DEF Severed, SeveredAt, FormulaAt
<1> QED BY <1>2, <1>3, <1>5, <1>6, <1>7, <1>8, <1>9, <1>10, <1>11

\* A formula with all its cells needs those its text names.
Whole(p) ==
  /\ Cell(p) # Null /\ IsFormula(Cell(p)) /\ ~ HasLost(heap[Cell(p)].formula) /\ p \notin Severed

\* Its references name the cells its pointers lead to.
LEMMA WholeNames ==
  ASSUME VInv, NEW p \in Position, Whole(p)
  PROVE  /\ Cell(p) \in Stored /\ Dangling \notin ToSet(heap[Cell(p)].ptrs)
         /\ \E k \in Nat : DOMAIN heap[Cell(p)].ptrs = 1 .. k
         /\ DOMAIN Sheet[p].tree = DOMAIN heap[Cell(p)].ptrs
         /\ \A i \in DOMAIN Sheet[p].tree :
              /\ Sheet[p].tree[i] \in Position /\ Cell(Sheet[p].tree[i]) # Null
              /\ Cell(Sheet[p].tree[i]) = heap[Cell(p)].ptrs[i]
              /\ <<p, Sheet[p].tree[i]>> \in reference
<1>1. /\ Cell(p) \in Stored /\ Dangling \notin ToSet(heap[Cell(p)].ptrs) /\ IsFormula(Cell(p))
      /\ Sheet[p].tree = heap[Cell(p)].formula.tree
  BY CellShown DEF Whole
<1>2. /\ \E k \in Nat : DOMAIN heap[Cell(p)].ptrs = 1 .. k
      /\ DOMAIN heap[Cell(p)].ptrs = DOMAIN heap[Cell(p)].formula.tree
      /\ \A i \in DOMAIN heap[Cell(p)].ptrs :
           /\ heap[Cell(p)].ptrs[i] \in Stored /\ heap[Cell(p)].formula.tree[i] \in Position
           /\ Cell(heap[Cell(p)].formula.tree[i]) = heap[Cell(p)].ptrs[i]
  BY <1>1, FollowedPointers
<1>3. ASSUME NEW i \in DOMAIN Sheet[p].tree
      PROVE  /\ Sheet[p].tree[i] \in Position /\ Cell(Sheet[p].tree[i]) # Null
             /\ Cell(Sheet[p].tree[i]) = heap[Cell(p)].ptrs[i]
             /\ <<p, Sheet[p].tree[i]>> \in reference
  <2> DEFINE q == Sheet[p].tree[i]
  <2>1. q \in Position /\ Cell(q) = heap[Cell(p)].ptrs[i] /\ Cell(q) \in Stored BY <1>1, <1>2
  <2>2. Cell(q) # Null BY <2>1, CellsFound DEF VInv, IInv
  <2>3. q # Gone BY <2>1, PositionsArePlaces
  <2>4. Names(p, q) BY <1>1, <2>3, NamesLeaf DEF Whole
  <2>5. <<p, q>> \in reference BY <2>4 DEF VInv, IInv, GraphsSound
  <2> QED BY <2>1, <2>2, <2>5
<1> QED BY <1>1, <1>2, <1>3

\* And so is what the promise makes of a position.
LEMMA WorthIsValue ==
  ASSUME VInv, NEW v \in [Position -> Values], NEW p \in Position
  PROVE  WorthBy(v, p) \in Values
<1>1. CASE Cell(p) = Null
  <2>1. Sheet[p].kind # "formula" /\ Sheet[p].text \in Nat BY <1>1, NothingShown
  <2> QED BY <2>1 DEF WorthBy, Values
<1>2. CASE Cell(p) # Null /\ ~ Whole(p)
  <2>1. /\ Sheet[p].kind = heap[Cell(p)].kind /\ Sheet[p].text \in Nat
        /\ (HasLost(Sheet[p]) <=> HasLost(heap[Cell(p)].formula))
    BY <1>2, CellShown
  <2>2. Sheet[p].kind # "formula" \/ HasLost(Sheet[p]) \/ p \in Severed
    BY <1>2, <2>1 DEF Whole, IsFormula
  <2> QED BY <2>1, <2>2 DEF WorthBy, Values
<1>3. CASE Whole(p)
  <2> DEFINE s == [i \in DOMAIN Sheet[p].tree |-> v[Sheet[p].tree[i]]]
  <2>1. PICK k \in Nat : DOMAIN Sheet[p].tree = 1 .. k BY <1>3, WholeNames
  <2>2. s \in [1 .. k -> Values] BY <1>3, <2>1, WholeNames
  <2>3. WorthBy(v, p) \in {Sheet[p].text, RefError, Unknown, SumOf(s)} BY DEF WorthBy
  <2> HIDE DEF s
  <2>4. SumOf(s) \in Values BY <2>2, SumOfValues
  <2>5. Sheet[p].text \in Nat BY <1>3, CellShown DEF Whole
  <2> QED BY <2>3, <2>4, <2>5 DEF Values
<1> QED BY <1>1, <1>2, <1>3 DEF Whole

\* There are only so many positions.
LEMMA PositionsFinite == IsFiniteSet(Position)
<1> DEFINE R == 0 .. kMaxRows - 1
           C == 0 .. kMaxCols - 1
           f == [e \in R \X C |-> [row |-> e[1], col |-> e[2]]]
<1>1. IsFiniteSet(R) /\ IsFiniteSet(C) BY StoreAssumptions, FS_Interval
<1>2. Position = [row : R, col : C] BY DEF Position, Store!Position
<1> HIDE DEF R, C
<1>3. IsFiniteSet(R \X C) BY <1>1, FS_Product
<1>4. f \in Surjection(R \X C, Position)
  <2>1. f \in [R \X C -> Position] BY <1>2
  <2>2. ASSUME NEW p \in Position PROVE \E e \in R \X C : f[e] = p
    <3>1. p.row \in R /\ p.col \in C /\ p = [row |-> p.row, col |-> p.col] BY <1>2
    <3>2. <<p.row, p.col>> \in R \X C /\ f[<<p.row, p.col>>] = p BY <3>1
    <3> QED BY <3>2
  <2> QED BY <2>1, <2>2 DEF Surjection
<1> QED BY <1>3, <1>4, FS_Surjection

\* The positions where there is something.
Shown == {p \in Position : Sheet[p] # Promise!Absent}

\* What the promise calls settled, as N rounds of WorthBy and one more.
SettledIn(g, N) ==
  /\ Promise!Settled = g[N] /\ g \in [0 .. N + 1 -> [Position -> Values]]
  /\ \A n \in 0 .. N : \A p \in Position : g[n + 1][p] = WorthBy(g[n], p)
  /\ \A p \in Position : Sheet[p].kind # "formula" => g[0][p] = Sheet[p].text

\* Settled is the last of its rounds.
LEMMA SettledInRounds ==
  ASSUME VInv, Cardinality(Shown) \in Nat
  PROVE  \E g : SettledIn(g, Cardinality(Shown))
<1> DEFINE N == Cardinality(Shown)
           V == [Position -> Values]
           F == [v \in V |-> [p \in Position |-> WorthBy(v, p)]]
           Late(p) == Sheet[p].kind = "formula" /\ ~ HasLost(Sheet[p])
           U == [p \in Position |-> Unknown]
           A == [p \in Position |-> IF Late(p) THEN Unknown ELSE WorthBy(U, p)]
           Body(f, n, p) ==
             IF Sheet[p].kind # "formula" THEN Sheet[p].text
             ELSE IF Promise!HasLost(Sheet[p]) THEN Promise!RefError
             ELSE IF p \in Severed \/ n = 0 THEN Promise!Unknown
             ELSE Promise!SumOf([i \in DOMAIN Sheet[p].tree |-> f[n - 1][Sheet[p].tree[i]]])
           Rounds(f) == f = [n \in 0 .. N |-> [p \in Position |-> Body(f, n, p)]]
           r == CHOOSE f : Rounds(f)
<1>0. N \in Nat OBVIOUS
<1>12. Promise!Settled = r[N]
  BY DEF Promise!Settled, Promise!Position, Position, Store!Position, Sheet, Severed, SeveredAt,
         Shown, Promise!Cardinality, Cardinality
<1> HIDE DEF N
<1>1. U \in V BY DEF Values
<1>2. F \in [V -> V]
  <2>1. \A v \in V : \A p \in Position : WorthBy(v, p) \in Values BY WorthIsValue
  <2> QED BY <2>1
<1>3. A \in V
  <2>1. \A p \in Position : WorthBy(U, p) \in Values BY <1>1, WorthIsValue
  <2> HIDE DEF U, Late
  <2> QED BY <2>1 DEF Values
<1>4. \A f : \A p \in Position : Body(f, 0, p) = A[p]
  <2> SUFFICES ASSUME NEW f, NEW p \in Position PROVE Body(f, 0, p) = A[p] OBVIOUS
  <2>1. Promise!RefError = RefError /\ Promise!Unknown = Unknown
        /\ (Promise!HasLost(Sheet[p]) <=> HasLost(Sheet[p]))
    BY SameNames, SameValues
  <2> QED BY <2>1 DEF WorthBy
<1>5. \A f : \A n \in 1 .. N : \A p \in Position : Body(f, n, p) = WorthBy(f[n - 1], p)
  <2> SUFFICES ASSUME NEW f, NEW n \in 1 .. N, NEW p \in Position
               PROVE  Body(f, n, p) = WorthBy(f[n - 1], p)
    OBVIOUS
  <2> DEFINE s == [i \in DOMAIN Sheet[p].tree |-> f[n - 1][Sheet[p].tree[i]]]
  <2>1. /\ Promise!RefError = RefError /\ Promise!Unknown = Unknown /\ n # 0
        /\ Promise!SumOf(s) = SumOf(s)
        /\ (Promise!HasLost(Sheet[p]) <=> HasLost(Sheet[p]))
    BY SameNames, SameValues
  <2> QED BY <2>1 DEF WorthBy
<1>6. \A v \in V : F[v] = [p \in Position |-> WorthBy(v, p)] OBVIOUS
<1> HIDE DEF Body, F, A, U, V
<1>7. PICK h \in [0 .. N + 1 -> V] : Iterates(h, F, A, N + 1)
  <2>1. N + 1 \in Nat BY <1>0
  <2> QED BY <1>2, <1>3, <2>1, IterationExists
<1>8. h[0] = A /\ \A n \in 0 .. N : h[n] \in V /\ h[n + 1] = [p \in Position |-> WorthBy(h[n], p)]
  <2>1. \A n \in 0 .. N : n \in 0 .. N + 1 /\ n \in 0 .. (N + 1) - 1 BY <1>0
  <2> QED BY <1>6, <1>7, <2>1 DEF Iterates
<1>9. A = [p \in Position |-> A[p]] BY DEF A
<1>10. \E f : Rounds(f)
  <2> DEFINE f == [n \in 0 .. N |-> h[n]]
  <2>1. ASSUME NEW n \in 0 .. N PROVE f[n] = [p \in Position |-> Body(f, n, p)]
    <3>1. CASE n = 0
      <4>1. f[n] = A BY <1>8, <3>1
      <4>2. \A p \in Position : Body(f, n, p) = A[p] BY <1>4, <3>1
      <4> QED BY <1>9, <4>1, <4>2
    <3>2. CASE n # 0
      <4>1. n \in 1 .. N /\ n - 1 \in 0 .. N /\ (n - 1) + 1 = n BY <1>0, <3>2
      <4>2. f[n] = [p \in Position |-> WorthBy(h[n - 1], p)] BY <1>8, <4>1
      <4>3. f[n - 1] = h[n - 1] BY <4>1
      <4> HIDE DEF f
      <4>4. \A p \in Position : Body(f, n, p) = WorthBy(h[n - 1], p) BY <1>5, <4>1, <4>3
      <4> QED BY <4>2, <4>4
    <3> QED BY <3>1, <3>2
  <2>2. f = [n \in 0 .. N |-> f[n]] OBVIOUS
  <2> HIDE DEF f
  <2>3. Rounds(f) BY <2>1, <2>2
  <2> QED BY <2>3
<1>11. Rounds(r) BY <1>10
<1> HIDE DEF r
<1>13. \A n \in 0 .. N : r[n] = [p \in Position |-> Body(r, n, p)] BY <1>11
<1>14. \A n \in 0 .. N : r[n] = h[n]
  <2> DEFINE T == {n \in Nat : n <= N /\ r[n] # h[n]}
  <2> SUFFICES ASSUME T # {} PROVE FALSE BY <1>0
  <2> HIDE DEF T
  <2>1. PICK n \in T : \A m \in T : n <= m BY LeastNat DEF T
  <2>2. n \in Nat /\ n <= N /\ r[n] # h[n] BY <2>1 DEF T
  <2>3. CASE n = 0
    <3>1. \A p \in Position : Body(r, n, p) = A[p] BY <1>4, <2>3
    <3>2. r[n] = [p \in Position |-> Body(r, n, p)] BY <1>13, <2>2
    <3>3. r[n] = A BY <1>9, <3>1, <3>2
    <3> QED BY <1>8, <2>2, <2>3, <3>3
  <2>4. CASE n # 0
    <3>1. n \in 1 .. N /\ n - 1 \in 0 .. N /\ (n - 1) + 1 = n /\ ~ (n <= n - 1) /\ n - 1 \in Nat
      BY <1>0, <2>2, <2>4
    <3>2. r[n - 1] = h[n - 1] BY <2>1, <3>1 DEF T
    <3>3. \A p \in Position : Body(r, n, p) = WorthBy(h[n - 1], p) BY <1>5, <3>1, <3>2
    <3>4. r[n] = [p \in Position |-> Body(r, n, p)] BY <1>13, <2>2
    <3>5. h[n] = [p \in Position |-> WorthBy(h[n - 1], p)] BY <1>8, <3>1
    <3> QED BY <2>2, <3>3, <3>4, <3>5
  <2> QED BY <2>3, <2>4
<1>15. N \in 0 .. N BY <1>0
<1>16. \A n \in 0 .. N : \A p \in Position : h[n + 1][p] = WorthBy(h[n], p) BY <1>8
<1>17. Promise!Settled = h[N] BY <1>12, <1>14, <1>15
<1>18. \A p \in Position : Sheet[p].kind # "formula" => h[0][p] = Sheet[p].text
  BY <1>8 DEF A, WorthBy
<1>19. SettledIn(h, N) BY <1>7, <1>16, <1>17, <1>18 DEF SettledIn, V
<1> QED BY <1>19 DEF N

\* As many rounds as there are cells settle every position: one more changes nothing.
LEMMA SettledSettles ==
  ASSUME VInv
  PROVE  /\ Promise!Settled \in [Position -> Values]
         /\ \A p \in Position : Promise!Settled[p] = WorthBy(Promise!Settled, p)
<1>1. IsFiniteSet(Shown) /\ Shown \subseteq Position BY PositionsFinite, FS_Subset DEF Shown
<1>2. PICK N \in Nat : N = Cardinality(Shown) BY <1>1, FS_CardinalityType
<1>3. PICK g : SettledIn(g, N) BY <1>2, SettledInRounds
<1>4. \A n \in 0 .. N : g[n] \in [Position -> Values]
  <2>1. \A n \in 0 .. N : n \in 0 .. N + 1 OBVIOUS
  <2> QED BY <1>3, <2>1 DEF SettledIn
<1>5. ASSUME NEW n \in 0 .. N, NEW m \in 0 .. N, NEW p \in Position,
             \A q \in Shown : <<p, q>> \in reference => g[n][q] = g[m][q]
      PROVE  g[n + 1][p] = g[m + 1][p]
  <2>1. g[n + 1][p] = WorthBy(g[n], p) /\ g[m + 1][p] = WorthBy(g[m], p) BY <1>3 DEF SettledIn
  <2>2. CASE Whole(p)
    <3>1. ASSUME NEW i \in DOMAIN Sheet[p].tree
          PROVE  g[n][Sheet[p].tree[i]] = g[m][Sheet[p].tree[i]]
      <4> DEFINE q == Sheet[p].tree[i]
      <4>1. q \in Position /\ Cell(q) # Null /\ <<p, q>> \in reference BY <2>2, WholeNames
      <4> HIDE DEF q
      <4>2. q \in Shown BY <4>1, CellShown DEF Shown
      <4> QED BY <1>5, <4>1, <4>2 DEF q
    <3>2. [i \in DOMAIN Sheet[p].tree |-> g[n][Sheet[p].tree[i]]]
            = [i \in DOMAIN Sheet[p].tree |-> g[m][Sheet[p].tree[i]]]
      BY <3>1
    <3>3. WorthBy(g[n], p) = WorthBy(g[m], p) BY <3>2 DEF WorthBy
    <3> QED BY <2>1, <3>3
  <2>3. CASE ~ Whole(p)
    <3>1. Sheet[p].kind # "formula" \/ HasLost(Sheet[p]) \/ p \in Severed
      <4>1. CASE Cell(p) = Null BY <4>1, NothingShown
      <4>2. CASE Cell(p) # Null BY <2>3, <4>2, CellShown DEF Whole, IsFormula
      <4> QED BY <4>1, <4>2
    <3>2. WorthBy(g[n], p) = WorthBy(g[m], p) BY <3>1 DEF WorthBy
    <3> QED BY <2>1, <3>2
  <2> QED BY <2>2, <2>3
<1>6. Local(g, N, Shown, reference) BY <1>1, <1>5 DEF Local
<1>7. NoTrapIn(Shown, reference) BY <1>1 DEF VInv, Acyclic, NoTrapIn
<1>8. \A p \in Shown : g[N + 1][p] = g[N][p]
  <2>1. Cardinality(Shown) <= N BY <1>2
  <2> QED BY <1>1, <1>6, <1>7, <2>1, RoundsSettle
<1>9. N \in 0 .. N OBVIOUS
<1>10. \A p \in Position : g[N + 1][p] = WorthBy(g[N], p) BY <1>3, <1>9 DEF SettledIn
<1>11. Promise!Settled = g[N] BY <1>3 DEF SettledIn
<1>12. ASSUME NEW p \in Position, p \notin Shown PROVE g[N][p] = WorthBy(g[N], p)
  <2>1. Cell(p) = Null BY <1>12, CellShown DEF Shown
  <2>2. \A v : WorthBy(v, p) = 0 BY <2>1, NothingShown DEF WorthBy
  <2>3. CASE N = 0 BY <1>3, <2>1, <2>2, <2>3, NothingShown DEF SettledIn
  <2>4. CASE N # 0
    <3>1. N - 1 \in 0 .. N /\ (N - 1) + 1 = N BY <2>4
    <3>2. g[N][p] = WorthBy(g[N - 1], p) BY <1>3, <3>1 DEF SettledIn
    <3> QED BY <2>2, <3>2
  <2> QED BY <2>3, <2>4
<1> QED BY <1>4, <1>8, <1>9, <1>10, <1>11, <1>12

\* What a read evaluates, with its caches and pointers, is what the promise calls
\* settled: a circle of cells would have to differ if one did.
LEMMA ReadsAgree ==
  ASSUME VInv, NEW p \in Position, Cell(p) # Null
  PROVE  Evaluated[Cell(p)] = Promise!Settled[p]
<1> DEFINE E == Evaluated
           S == Promise!Settled
           D == {q \in Position : Cell(q) # Null /\ E[Cell(q)] # S[q]}
<1>1. /\ \A a \in Addresses : E[a] = ValueBy(E, a)
      /\ \A q \in Position : S[q] = WorthBy(S, q)
  BY EvaluatedSettles, SettledSettles
<1> HIDE DEF E, S
<1>2. ASSUME NEW q \in D PROVE \E x \in D : <<q, x>> \in reference
  <2> DEFINE a == Cell(q)
             c == heap[a]
  <2>1. q \in Position /\ a # Null /\ E[a] # S[q] OBVIOUS
  <2>2. /\ a \in Stored /\ a \in Addresses
        /\ Sheet[q].kind = c.kind /\ Sheet[q].text = c.text /\ Sheet[q].tree = c.formula.tree
        /\ c.kind \in {"text", "formula"}
        /\ (HasLost(Sheet[q]) <=> HasLost(c.formula))
        /\ (HasLost(c.formula) <=> c.formula.self_hr = "ReferencesChanged")
        /\ (q \in Severed <=> IsFormula(a) /\ ~ HasLost(c.formula) /\ Dangling \in ToSet(c.ptrs))
    BY <2>1, CellShown
  <2>3. E[a] = ValueBy(E, a) /\ S[q] = WorthBy(S, q) BY <1>1, <2>1, <2>2
  <2>4. CacheSound(a) BY <2>2 DEF VInv, CachesSound
  <2>5. Whole(q)
    <3> SUFFICES ASSUME ~ Whole(q) PROVE E[a] = S[q] BY <2>1
    <3>1. CASE c.kind = "text"
      <4>1. S[q] = c.text BY <2>2, <2>3, <3>1 DEF WorthBy
      <4>2. memo[a] # Invalid => memo[a] = c.text BY <2>4, <3>1 DEF CacheSound
      <4>3. E[a] = c.text BY <2>3, <3>1, <4>2 DEF ValueBy, IsFormula
      <4> QED BY <4>1, <4>3
    <3>2. CASE c.kind = "formula" /\ HasLost(c.formula)
      <4>1. S[q] = RefError BY <2>2, <2>3, <3>2 DEF WorthBy
      <4>2. memo[a] # Invalid => memo[a] = RefError BY <2>4, <3>2 DEF CacheSound
      <4>3. E[a] = RefError BY <2>2, <2>3, <3>2, <4>2 DEF ValueBy, IsFormula
      <4> QED BY <4>1, <4>3
    <3>3. CASE c.kind = "formula" /\ ~ HasLost(c.formula)
      <4>1. IsFormula(a) /\ q \in Severed BY <2>1, <3>3 DEF Whole, IsFormula
      <4>2. S[q] = Unknown BY <2>2, <2>3, <3>3, <4>1 DEF WorthBy
      <4>3. PICK i \in DOMAIN c.ptrs : c.ptrs[i] = Dangling BY <2>2, <4>1 DEF ToSet
      <4>4. memo[a] = Invalid BY <2>4, <3>3, <4>3 DEF CacheSound
      <4>5. E[a] = Unknown BY <2>2, <2>3, <3>3, <4>1, <4>4 DEF ValueBy
      <4> QED BY <4>2, <4>5
    <3> QED BY <2>2, <3>1, <3>2, <3>3
  <2>6. /\ DOMAIN Sheet[q].tree = DOMAIN c.ptrs /\ Dangling \notin ToSet(c.ptrs)
        /\ \A i \in DOMAIN Sheet[q].tree :
             /\ Sheet[q].tree[i] \in Position /\ Cell(Sheet[q].tree[i]) # Null
             /\ Cell(Sheet[q].tree[i]) = c.ptrs[i] /\ <<q, Sheet[q].tree[i]>> \in reference
    BY <2>1, <2>5, WholeNames
  <2>7. S[q] = SumOf([i \in DOMAIN Sheet[q].tree |-> S[Sheet[q].tree[i]]])
    <3>1. Sheet[q].kind = "formula" /\ ~ HasLost(Sheet[q]) /\ q \notin Severed
      BY <2>2, <2>5 DEF Whole, IsFormula
    <3> QED BY <2>3, <3>1 DEF WorthBy
  <2>8. E[a] = SumOf([i \in DOMAIN c.ptrs |-> E[c.ptrs[i]]])
    <3>1. IsFormula(a) /\ c.kind = "formula" /\ ~ HasLost(c.formula)
          /\ c.formula.self_hr # "ReferencesChanged"
      BY <2>2, <2>5 DEF Whole, IsFormula
    <3>2. CASE memo[a] = Invalid BY <2>3, <2>6, <3>1, <3>2 DEF ValueBy
    <3>3. CASE memo[a] # Invalid
      <4>1. /\ \A i \in DOMAIN c.ptrs : memo[c.ptrs[i]] # Invalid
            /\ memo[a] = SumOf([i \in DOMAIN c.ptrs |-> memo[c.ptrs[i]]])
        BY <2>4, <3>1, <3>3 DEF CacheSound
      <4>6. \A x \in Position : Cell(x) \in Addresses \cup {Null} BY CellsFound DEF VInv, IInv
      <4>2. \A i \in DOMAIN c.ptrs : c.ptrs[i] \in Addresses BY <2>6, <4>6
      <4>3. \A i \in DOMAIN c.ptrs : E[c.ptrs[i]] = memo[c.ptrs[i]]
        BY <1>1, <4>1, <4>2 DEF ValueBy
      <4>4. [i \in DOMAIN c.ptrs |-> memo[c.ptrs[i]]] = [i \in DOMAIN c.ptrs |-> E[c.ptrs[i]]]
        BY <4>3
      <4>5. E[a] = memo[a] BY <2>3, <3>3 DEF ValueBy
      <4> QED BY <4>1, <4>4, <4>5
    <3> QED BY <3>2, <3>3
  <2>9. PICK i \in DOMAIN c.ptrs : E[c.ptrs[i]] # S[Sheet[q].tree[i]]
    <3> SUFFICES ASSUME \A i \in DOMAIN c.ptrs : E[c.ptrs[i]] = S[Sheet[q].tree[i]] PROVE FALSE
      OBVIOUS
    <3>1. [i \in DOMAIN c.ptrs |-> E[c.ptrs[i]]]
            = [i \in DOMAIN Sheet[q].tree |-> S[Sheet[q].tree[i]]]
      BY <2>6
    <3> QED BY <2>1, <2>7, <2>8, <3>1
  <2> QED BY <2>6, <2>9
<1>3. D \in SUBSET Position OBVIOUS
<1>4. D = {}
  <2> SUFFICES ASSUME D # {} PROVE FALSE OBVIOUS
  <2> HIDE DEF D
  <2>1. PICK q \in D : \A x \in D : <<q, x>> \notin reference
    BY <1>3 DEF VInv, Acyclic, NoTrapIn
  <2> QED BY <1>2, <2>1
<1> QED BY <1>4 DEF E, S

-----------------------------------------------------------------------------
(* The caches that a call keeps.                                            *)

\* The ends of a reference are positions of the table.
LEMMA NamesWithin ==
  ASSUME IInv, NEW p, NEW q, Names(p, q)
  PROVE  p \in Position /\ q \in Position
<1>1. p \in Position /\ q \in Place BY NamesPlaces DEF Names
<1>2. q.row <= RBC.row /\ q.col <= RBC.col BY DEF IInv, RefsWithin
<1>3. /\ RBC.row \in Int /\ RBC.col \in Int /\ RBC.row < kMaxRows /\ RBC.col < kMaxCols
  BY StorageShape DEF IInv
<1>4. q.row \in Nat /\ q.col \in Nat /\ q = [row |-> q.row, col |-> q.col] BY <1>1 DEF Place
<1>5. q.row \in 0 .. kMaxRows - 1 /\ q.col \in 0 .. kMaxCols - 1
  BY <1>2, <1>3, <1>4, StoreAssumptions
<1> QED BY <1>1, <1>4, <1>5, PositionFields

\* A reference leads from a position to a position.
LEMMA ReferencesWithin ==
  ASSUME IInv, NEW e \in reference
  PROVE  e = <<e[1], e[2]>> /\ e[1] \in Position /\ e[2] \in Position
BY NamesWithin DEF IInv, GraphsSound

\* A graph has only so many edges.
LEMMA GraphsFinite ==
  ASSUME IInv
  PROVE  IsFiniteSet(reference) /\ IsFiniteSet(dependency)
<1>1. IsFiniteSet(Position \X Position) BY PositionsFinite, FS_Product
<1>2. ASSUME NEW e \in reference \cup dependency PROVE e \in Position \X Position
  <2>1. e = <<e[1], e[2]>> BY DEF IInv, GraphsSound
  <2>2. Names(e[1], e[2]) \/ Names(e[2], e[1]) BY <2>1 DEF IInv, GraphsSound
  <2> QED BY <2>1, <2>2, NamesWithin
<1>3. reference \subseteq Position \X Position /\ dependency \subseteq Position \X Position BY <1>2
<1> QED BY <1>1, <1>3, FS_Subset

\* Edges from p close no circle if none leads from p back to it.
LEMMA NoCircleCloses ==
  ASSUME NEW edges, IsFiniteSet(edges), NEW p, ~ CycleFrom(edges, p),
         NEW B, NoTrapIn(B, {e \in edges : e[1] # p})
  PROVE  NoTrapIn(B, edges)
<1> SUFFICES ASSUME NEW X \in SUBSET B, X # {}, \A x \in X : \E y \in X : <<x, y>> \in edges
             PROVE  FALSE
  BY DEF NoTrapIn
<1> DEFINE Old == {e \in edges : e[1] # p}
           R == ReachedFrom(edges, From(edges, {p}))
<1>1. p \in ReachedFrom(edges, {p}) BY ReachedIsLeast
<1>2. p \notin R BY <1>1 DEF CycleFrom
<1>3. /\ From(edges, {p}) \subseteq R
      /\ \A e \in edges : e[1] \in R => e[2] \in R
  BY ReachedIsLeast
<1> HIDE DEF R
<1>4. p \in X
  <2> SUFFICES ASSUME p \notin X PROVE FALSE OBVIOUS
  <2>1. \A x \in X : \E y \in X : <<x, y>> \in Old OBVIOUS
  <2> HIDE DEF Old
  <2> QED BY <2>1 DEF NoTrapIn, Old
<1> DEFINE Z == X \cap R
<1>5. PICK y \in X : <<p, y>> \in edges BY <1>4
<1>6. y \in Z BY <1>3, <1>5 DEF From
<1>7. ASSUME NEW x \in Z PROVE \E z \in Z : <<x, z>> \in Old
  <2>1. PICK z \in X : <<x, z>> \in edges OBVIOUS
  <2>2. z \in R BY <1>3, <2>1
  <2>3. x # p BY <1>2
  <2> QED BY <2>1, <2>2, <2>3
<1>8. Z \in SUBSET B /\ Z # {} BY <1>6
<1> HIDE DEF Z, Old
<1> QED BY <1>7, <1>8 DEF NoTrapIn, Old

\* The cells an invalidation from S leaves as they are.
Spared(S) == {b \in Stored : \A q \in Visited(S) : Cell(q) # b}

\* The invalidation reaches what depends on a cell it has reached, unless that cell
\* is not cached.
LEMMA VisitedCloses ==
  ASSUME IInv, NEW S \in SUBSET Position
  PROVE  /\ \A q \in S : Cell(q) # Null => q \in Visited(S)
         /\ \A e \in dependency : e[1] \in Visited(S) /\ memo[Cell(e[2])] # Invalid => e[2] \in Visited(S)
         /\ Visited(S) \subseteq Position
<1> DEFINE edges == {e \in dependency : Cell(e[2]) # Null /\ memo[Cell(e[2])] # Invalid}
           from == {p \in S : Cell(p) # Null}
<1>1. IsFiniteSet(edges) BY GraphsFinite, FS_Subset
<1>2. \A e \in dependency : Cell(e[2]) # Null /\ e[2] \in Position
  <2> SUFFICES ASSUME NEW e \in dependency PROVE Cell(e[2]) # Null /\ e[2] \in Position OBVIOUS
  <2>1. Names(e[2], e[1]) BY DEF IInv, GraphsSound
  <2> QED BY <2>1, NamesLeaf
<1>3. Visited(S) = ReachedFrom(edges, from) BY DEF Visited
<1>4. from \subseteq Position /\ \A e \in edges : e[1] \in Position => e[2] \in Position BY <1>2
<1>5. \A e : e \in edges <=> e \in dependency /\ Cell(e[2]) # Null /\ memo[Cell(e[2])] # Invalid
  OBVIOUS
<1> HIDE DEF edges
<1>6. /\ from \subseteq ReachedFrom(edges, from)
      /\ \A e \in edges : e[1] \in ReachedFrom(edges, from) => e[2] \in ReachedFrom(edges, from)
      /\ ReachedFrom(edges, from) \subseteq Position
  BY <1>1, <1>4, ReachedIsLeast
<1> HIDE DEF from
<1>7. \A q \in S : Cell(q) # Null => q \in from BY DEF from
<1> QED BY <1>2, <1>3, <1>5, <1>6, <1>7

\* A valid formula that is spared rests on cells that are.
LEMMA SparedRest ==
  ASSUME VInv, NEW S \in SUBSET Position, NEW b \in Spared(S), memo[b] # Invalid,
         IsFormula(b), ~ HasLost(heap[b].formula), NEW i \in DOMAIN heap[b].ptrs
  PROVE  heap[b].ptrs[i] \in Spared(S)
<1>1. b \in Stored BY DEF Spared
<1>2. \A j \in DOMAIN heap[b].ptrs : heap[b].ptrs[j] # Dangling
  BY <1>1 DEF VInv, CachesSound, CacheSound, IsFormula
<1>3. Dangling \notin ToSet(heap[b].ptrs) BY <1>2 DEF ToSet
<1> DEFINE q == heap[b].formula.tree[i]
<1>4. /\ heap[b].ptrs[i] \in Stored /\ q \in Position /\ Cell(q) = heap[b].ptrs[i]
      /\ i \in DOMAIN heap[b].formula.tree
  BY <1>1, <1>3, FollowedPointers
<1>5. PICK p \in Position : Cell(p) = b /\ b # Null BY <1>1, CellsFound DEF VInv, IInv
<1>6. Names(p, q) BY <1>4, <1>5, NamesLeaf, PositionsArePlaces
<1>7. <<q, p>> \in dependency BY <1>6 DEF VInv, IInv, GraphsSound
<1> HIDE DEF q
<1>8. ASSUME NEW x \in Visited(S), Cell(x) = heap[b].ptrs[i] PROVE FALSE
  <2>1. x \in Position BY VisitedCloses DEF VInv
  <2>2. Cell(x) # Null BY <1>4, <1>8, CellsFound DEF VInv, IInv
  <2>3. x = q BY <1>4, <1>8, <2>1, <2>2 DEF VInv, IInv, OneOwner
  <2>4. \A e \in dependency : e[1] \in Visited(S) /\ memo[Cell(e[2])] # Invalid => e[2] \in Visited(S)
    BY VisitedCloses DEF VInv
  <2>5. p \in Visited(S) BY <1>5, <1>7, <2>3, <2>4
  <2> QED BY <1>5, <2>5 DEF Spared
<1> QED BY <1>4, <1>8 DEF Spared

\* A step that drops caches and keeps the others, with what they rest on.
CachesKept(K) ==
  /\ K \subseteq Stored /\ K \subseteq Stored'
  /\ \A b \in Addresses : memo'[b] = IF b \in K THEN memo[b] ELSE Invalid
  /\ \A b \in K : memo[b] # Invalid =>
       /\ heap'[b].kind = heap[b].kind /\ heap'[b].text = heap[b].text
       /\ (HasLost(heap'[b].formula) <=> HasLost(heap[b].formula))
       /\ IsFormula(b) /\ ~ HasLost(heap[b].formula) =>
            /\ DOMAIN heap'[b].ptrs = DOMAIN heap[b].ptrs
            /\ \A i \in DOMAIN heap[b].ptrs :
                 heap'[b].ptrs[i] = heap[b].ptrs[i] /\ heap[b].ptrs[i] \in K

\* They are as sound as they were.
LEMMA KeptCachesSound ==
  ASSUME VInv, NEW K, CachesKept(K), Stored' \subseteq Addresses,
         \A b \in Stored' : heap'[b].text \in Nat
  PROVE  CachesSound'
<1>1. \A b \in Addresses \ Stored' : memo'[b] = Invalid BY DEF CachesKept
<1>2. ASSUME NEW b \in Stored', memo'[b] # Invalid PROVE CacheSound(b)'
  <2>1. b \in K /\ memo'[b] = memo[b] /\ b \in Stored BY <1>2 DEF CachesKept
  <2>2. CacheSound(b) /\ memo[b] # Invalid BY <1>2, <2>1 DEF VInv, CachesSound
  <2>3. /\ heap'[b].kind = heap[b].kind /\ heap'[b].text = heap[b].text
        /\ (HasLost(heap'[b].formula) <=> HasLost(heap[b].formula))
    BY <2>1, <2>2 DEF CachesKept
  <2>4. ASSUME heap[b].kind = "formula", ~ HasLost(heap[b].formula)
        PROVE  /\ \A i \in DOMAIN heap'[b].ptrs :
                    heap'[b].ptrs[i] # Dangling /\ memo'[heap'[b].ptrs[i]] # Invalid
               /\ memo'[b] = SumOf([i \in DOMAIN heap'[b].ptrs |-> memo'[heap'[b].ptrs[i]]])
    <3>1. /\ \A i \in DOMAIN heap[b].ptrs : heap[b].ptrs[i] # Dangling /\ memo[heap[b].ptrs[i]] # Invalid
          /\ memo[b] = SumOf([i \in DOMAIN heap[b].ptrs |-> memo[heap[b].ptrs[i]]])
      BY <2>2, <2>4 DEF CacheSound
    <3>2. /\ DOMAIN heap'[b].ptrs = DOMAIN heap[b].ptrs
          /\ \A i \in DOMAIN heap[b].ptrs :
               heap'[b].ptrs[i] = heap[b].ptrs[i] /\ heap[b].ptrs[i] \in K
      BY <2>1, <2>2, <2>4 DEF CachesKept, IsFormula
    <3>3. \A x \in K : memo'[x] = memo[x] BY DEF CachesKept
    <3>4. [i \in DOMAIN heap'[b].ptrs |-> memo'[heap'[b].ptrs[i]]]
            = [i \in DOMAIN heap[b].ptrs |-> memo[heap[b].ptrs[i]]]
      BY <3>2, <3>3
    <3> QED BY <2>1, <3>1, <3>2, <3>3, <3>4
  <2> QED BY <2>1, <2>2, <2>3, <2>4 DEF CacheSound
<1>3. \A b \in Stored' : CacheSound(b)' BY <1>2 DEF CacheSound
<1> QED BY <1>1, <1>3 DEF CachesSound

-----------------------------------------------------------------------------
(* The steps, and the values they leave.                                    *)

\* ImpSheet::CreateCell and ResetCell, of a cell that closes no circle: the walk that goes
\* with a reset drops every cache that rests on the cell.
LEMMA CreateCellValues ==
  ASSUME VInv, NEW p \in Position, Cell(p) # Null \/ Cardinality(Stored) < Cardinality(Addresses),
         NEW c, Sound(c), c.text \in Nat, ~ HasLost(c.formula), CreateCell(p, c),
         NoTrapIn(Position, {e \in reference : e[1] # p} \cup {<<p, q>> : q \in ToSet(c.formula.ref_cells)})
  PROVE  Acyclic' /\ LossKnown' /\ CachesSound'
<1>1. PICK a \in Addresses :
        /\ a = Cell(p) \/ (Cell(p) = Null /\ a \notin Stored)
        /\ WellStored' /\ \A q \in Position : Cell(q)' = IF q = p THEN a ELSE Cell(q)
        /\ cells # <<>> => RBC.row <= RBC'.row /\ RBC.col <= RBC'.col
        /\ heap' = [heap EXCEPT ![a] = c]
  BY CellComes DEF VInv
<1>2. /\ \A b : b \in Stored <=> b # Null /\ \E q \in Position : Cell(q) = b
      /\ \A b : b \in Stored' <=> b # Null /\ \E q \in Position : Cell(q)' = b
      /\ Stored \subseteq Addresses /\ Stored' \subseteq Addresses
  BY <1>1, CellsFound DEF VInv, IInv
<1>3. \A b : b \in Stored' <=> b \in Stored \/ b = a
  <2>1. a # Null BY StoreAssumptions, <1>1
  <2>2. ASSUME NEW b \in Stored, b # a PROVE b \in Stored'
    <3>1. PICK q \in Position : Cell(q) = b BY <1>2
    <3>2. q # p \/ Cell(p) = Null BY <1>1, <2>2, <3>1
    <3>3. b # Null BY <1>2
    <3>4. Cell(q)' = b BY <1>1, <3>1, <3>2, <3>3
    <3> QED BY <1>2, <3>3, <3>4
  <2>3. a \in Stored' BY <1>1, <1>2, <2>1
  <2>4. ASSUME NEW b \in Stored', b # a PROVE b \in Stored
    <3>1. PICK q \in Position : Cell(q)' = b BY <1>2
    <3> QED BY <1>1, <1>2, <2>4, <3>1
  <2> QED BY <2>2, <2>3, <2>4
<1>4. DOMAIN heap = Addresses BY DEF VInv, IInv, HeapSound
<1>5. heap'[a] = c /\ \A b \in Addresses : b # a => heap'[b] = heap[b] BY <1>1, <1>4
<1>6. Acyclic'
  <2>1. \A e \in reference : Cell(p) = Null => e[1] # p
    <3> SUFFICES ASSUME NEW e \in reference, Cell(p) = Null PROVE e[1] # p OBVIOUS
    <3>1. Names(e[1], e[2]) BY DEF VInv, IInv, GraphsSound
    <3> QED BY <3>1, NamesLeaf
  <2>2. reference' = {e \in reference : e[1] # p} \cup {<<p, q>> : q \in ToSet(c.formula.ref_cells)}
    BY <2>1 DEF CreateCell
  <2>3. NoTrapIn(Position, reference') BY <2>2
  <2> QED BY <2>3 DEF Acyclic, Position, Store!Position
<1>7. LossKnown' BY <1>2, <1>3, <1>5 DEF VInv, LossKnown
<1>8. \A b \in Stored' : heap'[b].text \in Nat BY <1>2, <1>3, <1>5 DEF VInv, CachesSound
<1>9. CASE Cell(p) = Null
  <2>1. memo' = memo /\ a \notin Stored BY <1>1, <1>9 , StoreAssumptions DEF CreateCell
  <2>2. CachesKept(Stored)
    <3>1. \A b \in Addresses : memo'[b] = IF b \in Stored THEN memo[b] ELSE Invalid
      BY <2>1 DEF VInv, CachesSound
    <3>2. ASSUME NEW b \in Stored, memo[b] # Invalid, IsFormula(b), ~ HasLost(heap[b].formula),
                 NEW i \in DOMAIN heap[b].ptrs
          PROVE  heap[b].ptrs[i] \in Stored
      <4>1. \A j \in DOMAIN heap[b].ptrs : heap[b].ptrs[j] # Dangling
        BY <3>2 DEF VInv, CachesSound, CacheSound, IsFormula
      <4>2. Dangling \notin ToSet(heap[b].ptrs) BY <4>1 DEF ToSet
      <4> QED BY <3>2, <4>2, FollowedPointers
    <3>3. \A b \in Stored : heap'[b] = heap[b] BY <1>2, <1>5, <2>1
    <3>4. Stored \subseteq Stored' BY <1>3
    <3> QED BY <3>1, <3>2, <3>3, <3>4 DEF CachesKept
  <2> QED BY <1>2, <1>6, <1>7, <1>8, <2>2, KeptCachesSound
<1>10. CASE Cell(p) # Null
  <2>1. a = Cell(p) /\ memo' = MemoAfterInvalidation({p}) BY <1>1, <1>10 DEF CreateCell
  <2>2. p \in Visited({p}) /\ Visited({p}) \subseteq Position
    BY <1>10, VisitedCloses DEF VInv
  <2>3. CachesKept(Spared({p}))
    <3>1. \A b \in Addresses : memo'[b] = IF b \in Spared({p}) THEN memo[b] ELSE Invalid
      <4> SUFFICES ASSUME NEW b \in Addresses
                   PROVE  memo'[b] = IF b \in Spared({p}) THEN memo[b] ELSE Invalid
        OBVIOUS
      <4>1. memo'[b] = IF \E q \in Visited({p}) : Cell(q) = b THEN Invalid ELSE memo[b]
        BY <2>1 DEF MemoAfterInvalidation
      <4>2. b \notin Stored => memo[b] = Invalid BY DEF VInv, CachesSound
      <4> QED BY <4>1, <4>2 DEF Spared
    <3>2. \A b \in Spared({p}) : b # a /\ b \in Stored BY <2>1, <2>2 DEF Spared
    <3>3. \A b \in Spared({p}) : heap'[b] = heap[b] BY <1>2, <1>5, <3>2
    <3>4. Spared({p}) \subseteq Stored /\ Spared({p}) \subseteq Stored' BY <1>3, <3>2
    <3>5. ASSUME NEW b \in Spared({p}), memo[b] # Invalid, IsFormula(b), ~ HasLost(heap[b].formula),
                 NEW i \in DOMAIN heap[b].ptrs
          PROVE  heap[b].ptrs[i] \in Spared({p})
      BY <3>5, SparedRest
    <3> QED BY <3>1, <3>3, <3>4, <3>5 DEF CachesKept
  <2> QED BY <1>2, <1>6, <1>7, <1>8, <2>3, KeptCachesSound
<1> QED BY <1>6, <1>7, <1>9, <1>10

\* A call that changes none of this.
LEMMA NothingMovesValues ==
  ASSUME VInv, UNCHANGED <<cells, LTC, RBC, heap, memo, reference, dependency>>
  PROVE  VInv'
<1>1. IInv' BY NothingMoves DEF VInv
<1>2. Stored' = Stored BY DEF Stored, Holding
<1>3. Acyclic' BY DEF VInv, Acyclic, Position, Store!Position
<1>4. LossKnown' BY <1>2 DEF VInv, LossKnown
<1>5. CachesSound'
  <2>1. \A a : CacheSound(a)' <=> CacheSound(a) BY DEF CacheSound
  <2> QED BY <1>2, <2>1 DEF VInv, CachesSound
<1> QED BY <1>1, <1>3, <1>4, <1>5 DEF VInv

\* CreateCell with its early return, and what else the invariant says.
LEMMA SetCellValues ==
  ASSUME VInv, NEW p \in Position, Cell(p) # Null \/ Cardinality(Stored) < Cardinality(Addresses),
         NEW c, Sound(c), c.text \in Nat, ~ HasLost(c.formula), c.kind = "formula" => c.formula.tree # <<>>,
         \A i \in DOMAIN c.ptrs : /\ c.ptrs[i] # Null /\ c.formula.tree[i] \in Position
                                  /\ Cell(c.formula.tree[i]) = c.ptrs[i],
         NoTrapIn(Position, {e \in reference : e[1] # p}
                            \cup {<<p, q>> : q \in ToSet(c.formula.ref_cells)}),
         NEW asPrinted, SetCell(p, c, asPrinted)
  PROVE  VInv'
<1>1. CASE Cell(p) # Null /\ SameText(Cell(p), c, asPrinted)
  <2>1. /\ reference' = reference \cup {<<p, q>> : q \in ToSet(c.formula.ref_cells)}
        /\ UNCHANGED <<cells, LTC, RBC, heap, memo, dependency>>
    BY <1>1 DEF SetCell
  <2>2. /\ ToSet(c.formula.ref_cells) = ToSet(c.formula.tree) \ {Gone}
        /\ c.kind \in {"text", "formula"} /\ (c.kind = "text" => c.formula.tree = <<>>)
    BY DEF Sound, Consistent
  <2>3. \A f : \A q : q \in ToSet(f) <=> \E i \in DOMAIN f : f[i] = q BY DEF ToSet
  <2>4. DOMAIN <<>> = {} OBVIOUS
  <2>5. heap[Cell(p)].kind = c.kind /\ heap[Cell(p)].formula.tree = c.formula.tree
    BY <1>1 DEF SameText
  <2>6. \A q \in ToSet(c.formula.ref_cells) : Names(p, q)
    BY <1>1, <2>2, <2>3, <2>4, <2>5, NamesLeaf DEF IsFormula
  <2>7. \A q \in ToSet(c.formula.ref_cells) : <<p, q>> \in reference
    BY <2>6 DEF VInv, IInv, GraphsSound
  <2>8. reference' = reference BY <2>1, <2>7
  <2> QED BY <2>1, <2>8, NothingMovesValues
<1>2. CASE ~ (Cell(p) # Null /\ SameText(Cell(p), c, asPrinted)) /\ Cell(p) # Null /\ MeetsNull({p})
  BY <1>2, NothingMovesValues DEF SetCell, Fails, Stays
<1>3. CASE ~ (Cell(p) # Null /\ SameText(Cell(p), c, asPrinted)) /\ ~ (Cell(p) # Null /\ MeetsNull({p}))
  <2>1. CreateCell(p, c) BY <1>3 DEF SetCell
  <2>2. IInv' BY <2>1, CreateCellKeeps DEF VInv
  <2>3. Acyclic' /\ LossKnown' /\ CachesSound' BY <2>1, CreateCellValues
  <2> QED BY <2>2, <2>3 DEF VInv
<1> QED BY <1>1, <1>2, <1>3

\* Fewer references do not close a circle.
LEMMA FewerEdges ==
  ASSUME NEW B, NEW E, NEW F, NoTrapIn(B, E), F \subseteq E
  PROVE  NoTrapIn(B, F)
BY DEF NoTrapIn

\* ImpSheet::SetCell, of a text.
LEMMA SetTextValues ==
  ASSUME VInv, NEW p \in Position, Cell(p) # Null \/ Cardinality(Stored) < Cardinality(Addresses),
         NEW t \in Texts, SetText(p, t)
  PROVE  VInv'
<1> DEFINE c == TextCell(t)
<1>1. c.kind = "text" /\ c.formula = ParsedFormula(<<>>) /\ c.ptrs = <<>> /\ c.text = t
  BY DEF TextCell, Contents
<1>2. Consistent(c.formula) /\ c.formula.tree = <<>>
  <2>1. <<>> \in Seq(Place) OBVIOUS
  <2> QED BY <1>1, <2>1, ParsedConsistent
<1>3. Sound(c) BY <1>1, <1>2 DEF Sound, TextCell
<1>4. SetCell(p, c, TRUE) BY DEF SetText
<1>5. DOMAIN c.ptrs = {} /\ c.kind # "formula" BY <1>1
<1>6. c.text \in Nat BY <1>1, StructureAssumption
<1>7. ~ HasLost(c.formula) /\ ToSet(c.formula.ref_cells) = {}
  <2>1. DOMAIN <<>> = {} OBVIOUS
  <2>2. ToSet(<<>>) = {} BY DEF ToSet
  <2> QED BY <1>2, <2>1, <2>2 DEF HasLost, Consistent
<1>8. NoTrapIn(Position, {e \in reference : e[1] # p}
                         \cup {<<p, q>> : q \in ToSet(c.formula.ref_cells)})
  <2>1. {e \in reference : e[1] # p} \cup {<<p, q>> : q \in ToSet(c.formula.ref_cells)}
          \subseteq reference
    BY <1>7
  <2>2. NoTrapIn(Position, reference) BY DEF VInv, Acyclic
  <2> HIDE DEF c
  <2> QED BY <2>1, <2>2, FewerEdges
<1> HIDE DEF c
<1> QED BY <1>3, <1>4, <1>5, <1>6, <1>7, <1>8, SetCellValues

\* ImpSheet::SetCell, of a formula: the search refuses one that would close a circle.
LEMMA SetFormulaValues ==
  ASSUME VInv, NEW p \in Position, Cell(p) # Null \/ Cardinality(Stored) < Cardinality(Addresses),
         NEW tree \in Seq(Written), tree # <<>>,
         NEW asPrinted \in BOOLEAN, SetFormula(p, tree, asPrinted)
  PROVE  VInv'
<1> DEFINE c == FormulaCell(tree)
           edges == {e \in reference : e[1] # p} \cup {<<p, q>> : q \in ToSet(tree)}
<1>1. CASE SetCell(p, c, asPrinted) /\ ~ CycleFrom(edges, p)
  <2>1. /\ c.kind = "formula" /\ c.formula = ParsedFormula(tree) /\ c.text = 0
        /\ c.ptrs = [i \in DOMAIN tree |-> Cell(tree[i])]
    BY DEF FormulaCell, Contents
  <2>2. \A i \in DOMAIN tree : tree[i] \in Position /\ Cell(tree[i]) # Null
    <3>1. Written \subseteq Position BY StructureAssumption DEF Position, Store!Position
    <3>2. \A q \in ToSet(tree) : Cell(q) # Null BY DEF SetFormula
    <3> QED BY <3>1, <3>2 DEF ToSet
  <2>3. Consistent(c.formula) /\ c.formula.tree = tree
    <3>1. tree \in Seq(Place) BY <2>2, PositionsArePlaces
    <3> QED BY <2>1, <3>1, ParsedConsistent
  <2>4. DOMAIN c.ptrs = DOMAIN tree BY <2>1
  <2>5. Sound(c) BY <2>1, <2>3, <2>4 DEF Sound, FormulaCell, Contents
  <2>6. \A i \in DOMAIN c.ptrs : /\ c.ptrs[i] # Null /\ c.formula.tree[i] \in Position
                                 /\ Cell(c.formula.tree[i]) = c.ptrs[i]
    BY <2>1, <2>2, <2>3
  <2>7. c.formula.tree # <<>> BY <2>3
  <2>8. ToSet(tree) \subseteq Position /\ Gone \notin ToSet(tree)
    BY <2>2, PositionsArePlaces DEF ToSet
  <2>9. ~ HasLost(c.formula) BY <2>2, <2>3, PositionsArePlaces DEF HasLost
  <2>10. ToSet(c.formula.ref_cells) = ToSet(tree) BY <2>3, <2>8 DEF Consistent
  <2>11. NoTrapIn(Position, edges)
    <3>1. IsFiniteSet(edges)
      <4>1. {<<p, q>> : q \in ToSet(tree)} \subseteq Position \X Position BY <2>8
      <4>2. IsFiniteSet(Position \X Position) BY PositionsFinite, FS_Product
      <4>3. IsFiniteSet({<<p, q>> : q \in ToSet(tree)}) BY <4>1, <4>2, FS_Subset
      <4>4. IsFiniteSet({e \in reference : e[1] # p}) BY GraphsFinite, FS_Subset DEF VInv
      <4> QED BY <4>3, <4>4, FS_Union
    <3>2. {e \in edges : e[1] # p} \subseteq reference OBVIOUS
    <3>3. NoTrapIn(Position, reference) BY DEF VInv, Acyclic
    <3> HIDE DEF edges
    <3>4. NoTrapIn(Position, {e \in edges : e[1] # p}) BY <3>2, <3>3, FewerEdges
    <3> QED BY <1>1, <3>1, <3>4, NoCircleCloses
  <2>12. c.text \in Nat BY <2>1
  <2> HIDE DEF c
  <2>13. NoTrapIn(Position, {e \in reference : e[1] # p}
                           \cup {<<p, q>> : q \in ToSet(c.formula.ref_cells)})
    BY <2>10, <2>11
  <2> QED BY <1>1, <2>5, <2>6, <2>7, <2>9, <2>12, <2>13, SetCellValues
<1>2. CASE Stays("CircularDependency") BY <1>2, NothingMovesValues DEF Stays
<1> QED BY <1>1, <1>2 DEF SetFormula

\* ImpSheet::ClearCell: what rests on the cell is no longer cached when its pointers dangle.
LEMMA ClearCellValues ==
  ASSUME VInv, NEW p \in Position, ClearCell(p)
  PROVE  VInv'
<1>1. CASE MeetsNull({p}) BY <1>1, NothingMovesValues DEF ClearCell, Fails, Stays
<1>2. CASE ~ MeetsNull({p})
  <2>1. /\ Cell(p) # Null /\ Store!DeleteCell(p) /\ Keep(heap, MemoAfterInvalidation({p}))
        /\ reference' = {e \in reference : e[1] # p}
    BY <1>2 DEF ClearCell
  <2>2. WellStored' /\ \A q \in Position : Cell(q)' = IF q = p THEN Null ELSE Cell(q)
    BY <2>1, CellTaken DEF VInv, IInv
  <2>3. IInv' BY ClearCellKeeps DEF VInv
  <2>4. /\ \A b : b \in Stored <=> b # Null /\ \E q \in Position : Cell(q) = b
        /\ \A b : b \in Stored' <=> b # Null /\ \E q \in Position : Cell(q)' = b
        /\ Stored \subseteq Addresses /\ Stored' \subseteq Addresses
    BY <2>2, CellsFound DEF VInv, IInv
  <2>5. \A b : b \in Stored' <=> b \in Stored /\ b # Cell(p)
    <3>1. ASSUME NEW b \in Stored', b = Cell(p) PROVE FALSE
      <4>1. PICK q \in Position : Cell(q)' = b /\ b # Null BY <2>4
      <4>2. q # p /\ Cell(q) = b BY <2>2, <4>1
      <4> QED BY <3>1, <4>1, <4>2 DEF VInv, IInv, OneOwner
    <3> QED BY <2>2, <2>4, <3>1
  <2>6. ASSUME NEW b \in Stored'
        PROVE  /\ heap'[b].kind = heap[b].kind /\ heap'[b].text = heap[b].text
               /\ heap'[b].formula = heap[b].formula /\ DOMAIN heap'[b].ptrs = DOMAIN heap[b].ptrs
               /\ \A i \in DOMAIN heap[b].ptrs :
                    heap'[b].ptrs[i] = IF heap[b].ptrs[i] \in Stored' THEN heap[b].ptrs[i] ELSE Dangling
    <3>1. b \in Stored /\ b \in Addresses BY <2>4, <2>5
    <3>2. Sound(heap[b]) BY <3>1, StoredSound DEF VInv
    <3> HIDE DEF MemoAfterInvalidation
    <3> QED BY <2>1, <3>1, <3>2, OwnedKept
  <2>7. Acyclic'
    <3>1. NoTrapIn(Position, reference) BY DEF VInv, Acyclic
    <3>2. NoTrapIn(Position, reference') BY <2>1, <3>1, FewerEdges
    <3> QED BY <3>2 DEF Acyclic, Position, Store!Position
  <2>8. LossKnown' BY <2>5, <2>6 DEF VInv, LossKnown
  <2>9. p \in Visited({p}) BY <2>1, VisitedCloses DEF VInv
  <2>10. CachesKept(Spared({p}))
    <3>1. \A b \in Spared({p}) : b \in Stored /\ b # Cell(p) BY <2>9 DEF Spared
    <3>2. Spared({p}) \subseteq Stored /\ Spared({p}) \subseteq Stored' BY <2>5, <3>1
    <3>3. \A b \in Addresses : memo'[b] = IF b \in Spared({p}) THEN memo[b] ELSE Invalid
      <4> SUFFICES ASSUME NEW b \in Addresses
                   PROVE  memo'[b] = IF b \in Spared({p}) THEN memo[b] ELSE Invalid
        OBVIOUS
      <4>1. memo'[b] = IF b \in Stored' THEN MemoAfterInvalidation({p})[b] ELSE Invalid
        BY <2>1 DEF Keep, Stored
      <4>2. MemoAfterInvalidation({p})[b]
              = IF \E q \in Visited({p}) : Cell(q) = b THEN Invalid ELSE memo[b]
        BY DEF MemoAfterInvalidation
      <4>3. b \in Stored' => b \in Stored BY <2>5
      <4> QED BY <3>2, <4>1, <4>2, <4>3 DEF Spared
    <3>4. ASSUME NEW b \in Spared({p}), memo[b] # Invalid, IsFormula(b), ~ HasLost(heap[b].formula),
                 NEW i \in DOMAIN heap[b].ptrs
          PROVE  heap'[b].ptrs[i] = heap[b].ptrs[i] /\ heap[b].ptrs[i] \in Spared({p})
      <4>1. heap[b].ptrs[i] \in Spared({p}) BY <3>4, SparedRest
      <4> QED BY <2>6, <3>2, <4>1
    <3> QED BY <2>6, <3>2, <3>3, <3>4 DEF CachesKept
  <2>11. \A b \in Stored' : heap'[b].text \in Nat BY <2>5, <2>6 DEF VInv, CachesSound
  <2> QED BY <2>3, <2>4, <2>7, <2>8, <2>10, <2>11, KeptCachesSound DEF VInv
<1> QED BY <1>1, <1>2

\* What a read that succeeds evaluates: cells that are there and have a value.
LEMMA EvaluatesCloses ==
  ASSUME VInv, NEW a \in Stored, Evaluated[a] # Unknown
  PROVE  /\ a \in Evaluates(a)
         /\ \A b \in Evaluates(a) : b \in Stored /\ Evaluated[b] # Unknown
         /\ \A b \in Evaluates(a) :
              memo[b] = Invalid /\ heap[b].formula.self_hr # "ReferencesChanged" =>
                \A i \in DOMAIN heap[b].ptrs : heap[b].ptrs[i] \in Evaluates(a)
<1> DEFINE late == {d \in Stored : memo[d] = Invalid /\ heap[d].formula.self_hr # "ReferencesChanged"}
           edges == UNION {{<<b, heap[b].ptrs[i]>> : i \in DOMAIN heap[b].ptrs} : b \in late}
           X == {b \in Stored : Evaluated[b] # Unknown}
<1>1. Evaluates(a) = ReachedFrom(edges, {a}) BY DEF Evaluates
<1>2. \A e : e \in edges <=> \E b \in late : \E i \in DOMAIN heap[b].ptrs : e = <<b, heap[b].ptrs[i]>>
  OBVIOUS
<1> HIDE DEF edges
<1>3. ASSUME NEW b \in Stored
      PROVE  /\ Sound(heap[b]) /\ b \in Addresses
             /\ \A i \in DOMAIN heap[b].ptrs : heap[b].ptrs[i] \in Addresses \cup {Dangling}
  <2>1. Sound(heap[b]) /\ PointerSound(b) /\ b \in Addresses
    BY StoredSound DEF VInv, IInv, PointersSound
  <2>2. \A q \in Position : Cell(q) \in Addresses \cup {Null} BY CellsFound DEF VInv, IInv
  <2>3. ASSUME NEW i \in DOMAIN heap[b].ptrs, heap[b].ptrs[i] # Dangling
        PROVE  heap[b].ptrs[i] \in Addresses
    <3>1. PICK q \in Position : Cell(q) = heap[b].ptrs[i] BY <2>1, <2>3 DEF PointerSound
    <3>2. heap[b].ptrs[i] # Null BY <2>1, <2>3 DEF PointerSound
    <3> QED BY <2>2, <3>1, <3>2
  <2> QED BY <2>1, <2>3
<1>4. IsFiniteSet(edges)
  <2>1. edges \subseteq Addresses \X (Addresses \cup {Dangling}) BY <1>2, <1>3
  <2>2. IsFiniteSet(Addresses \cup {Dangling}) BY StructureAssumption, FS_AddElement
  <2>3. IsFiniteSet(Addresses \X (Addresses \cup {Dangling}))
    BY <2>2, StructureAssumption, FS_Product
  <2> QED BY <2>1, <2>3, FS_Subset
<1>5. ASSUME NEW e \in edges, e[1] \in X PROVE e[2] \in X
  <2>1. PICK b \in late : \E i \in DOMAIN heap[b].ptrs : e = <<b, heap[b].ptrs[i]>> BY <1>2
  <2>2. PICK i \in DOMAIN heap[b].ptrs : e = <<b, heap[b].ptrs[i]>> BY <2>1
  <2>3. /\ b \in Stored /\ memo[b] = Invalid /\ heap[b].formula.self_hr # "ReferencesChanged"
        /\ Evaluated[b] # Unknown
    BY <1>5, <2>2
  <2>4. Sound(heap[b]) /\ b \in Addresses BY <1>3, <2>3
  <2>5. IsFormula(b)
    <3>1. DOMAIN <<>> = {} OBVIOUS
    <3>2. heap[b].kind = "text" => DOMAIN heap[b].ptrs = {} BY <2>4, <3>1 DEF Sound
    <3> QED BY <2>2, <2>4, <3>2 DEF Sound, IsFormula
  <2>6. Evaluated[b] = ValueBy(Evaluated, b) /\ Evaluated \in [Addresses -> Values]
    BY <2>4, EvaluatedSettles
  <2>7. Dangling \notin ToSet(heap[b].ptrs) BY <2>3, <2>5, <2>6 DEF ValueBy
  <2> DEFINE s == [j \in DOMAIN heap[b].ptrs |-> Evaluated[heap[b].ptrs[j]]]
  <2>8. Evaluated[b] = SumOf(s) BY <2>3, <2>5, <2>6, <2>7 DEF ValueBy
  <2>9. /\ \E k \in Nat : DOMAIN heap[b].ptrs = 1 .. k
        /\ \A j \in DOMAIN heap[b].ptrs : heap[b].ptrs[j] \in Addresses /\ heap[b].ptrs[j] \in Stored
    BY <2>3, <2>5, <2>7, FollowedPointers
  <2>10. PICK k \in Nat : DOMAIN heap[b].ptrs = 1 .. k BY <2>9
  <2>11. s \in [1 .. k -> Values] BY <2>6, <2>9, <2>10
  <2>12. s[i] = Evaluated[heap[b].ptrs[i]] BY <2>2
  <2> HIDE DEF s
  <2>13. s[i] # Unknown BY <2>3, <2>8, <2>10, <2>11, SumOfValues
  <2> QED BY <2>2, <2>9, <2>12, <2>13
<1>6. a \in X OBVIOUS
<1> HIDE DEF X
<1>7. /\ {a} \subseteq ReachedFrom(edges, {a})
      /\ \A e \in edges : e[1] \in ReachedFrom(edges, {a}) => e[2] \in ReachedFrom(edges, {a})
      /\ ReachedFrom(edges, {a}) \subseteq X
  <2>1. {a} \subseteq X BY <1>6
  <2> QED BY <1>4, <1>5, <2>1, ReachedIsLeast
<1>8. \A b \in Evaluates(a) : b \in Stored /\ Evaluated[b] # Unknown BY <1>1, <1>7 DEF X
<1>9. ASSUME NEW b \in Evaluates(a), memo[b] = Invalid,
             heap[b].formula.self_hr # "ReferencesChanged", NEW i \in DOMAIN heap[b].ptrs
      PROVE  heap[b].ptrs[i] \in Evaluates(a)
  <2>1. <<b, heap[b].ptrs[i]>> \in edges BY <1>2, <1>8, <1>9
  <2> QED BY <1>1, <1>7, <1>9, <2>1
<1> QED BY <1>1, <1>7, <1>8, <1>9

\* ImpCell::GetValue: what a read adds to the caches is what it has evaluated, with all
\* that it rests on.
LEMMA GetValueValues ==
  ASSUME VInv, NEW p \in Position, GetValue(p)
  PROVE  VInv'
<1> DEFINE a == Cell(p)
           E == Evaluates(a)
<1>1. CASE Evaluated[a] = Unknown BY <1>1, NothingMovesValues DEF GetValue, Fails, Stays
<1>2. CASE Evaluated[a] # Unknown
  <2>1. /\ memo' = [b \in Addresses |-> IF b \in E THEN Evaluated[b] ELSE memo[b]]
        /\ UNCHANGED <<cells, LTC, RBC, heap, reference, dependency>> /\ Cell(p) # Null
    BY <1>2 DEF GetValue
  <2>2. IInv' BY <2>1, NothingMoves DEF VInv
  <2>3. Acyclic' BY <2>1 DEF VInv, Acyclic, Position, Store!Position
  <2>4. Stored' = Stored BY <2>1 DEF Stored, Holding
  <2>5. LossKnown' BY <2>1, <2>4 DEF VInv, LossKnown
  <2>6. a \in Stored BY <2>1, CellsFound DEF VInv, IInv
  <2>7. /\ \A b \in E : b \in Stored /\ Evaluated[b] # Unknown
        /\ \A b \in E : memo[b] = Invalid /\ heap[b].formula.self_hr # "ReferencesChanged" =>
             \A i \in DOMAIN heap[b].ptrs : heap[b].ptrs[i] \in E
    BY <1>2, <2>6, EvaluatesCloses
  <2> HIDE DEF E, a
  <2>8. /\ Evaluated \in [Addresses -> Values]
        /\ \A b \in Addresses : Evaluated[b] = ValueBy(Evaluated, b)
    BY EvaluatedSettles
  <2>9. \A b \in Addresses : memo[b] # Invalid => memo'[b] = memo[b]
    BY <2>1, <2>8 DEF ValueBy
  <2>10. \A v \in Values : v # Invalid BY DEF Values, Invalid, RefError, Unknown
  <2>11. \A b \in E : memo'[b] = Evaluated[b] /\ memo'[b] # Invalid /\ b \in Addresses
    <3>1. \A b \in Stored : b \in Addresses BY StoredSound DEF VInv
    <3> QED BY <2>1, <2>7, <2>8, <2>10, <3>1
  <2>12. \A b \in Addresses \ Stored' : memo'[b] = Invalid
    BY <2>1, <2>4, <2>7 DEF VInv, CachesSound
  <2>13. ASSUME NEW b \in Stored, memo[b] # Invalid PROVE CacheSound(b)'
    <3>1. CacheSound(b) /\ b \in Addresses BY StoredSound DEF VInv, CachesSound
    <3>2. memo'[b] = memo[b] /\ heap'[b] = heap[b] BY <2>1, <2>9, <2>13, <3>1
    <3>3. ASSUME heap[b].kind = "formula", ~ HasLost(heap[b].formula)
          PROVE  \A i \in DOMAIN heap[b].ptrs :
                   /\ heap[b].ptrs[i] # Dangling
                   /\ memo'[heap[b].ptrs[i]] = memo[heap[b].ptrs[i]]
                   /\ memo[heap[b].ptrs[i]] # Invalid
      <4>1. \A i \in DOMAIN heap[b].ptrs :
              heap[b].ptrs[i] # Dangling /\ memo[heap[b].ptrs[i]] # Invalid
        BY <2>13, <3>1, <3>3 DEF CacheSound
      <4>2. Dangling \notin ToSet(heap[b].ptrs) BY <4>1 DEF ToSet
      <4>3. \A i \in DOMAIN heap[b].ptrs : heap[b].ptrs[i] \in Addresses
        BY <3>3, <4>2, FollowedPointers DEF IsFormula
      <4> QED BY <2>9, <4>1, <4>3
    <3>4. heap[b].kind = "formula" /\ ~ HasLost(heap[b].formula) =>
            [i \in DOMAIN heap[b].ptrs |-> memo'[heap[b].ptrs[i]]]
              = [i \in DOMAIN heap[b].ptrs |-> memo[heap[b].ptrs[i]]]
      BY <3>3
    <3> QED BY <2>13, <3>1, <3>2, <3>3, <3>4 DEF CacheSound
  <2>14. ASSUME NEW b \in Stored, memo[b] = Invalid, memo'[b] # Invalid PROVE CacheSound(b)'
    <3>1. b \in Addresses /\ Sound(heap[b]) /\ heap'[b] = heap[b] BY <2>1, StoredSound DEF VInv
    <3>2. b \in E BY <2>1, <2>14, <3>1
    <3>3. /\ memo'[b] = Evaluated[b] /\ memo'[b] \in Values /\ Evaluated[b] = ValueBy(Evaluated, b)
          /\ Evaluated[b] # Unknown
      BY <2>7, <2>8, <2>11, <3>1, <3>2
    <3>4. HasLost(heap[b].formula) <=> heap[b].formula.self_hr = "ReferencesChanged"
      BY <3>1 DEF Sound, Consistent, VInv, LossKnown
    <3>5. CASE heap[b].kind = "text"
      <4>1. ~ HasLost(heap[b].formula)
        <5>1. DOMAIN <<>> = {} OBVIOUS
        <5> QED BY <3>1, <3>5, <5>1 DEF Sound, HasLost
      <4>2. memo'[b] = heap[b].text BY <2>14, <3>3, <3>5 DEF ValueBy, IsFormula
      <4> QED BY <3>1, <3>3, <3>5, <4>1, <4>2 DEF CacheSound
    <3>6. CASE heap[b].kind = "formula" /\ HasLost(heap[b].formula)
      <4>1. memo'[b] = RefError BY <2>14, <3>3, <3>4, <3>6 DEF ValueBy, IsFormula
      <4> QED BY <3>1, <3>3, <3>6, <4>1 DEF CacheSound
    <3>7. CASE heap[b].kind = "formula" /\ ~ HasLost(heap[b].formula)
      <4>1. heap[b].formula.self_hr # "ReferencesChanged" /\ IsFormula(b)
        BY <3>4, <3>7 DEF IsFormula
      <4>2. Dangling \notin ToSet(heap[b].ptrs) BY <2>14, <3>3, <4>1 DEF ValueBy
      <4>3. memo'[b] = SumOf([i \in DOMAIN heap[b].ptrs |-> Evaluated[heap[b].ptrs[i]]])
        BY <2>14, <3>3, <4>1, <4>2 DEF ValueBy
      <4>4. \A i \in DOMAIN heap[b].ptrs : heap[b].ptrs[i] \in E BY <2>7, <2>14, <3>2, <4>1
      <4>5. \A i \in DOMAIN heap[b].ptrs :
              /\ memo'[heap[b].ptrs[i]] = Evaluated[heap[b].ptrs[i]]
              /\ memo'[heap[b].ptrs[i]] # Invalid /\ heap[b].ptrs[i] # Dangling
        <5>1. \A i \in DOMAIN heap[b].ptrs : heap[b].ptrs[i] # Dangling BY <4>2 DEF ToSet
        <5> QED BY <2>11, <4>4, <5>1
      <4>6. [i \in DOMAIN heap[b].ptrs |-> Evaluated[heap[b].ptrs[i]]]
              = [i \in DOMAIN heap[b].ptrs |-> memo'[heap[b].ptrs[i]]]
        BY <4>5
      <4> QED BY <3>1, <3>3, <3>7, <4>3, <4>5, <4>6 DEF CacheSound
    <3> QED BY <3>1, <3>5, <3>6, <3>7 DEF Sound
  <2>15. \A b \in Stored : CacheSound(b)' BY <2>13, <2>14 DEF CacheSound
  <2>16. \A b \in Stored : heap'[b].text \in Nat BY <2>1 DEF VInv, CachesSound
  <2>17. CachesSound' BY <2>4, <2>12, <2>15, <2>16 DEF CachesSound
  <2> QED BY <2>2, <2>3, <2>5, <2>17 DEF VInv
<1> QED BY <1>1, <1>2

\* Moved references go in no circle that was not there.
LEMMA MovedAcyclic ==
  ASSUME VInv, NEW To, AllMove(To)
  PROVE  Acyclic'
<1> SUFFICES ASSUME NEW X \in SUBSET Position, X # {}, \A x \in X : \E y \in X : <<x, y>> \in reference'
             PROVE  FALSE
  <2>1. NoTrapIn(Position, reference') => Acyclic' BY DEF Acyclic, Position, Store!Position
  <2> QED BY <2>1 DEF NoTrapIn
<1>1. reference' = MovedAlong(reference, To) /\ Moves(To) BY DEF AllMove, GraphsMove
<1>2. ASSUME NEW x \in X
      PROVE  \E e \in reference : /\ e = <<e[1], e[2]>> /\ e[1] \in Position /\ e[2] \in Position
                                  /\ To[e[1]] = x /\ To[e[2]] \in X /\ To[e[1]] # Gone
  <2>1. PICK y \in X : <<x, y>> \in MovedAlong(reference, To) BY <1>1
  <2>2. PICK e \in reference : /\ <<x, y>> = <<To[e[1]], To[e[2]]>>
                               /\ To[e[1]] # Gone /\ To[e[2]] # Gone
    BY <2>1 DEF MovedAlong
  <2>3. e = <<e[1], e[2]>> /\ e[1] \in Position /\ e[2] \in Position
    BY ReferencesWithin DEF VInv
  <2> QED BY <2>2, <2>3
<1> DEFINE Z == {z \in Position : To[z] \in X}
<1>3. Z # {}
  <2>1. PICK x \in X : TRUE OBVIOUS
  <2> QED BY <1>2, <2>1
<1>4. ASSUME NEW z \in Z PROVE \E y \in Z : <<z, y>> \in reference
  <2>1. PICK e \in reference : /\ e = <<e[1], e[2]>> /\ e[1] \in Position /\ e[2] \in Position
                               /\ To[e[1]] = To[z] /\ To[e[2]] \in X /\ To[e[1]] # Gone
    BY <1>2
  <2>2. e[1] = z BY <1>1, <2>1, PositionsArePlaces DEF Moves
  <2> QED BY <2>1, <2>2
<1>5. Z \in SUBSET Position OBVIOUS
<1> HIDE DEF Z
<1> QED BY <1>3, <1>4, <1>5 DEF VInv, Acyclic, NoTrapIn

\* The caches of cells that move are kept with what they rest on.
LEMMA MovedCaches ==
  ASSUME VInv, NEW To, AllMove(To), NEW K, K \subseteq Stored, K \subseteq Stored',
         \A b \in Addresses : memo'[b] = IF b \in K THEN memo[b] ELSE Invalid,
         \A b \in K : memo[b] # Invalid /\ IsFormula(b) /\ ~ HasLost(heap[b].formula) =>
           \A i \in DOMAIN heap[b].ptrs : heap[b].ptrs[i] \in K
  PROVE  CachesSound'
<1>1. /\ \A b : b \in Stored <=> b # Null /\ \E q \in Position : Cell(q) = b
      /\ \A b : b \in Stored' <=> b # Null /\ \E q \in Position : Cell(q)' = b
      /\ Stored \subseteq Addresses /\ Stored' \subseteq Addresses
  BY CellsFound DEF VInv, IInv, AllMove
<1>2. CellsMove(To) /\ To[Gone] = Gone BY DEF AllMove, Moves
<1>3. ASSUME NEW b \in Stored'
      PROVE  /\ b \in Stored /\ Sound(heap[b])
             /\ heap'[b].kind = heap[b].kind /\ heap'[b].text = heap[b].text
             /\ DOMAIN heap'[b].formula.tree = DOMAIN heap[b].formula.tree
             /\ \A i \in DOMAIN heap[b].formula.tree :
                  heap'[b].formula.tree[i] = To[heap[b].formula.tree[i]]
             /\ DOMAIN heap'[b].ptrs = DOMAIN heap[b].ptrs
             /\ \A i \in DOMAIN heap[b].ptrs :
                  heap'[b].ptrs[i] = IF heap[b].ptrs[i] \in Stored' THEN heap[b].ptrs[i] ELSE Dangling
  BY MovedKept DEF VInv
<1>4. \A b \in Stored' : heap'[b].text \in Nat BY <1>3 DEF VInv, CachesSound
<1>5. ASSUME NEW b \in K, memo[b] # Invalid
      PROVE  HasLost(heap'[b].formula) <=> HasLost(heap[b].formula)
  <2>1. HasLost(heap[b].formula) => HasLost(heap'[b].formula) BY <1>2, <1>3 DEF HasLost
  <2>2. ASSUME ~ HasLost(heap[b].formula), NEW i \in DOMAIN heap[b].formula.tree,
               To[heap[b].formula.tree[i]] = Gone
        PROVE  FALSE
    <3>1. b \in Stored /\ Sound(heap[b]) BY <1>3
    <3>2. IsFormula(b)
      <4>1. DOMAIN <<>> = {} OBVIOUS
      <4> QED BY <2>2, <3>1, <4>1 DEF Sound, IsFormula
    <3>3. \A j \in DOMAIN heap[b].ptrs : heap[b].ptrs[j] # Dangling
      BY <1>5, <2>2, <3>1, <3>2 DEF VInv, CachesSound, CacheSound, IsFormula
    <3>4. Dangling \notin ToSet(heap[b].ptrs) BY <3>3 DEF ToSet
    <3> DEFINE q == heap[b].formula.tree[i]
    <3>5. i \in DOMAIN heap[b].ptrs /\ q \in Position /\ Cell(q) = heap[b].ptrs[i]
      BY <2>2, <3>1, <3>2, <3>4, FollowedPointers
    <3>6. Cell(q) \in K BY <1>5, <2>2, <3>2, <3>5
    <3> HIDE DEF q
    <3>7. PICK x \in Position : Cell(x)' = Cell(q) /\ Cell(q) # Null BY <1>1, <3>6
    <3>8. PICK y \in Position : To[y] = x /\ Cell(y) = Cell(q) BY <1>2, <3>7 DEF CellsMove
    <3>9. y = q BY <3>5, <3>7, <3>8 DEF VInv, IInv, OneOwner
    <3> QED BY <2>2, <3>8, <3>9, PositionsArePlaces DEF q
  <2> QED BY <1>3, <2>1, <2>2 DEF HasLost
<1>6. CachesKept(K)
  <2>1. ASSUME NEW b \in K, memo[b] # Invalid, IsFormula(b), ~ HasLost(heap[b].formula),
               NEW i \in DOMAIN heap[b].ptrs
        PROVE  heap'[b].ptrs[i] = heap[b].ptrs[i] /\ heap[b].ptrs[i] \in K
    BY <1>3, <2>1
  <2>2. \A b \in K : b \in Stored' OBVIOUS
  <2> QED BY <1>3, <1>5, <2>1, <2>2 DEF CachesKept
<1> QED BY <1>1, <1>4, <1>6, KeptCachesSound

\* A deletion that has invalidated the cells that go.
LEMMA DeletedCaches ==
  ASSUME VInv, NEW To, AllMove(To), NEW S \in SUBSET Position,
         \A p \in Position : Cell(p) # Null /\ To[p] = Gone => p \in S,
         \A b \in Addresses : memo'[b] = IF b \in Stored' THEN MemoAfterInvalidation(S)[b] ELSE Invalid
  PROVE  CachesSound'
<1>1. /\ \A b : b \in Stored <=> b # Null /\ \E q \in Position : Cell(q) = b
      /\ \A b : b \in Stored' <=> b # Null /\ \E q \in Position : Cell(q)' = b
  BY CellsFound DEF VInv, IInv, AllMove
<1>2. Spared(S) \subseteq Stored BY DEF Spared
<1>3. Spared(S) \subseteq Stored'
  <2> SUFFICES ASSUME NEW b \in Spared(S) PROVE b \in Stored' OBVIOUS
  <2>1. PICK p \in Position : Cell(p) = b /\ b # Null BY <1>1, <1>2
  <2>2. To[p] # Gone
    <3>1. p \in S => p \in Visited(S) BY <2>1, VisitedCloses DEF VInv
    <3> QED BY <2>1, <3>1 DEF Spared
  <2>3. To[p] \in Position /\ Cell(To[p])' = b BY <2>1, <2>2 DEF AllMove, CellsMove
  <2> QED BY <1>1, <2>1, <2>3
<1>4. \A b \in Addresses : memo'[b] = IF b \in Spared(S) THEN memo[b] ELSE Invalid
  <2> SUFFICES ASSUME NEW b \in Addresses
               PROVE  memo'[b] = IF b \in Spared(S) THEN memo[b] ELSE Invalid
    OBVIOUS
  <2>1. MemoAfterInvalidation(S)[b]
          = IF \E q \in Visited(S) : Cell(q) = b THEN Invalid ELSE memo[b]
    BY DEF MemoAfterInvalidation
  <2>2. b \in Stored' => b \in Stored BY MovedKept DEF VInv
  <2>3. b \in Spared(S) <=> b \in Stored /\ ~ \E q \in Visited(S) : Cell(q) = b BY DEF Spared
  <2> QED BY <1>3, <2>1, <2>2, <2>3
<1>5. ASSUME NEW b \in Spared(S), memo[b] # Invalid, IsFormula(b), ~ HasLost(heap[b].formula)
      PROVE  \A i \in DOMAIN heap[b].ptrs : heap[b].ptrs[i] \in Spared(S)
  BY <1>5, SparedRest
<1> QED BY <1>2, <1>3, <1>4, <1>5, MovedCaches

\* An insertion of a sheet where no reference was lost.
LEMMA InsertedValues ==
  ASSUME VInv, ~ SomeLost, NEW To, AllMove(To), \A p \in Place : To[p] # Gone,
         \A b \in Addresses : memo'[b] = IF b \in Stored' THEN memo[b] ELSE Invalid
  PROVE  VInv'
<1>1. IInv' BY SheetMoves DEF VInv
<1>2. Acyclic' BY MovedAcyclic
<1>3. ASSUME NEW a \in Stored' PROVE ~ HasLost(heap'[a].formula)
  <2>1. /\ a \in Stored /\ Sound(heap[a])
        /\ DOMAIN heap'[a].formula.tree = DOMAIN heap[a].formula.tree
        /\ \A i \in DOMAIN heap[a].formula.tree :
             heap'[a].formula.tree[i] = To[heap[a].formula.tree[i]]
    BY MovedKept DEF VInv
  <2>2. ~ HasLost(heap[a].formula)
    <3>1. CASE IsFormula(a) BY <2>1, <3>1 DEF SomeLost, Formulas
    <3>2. CASE ~ IsFormula(a)
      <4>1. DOMAIN <<>> = {} OBVIOUS
      <4> QED BY <2>1, <3>2, <4>1 DEF Sound, IsFormula, HasLost
    <3> QED BY <3>1, <3>2
  <2>3. \A i \in DOMAIN heap[a].formula.tree : heap[a].formula.tree[i] \in Place \cup {Gone}
    BY <2>1, ListsOfFormula DEF Sound
  <2> QED BY <2>1, <2>2, <2>3 DEF HasLost
<1>4. LossKnown' BY <1>3 DEF LossKnown
<1>5. Stored \subseteq Stored'
  <2> SUFFICES ASSUME NEW b \in Stored PROVE b \in Stored' OBVIOUS
  <2>1. PICK p \in Position : Cell(p) = b /\ b # Null BY CellsFound DEF VInv, IInv
  <2>2. To[p] # Gone BY PositionsArePlaces
  <2>3. To[p] \in Position /\ Cell(To[p])' = b BY <2>1, <2>2 DEF AllMove, CellsMove
  <2> QED BY <2>1, <2>3, CellsFound DEF AllMove
<1>6. CachesSound'
  <2>1. \A b \in Addresses : memo'[b] = IF b \in Stored THEN memo[b] ELSE Invalid
    <3>1. \A b \in Stored' : b \in Stored BY MovedKept DEF VInv
    <3> QED BY <1>5, <3>1
  <2>2. ASSUME NEW b \in Stored, memo[b] # Invalid, IsFormula(b), ~ HasLost(heap[b].formula)
        PROVE  \A i \in DOMAIN heap[b].ptrs : heap[b].ptrs[i] \in Stored
    <3>1. \A j \in DOMAIN heap[b].ptrs : heap[b].ptrs[j] # Dangling
      BY <2>2 DEF VInv, CachesSound, CacheSound, IsFormula
    <3>2. Dangling \notin ToSet(heap[b].ptrs) BY <3>1 DEF ToSet
    <3> QED BY <2>2, <3>2, FollowedPointers
  <2> QED BY <1>5, <2>1, <2>2, MovedCaches
<1> QED BY <1>1, <1>2, <1>4, <1>6 DEF VInv

\* A formula that loses a reference to a deletion remembers it.
LEMMA DeletionRemembers ==
  ASSUME NEW f, Consistent(f), HasLost(f) => f.self_hr = "ReferencesChanged",
         NEW axis \in Axes, NEW first \in Nat, NEW count \in Nat \ {0}, NEW refs, NEW h,
         h = Unaffected(f) \/ h = Deleted(f, axis, first, count, refs),
         MovesWith(f, LeavesDeleted(f, axis, first, count), h), HasLost(h.formula)
  PROVE  h.formula.self_hr = "ReferencesChanged"
<1>1. CASE h = Unaffected(f) BY <1>1 DEF Unaffected
<1>2. CASE h = Deleted(f, axis, first, count, refs)
  <2>1. h.formula.self_hr = h.result BY <1>2 DEF Deleted
  <2>2. CASE f.self_hr = "ReferencesChanged" BY <1>2, <2>2 DEF Deleted
  <2>3. CASE f.self_hr # "ReferencesChanged"
    <3>1. ~ HasLost(f) /\ h.result = EffectOn(f, h.formula)
          /\ h.formula.tree = LeavesDeleted(f, axis, first, count)
      BY <2>3 DEF MovesWith
    <3>2. PICK i \in DOMAIN h.formula.tree : h.formula.tree[i] = Gone BY DEF HasLost
    <3>3. i \in DOMAIN f.tree BY <3>1, <3>2 DEF LeavesDeleted
    <3> QED BY <2>1, <3>1, <3>2, <3>3 DEF HasLost, EffectOn
  <2> QED BY <2>2, <2>3
<1> QED BY <1>1, <1>2

\* ImpSheet::InsertRows.
LEMMA InsertRowsValues ==
  ASSUME VInv, "forgotten reference" \in Avoided, NEW before \in Nat, NEW count \in Nat \ {0},
         InsertRows(before, count)
  PROVE  VInv'
<1> DEFINE h == Handled(LAMBDA f : HandleInsertedRows(f, before, count))
           To == Insertion("row", before, count)
<1>1. ~ SomeLost BY DEF InsertRows, Avoids
<1>2. CASE \E how : Fails(how) BY <1>2, NothingMovesValues DEF Fails, Stays
<1>3. CASE ~ \E how : Fails(how)
  <2>1. AllMove(To) BY <1>3, InsertRowsMoves DEF VInv
  <2>2. Keep(h, memo)
    <3> HIDE DEF h
    <3> QED BY <1>3 DEF InsertRows, h
  <2>3. \A p \in Place : To[p] # Gone BY InsertionIsMove DEF Axes
  <2> HIDE DEF h, To
  <2>4. \A b \in Addresses : memo'[b] = IF b \in Stored' THEN memo[b] ELSE Invalid
    BY <2>2 DEF Keep, Stored
  <2> QED BY <1>1, <2>1, <2>3, <2>4, InsertedValues
<1> QED BY <1>2, <1>3

\* ImpSheet::InsertCols.
LEMMA InsertColsValues ==
  ASSUME VInv, {"forgotten reference", "misplaced slots"} \subseteq Avoided,
         NEW before \in Nat, NEW count \in Nat \ {0}, InsertCols(before, count)
  PROVE  VInv'
<1> DEFINE h == Handled(LAMBDA f : HandleInsertedCols(f, before, count))
           To == Insertion("col", before, count)
<1>1. ~ SomeLost BY DEF InsertCols, Avoids
<1>2. CASE \E how : Fails(how) BY <1>2, NothingMovesValues DEF Fails, Stays
<1>3. CASE ~ \E how : Fails(how)
  <2>1. AllMove(To) BY <1>3, InsertColsMoves DEF VInv
  <2>2. Keep(h, memo)
    <3> HIDE DEF h
    <3> QED BY <1>3 DEF InsertCols, h
  <2>3. \A p \in Place : To[p] # Gone BY InsertionIsMove DEF Axes
  <2> HIDE DEF h, To
  <2>4. \A b \in Addresses : memo'[b] = IF b \in Stored' THEN memo[b] ELSE Invalid
    BY <2>2 DEF Keep, Stored
  <2> QED BY <1>1, <2>1, <2>3, <2>4, InsertedValues
<1> QED BY <1>2, <1>3

\* The formulas have been handled, and those that have lost a reference know.
FormulasRemember(h) ==
  \A a \in Stored :
    /\ ~ IsFormula(a) => h[a] = heap[a]
    /\ IsFormula(a) => \E g : /\ h[a] = [heap[a] EXCEPT !.formula = g] /\ Consistent(g)
                              /\ DOMAIN g.tree = DOMAIN heap[a].formula.tree
                              /\ HasLost(g) => g.self_hr = "ReferencesChanged"

\* So the sheet still knows its losses.
LEMMA LossKept ==
  ASSUME VInv, NEW To, AllMove(To), NEW h, NEW m, Keep(h, m),
         FormulasRemember(h)
  PROVE  LossKnown'
<1> SUFFICES ASSUME NEW a \in Stored', HasLost(heap'[a].formula)
             PROVE  heap'[a].formula.self_hr = "ReferencesChanged"
  BY DEF LossKnown
<1>1. a \in Stored /\ a \in Addresses /\ Sound(heap[a]) BY MovedKept DEF VInv
<1>2. CASE ~ IsFormula(a)
  <2>1. h[a] = heap[a] /\ Sound(h[a]) BY <1>1, <1>2 DEF FormulasRemember
  <2>2. heap'[a].formula = heap[a].formula BY <1>1, <2>1, OwnedKept
  <2> QED BY <1>1, <2>2 DEF VInv, LossKnown
<1>3. CASE IsFormula(a)
  <2>1. PICK g : /\ h[a] = [heap[a] EXCEPT !.formula = g] /\ Consistent(g)
                 /\ DOMAIN g.tree = DOMAIN heap[a].formula.tree
                 /\ HasLost(g) => g.self_hr = "ReferencesChanged"
    BY <1>1, <1>3 DEF FormulasRemember
  <2> DEFINE c == heap[a]
  <2>2. c = Contents(c.kind, c.text, c.formula, c.ptrs) /\ c.kind = "formula"
        /\ DOMAIN c.ptrs = DOMAIN c.formula.tree
    BY <1>1, <1>3 DEF Sound, IsFormula
  <2>3. h[a] = Contents(c.kind, c.text, g, c.ptrs) BY <2>1, <2>2 DEF Contents
  <2>4. h[a].kind = c.kind /\ h[a].text = c.text /\ h[a].formula = g /\ h[a].ptrs = c.ptrs
    BY <2>3 DEF Contents
  <2>5. Sound(h[a]) BY <2>1, <2>2, <2>3, <2>4 DEF Sound
  <2>6. heap'[a].formula = g BY <1>1, <2>4, <2>5, OwnedKept
  <2> QED BY <2>1, <2>6
<1> QED BY <1>2, <1>3

\* A deletion that has invalidated the cells it takes and what rests on them.
LEMMA DeletedValues ==
  ASSUME VInv, NEW axis \in Axes, NEW first \in Nat, NEW count \in Nat \ {0},
         AllMove(Deletion(axis, first, count)),
         NEW h, NEW S \in SUBSET Position, Keep(h, MemoAfterInvalidation(S)),
         \A p \in Position : Cell(p) # Null /\ Deletes(p, axis, first, count) => p \in S,
         FormulasRemember(h)
  PROVE  VInv'
<1> DEFINE To == Deletion(axis, first, count)
           m == MemoAfterInvalidation(S)
<1>1. \A p \in Place : To[p] = Gone <=> Deletes(p, axis, first, count) BY DeletionIsMove
<1>2. \A p \in Position : Cell(p) # Null /\ To[p] = Gone => p \in S BY <1>1, PositionsArePlaces
<1>3. AllMove(To) /\ Keep(h, m) OBVIOUS
<1> HIDE DEF To, m
<1>4. IInv' BY <1>3, SheetMoves DEF VInv
<1>5. Acyclic' BY <1>3, MovedAcyclic
<1>6. LossKnown' BY <1>3, LossKept
<1>7. \A b \in Addresses : memo'[b] = IF b \in Stored' THEN m[b] ELSE Invalid
  BY <1>3 DEF Keep, Stored
<1>8. CachesSound' BY <1>2, <1>3, <1>7, DeletedCaches DEF m
<1> QED BY <1>4, <1>5, <1>6, <1>8 DEF VInv

\* ImpFormula::HandleDeletedRows.
LEMMA DeletedRowsRemember ==
  ASSUME VInv, NEW first \in Nat, NEW count \in Nat \ {0}
  PROVE  FormulasRemember(Handled(LAMBDA f : HandleDeletedRows(f, first, count)))
<1> DEFINE h == Handled(LAMBDA f : HandleDeletedRows(f, first, count))
<1>1. ASSUME NEW a \in Stored, ~ IsFormula(a) PROVE h[a] = heap[a]
  BY <1>1, StoredSound DEF Handled, Formulas, VInv
<1>2. ASSUME NEW a \in Stored, IsFormula(a)
      PROVE  LET g == HandleDeletedRows(heap[a].formula, first, count).formula
             IN  /\ h[a] = [heap[a] EXCEPT !.formula = g] /\ Consistent(g)
                 /\ DOMAIN g.tree = DOMAIN heap[a].formula.tree
                 /\ HasLost(g) => g.self_hr = "ReferencesChanged"
  <2> DEFINE f == heap[a].formula
             r == HandleDeletedRows(f, first, count)
             refs == [i \in DOMAIN f.ref_cells |->
                        IF i < LowerBound(f.ref_cells, first) THEN f.ref_cells[i]
                        ELSE IF Deletes(f.ref_cells[i], "row", first, count) THEN Gone
                        ELSE [f.ref_cells[i] EXCEPT !.row = @ - count]]
  <2>1. Consistent(f) /\ a \in Addresses /\ a \in Formulas
    BY <1>2, StoredSound DEF Sound, Formulas, VInv
  <2>2. h[a] = [heap[a] EXCEPT !.formula = r.formula] BY <2>1 DEF Handled
  <2>3. MovesWith(f, LeavesDeleted(f, "row", first, count), r) BY <2>1, DeletedRowsHandled
  <2>4. r = Unaffected(f) \/ r = Deleted(f, "row", first, count, refs) BY DEF HandleDeletedRows
  <2>5. HasLost(f) => f.self_hr = "ReferencesChanged" BY DEF VInv, LossKnown
  <2> HIDE DEF f, r, refs
  <2>6. HasLost(r.formula) => r.formula.self_hr = "ReferencesChanged"
    BY <2>1, <2>3, <2>4, <2>5, DeletionRemembers DEF Axes
  <2>7. DOMAIN r.formula.tree = DOMAIN f.tree /\ Consistent(r.formula)
    BY <2>3 DEF MovesWith, LeavesDeleted
  <2> QED BY <2>2, <2>6, <2>7 DEF f, r
<1> HIDE DEF h
<1>3. FormulasRemember(h) BY <1>1, <1>2 DEF FormulasRemember
<1> QED BY <1>3 DEF h

\* ImpFormula::HandleDeletedCols.
LEMMA DeletedColsRemember ==
  ASSUME VInv, NEW first \in Nat, NEW count \in Nat \ {0}
  PROVE  FormulasRemember(Handled(LAMBDA f : HandleDeletedCols(f, first, count)))
<1> DEFINE h == Handled(LAMBDA f : HandleDeletedCols(f, first, count))
<1>1. ASSUME NEW a \in Stored, ~ IsFormula(a) PROVE h[a] = heap[a]
  BY <1>1, StoredSound DEF Handled, Formulas, VInv
<1>2. ASSUME NEW a \in Stored, IsFormula(a)
      PROVE  LET g == HandleDeletedCols(heap[a].formula, first, count).formula
             IN  /\ h[a] = [heap[a] EXCEPT !.formula = g] /\ Consistent(g)
                 /\ DOMAIN g.tree = DOMAIN heap[a].formula.tree
                 /\ HasLost(g) => g.self_hr = "ReferencesChanged"
  <2> DEFINE f == heap[a].formula
             r == HandleDeletedCols(f, first, count)
             refs == [i \in DOMAIN f.ref_cells |->
                        IF f.ref_cells[i].col < first THEN f.ref_cells[i]
                        ELSE IF Deletes(f.ref_cells[i], "col", first, count) THEN Gone
                        ELSE [f.ref_cells[i] EXCEPT !.col = @ - count]]
  <2>1. Consistent(f) /\ a \in Addresses /\ a \in Formulas
    BY <1>2, StoredSound DEF Sound, Formulas, VInv
  <2>2. h[a] = [heap[a] EXCEPT !.formula = r.formula] BY <2>1 DEF Handled
  <2>3. MovesWith(f, LeavesDeleted(f, "col", first, count), r) BY <2>1, DeletedColsHandled
  <2>4. r = Unaffected(f) \/ r = Deleted(f, "col", first, count, refs) BY DEF HandleDeletedCols
  <2>5. HasLost(f) => f.self_hr = "ReferencesChanged" BY DEF VInv, LossKnown
  <2> HIDE DEF f, r, refs
  <2>6. HasLost(r.formula) => r.formula.self_hr = "ReferencesChanged"
    BY <2>1, <2>3, <2>4, <2>5, DeletionRemembers DEF Axes
  <2>7. DOMAIN r.formula.tree = DOMAIN f.tree /\ Consistent(r.formula)
    BY <2>3 DEF MovesWith, LeavesDeleted
  <2> QED BY <2>2, <2>6, <2>7 DEF f, r
<1> HIDE DEF h
<1>3. FormulasRemember(h) BY <1>1, <1>2 DEF FormulasRemember
<1> QED BY <1>3 DEF h

\* Where a cell is in the storage.
LEMMA CellSlot ==
  ASSUME WellStored, NEW p \in Position, Cell(p) # Null
  PROVE  /\ p.row \in LTC.row .. RBC.row /\ p.col \in LTC.col .. RBC.col
         /\ p.row - LTC.row + 1 \in DOMAIN cells
         /\ p.col - LTC.col \in 0 .. Len(cells[p.row - LTC.row + 1]) - 1
<1> DEFINE r == p.row - LTC.row + 1
           c == p.col - LTC.col + 1
<1>1. r \in DOMAIN cells /\ c \in DOMAIN cells[r] BY DEF Cell, Store!Cell, Null
<1>2. /\ p.row \in Int /\ p.col \in Int /\ LTC.row \in Int /\ LTC.col \in Int
      /\ RBC.row \in Int /\ RBC.col \in Int /\ p.row <= RBC.row /\ p.col <= RBC.col
  BY CellsWithin, StorageShape, PositionsArePlaces
<1>3. DOMAIN cells = 1 .. Len(cells) /\ DOMAIN cells[r] = 1 .. Len(cells[r]) /\ Len(cells[r]) \in Nat
  BY <1>1, StoreAssumptions, Proved!RowTypes DEF WellStored
<1> HIDE DEF r, c
<1>4. r \in 1 .. Len(cells) /\ c \in 1 .. Len(cells[r]) BY <1>1, <1>3
<1>5. r >= 1 /\ c >= 1 /\ c <= Len(cells[r]) /\ r \in Int /\ c \in Int BY <1>3, <1>4
<1>6. r = p.row - LTC.row + 1 /\ c = p.col - LTC.col + 1 BY DEF r, c
<1>7. p.row >= LTC.row /\ p.col >= LTC.col BY <1>2, <1>5, <1>6
<1>8. p.col - LTC.col = c - 1 BY <1>2, <1>6
<1>9. p.col - LTC.col \in 0 .. Len(cells[r]) - 1 BY <1>3, <1>5, <1>8
<1> QED BY <1>1, <1>2, <1>7, <1>9 DEF r

\* The walk of ImpSheet::UpdateGraphsBuRowDeletion starts from every cell that is deleted.
LEMMA RowsCovered ==
  ASSUME IInv, NEW first \in Nat, NEW count \in Nat \ {0}, ~ (LTC.row > 0 /\ first + count > LTC.row)
  PROVE  /\ \A p \in Position : Cell(p) # Null /\ Deletes(p, "row", first, count)
                                  => p \in CellsOfRows(first, count)
         /\ CellsOfRows(first, count) \subseteq Position
<1>1. /\ LTC.row \in Nat /\ RBC.row \in Int /\ RBC.row < kMaxRows
      /\ kMaxRows \in Nat /\ kMaxCols \in Nat
  BY StorageShape, StoreAssumptions DEF IInv
<1>2. ASSUME NEW p \in Position, Cell(p) # Null, Deletes(p, "row", first, count)
      PROVE  p \in CellsOfRows(first, count)
  <2>1. /\ p.row \in LTC.row .. RBC.row /\ p.col \in Int /\ p.row \in Nat /\ LTC.col \in Int
        /\ p = [row |-> p.row, col |-> p.col]
        /\ p.row - LTC.row + 1 \in DOMAIN cells
        /\ p.col - LTC.col \in 0 .. Len(cells[p.row - LTC.row + 1]) - 1
    BY <1>2, CellSlot, CellsWithin, PositionsArePlaces DEF IInv
  <2>2. p.row >= first /\ p.row <= first + count - 1 BY <1>2 DEF Deletes
  <2>3. LTC.row = 0 BY <1>1, <2>1, <2>2
  <2>4. p.row \in DeletedRows(first, count)
    BY <1>1, <2>1, <2>2 DEF DeletedRows, Store!Larger, Store!Lesser
  <2>5. p.row - LTC.row + 1 = p.row + 1 BY <2>1, <2>3
  <2> DEFINE j == p.col - LTC.col
  <2>6. j \in 0 .. Len(cells[p.row + 1]) - 1 /\ LTC.col + j = p.col BY <2>1, <2>5
  <2> HIDE DEF j
  <2>7. p \in {[row |-> p.row, col |-> LTC.col + k] : k \in 0 .. Len(cells[p.row + 1]) - 1}
    BY <2>1, <2>6
  <2> QED BY <2>4, <2>7 DEF CellsOfRows
<1>3. ASSUME NEW p \in CellsOfRows(first, count) PROVE p \in Position
  <2>1. PICK i \in DeletedRows(first, count) :
          p \in {[row |-> i, col |-> LTC.col + j] : j \in 0 .. Len(cells[i + 1]) - 1}
    BY DEF CellsOfRows
  <2>2. PICK j \in 0 .. Len(cells[i + 1]) - 1 : p = [row |-> i, col |-> LTC.col + j] BY <2>1
  <2>3. i \in Store!Larger(first, LTC.row) .. Store!Lesser(first + count - 1, RBC.row)
    BY DEF DeletedRows
  <2>4. i \in Int /\ LTC.row <= i /\ i <= first + count - 1 /\ i <= RBC.row
    BY <1>1, <2>3 DEF Store!Larger, Store!Lesser
  <2>5. LTC.row = 0 BY <1>1, <2>4
  <2>6. (cells # <<>> => RBC.row = LTC.row + Len(cells) - 1) /\ Len(cells) \in Nat
        /\ (cells = <<>> <=> Len(cells) = 0) /\ (cells = <<>> => RBC.row < LTC.row)
        /\ DOMAIN cells = 1 .. Len(cells)
    BY StorageShape DEF IInv, RefsWithin, Behind
  <2>7. i + 1 \in DOMAIN cells BY <1>1, <2>4, <2>5, <2>6
  <2>8. LTC.col + Len(cells[i + 1]) - 1 <= RBC.col /\ LTC.col \in Nat /\ RBC.col \in Int
        /\ RBC.col < kMaxCols /\ Len(cells[i + 1]) \in Nat
    <3>1. cells # <<>> /\ (\A r \in DOMAIN cells : LTC.col + Len(cells[r]) - 1 <= RBC.col)
      BY <2>4, <1>1, <2>6 DEF IInv, WellStored, Proved!Enclosed
    <3>2. LTC.col \in Nat /\ RBC.col \in Int BY DEF IInv, WellStored, Proved!Enclosed
    <3>3. RBC.col < kMaxCols BY StorageShape DEF IInv
    <3>4. Len(cells[i + 1]) \in Nat BY <2>7, StoreAssumptions, Proved!RowTypes DEF IInv, WellStored
    <3> QED BY <2>7, <3>1, <3>2, <3>3, <3>4
  <2> DEFINE n == Len(cells[i + 1])
  <2>9. j \in 0 .. n - 1 /\ n \in Nat /\ LTC.col + n - 1 <= RBC.col BY <2>8
  <2> HIDE DEF n
  <2>10. LTC.col + j \in 0 .. kMaxCols - 1
    <3> DEFINE l == LTC.col
               b == RBC.col
    <3>1. l \in Nat /\ b \in Int /\ b < kMaxCols /\ l + n - 1 <= b BY <2>8, <2>9
    <3>2. j \in Nat /\ j <= n - 1 BY <2>9
    <3> HIDE DEF l, b
    <3>3. l + j \in 0 .. kMaxCols - 1 BY <1>1, <2>9, <3>1, <3>2
    <3> QED BY <3>3 DEF l
  <2>11. i \in 0 .. kMaxRows - 1 BY <1>1, <2>4
  <2> QED BY <2>2, <2>10, <2>11 DEF Position, Store!Position
<1> QED BY <1>2, <1>3

\* The walk of ImpSheet::UpdateGraphsByColDeletion does, too.
LEMMA ColsCovered ==
  ASSUME IInv, NEW first \in Nat, NEW count \in Nat \ {0}
  PROVE  /\ \A p \in Position : Cell(p) # Null /\ Deletes(p, "col", first, count)
                                  => p \in CellsOfCols(first, count)
         /\ CellsOfCols(first, count) \subseteq Position
<1>1. /\ LTC.row \in Nat /\ RBC.row \in Int /\ RBC.row < kMaxRows
      /\ LTC.col \in Nat /\ RBC.col \in Int /\ RBC.col < kMaxCols
      /\ kMaxRows \in Nat /\ kMaxCols \in Nat
  <2>1. LTC.col \in Nat BY DEF IInv, WellStored, Proved!Enclosed
  <2> QED BY <2>1, StorageShape, StoreAssumptions DEF IInv
<1>2. ASSUME NEW p \in Position, Cell(p) # Null, Deletes(p, "col", first, count)
      PROVE  p \in CellsOfCols(first, count)
  <2>1. /\ p.row \in LTC.row .. RBC.row /\ p.col \in LTC.col .. RBC.col
        /\ p = [row |-> p.row, col |-> p.col]
    BY <1>2, CellSlot, PositionsArePlaces DEF IInv
  <2>2. p.col >= first /\ p.col <= first + count - 1 BY <1>2 DEF Deletes
  <2>3. p.col \in Store!Larger(LTC.col, first) .. Store!Lesser(RBC.col, first + count - 1)
    BY <1>1, <2>1, <2>2 DEF Store!Larger, Store!Lesser
  <2> QED BY <2>1, <2>3 DEF CellsOfCols
<1>3. ASSUME NEW p \in CellsOfCols(first, count) PROVE p \in Position
  <2>1. PICK i \in LTC.row .. RBC.row,
             j \in Store!Larger(LTC.col, first) .. Store!Lesser(RBC.col, first + count - 1) :
               p = [row |-> i, col |-> j]
    BY DEF CellsOfCols
  <2>2. i \in 0 .. kMaxRows - 1 BY <1>1
  <2>3. j \in 0 .. kMaxCols - 1 BY <1>1 DEF Store!Larger, Store!Lesser
  <2> QED BY <2>1, <2>2, <2>3 DEF Position, Store!Position
<1> QED BY <1>2, <1>3

\* ImpSheet::DeleteRows.
LEMMA DeleteRowsValues ==
  ASSUME VInv, "row index" \in Avoided, NEW first \in Nat, NEW count \in Nat \ {0},
         DeleteRows(first, count)
  PROVE  VInv'
<1> DEFINE h == Handled(LAMBDA f : HandleDeletedRows(f, first, count))
           S == CellsOfRows(first, count)
<1>1. ~ (LTC.row > 0 /\ first + count > LTC.row) BY DEF DeleteRows, Avoids
<1>2. AllMove(Deletion("row", first, count)) /\ reply' = "Ok" BY DeleteRowsMoves DEF VInv
<1>3. Keep(h, MemoAfterInvalidation(S))
  <2>1. "Ok" # "Undefined" OBVIOUS
  <2> HIDE DEF h, S
  <2> QED BY <1>2, <2>1 DEF DeleteRows, AfterErasure, Fails, Stays, h, S
<1>4. FormulasRemember(h) BY DeletedRowsRemember
<1>5. /\ \A p \in Position : Cell(p) # Null /\ Deletes(p, "row", first, count) => p \in S
      /\ S \in SUBSET Position
  BY <1>1, RowsCovered DEF VInv
<1> HIDE DEF h, S
<1> QED BY <1>2, <1>3, <1>4, <1>5, DeletedValues DEF Axes

\* ImpSheet::DeleteCols.
LEMMA DeleteColsValues ==
  ASSUME VInv, {"unmoved graph", "left edge"} \subseteq Avoided,
         NEW first \in Nat, NEW count \in Nat \ {0}, DeleteCols(first, count)
  PROVE  VInv'
<1> DEFINE h == Handled(LAMBDA f : HandleDeletedCols(f, first, count))
           S == CellsOfCols(first, count)
<1>1. CASE UNCHANGED <<cells, LTC, RBC, heap, memo, reference, dependency>>
  BY <1>1, NothingMovesValues
<1>2. CASE ~ UNCHANGED <<cells, LTC, RBC, heap, memo, reference, dependency>>
  <2>1. AllMove(Deletion("col", first, count)) /\ reply' = "Ok" BY <1>2, DeleteColsMoves DEF VInv
  <2>2. Keep(h, MemoAfterInvalidation(S))
    <3>1. "Ok" # "Undefined" OBVIOUS
    <3> HIDE DEF h, S
    <3> QED BY <2>1, <3>1 DEF DeleteCols, AfterErasure, Fails, Stays, h, S
  <2>3. FormulasRemember(h) BY DeletedColsRemember
  <2>4. /\ \A p \in Position : Cell(p) # Null /\ Deletes(p, "col", first, count) => p \in S
        /\ S \in SUBSET Position
    BY ColsCovered DEF VInv
  <2> HIDE DEF h, S
  <2> QED BY <2>1, <2>2, <2>3, <2>4, DeletedValues DEF Axes
<1> QED BY <1>1, <1>2

-----------------------------------------------------------------------------
(* The theorems about the values.                                           *)

\* The defects whose calls leave a value wrong or a graph behind.
StaysRight == StaysClear /\ "forgotten reference" \in Avoided

\* An empty sheet has nothing to be wrong.
LEMMA InitHasValues == Init => VInv
<1> SUFFICES ASSUME Init PROVE VInv OBVIOUS
<1>1. /\ cells = <<>> /\ reference = {} /\ memo = [a \in Addresses |-> Invalid]
  BY DEF Init, Store!Init
<1>2. Stored = {} BY <1>1 DEF Stored, Holding
<1>3. Acyclic BY <1>1 DEF Acyclic, NoTrapIn
<1>4. LossKnown /\ CachesSound BY <1>1, <1>2 DEF LossKnown, CachesSound
<1> QED BY <1>3, <1>4, InitIsSound DEF VInv

\* No call leaves a value wrong that was right.
LEMMA StepKeepsValues ==
  ASSUME StaysRight, VInv, [Next]_vars
  PROVE  VInv'
<1>1. CASE UNCHANGED vars BY <1>1, NothingMovesValues DEF vars
<1>2. CASE Read BY <1>2, GetValueValues DEF Read
<1>3. CASE Change
  <2>1. ASSUME NEW p \in Written, Cell(p) # Null \/ Cardinality(Stored) < Cardinality(Addresses),
               NEW t \in Texts, SetText(p, t)
        PROVE  VInv'
    <3>1. p \in Position BY StructureAssumption DEF Position, Store!Position
    <3> QED BY <2>1, <3>1, SetTextValues
  <2>2. ASSUME NEW p \in Written, Cell(p) # Null \/ Cardinality(Stored) < Cardinality(Addresses),
               NEW tree \in Trees, NEW asPrinted \in BOOLEAN, SetFormula(p, tree, asPrinted)
        PROVE  VInv'
    <3>1. p \in Position BY StructureAssumption DEF Position, Store!Position
    <3>2. tree \in Seq(Written) /\ tree # <<>> BY DEF Trees, SeqOf
    <3> QED BY <2>2, <3>1, <3>2, SetFormulaValues
  <2>3. ASSUME NEW p \in Position, ClearCell(p) PROVE VInv' BY <2>3, ClearCellValues
  <2>4. ASSUME NEW from \in 0 .. kMaxRows - 1, NEW count \in 1 .. kMaxRows - from,
               InsertRows(from, count) \/ DeleteRows(from, count)
        PROVE  VInv'
    <3>1. from \in Nat /\ count \in Nat \ {0} BY StoreAssumptions
    <3> QED BY <2>4, <3>1, InsertRowsValues, DeleteRowsValues DEF StaysRight, StaysClear
  <2>5. ASSUME NEW from \in 0 .. kMaxCols - 1, NEW count \in 1 .. kMaxCols - from,
               InsertCols(from, count) \/ DeleteCols(from, count)
        PROVE  VInv'
    <3>1. from \in Nat /\ count \in Nat \ {0} BY StoreAssumptions
    <3> QED BY <2>5, <3>1, InsertColsValues, DeleteColsValues DEF StaysRight, StaysClear
  <2> QED BY <1>3, <2>1, <2>2, <2>3, <2>4, <2>5 DEF Change
<1> QED BY <1>1, <1>2, <1>3 DEF Next

\* While the calls stay clear of four defects and of insertions into a sheet that has
\* lost a reference, references go in no circle, a formula that has lost one says so,
\* and a cached value is what the cells it was computed from give now: whatever sets,
\* clears, moves or deletes a cell has invalidated everything that rests on it
\* (InvalidateDependencyGraph, imp_sheet.cpp:699-716, and its callers).
THEOREM ValuesSound ==
  ASSUME StaysRight
  PROVE  Spec => []VInv
<1>1. VInv /\ [Next]_vars => VInv' BY StepKeepsValues
<1> QED BY <1>1, InitHasValues, PTL DEF Spec

\* A read gives what MovingSheet says the contents settle to, or refuses where a
\* reference has no cell.
LEMMA ReadAsPromised ==
  ASSUME VInv, reply # "Undefined", Read
  PROVE  Promise!Next
<1>1. PICK p \in Position : GetValue(p) /\ call' = <<"GetValue", p>> BY DEF Read
<1> DEFINE v == Evaluated[Cell(p)]
<1>2. Cell(p) # Null /\ UNCHANGED <<cells, LTC, heap>>
  BY <1>1 DEF GetValue, Fails, Stays
<1>3. v = Promise!Settled[p] BY <1>2, ReadsAgree
<1>4. v \in Values BY <1>2, CellShown, EvaluatedSettles
<1>5. v # Nothing BY <1>4 DEF Values, Nothing, RefError, Unknown
<1>6. \/ reply' = "Undefined" /\ shown' = Nothing /\ v = Unknown
      \/ reply' = "Ok" /\ shown' = v
  BY <1>1 DEF GetValue, Fails, Stays
<1> HIDE DEF v
<1>7. \/ reply' = "Undefined" /\ shown' = Promise!Nothing /\ Promise!Settled[p] = Promise!Unknown
      \/ reply' = "Ok" /\ shown' # Promise!Nothing /\ shown' = Promise!Settled[p]
  BY <1>3, <1>5, <1>6, SameNames, SameValues
<1>8. Sheet[p] # Promise!Absent BY <1>2, CellShown
<1>9. UNCHANGED <<Sheet, Severed>> BY <1>2, SameContents DEF Sheet, Severed
<1>10. Promise!GetValue(p) BY <1>7, <1>8, <1>9 DEF Promise!GetValue, Sheet, Severed, SeveredAt
<1> QED BY <1>1, <1>10, SameNames DEF Promise!Next

\* While the calls stay clear of all six defects, the sheet (imp_sheet.cpp as a whole)
\* implements MovingSheet: every call does to the contents what is promised of it, or
\* is refused as promised, and every read gives the value the contents settle to,
\* whatever is cached and wherever the cells have been moved.
THEOREM SheetKeepsPromise ==
  ASSUME Avoided = Defects
  PROVE  Spec => KeepsPromise
<1>1. StaysRight BY DEF StaysRight, StaysClear, Defects
<1>2. ASSUME VInv, [Next]_vars
      PROVE  [Promise!Next]_(Promise!vars)
  <2>1. CASE UNCHANGED vars
    <3>1. UNCHANGED <<cells, LTC, heap, call, reply, shown>> BY <2>1 DEF vars
    <3>2. UNCHANGED <<Sheet, Severed>> BY <3>1, SameContents DEF Sheet, Severed
    <3> QED BY <3>1, <3>2 DEF Promise!vars, Sheet, Severed, SeveredAt
  <2>2. CASE Next /\ Change BY <1>2, <2>2, ChangeAsPromised DEF Next, VInv
  <2>3. CASE Next /\ Read BY <1>2, <2>3, ReadAsPromised DEF Next
  <2> QED BY <1>2, <2>1, <2>2, <2>3 DEF Next
<1> QED BY <1>1, <1>2, InitAsPromised, ValuesSound, PTL DEF Spec, KeepsPromise, Promise!Spec
=============================================================================
