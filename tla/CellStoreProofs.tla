--------------------------- MODULE CellStoreProofs ---------------------------
(* Theorems about CellStore, for a table of any size and any number of      *)
(* cells.                                                                   *)
(*                                                                          *)
(* What is at a position is read through both corners, and rows end where   *)
(* they like, so everything is said of slots that may be beyond the ends    *)
(* of the two vectors: what an operation does to cells is then a shift of   *)
(* indices, which the corners make good.                                    *)

EXTENDS CellStore, SequenceFacts

Slot == {Null} \cup Kind
Rows == Seq(Seq(Slot))

Row(rows, r) == ElementOr(rows, r, <<>>)
SlotAt(rows, r, c) == ElementOr(Row(rows, r), c, Null)

\* The corners of no cells may be anywhere that deletions can take them.  Those
\* of some enclose them, and RBC.row is exactly that of the last row.
Enclosed(rows, l, b) ==
  /\ l \in [row : 0 .. kMaxRows, col : 0 .. kMaxCols]
  /\ b \in [row : Int, col : Int]
  /\ l.row - 1 - kMaxRows <= b.row /\ b.row < kMaxRows
  /\ l.col - 1 - kMaxCols <= b.col /\ b.col < kMaxCols
  /\ rows # <<>> =>
       /\ b.row = l.row + Len(rows) - 1
       /\ \A r \in 1 .. Len(rows) : l.col + Len(rows[r]) - 1 <= b.col

Answers == {"Ok", "TableTooBig", "Undefined"}

IInv == cells \in Rows /\ Enclosed(cells, LTC, RBC) /\ reply \in Answers
-----------------------------------------------------------------------------
(* Slots.                                                                   *)

CellAt(rows, l, p) == SlotAt(rows, p.row - l.row + 1, p.col - l.col + 1)

\* The table has at least one position, and a position its two coordinates.
LEMMA Positions ==
  /\ kMaxRows \in Nat \ {0} /\ kMaxCols \in Nat \ {0}
  /\ \A p \in Position : /\ p.row \in 0 .. kMaxRows - 1 /\ p.col \in 0 .. kMaxCols - 1
                         /\ p = [row |-> p.row, col |-> p.col]
BY BoundsAssumption DEF Position

\* Rows are sequences of slots, and reading beyond the last gives the empty one.
LEMMA RowTypes ==
  ASSUME NEW rows \in Rows
  PROVE  /\ Len(rows) \in Nat /\ DOMAIN rows = 1 .. Len(rows)
         /\ \A r \in 1 .. Len(rows) : rows[r] \in Seq(Slot) /\ Len(rows[r]) \in Nat
         /\ \A r \in Int : Row(rows, r) \in Seq(Slot)
<1>1. /\ Len(rows) \in Nat /\ DOMAIN rows = 1 .. Len(rows)
      /\ \A r \in 1 .. Len(rows) : rows[r] \in Seq(Slot)
  BY ElementsOfSeq DEF Rows
<1>2. \A r \in 1 .. Len(rows) : Len(rows[r]) \in Nat BY <1>1, ElementsOfSeq
<1>3. \A r \in Int : Row(rows, r) \in Seq(Slot) BY <1>1 DEF Row, ElementOr
<1> QED BY <1>1, <1>2, <1>3

\* GetImpCell reads a slot.
LEMMA SlotIsRead ==
  ASSUME NEW rows \in Rows, NEW l, NEW p
  PROVE  LET r == p.row - l.row + 1
             c == p.col - l.col + 1
         IN  CellAt(rows, l, p)
               = IF r \in DOMAIN rows /\ c \in DOMAIN rows[r] THEN rows[r][c] ELSE Null
<1>1. DOMAIN rows = 1 .. Len(rows) BY RowTypes
<1>2. \A r \in 1 .. Len(rows) : DOMAIN rows[r] = 1 .. Len(rows[r])
  BY RowTypes, ElementsOfSeq
<1>3. Len(<<>>) = 0 /\ 1 .. 0 = {} OBVIOUS
<1> DEFINE r == p.row - l.row + 1
           c == p.col - l.col + 1
<1>4. CellAt(rows, l, p) = ElementOr(Row(rows, r), c, Null) BY DEF CellAt, SlotAt
<1> SUFFICES CellAt(rows, l, p)
               = IF r \in DOMAIN rows /\ c \in DOMAIN rows[r] THEN rows[r][c] ELSE Null
  OBVIOUS
<1> HIDE DEF r, c
<1>5. CASE r \in 1 .. Len(rows)
  <2>1. Row(rows, r) = rows[r] BY <1>5 DEF Row, ElementOr
  <2> QED BY <1>1, <1>2, <1>4, <1>5, <2>1 DEF ElementOr
<1>6. CASE r \notin 1 .. Len(rows)
  <2>1. Row(rows, r) = <<>> BY <1>6 DEF Row, ElementOr
  <2> QED BY <1>1, <1>3, <1>4, <1>6, <2>1 DEF ElementOr
<1> QED BY <1>5, <1>6

\* What is found in no cells, and in rows that lie elsewhere.
LEMMA NoSlot ==
  /\ \A c : ElementOr(<<>>, c, Null) = Null
  /\ \A r, c : SlotAt(<<>>, r, c) = Null
  /\ \A rows, r, c : r \notin 1 .. Len(rows) => SlotAt(rows, r, c) = Null
<1>1. Len(<<>>) = 0 /\ 1 .. 0 = {} OBVIOUS
<1>2. \A c : ElementOr(<<>>, c, Null) = Null BY <1>1 DEF ElementOr
<1>3. \A r : Row(<<>>, r) = <<>> BY <1>1 DEF Row, ElementOr
<1>4. \A rows, r : r \notin 1 .. Len(rows) => Row(rows, r) = <<>> BY DEF Row, ElementOr
<1> QED BY <1>2, <1>3, <1>4 DEF SlotAt

\* Nothing is beyond the corners.
LEMMA NothingOutside ==
  ASSUME NEW rows \in Rows, NEW l, NEW b, Enclosed(rows, l, b), NEW p \in Position,
         p.row < l.row \/ p.row > b.row \/ p.col < l.col \/ p.col > b.col \/ rows = <<>>
  PROVE  CellAt(rows, l, p) = Null
<1> DEFINE r == p.row - l.row + 1
           c == p.col - l.col + 1
<1>1. CellAt(rows, l, p) = SlotAt(rows, r, c) BY DEF CellAt
<1>2. p.row \in Int /\ p.col \in Int /\ l.row \in Int /\ l.col \in Int /\ b.row \in Int
      /\ b.col \in Int
  BY Positions DEF Enclosed
<1>3. CASE rows = <<>> BY <1>1, <1>3, NoSlot
<1>4. CASE rows # <<>>
  <2>1. /\ b.row = l.row + Len(rows) - 1 /\ Len(rows) \in Nat
        /\ \A i \in 1 .. Len(rows) : l.col + Len(rows[i]) - 1 <= b.col
        /\ \A i \in 1 .. Len(rows) : Len(rows[i]) \in Nat
    BY <1>4, RowTypes DEF Enclosed
  <2>2. CASE r \notin 1 .. Len(rows) BY <1>1, <2>2, NoSlot
  <2>3. CASE r \in 1 .. Len(rows)
    <3>1. ~ (p.row < l.row) /\ ~ (p.row > b.row) BY <1>2, <2>1, <2>3
    <3>2. p.col < l.col \/ p.col > b.col BY <1>4, <3>1
    <3> DEFINE n == Len(rows[r])
    <3>3. l.col + n - 1 <= b.col /\ n \in Nat BY <2>1, <2>3
    <3>4. Row(rows, r) = rows[r] BY <2>3 DEF Row, ElementOr
    <3> HIDE DEF n
    <3>5. c \notin 1 .. n BY <1>2, <3>2, <3>3
    <3> QED BY <1>1, <3>4, <3>5 DEF SlotAt, ElementOr, n
  <2> QED BY <2>2, <2>3
<1> QED BY <1>3, <1>4

\* The positions of the table reach every slot, and nothing else.
LEMMA SlotsReached ==
  ASSUME NEW rows \in Rows, NEW l, NEW b, Enclosed(rows, l, b)
  PROVE  /\ \A p \in Position : CellAt(rows, l, p) \in Slot
         /\ \A p \in Position : CellAt(rows, l, p) # Null =>
              \E r \in DOMAIN rows : \E c \in DOMAIN rows[r] : rows[r][c] = CellAt(rows, l, p)
         /\ \A r \in DOMAIN rows : \A c \in DOMAIN rows[r] :
              \E p \in Position : CellAt(rows, l, p) = rows[r][c]
<1>1. /\ DOMAIN rows = 1 .. Len(rows) /\ Len(rows) \in Nat
      /\ \A r \in 1 .. Len(rows) :
           /\ DOMAIN rows[r] = 1 .. Len(rows[r]) /\ Len(rows[r]) \in Nat
           /\ \A c \in 1 .. Len(rows[r]) : rows[r][c] \in Slot
  BY RowTypes, ElementsOfSeq
<1>2. \A p : LET r == p.row - l.row + 1
                 c == p.col - l.col + 1
             IN  CellAt(rows, l, p)
                   = IF r \in DOMAIN rows /\ c \in DOMAIN rows[r] THEN rows[r][c] ELSE Null
  BY SlotIsRead
<1>3. ASSUME NEW p \in Position
      PROVE  /\ CellAt(rows, l, p) \in Slot
             /\ CellAt(rows, l, p) # Null =>
                  \E r \in DOMAIN rows : \E c \in DOMAIN rows[r] : rows[r][c] = CellAt(rows, l, p)
  <2> DEFINE r == p.row - l.row + 1
             c == p.col - l.col + 1
  <2>1. CellAt(rows, l, p) = IF r \in DOMAIN rows /\ c \in DOMAIN rows[r] THEN rows[r][c] ELSE Null
    BY <1>2
  <2> HIDE DEF r, c
  <2> QED BY <1>1, <2>1 DEF Slot
<1>4. ASSUME NEW r \in DOMAIN rows, NEW c \in DOMAIN rows[r]
      PROVE  \E p \in Position : CellAt(rows, l, p) = rows[r][c]
  <2> DEFINE n == Len(rows)
             w == Len(rows[r])
             lr == l.row
             lc == l.col
             p == [row |-> lr + r - 1, col |-> lc + c - 1]
  <2>1. n \in Nat /\ w \in Nat /\ r \in 1 .. n /\ c \in 1 .. w BY <1>1
  <2>2. rows # <<>>
    <3>1. Len(<<>>) = 0 OBVIOUS
    <3> QED BY <2>1, <3>1
  <2>3. /\ lr \in 0 .. kMaxRows /\ lc \in 0 .. kMaxCols /\ b.row \in Int /\ b.col \in Int
        /\ b.row = lr + n - 1 /\ lc + w - 1 <= b.col /\ b.row < kMaxRows /\ b.col < kMaxCols
    BY <1>1, <2>1, <2>2 DEF Enclosed
  <2> HIDE DEF n, w, lr, lc
  <2>4. lr + r - 1 \in 0 .. kMaxRows - 1 /\ lc + c - 1 \in 0 .. kMaxCols - 1
    BY <2>1, <2>3, BoundsAssumption
  <2>5. p \in Position BY <2>4 DEF Position
  <2>6. p.row - lr + 1 = r /\ p.col - lc + 1 = c BY <2>1, <2>3
  <2>7. CellAt(rows, l, p) = rows[r][c] BY <1>2, <2>6 DEF lr, lc
  <2> QED BY <2>5, <2>7
<1> QED BY <1>3, <1>4

\* The nulls CreateEmptyCell puts in, of which a negative number is none.
LEMMA Padding ==
  ASSUME NEW n \in Int
  PROVE  /\ Larger(n, 0) \in Nat
         /\ Nulls(n) \in Seq(Slot) /\ Len(Nulls(n)) = Larger(n, 0)
         /\ AllAre(Nulls(n), Null)
         /\ Emptys(n) \in Rows /\ Len(Emptys(n)) = Larger(n, 0)
         /\ AllAre(Emptys(n), <<>>)
<1>1. Larger(n, 0) \in Nat BY DEF Larger
<1> DEFINE m == Larger(n, 0)
           a == [i \in 1 .. m |-> Null]
           b == [i \in 1 .. m |-> <<>>]
<1>2. Nulls(n) = a /\ Emptys(n) = b BY DEF Nulls, Emptys
<1> HIDE DEF m
<1>3. m \in Nat BY <1>1 DEF m
<1>4. a \in Seq(Slot) /\ Len(a) = m /\ \A i \in 1 .. m : a[i] = Null BY <1>3 DEF Slot
<1>5. b \in Rows /\ Len(b) = m /\ \A i \in 1 .. m : b[i] = <<>>
  <2>1. <<>> \in Seq(Slot) OBVIOUS
  <2> DEFINE R == Seq(Slot)
  <2>2. <<>> \in R BY <2>1
  <2> HIDE DEF R
  <2>3. b \in Seq(R) /\ Len(b) = m /\ \A i \in 1 .. m : b[i] = <<>> BY <1>3, <2>2
  <2> QED BY <2>3 DEF Rows, R
<1> HIDE DEF a, b
<1> QED BY <1>1, <1>2, <1>4, <1>5 DEF m, AllAre
-----------------------------------------------------------------------------
(* Single cells.                                                            *)

\* Along one axis: how far the storage grows towards x, and where x is then,
\* counted from the corner.
LEMMA Growth ==
  ASSUME NEW k \in Nat, NEW x \in Nat
  PROVE  LET u == Larger(k - x, 0)
             i == Larger(x - k, 0) + 1
         IN  /\ u \in Nat /\ i \in Nat \ {0}
             /\ k - u \in Nat /\ k - u <= x /\ i = x - (k - u) + 1
             /\ (u > 0 => i = 1) /\ (k = x => u = 0 /\ i = 1)
BY DEF Larger

\* CreateEmptyCell: every slot keeps its position but the one that is made.
LEMMA CellCreated ==
  ASSUME cells \in Rows, Enclosed(cells, LTC, RBC), NEW p \in Position, NEW kind \in Kind,
         CreateEmptyCell(p, kind)
  PROVE  /\ cells' \in Rows /\ Enclosed(cells', LTC', RBC')
         /\ \A q \in Position :
              CellAt(cells', LTC', q) = IF q = p THEN kind ELSE CellAt(cells, LTC, q)
<1> DEFINE corner == IF cells = <<>> THEN p ELSE LTC
           up == Larger(corner.row - p.row, 0)
           left == Larger(corner.col - p.col, 0)
           r == Larger(p.row - corner.row, 0) + 1
           c == Larger(p.col - corner.col, 0) + 1
           n == Len(cells)
           below == Emptys(r - n)
           rows == Emptys(up) \o cells \o below
           wide == Widened(rows, left, r)
           row == wide[r] \o Nulls(c - Len(wide[r]))
           last == [row EXCEPT ![c] = kind]
<1>1. /\ cells' = [wide EXCEPT ![r] = last]
      /\ LTC' = [row |-> corner.row - up, col |-> corner.col - left]
      /\ RBC' = [row |-> IF r > n /\ up = 0 THEN LTC'.row + Len(rows) - 1 ELSE RBC.row,
                 col |-> IF c > Len(wide[r]) THEN Larger(RBC.col, LTC'.col + c - 1) ELSE RBC.col]
  BY DEF CreateEmptyCell
<1>2. /\ p.row \in 0 .. kMaxRows - 1 /\ p.col \in 0 .. kMaxCols - 1
      /\ LTC.row \in 0 .. kMaxRows /\ LTC.col \in 0 .. kMaxCols
      /\ RBC.row \in Int /\ RBC.col \in Int /\ RBC.row < kMaxRows /\ RBC.col < kMaxCols
      /\ LTC.row - 1 - kMaxRows <= RBC.row /\ LTC.col - 1 - kMaxCols <= RBC.col
      /\ kMaxRows \in Nat /\ kMaxCols \in Nat
  BY Positions DEF Enclosed
<1>3. /\ corner.row \in Nat /\ corner.col \in Nat
      /\ cells = <<>> => corner = p
      /\ cells # <<>> => corner = LTC
  BY <1>2
<1> HIDE DEF corner
<1>4. /\ up \in Nat /\ left \in Nat /\ r \in Nat \ {0} /\ c \in Nat \ {0}
      /\ corner.row - up \in Nat /\ corner.row - up <= p.row
      /\ corner.col - left \in Nat /\ corner.col - left <= p.col
      /\ r = p.row - (corner.row - up) + 1 /\ c = p.col - (corner.col - left) + 1
      /\ (up > 0 => r = 1) /\ (left > 0 => c = 1)
  <2>1. p.row \in Nat /\ p.col \in Nat BY <1>2
  <2> QED BY <1>3, <2>1, Growth
<1>5. n \in Nat /\ (cells = <<>> => n = 0 /\ up = 0 /\ left = 0 /\ r = 1 /\ c = 1)
  <2>1. n \in Nat /\ (cells = <<>> => n = 0) BY RowTypes
  <2>2. p.row \in Nat /\ p.col \in Nat BY <1>2
  <2>3. cells = <<>> => up = 0 /\ left = 0 /\ r = 1 /\ c = 1 BY <1>3, <2>2, Growth
  <2> QED BY <2>1, <2>3
<1> HIDE DEF up, left, r, c
<1>6. /\ rows \in Rows /\ Len(rows) = up + n + Larger(r - n, 0)
      /\ \A i \in Int : Row(rows, i) = Row(cells, i - up)
  <2> DEFINE S == Seq(Slot)
             a == Emptys(up)
  <2>1. /\ a \in Seq(S) /\ Len(a) = up /\ AllAre(a, <<>>)
    <3>1. Larger(up, 0) = up BY <1>4 DEF Larger
    <3> QED BY <1>4, <3>1, Padding DEF Rows
  <2>2. /\ below \in Seq(S) /\ Len(below) = Larger(r - n, 0)
        /\ AllAre(below, <<>>)
    <3>1. r - n \in Int BY <1>4, <1>5
    <3> QED BY <3>1, Padding DEF Rows
  <2>3. cells \in Seq(S) BY DEF Rows
  <2>4. <<>> \in S OBVIOUS
  <2> HIDE DEF S, a, below
  <2>5. a \o cells \in Seq(S) /\ Len(a \o cells) = up + n BY <2>1, <2>3, ConcatElements
  <2>6. (a \o cells) \o below \in Seq(S)
        /\ Len((a \o cells) \o below) = Len(a \o cells) + Len(below)
    BY <2>2, <2>5, ConcatElements
  <2>7. \A i \in Int : Row(a \o cells \o below, i) = Row(cells, i - up)
    BY <2>1, <2>2, <2>3, <2>4, PaddedElement, ZenonT(60) DEF Row
  <2> QED BY <2>2, <2>5, <2>6, <2>7 DEF a, S, Rows
<1>7. /\ Larger(r - n, 0) = IF r > n THEN r - n ELSE 0
      /\ r \in 1 .. Len(rows)
  <2> DEFINE len == Len(rows)
  <2>1. /\ n \in Nat /\ up \in Nat /\ r \in Nat \ {0} /\ len = up + n + Larger(r - n, 0)
    BY <1>4, <1>5, <1>6
  <2> HIDE DEF len, n
  <2>2. /\ Larger(r - n, 0) = IF r > n THEN r - n ELSE 0
        /\ r \in 1 .. len
    BY <2>1 DEF Larger
  <2> QED BY <2>2 DEF len, n
<1> HIDE DEF rows
<1>8. /\ wide \in Rows /\ Len(wide) = Len(rows)
      /\ \A i \in 1 .. Len(rows) :
           Len(wide[i]) = IF rows[i] = <<>> THEN 0 ELSE left + Len(rows[i])
      /\ \A i, j \in Int : SlotAt(wide, i, j) = SlotAt(rows, i, j - left)
  <2>1. /\ Len(rows) \in Nat /\ DOMAIN rows = 1 .. Len(rows)
        /\ \A i \in 1 .. Len(rows) : rows[i] \in Seq(Slot)
    BY <1>6, RowTypes
  <2> DEFINE a == Nulls(left)
  <2>2. /\ a \in Seq(Slot) /\ Len(a) = left /\ AllAre(a, Null)
    <3>1. Larger(left, 0) = left BY <1>4 DEF Larger
    <3> QED BY <1>4, <3>1, Padding
  <2>3. wide = [i \in 1 .. Len(rows) |-> IF rows[i] = <<>> THEN <<>> ELSE a \o rows[i]]
    BY <2>1 DEF Widened
  <2> HIDE DEF a, wide
  <2>4. \A i \in 1 .. Len(rows) : wide[i] = IF rows[i] = <<>> THEN <<>> ELSE a \o rows[i]
    BY <2>3
  <2>5. ASSUME NEW i \in 1 .. Len(rows)
        PROVE  /\ wide[i] \in Seq(Slot)
               /\ Len(wide[i]) = IF rows[i] = <<>> THEN 0 ELSE left + Len(rows[i])
               /\ \A j \in Int : ElementOr(wide[i], j, Null) = ElementOr(rows[i], j - left, Null)
    <3>1. CASE rows[i] = <<>>
      <4>1. wide[i] = <<>> BY <2>4, <3>1
      <4>2. <<>> \in Seq(Slot) /\ Len(<<>>) = 0 OBVIOUS
      <4> QED BY <3>1, <4>1, <4>2, NoSlot
    <3>2. CASE rows[i] # <<>>
      <4> DEFINE x == rows[i]
      <4>1. wide[i] = a \o x /\ x \in Seq(Slot) BY <2>1, <2>4, <3>2
      <4> HIDE DEF x
      <4>2. a \o x \in Seq(Slot) /\ Len(a \o x) = left + Len(x) BY <2>2, <4>1, ConcatElements
      <4>3. \A j \in Int : ElementOr(a \o x, j, Null) = ElementOr(x, j - left, Null)
        <5>1. Null \in Slot BY DEF Slot
        <5> QED BY <2>2, <4>1, <5>1, PaddedOneSide, ZenonT(60)
      <4> QED BY <3>2, <4>1, <4>2, <4>3 DEF x
    <3> QED BY <3>1, <3>2
  <2>6. wide \in Rows /\ Len(wide) = Len(rows)
    <3> DEFINE S == Seq(Slot)
    <3>1. \A i \in 1 .. Len(rows) : wide[i] \in S BY <2>5
    <3>2. DOMAIN wide = 1 .. Len(rows) /\ wide = [i \in 1 .. Len(rows) |-> wide[i]] BY <2>3
    <3> HIDE DEF S
    <3>3. wide \in [1 .. Len(rows) -> S] BY <3>1, <3>2
    <3>4. wide \in Seq(S) /\ Len(wide) = Len(rows) BY <2>1, <3>3
    <3> QED BY <3>4 DEF S, Rows
  <2>7. ASSUME NEW i \in Int, NEW j \in Int
        PROVE  SlotAt(wide, i, j) = SlotAt(rows, i, j - left)
    <3>1. CASE i \in 1 .. Len(rows)
      BY <2>5, <2>6, <3>1 DEF SlotAt, Row, ElementOr
    <3>2. CASE i \notin 1 .. Len(rows) BY <2>6, <3>2, NoSlot
    <3> QED BY <3>1, <3>2
  <2> QED BY <2>5, <2>6, <2>7
<1>9. Len(wide[r]) \in Nat /\ wide[r] \in Seq(Slot) BY <1>7, <1>8, RowTypes
<1>10. /\ row \in Seq(Slot)
       /\ Len(row) = IF c > Len(wide[r]) THEN c ELSE Len(wide[r])
       /\ \A j \in Int : ElementOr(row, j, Null) = ElementOr(wide[r], j, Null)
  <2> DEFINE x == wide[r]
             a == Nulls(c - Len(x))
  <2>1. /\ a \in Seq(Slot) /\ Len(a) = Larger(c - Len(x), 0) /\ AllAre(a, Null)
        /\ c - Len(x) \in Int
    <3>1. c - Len(x) \in Int BY <1>4, <1>9
    <3> QED BY <3>1, Padding
  <2>2. x \in Seq(Slot) /\ Len(x) \in Nat BY <1>9
  <2> HIDE DEF a, x
  <2>3. x \o a \in Seq(Slot) /\ Len(x \o a) = Len(x) + Len(a) BY <2>1, <2>2, ConcatElements
  <2>4. Len(x \o a) = IF c > Len(x) THEN c ELSE Len(x)
    BY <1>4, <2>1, <2>2, <2>3 DEF Larger
  <2>5. Null \in Slot BY DEF Slot
  <2>6. \A j \in Int : ElementOr(x \o a, j, Null) = ElementOr(x, j, Null)
    BY <2>1, <2>2, <2>5, PaddedOneSide
  <2> QED BY <2>3, <2>4, <2>6 DEF a, x
<1> HIDE DEF row, wide
<1>11. c \in 1 .. Len(row) /\ Len(row) \in Nat BY <1>4, <1>9, <1>10
<1>12. /\ last \in Seq(Slot) /\ Len(last) = Len(row)
       /\ \A j \in Int : ElementOr(last, j, Null) = IF j = c THEN kind ELSE ElementOr(row, j, Null)
  <2>1. kind \in Slot BY DEF Slot
  <2>2. row \in Seq(Slot) BY <1>10
  <2>3. /\ last \in Seq(Slot) /\ Len(last) = Len(row)
        /\ \A j \in 1 .. Len(row) : last[j] = IF j = c THEN kind ELSE row[j]
    BY <1>11, <2>1, <2>2, ExceptSeq
  <2> HIDE DEF last
  <2> QED BY <1>11, <2>3 DEF ElementOr
<1> HIDE DEF last
<1>13. /\ cells' \in Rows /\ Len(cells') = Len(rows)
       /\ \A i \in 1 .. Len(rows) : cells'[i] = IF i = r THEN last ELSE wide[i]
  <2> DEFINE S == Seq(Slot)
  <2>1. wide \in Seq(S) /\ last \in S BY <1>8, <1>12 DEF Rows
  <2>2. r \in 1 .. Len(wide) BY <1>7, <1>8
  <2> HIDE DEF S
  <2>3. /\ [wide EXCEPT ![r] = last] \in Seq(S)
        /\ Len([wide EXCEPT ![r] = last]) = Len(wide)
        /\ \A i \in 1 .. Len(wide) :
             [wide EXCEPT ![r] = last][i] = IF i = r THEN last ELSE wide[i]
    BY <2>1, <2>2, ExceptSeq
  <2> QED BY <1>1, <1>8, <2>3 DEF S, Rows
<1>14. \A i, j \in Int :
         SlotAt(cells', i, j) = IF i = r /\ j = c THEN kind ELSE SlotAt(cells, i - up, j - left)
  <2> SUFFICES ASSUME NEW i \in Int, NEW j \in Int
               PROVE  SlotAt(cells', i, j)
                        = IF i = r /\ j = c THEN kind ELSE SlotAt(cells, i - up, j - left)
    OBVIOUS
  <2>1. SlotAt(rows, i, j - left) = SlotAt(cells, i - up, j - left) BY <1>6 DEF SlotAt
  <2>2. SlotAt(wide, i, j) = SlotAt(cells, i - up, j - left) BY <1>8, <2>1
  <2>3. CASE i \notin 1 .. Len(rows)
    <3>1. SlotAt(cells', i, j) = Null /\ SlotAt(wide, i, j) = Null BY <1>8, <1>13, <2>3, NoSlot
    <3> QED BY <1>7, <2>2, <2>3, <3>1
  <2>4. CASE i \in 1 .. Len(rows) /\ i # r
    <3>1. Row(cells', i) = Row(wide, i) BY <1>8, <1>13, <2>4 DEF Row, ElementOr
    <3> QED BY <2>2, <2>4, <3>1 DEF SlotAt
  <2>5. CASE i = r
    <3>1. Row(cells', i) = last /\ Row(wide, i) = wide[r]
      BY <1>7, <1>8, <1>13, <2>5 DEF Row, ElementOr
    <3>2. SlotAt(cells', i, j) = IF j = c THEN kind ELSE SlotAt(wide, i, j)
      BY <1>10, <1>12, <3>1 DEF SlotAt
    <3> QED BY <2>2, <2>5, <3>2
  <2> QED BY <2>3, <2>4, <2>5
<1>15. LTC'.row = corner.row - up /\ LTC'.col = corner.col - left BY <1>1
<1> DEFINE pr == p.row
           pc == p.col
           kr == corner.row
           kc == corner.col
           lr == LTC'.row
           lc == LTC'.col
<1>16. /\ pr \in Nat /\ pc \in Nat /\ pr < kMaxRows /\ pc < kMaxCols
       /\ kMaxRows \in Nat /\ kMaxCols \in Nat
       /\ kr \in Nat /\ kc \in Nat /\ lr \in Nat /\ lc \in Nat
       /\ lr <= pr /\ lc <= pc
       /\ r = pr - lr + 1 /\ c = pc - lc + 1 /\ lr = kr - up /\ lc = kc - left
  BY <1>2, <1>3, <1>4, <1>15, SMTT(60)
<1>17. ASSUME NEW q \in Position
       PROVE  CellAt(cells', LTC', q) = IF q = p THEN kind ELSE CellAt(cells, LTC, q)
  <2> DEFINE i == q.row - LTC'.row + 1
             j == q.col - LTC'.col + 1
  <2>1. /\ q.row \in Int /\ q.col \in Int
        /\ q = [row |-> q.row, col |-> q.col] /\ p = [row |-> p.row, col |-> p.col]
    BY Positions
  <2>2. /\ i \in Int /\ j \in Int /\ (i = r <=> q.row = p.row) /\ (j = c <=> q.col = p.col)
        /\ i - up = q.row - corner.row + 1 /\ j - left = q.col - corner.col + 1
    <3> DEFINE qr == q.row
               qc == q.col
    <3>1. qr \in Int /\ qc \in Int BY <2>1
    <3>2. i = qr - lr + 1 /\ j = qc - lc + 1 OBVIOUS
    <3> HIDE DEF qr, qc, i, j, pr, pc, kr, kc, lr, lc
    <3>3. /\ i \in Int /\ j \in Int /\ (i = r <=> qr = pr) /\ (j = c <=> qc = pc)
          /\ i - up = qr - kr + 1 /\ j - left = qc - kc + 1
      BY <1>4, <1>16, <3>1, <3>2
    <3> QED BY <3>3 DEF qr, qc, pr, pc, kr, kc
  <2>3. CellAt(cells', LTC', q) = SlotAt(cells', i, j) BY DEF CellAt
  <2> HIDE DEF i, j
  <2>4. SlotAt(cells', i, j) = IF q = p THEN kind ELSE SlotAt(cells, i - up, j - left)
    <3>1. q = p <=> i = r /\ j = c BY <2>1, <2>2
    <3> QED BY <1>14, <2>2, <3>1
  <2>5. SlotAt(cells, i - up, j - left) = CellAt(cells, LTC, q)
    <3>1. CASE cells = <<>> BY <3>1, NoSlot DEF CellAt
    <3>2. CASE cells # <<>> BY <1>3, <2>2, <3>2 DEF CellAt
    <3> QED BY <3>1, <3>2
  <2> QED BY <2>3, <2>4, <2>5
<1> DEFINE br == RBC.row
           bc == RBC.col
           b1 == RBC'.row
           b2 == RBC'.col
           len == Len(rows)
           w == Len(wide[r])
<1>18. /\ br \in Int /\ bc \in Int /\ br < kMaxRows /\ bc < kMaxCols
       /\ len \in Nat /\ w \in Nat /\ len = up + n + (IF r > n THEN r - n ELSE 0)
       /\ b1 = IF r > n /\ up = 0 THEN lr + len - 1 ELSE br
       /\ b2 = IF c > w THEN Larger(bc, lc + c - 1) ELSE bc
       /\ RBC' = [row |-> b1, col |-> b2] /\ LTC' = [row |-> lr, col |-> lc]
  <2>1. len \in Nat BY <1>6, RowTypes
  <2> QED BY <1>1, <1>2, <1>6, <1>7, <1>9, <2>1
<1>19. cells = <<>> => n = 0 OBVIOUS
<1>20. cells # <<>> => /\ n \in Nat \ {0} /\ br = kr + n - 1
                       /\ \A k \in 1 .. n : kc + Len(cells[k]) - 1 <= bc /\ Len(cells[k]) \in Nat
  <2> SUFFICES ASSUME cells # <<>>
               PROVE  /\ n \in Nat \ {0} /\ br = kr + n - 1
                      /\ \A k \in 1 .. n : kc + Len(cells[k]) - 1 <= bc /\ Len(cells[k]) \in Nat
    OBVIOUS
  <2>1. corner = LTC BY <1>3
  <2>2. n \in Nat \ {0} BY <1>5 DEF Rows
  <2>3. /\ RBC.row = LTC.row + n - 1
        /\ \A k \in 1 .. n : LTC.col + Len(cells[k]) - 1 <= RBC.col
    BY DEF Enclosed
  <2>4. \A k \in 1 .. n : Len(cells[k]) \in Nat BY RowTypes
  <2> QED BY <2>1, <2>2, <2>3, <2>4
<1>21. Enclosed(cells', LTC', RBC')
  <2>1. \A i \in 1 .. len : /\ Len(wide[i]) \in Nat
                             /\ Len(wide[i]) # 0 => /\ cells # <<>>
                                                     /\ \E k \in 1 .. n : Len(wide[i]) = left + Len(cells[k])
    <3> SUFFICES ASSUME NEW i \in 1 .. len
                 PROVE  /\ Len(wide[i]) \in Nat
                        /\ Len(wide[i]) # 0 => /\ cells # <<>>
                                                /\ \E k \in 1 .. n : Len(wide[i]) = left + Len(cells[k])
      OBVIOUS
    <3>1. Len(wide[i]) \in Nat BY <1>8, RowTypes
    <3>2. rows[i] = <<>> \/ \E k \in 1 .. n : rows[i] = cells[k]
      <4>1. Row(rows, i) = Row(cells, i - up) BY <1>6
      <4>2. rows[i] = Row(cells, i - up) BY <4>1 DEF Row, ElementOr
      <4> QED BY <4>2 DEF Row, ElementOr
    <3>3. CASE rows[i] = <<>>
      <4>1. Len(wide[i]) = 0 BY <1>8, <3>3
      <4> QED BY <3>1, <4>1
    <3>4. CASE rows[i] # <<>>
      <4>1. PICK k \in 1 .. n : rows[i] = cells[k] BY <3>2, <3>4
      <4>2. Len(wide[i]) = left + Len(cells[k]) BY <1>8, <3>4, <4>1
      <4>3. cells # <<>> BY <1>5, <1>19
      <4> QED BY <3>1, <4>2, <4>3
    <3> QED BY <3>3, <3>4
  <2>2. \A i \in 1 .. len : Len(cells'[i]) = IF i = r THEN IF c > w THEN c ELSE w
                                              ELSE Len(wide[i])
    BY <1>10, <1>12, <1>13
  <2>3. kc \in Nat /\ kr \in Nat /\ (cells = <<>> => up = 0 /\ left = 0 /\ r = 1 /\ c = 1)
    BY <1>3, <1>5
  <2>4. r \in 1 .. len BY <1>7
  <2> HIDE DEF pr, pc, kr, kc, lr, lc, br, bc, b1, b2, len, w, n
  <2>5. b1 = lr + len - 1 /\ b1 < kMaxRows /\ b1 \in Int
    <3>1. CASE cells = <<>>
      <4>1. len = 1 /\ b1 = lr /\ lr = pr BY <1>4, <1>18, <1>16, <1>19, <2>3, <3>1, SMTT(60)
      <4> QED BY <1>16, <4>1
    <3>2. CASE cells # <<>>
      <4>1. n \in Nat \ {0} /\ br = kr + n - 1 BY <1>20, <3>2
      <4> QED BY <1>4, <1>18, <1>16, <4>1
    <3> QED BY <3>1, <3>2
  <2>6. /\ b2 \in Int /\ bc <= b2 /\ b2 < kMaxCols
        /\ (c > w => lc + c - 1 <= b2)
    BY <1>4, <1>18, <1>16 DEF Larger
  <2>7. \A i \in 1 .. len : Len(wide[i]) # 0 => lc + Len(wide[i]) - 1 <= b2
    <3> SUFFICES ASSUME NEW i \in 1 .. len, Len(wide[i]) # 0
                 PROVE  lc + Len(wide[i]) - 1 <= b2
      OBVIOUS
    <3>1. PICK k \in 1 .. n : Len(wide[i]) = left + Len(cells[k]) BY <2>1
    <3> DEFINE m == Len(cells[k])
               x == Len(wide[i])
    <3>2. kc + m - 1 <= bc /\ m \in Nat /\ x = left + m BY <1>20, <2>1, <3>1
    <3> HIDE DEF m, x
    <3>3. lc + x - 1 <= b2 BY <1>4, <1>18, <1>16, <2>6, <3>2, SMTT(60)
    <3> QED BY <3>3 DEF x
  <2>8. lc - 1 <= b2
    <3>1. CASE cells = <<>>
      <4>1. c = 1 /\ w = 0
        <5>1. w = Len(wide[r]) BY DEF w
        <5> QED BY <2>1, <2>3, <2>4, <3>1, <5>1
      <4> QED BY <1>16, <2>6, <4>1
    <3>2. CASE cells # <<>>
      <4> DEFINE m == Len(cells[1])
      <4>1. kc + m - 1 <= bc /\ m \in Nat BY <1>20, <3>2
      <4> HIDE DEF m
      <4> QED BY <1>4, <1>18, <1>16, <2>6, <4>1
    <3> QED BY <3>1, <3>2
  <2>9. \A i \in 1 .. len : lc + Len(cells'[i]) - 1 <= b2
    <3> SUFFICES ASSUME NEW i \in 1 .. len PROVE lc + Len(cells'[i]) - 1 <= b2
      OBVIOUS
    <3> DEFINE x == Len(wide[i])
    <3>1. x \in Nat /\ (x # 0 => lc + x - 1 <= b2) BY <2>1, <2>7
    <3>2. lc + Len(wide[i]) - 1 <= b2
      <4> HIDE DEF x
      <4>1. lc + x - 1 <= b2 BY <1>16, <2>6, <2>8, <3>1
      <4> QED BY <4>1 DEF x
    <3>3. CASE i # r BY <2>2, <3>2, <3>3
    <3>4. CASE i = r
      <4>1. Len(cells'[i]) = IF c > w THEN c ELSE w BY <2>2, <3>4
      <4>2. w = Len(wide[i]) BY <3>4 DEF w
      <4> QED BY <2>6, <3>2, <4>1, <4>2
    <3> QED BY <3>3, <3>4
  <2>10. /\ lr - 1 - kMaxRows <= b1 /\ lc - 1 - kMaxCols <= b2
         /\ lr \in 0 .. kMaxRows /\ lc \in 0 .. kMaxCols
    BY <1>18, <1>16, <2>5, <2>6, <2>8
  <2>11. /\ LTC' \in [row : 0 .. kMaxRows, col : 0 .. kMaxCols]
         /\ RBC' \in [row : Int, col : Int]
         /\ LTC'.row = lr /\ LTC'.col = lc /\ RBC'.row = b1 /\ RBC'.col = b2
    BY <1>18, <2>5, <2>6, <2>10
  <2>12. Len(cells') = len BY <1>13 DEF len
  <2> QED BY <2>5, <2>6, <2>9, <2>10, <2>11, <2>12 DEF Enclosed
<1> QED BY <1>13, <1>17, <1>21

\* CreateCell on a cell that is there, and DeleteCell: one slot changes.
LEMMA SlotChanged ==
  ASSUME cells \in Rows, Enclosed(cells, LTC, RBC), NEW p \in Position, Cell(p) # Null,
         NEW x \in Slot
  PROVE  /\ Put(p, x) \in Rows /\ Enclosed(Put(p, x), LTC, RBC)
         /\ \A q \in Position :
              CellAt(Put(p, x), LTC, q) = IF q = p THEN x ELSE CellAt(cells, LTC, q)
<1> DEFINE r == p.row - LTC.row + 1
           c == p.col - LTC.col + 1
           row == cells[r]
           new == [row EXCEPT ![c] = x]
           rows == [cells EXCEPT ![r] = new]
<1>1. /\ LTC.row \in Int /\ LTC.col \in Int
      /\ \A q \in Position : q.row \in Int /\ q.col \in Int /\ q = [row |-> q.row, col |-> q.col]
  BY Positions DEF Enclosed
<1>2. r \in Int /\ c \in Int BY <1>1
<1>3. /\ Len(cells) \in Nat /\ DOMAIN cells = 1 .. Len(cells)
      /\ \A i \in 1 .. Len(cells) : cells[i] \in Seq(Slot)
  BY RowTypes
<1>4. r \in 1 .. Len(cells) /\ c \in 1 .. Len(row) /\ row \in Seq(Slot)
  <2>1. r \in DOMAIN cells /\ c \in DOMAIN cells[r] BY DEF Cell
  <2> QED BY <1>3, <2>1, ElementsOfSeq
<1>5. Put(p, x) = rows BY DEF Put
<1> HIDE DEF r, c
<1>6. /\ new \in Seq(Slot) /\ Len(new) = Len(row)
      /\ \A j \in 1 .. Len(row) : new[j] = IF j = c THEN x ELSE row[j]
  BY <1>4, ExceptSeq
<1> HIDE DEF new
<1>7. /\ rows \in Rows /\ Len(rows) = Len(cells)
      /\ \A i \in 1 .. Len(cells) : rows[i] = IF i = r THEN new ELSE cells[i]
  <2> DEFINE S == Seq(Slot)
  <2>1. cells \in Seq(S) /\ new \in S BY <1>6 DEF Rows
  <2> HIDE DEF S
  <2>2. /\ rows \in Seq(S) /\ Len(rows) = Len(cells)
        /\ \A i \in 1 .. Len(cells) : rows[i] = IF i = r THEN new ELSE cells[i]
    BY <1>4, <2>1, ExceptSeq
  <2> QED BY <2>2 DEF S, Rows
<1> HIDE DEF rows
<1>8. \A i, j \in Int : SlotAt(rows, i, j) = IF i = r /\ j = c THEN x ELSE SlotAt(cells, i, j)
  <2> SUFFICES ASSUME NEW i \in Int, NEW j \in Int
               PROVE  SlotAt(rows, i, j) = IF i = r /\ j = c THEN x ELSE SlotAt(cells, i, j)
    OBVIOUS
  <2>1. CASE i = r
    <3>1. Row(rows, i) = new /\ Row(cells, i) = row BY <1>4, <1>7, <2>1 DEF Row, ElementOr
    <3>2. ElementOr(new, j, Null) = IF j = c THEN x ELSE ElementOr(row, j, Null)
      BY <1>4, <1>6 DEF ElementOr
    <3> QED BY <2>1, <3>1, <3>2 DEF SlotAt
  <2>2. CASE i # r
    <3>1. Row(rows, i) = Row(cells, i) BY <1>7, <2>2 DEF Row, ElementOr
    <3> QED BY <2>2, <3>1 DEF SlotAt
  <2> QED BY <2>1, <2>2
<1>9. ASSUME NEW q \in Position
      PROVE  CellAt(rows, LTC, q) = IF q = p THEN x ELSE CellAt(cells, LTC, q)
  <2> DEFINE i == q.row - LTC.row + 1
             j == q.col - LTC.col + 1
  <2>1. i \in Int /\ j \in Int /\ (i = r /\ j = c <=> q = p) BY <1>1 DEF r, c
  <2> HIDE DEF i, j
  <2>2. SlotAt(rows, i, j) = IF q = p THEN x ELSE SlotAt(cells, i, j) BY <1>8, <2>1
  <2> QED BY <2>2 DEF CellAt, i, j
<1>10. Enclosed(rows, LTC, RBC)
  <2>1. cells # <<>> BY <1>4
  <2>2. \A i \in 1 .. Len(cells) : Len(rows[i]) = Len(cells[i]) BY <1>6, <1>7
  <2> QED BY <1>7, <2>1, <2>2 DEF Enclosed
<1> QED BY <1>5, <1>7, <1>9, <1>10
-----------------------------------------------------------------------------
(* Rows and columns.                                                        *)

\* No row ends beyond the right corner, the empty ones beyond the storage included.
LEMMA RowsWithin ==
  ASSUME NEW rows \in Rows, rows # <<>>, NEW l, NEW b, Enclosed(rows, l, b)
  PROVE  /\ Len(rows) \in Nat \ {0} /\ b.row = l.row + Len(rows) - 1
         /\ l.col - 1 <= b.col
         /\ \A i \in Int : /\ Row(rows, i) \in Seq(Slot) /\ Len(Row(rows, i)) \in Nat
                           /\ l.col + Len(Row(rows, i)) - 1 <= b.col
<1>1. /\ Len(rows) \in Nat /\ DOMAIN rows = 1 .. Len(rows)
      /\ \A i \in 1 .. Len(rows) : Len(rows[i]) \in Nat
      /\ \A i \in Int : Row(rows, i) \in Seq(Slot)
  BY RowTypes
<1>2. Len(rows) \in Nat \ {0} BY <1>1 DEF Rows
<1>3. /\ b.row = l.row + Len(rows) - 1
      /\ \A i \in 1 .. Len(rows) : l.col + Len(rows[i]) - 1 <= b.col
      /\ l.col \in Int /\ b.col \in Int
  BY DEF Enclosed
<1>4. l.col - 1 <= b.col
  <2> DEFINE m == Len(rows[1])
  <2>1. 1 \in 1 .. Len(rows) BY <1>2
  <2>2. l.col + m - 1 <= b.col /\ m \in Nat BY <1>1, <1>3, <2>1
  <2> HIDE DEF m
  <2> QED BY <1>3, <2>2
<1>5. ASSUME NEW i \in Int
      PROVE  Len(Row(rows, i)) \in Nat /\ l.col + Len(Row(rows, i)) - 1 <= b.col
  <2>1. CASE i \in 1 .. Len(rows) BY <1>1, <1>3, <2>1 DEF Row, ElementOr
  <2>2. CASE i \notin 1 .. Len(rows)
    <3>1. Row(rows, i) = <<>> /\ Len(<<>>) = 0 BY <2>2 DEF Row, ElementOr
    <3> QED BY <1>3, <1>4, <3>1
  <2> QED BY <2>1, <2>2
<1> QED BY <1>1, <1>2, <1>3, <1>4, <1>5

\* What an insertion and a deletion should do to the cells along an axis.
InsertedAt(rows, l, rows1, l1, axis, before, count) ==
  \A q \in Position :
    CellAt(rows1, l1, q) = IF q[axis] < before THEN CellAt(rows, l, q)
                           ELSE IF q[axis] < before + count THEN Null
                           ELSE CellAt(rows, l, Below(q, axis, count))
DeletedAt(rows, l, rows1, l1, axis, first, count) ==
  \A q \in Position :
    CellAt(rows1, l1, q) = IF q[axis] < first THEN CellAt(rows, l, q)
                           ELSE IF Below(q, axis, -count) \in Position
                           THEN CellAt(rows, l, Below(q, axis, -count))
                           ELSE Null

\* A position moved along an axis.
LEMMA PositionMoves ==
  ASSUME NEW q \in Position, NEW n \in Int
  PROVE  /\ Below(q, "row", n) = [row |-> q.row - n, col |-> q.col]
         /\ Below(q, "col", n) = [row |-> q.row, col |-> q.col - n]
         /\ Below(q, "row", n) \in Position <=> q.row - n \in 0 .. kMaxRows - 1
         /\ Below(q, "col", n) \in Position <=> q.col - n \in 0 .. kMaxCols - 1
         /\ q["row"] = q.row /\ q["col"] = q.col
<1>1. q = [row |-> q.row, col |-> q.col] /\ q.row \in 0 .. kMaxRows - 1 /\ q.col \in 0 .. kMaxCols - 1
  BY Positions
<1>2. /\ Below(q, "row", n) = [row |-> q.row - n, col |-> q.col]
      /\ Below(q, "col", n) = [row |-> q.row, col |-> q.col - n]
  <2>1. Below(q, "row", n) = [q EXCEPT !.row = q.row - n] BY DEF Below
  <2>2. Below(q, "col", n) = [q EXCEPT !.col = q.col - n] BY DEF Below
  <2> QED BY <1>1, <2>1, <2>2
<1> QED BY <1>1, <1>2 DEF Position

\* Empty rows put between others.
LEMMA RowsSpliced ==
  ASSUME NEW rows \in Rows, NEW new \in Rows, AllAre(new, <<>>), NEW at \in 0 .. Len(rows)
  PROVE  LET t == Spliced(rows, at, new) IN
         /\ t \in Rows /\ Len(t) = Len(rows) + Len(new) /\ Len(new) \in Nat
         /\ \A i \in Int : Row(t, i) = IF i <= at THEN Row(rows, i)
                                       ELSE IF i <= at + Len(new) THEN <<>>
                                       ELSE Row(rows, i - Len(new))
<1> DEFINE S == Seq(Slot)
           d == <<>>
           t == Spliced(rows, at, new)
<1>1. rows \in Seq(S) /\ new \in Seq(S) BY DEF Rows
<1>2. d \in S OBVIOUS
<1> HIDE DEF S, d, t
<1>3. t \in Seq(S) /\ Len(t) = Len(rows) + Len(new) BY <1>1, SplicedElements DEF t
<1>4. AllAre(new, d) BY DEF d
<1>5. \A i \in Int : ElementOr(t, i, d) = IF i <= at THEN ElementOr(rows, i, d)
                                        ELSE IF i <= at + Len(new) THEN d
                                        ELSE ElementOr(rows, i - Len(new), d)
  BY <1>1, <1>2, <1>4, SplicedElement DEF t
<1>6. Len(new) \in Nat BY <1>1, ElementsOfSeq
<1> QED BY <1>3, <1>5, <1>6 DEF S, d, t, Row, Rows

\* Rows cut out.
LEMMA RowsCut ==
  ASSUME NEW rows \in Rows, NEW from \in 0 .. Len(rows), NEW to \in 0 .. Len(rows), from <= to
  PROVE  LET t == Cut(rows, from, to) IN
         /\ t \in Rows /\ Len(t) = Len(rows) - (to - from)
         /\ \A i \in Int : Row(t, i) = IF i <= from THEN Row(rows, i)
                                       ELSE Row(rows, i + (to - from))
<1> DEFINE S == Seq(Slot)
           d == <<>>
           t == Cut(rows, from, to)
<1>1. rows \in Seq(S) /\ to \in Nat /\ Len(rows) \in Nat BY ElementsOfSeq DEF Rows
<1> HIDE DEF S, d, t
<1>2. t \in Seq(S) /\ Len(t) = IF to < Len(rows) THEN Len(rows) - (to - from) ELSE from
  BY <1>1, CutElements, ZenonT(60) DEF t
<1>3. Len(t) = Len(rows) - (to - from) BY <1>1, <1>2
<1>4. \A i \in Int : ElementOr(t, i, d) = IF i <= from THEN ElementOr(rows, i, d)
                                        ELSE ElementOr(rows, i + (to - from), d)
  BY <1>1, CutElement DEF t
<1> QED BY <1>2, <1>3, <1>4 DEF S, d, t, Row, Rows

\* The slots of a position that has moved.
LEMMA SlotMoves ==
  ASSUME NEW rows, NEW l, NEW q \in Position, NEW n \in Int
  PROVE  /\ CellAt(rows, l, Below(q, "row", n)) = SlotAt(rows, q.row - n - l.row + 1, q.col - l.col + 1)
         /\ CellAt(rows, l, Below(q, "col", n)) = SlotAt(rows, q.row - l.row + 1, q.col - n - l.col + 1)
BY PositionMoves DEF CellAt

\* The corners as numbers.
LEMMA CornerTypes ==
  ASSUME NEW rows \in Rows, NEW l, NEW b, Enclosed(rows, l, b)
  PROVE  /\ kMaxRows \in Nat /\ kMaxCols \in Nat /\ Len(rows) \in Nat
         /\ l = [row |-> l.row, col |-> l.col] /\ b = [row |-> b.row, col |-> b.col]
         /\ l.row \in 0 .. kMaxRows /\ b.row \in Int /\ b.row < kMaxRows
         /\ l.col \in 0 .. kMaxCols /\ b.col \in Int /\ b.col < kMaxCols
         /\ l.row - 1 - kMaxRows <= b.row /\ l.col - 1 - kMaxCols <= b.col
BY Positions, RowTypes DEF Enclosed

\* What the corners have to satisfy, said of four numbers.
LEMMA CornersOf ==
  ASSUME NEW rows \in Rows, NEW lr \in 0 .. kMaxRows, NEW lc \in 0 .. kMaxCols,
         NEW br \in Int, NEW bc \in Int, br < kMaxRows, bc < kMaxCols,
         lr - 1 - kMaxRows <= br, lc - 1 - kMaxCols <= bc,
         rows # <<>> => /\ br = lr + Len(rows) - 1
                        /\ \A r \in 1 .. Len(rows) : lc + Len(rows[r]) - 1 <= bc
  PROVE  Enclosed(rows, [row |-> lr, col |-> lc], [row |-> br, col |-> bc])
BY DEF Enclosed

\* CreateRows.
LEMMA RowsCreated ==
  ASSUME cells \in Rows, Enclosed(cells, LTC, RBC), NEW before \in Nat, NEW count \in Nat \ {0},
         CreateRows(before, count)
  PROVE  /\ cells' \in Rows /\ Enclosed(cells', LTC', RBC') /\ reply' \in Answers
         /\ reply' = "Ok" => InsertedAt(cells, LTC, cells', LTC', "row", before, count)
<1> DEFINE lr == LTC.row
           br == RBC.row
           n == Len(cells)
           at == RowOffset(before)
<1>1. CASE ~ CheckCellsSize(count, 0) /\ Refuse
  BY <1>1 DEF Refuse, Answers
<1>2. /\ kMaxRows \in Nat /\ n \in Nat /\ lr \in 0 .. kMaxRows /\ br \in Int /\ br < kMaxRows
      /\ lr - 1 - kMaxRows <= br /\ at = before - lr
  BY CornerTypes DEF RowOffset
<1>3. cells # <<>> => n # 0 /\ br = lr + n - 1 BY RowsWithin
<1>4. CheckCellsSize(count, 0) => br + count < kMaxRows
  <2>1. CheckCellsSize(count, 0) => ~ (br + count >= kMaxRows) BY DEF CheckCellsSize, TooBig
  <2> HIDE DEF br
  <2> QED BY <1>2, <2>1
<1>5. ASSUME NEW q \in Position
      PROVE  /\ q.row \in 0 .. kMaxRows - 1 /\ q["row"] = q.row
             /\ CellAt(cells, LTC, q) = CellAt(cells, LTC, Below(q, "row", 0))
             /\ q.row - count >= 0 => Below(q, "row", count) \in Position
                                      /\ Below(q, "row", count).row = q.row - count
  <2>1. q.row \in 0 .. kMaxRows - 1 BY Positions
  <2>2. Below(q, "row", count) \in Position <=> q.row - count \in 0 .. kMaxRows - 1
    BY PositionMoves
  <2>3. Below(q, "row", count) = [row |-> q.row - count, col |-> q.col] BY PositionMoves
  <2>4. Below(q, "row", 0) = [row |-> q.row - 0, col |-> q.col] BY PositionMoves
  <2>5. q["row"] = q.row OBVIOUS
  <2>6. CellAt(cells, LTC, q) = CellAt(cells, LTC, Below(q, "row", 0))
    <3>1. q.row - 0 = q.row BY <2>1
    <3> QED BY <2>4, <3>1 DEF CellAt
  <2>7. q.row - count >= 0 => q.row - count \in 0 .. kMaxRows - 1 BY <1>2, <2>1
  <2> QED BY <2>1, <2>2, <2>3, <2>5, <2>6, <2>7
<1>6. CASE /\ CheckCellsSize(count, 0) /\ (cells = <<>> \/ at >= n)
           /\ reply' = "Ok" /\ UNCHANGED <<cells, LTC, RBC>>
  <2>1. ASSUME NEW q \in Position, q.row >= before PROVE CellAt(cells, LTC, q) = Null
    <3>1. cells = <<>> \/ q.row > RBC.row
      <4> HIDE DEF lr, br, n, at
      <4>1. cells = <<>> \/ q.row > br BY <1>2, <1>3, <1>5, <1>6, <2>1
      <4> QED BY <4>1 DEF br
    <3> QED BY <3>1, NothingOutside
  <2>2. ASSUME NEW q \in Position, q.row >= before + count
        PROVE  CellAt(cells, LTC, Below(q, "row", count)) = Null
    <3>1. q.row - count >= before /\ q.row - count >= 0 BY <1>5, <2>2
    <3>2. Below(q, "row", count) \in Position /\ Below(q, "row", count).row >= before
      BY <1>5, <3>1
    <3> QED BY <2>1, <3>2
  <2>3. InsertedAt(cells, LTC, cells, LTC, "row", before, count)
    BY <1>2, <1>5, <2>1, <2>2 DEF InsertedAt
  <2> QED BY <1>6, <2>3 DEF Answers
<1>7. CASE /\ CheckCellsSize(count, 0) /\ cells # <<>> /\ at < 0 /\ reply' = "Ok"
           /\ RBC' = [RBC EXCEPT !.row = @ + count]
           /\ LTC' = [LTC EXCEPT !.row = @ + count] /\ UNCHANGED cells
  <2>1. /\ LTC' = [row |-> lr + count, col |-> LTC.col] /\ LTC' \in [row : Int, col : Int]
        /\ RBC' = [row |-> br + count, col |-> RBC.col]
    BY <1>7, CornerTypes, SMTT(60)
  <2>2. Enclosed(cells, LTC', RBC')
    <3>1. /\ lr + count \in 0 .. kMaxRows /\ br + count \in Int /\ br + count < kMaxRows
          /\ lr + count - 1 - kMaxRows <= br + count /\ br + count = lr + count + n - 1
      <4> HIDE DEF lr, br, n, at
      <4>1. n \in Nat \ {0} /\ br = lr + n - 1 /\ br + count < kMaxRows BY <1>2, <1>3, <1>4, <1>7
      <4>2. lr <= br BY <1>2, <4>1
      <4>3. lr + count \in 0 .. kMaxRows BY <1>2, <4>1, <4>2
      <4> QED BY <1>2, <4>1, <4>3
    <3>2. /\ LTC.col \in 0 .. kMaxCols /\ RBC.col \in Int /\ RBC.col < kMaxCols
          /\ LTC.col - 1 - kMaxCols <= RBC.col
          /\ \A r \in 1 .. Len(cells) : LTC.col + Len(cells[r]) - 1 <= RBC.col
      BY <1>7 DEF Enclosed
    <3> DEFINE lc == LTC.col
               bc == RBC.col
               l1 == lr + count
               b1 == br + count
    <3>3. LTC' = [row |-> l1, col |-> lc] /\ RBC' = [row |-> b1, col |-> bc] BY <2>1
    <3>4. /\ l1 \in 0 .. kMaxRows /\ lc \in 0 .. kMaxCols /\ b1 \in Int /\ bc \in Int
          /\ b1 < kMaxRows /\ bc < kMaxCols
          /\ l1 - 1 - kMaxRows <= b1 /\ lc - 1 - kMaxCols <= bc
          /\ cells # <<>> => /\ b1 = l1 + Len(cells) - 1
                             /\ \A r \in 1 .. Len(cells) : lc + Len(cells[r]) - 1 <= bc
      <4>1. /\ l1 \in 0 .. kMaxRows /\ b1 \in Int /\ b1 < kMaxRows /\ l1 - 1 - kMaxRows <= b1
            /\ b1 = l1 + n - 1
        BY <1>2, <3>1, SMTT(60)
      <4>2. /\ lc \in 0 .. kMaxCols /\ bc \in Int /\ bc < kMaxCols /\ lc - 1 - kMaxCols <= bc
            /\ \A r \in 1 .. Len(cells) : lc + Len(cells[r]) - 1 <= bc
        BY <3>2
      <4> HIDE DEF lc, bc, l1, b1
      <4> QED BY <4>1, <4>2
    <3> HIDE DEF lc, bc, l1, b1
    <3>5. Enclosed(cells, [row |-> l1, col |-> lc], [row |-> b1, col |-> bc])
      BY <3>4, CornersOf
    <3> QED BY <3>3, <3>5
  <2>3. ASSUME NEW q \in Position
        PROVE  CellAt(cells, LTC', q) = IF q.row < before + count THEN Null
                                        ELSE CellAt(cells, LTC, Below(q, "row", count))
    <3>1. CASE q.row < before + count
      <4>1. q.row < LTC'.row
        <5> HIDE DEF lr, br, n, at
        <5>1. q.row < lr + count BY <1>2, <1>5, <1>7, <3>1
        <5> QED BY <2>1, <5>1
      <4> QED BY <2>2, <3>1, <4>1, NothingOutside
    <3>2. CASE ~ (q.row < before + count)
      <4>1. q.row - LTC'.row + 1 = q.row - count - LTC.row + 1
        <5> HIDE DEF lr, br, n, at
        <5>1. q.row - (lr + count) + 1 = q.row - count - lr + 1 BY <1>2, <1>5
        <5> QED BY <2>1, <5>1 DEF lr
      <4>2. q.col - LTC'.col + 1 = q.col - LTC.col + 1 BY <2>1
      <4>3. CellAt(cells, LTC', q) = SlotAt(cells, q.row - count - LTC.row + 1, q.col - LTC.col + 1)
        BY <4>1, <4>2 DEF CellAt
      <4> QED BY <3>2, <4>3, SlotMoves
    <3> QED BY <3>1, <3>2
  <2>4. ASSUME NEW q \in Position, q.row < before
        PROVE  CellAt(cells, LTC, q) = Null /\ q.row < before + count
    <3>1. q.row < LTC.row /\ q.row < before + count
      <4> HIDE DEF lr, br, n, at
      <4>1. q.row < lr /\ q.row < before + count BY <1>2, <1>5, <1>7, <2>4
      <4> QED BY <4>1 DEF lr
    <3> QED BY <3>1, NothingOutside
  <2>5. InsertedAt(cells, LTC, cells, LTC', "row", before, count)
    BY <1>5, <2>3, <2>4 DEF InsertedAt
  <2> QED BY <1>7, <2>2, <2>5 DEF Answers
<1>8. CASE /\ CheckCellsSize(count, 0) /\ cells # <<>> /\ ~ (at >= n) /\ ~ (at < 0)
           /\ reply' = "Ok" /\ RBC' = [RBC EXCEPT !.row = @ + count]
           /\ cells' = InsertedInto(cells, at, Emptys(count)) /\ UNCHANGED LTC
  <2> DEFINE new == Emptys(count)
  <2>1. new \in Rows /\ Len(new) = count /\ AllAre(new, <<>>)
    <3>1. Larger(count, 0) = count BY DEF Larger
    <3> QED BY <3>1, Padding
  <2>2. at \in 0 .. n BY <1>2, <1>8
  <2>3. cells' = Spliced(cells, at, new) BY <1>8 DEF InsertedInto, Spliced
  <2> HIDE DEF at, new
  <2>4. /\ cells' \in Rows /\ Len(cells') = n + count
        /\ \A i \in Int : Row(cells', i) = IF i <= at THEN Row(cells, i)
                                           ELSE IF i <= at + count THEN <<>>
                                           ELSE Row(cells, i - count)
    BY <2>1, <2>2, <2>3, RowsSpliced
  <2>5. RBC' = [row |-> br + count, col |-> RBC.col] BY <1>8, CornerTypes
  <2>6. Enclosed(cells', LTC, RBC')
    <3>1. br + count \in Int /\ br + count < kMaxRows /\ br + count = lr + (n + count) - 1
          /\ lr - 1 - kMaxRows <= br + count
      <4> HIDE DEF lr, br, n
      <4> QED BY <1>2, <1>3, <1>4, <1>8, SMTT(60)
    <3>2. \A i \in 1 .. Len(cells') : LTC.col + Len(cells'[i]) - 1 <= RBC.col
      <4> SUFFICES ASSUME NEW i \in 1 .. Len(cells') PROVE LTC.col + Len(cells'[i]) - 1 <= RBC.col
        OBVIOUS
      <4>1. cells'[i] = Row(cells', i) BY DEF Row, ElementOr
      <4>2. Row(cells', i) = <<>> \/ \E k \in Int : Row(cells', i) = Row(cells, k) BY <2>4
      <4>3. Len(<<>>) = 0 /\ LTC.col - 1 <= RBC.col /\ LTC.col \in Int
        BY <1>8, RowsWithin, CornerTypes
      <4>4. \A k \in Int : LTC.col + Len(Row(cells, k)) - 1 <= RBC.col BY <1>8, RowsWithin
      <4>5. CASE Row(cells', i) = <<>> BY <4>1, <4>3, <4>5
      <4> QED BY <4>1, <4>2, <4>4, <4>5
    <3>3. RBC'.row = br + count /\ RBC'.col = RBC.col /\ RBC' \in [row : Int, col : Int]
      BY <2>5, <3>1, CornerTypes
    <3>4. /\ LTC \in [row : 0 .. kMaxRows, col : 0 .. kMaxCols] /\ RBC.col < kMaxCols
          /\ LTC.col - 1 - kMaxCols <= RBC.col
      BY DEF Enclosed
    <3> HIDE DEF br
    <3> QED BY <2>4, <3>1, <3>2, <3>3, <3>4 DEF Enclosed
  <2>7. ASSUME NEW q \in Position
        PROVE  CellAt(cells', LTC, q) = IF q.row < before THEN CellAt(cells, LTC, q)
                                        ELSE IF q.row < before + count THEN Null
                                        ELSE CellAt(cells, LTC, Below(q, "row", count))
    <3> DEFINE i == q.row - LTC.row + 1
               j == q.col - LTC.col + 1
    <3>1. /\ CellAt(cells', LTC, q) = ElementOr(Row(cells', i), j, Null)
          /\ CellAt(cells, LTC, q) = ElementOr(Row(cells, i), j, Null)
          /\ CellAt(cells, LTC, Below(q, "row", count)) = ElementOr(Row(cells, i - count), j, Null)
      <4>1. q.row - count - LTC.row + 1 = i - count
        <5>1. q.row \in Int /\ LTC.row \in Int BY <1>5, CornerTypes
        <5> QED BY <5>1
      <4>2. CellAt(cells, LTC, Below(q, "row", count)) = SlotAt(cells, i - count, j)
        BY <4>1, SlotMoves
      <4> HIDE DEF i, j
      <4> QED BY <4>2 DEF CellAt, SlotAt, i, j
    <3>2. i \in Int /\ (i <= at <=> q.row < before) /\ (i <= at + count <=> q.row < before + count)
      <4>1. i = q.row - lr + 1 OBVIOUS
      <4> HIDE DEF lr, br, n, i
      <4> QED BY <1>2, <1>5, <4>1
    <3> HIDE DEF i, j
    <3>3. ElementOr(<<>>, j, Null) = Null BY NoSlot
    <3>4. Row(cells', i) = IF i <= at THEN Row(cells, i)
                           ELSE IF i <= at + count THEN <<>> ELSE Row(cells, i - count)
      BY <2>4, <3>2
    <3> QED BY <3>1, <3>2, <3>3, <3>4
  <2>8. InsertedAt(cells, LTC, cells', LTC, "row", before, count)
    BY <1>5, <2>7 DEF InsertedAt
  <2> QED BY <1>8, <2>4, <2>6, <2>8 DEF Answers
<1> QED BY <1>1, <1>6, <1>7, <1>8 DEF CreateRows

\* EraseRows.
LEMMA RowsErased ==
  ASSUME cells \in Rows, Enclosed(cells, LTC, RBC), NEW first \in Nat, NEW count \in Nat \ {0},
         EraseRows(first, count)
  PROVE  /\ cells' \in Rows /\ Enclosed(cells', LTC', RBC') /\ reply' \in Answers
         /\ reply' = "Ok" /\ (first >= LTC.row \/ first + count <= LTC.row)
              => DeletedAt(cells, LTC, cells', LTC', "row", first, count)
<1> DEFINE lr == LTC.row
           br == RBC.row
           lc == LTC.col
           bc == RBC.col
           n == Len(cells)
           from == Larger(0, first - lr)
           to == Lesser(first + count - 1 - lr, br)
<1>1. /\ kMaxRows \in Nat /\ n \in Nat /\ lr \in 0 .. kMaxRows /\ br \in Int /\ br < kMaxRows
      /\ lr - 1 - kMaxRows <= br
  BY CornerTypes
<1>2. /\ kMaxCols \in Nat /\ lc \in 0 .. kMaxCols /\ bc \in Int /\ bc < kMaxCols
      /\ lc - 1 - kMaxCols <= bc
  BY CornerTypes
<1>3. cells # <<>> => n # 0 /\ br = lr + n - 1 BY RowsWithin
<1>4. LTC = [row |-> lr, col |-> lc] /\ RBC = [row |-> br, col |-> bc] BY CornerTypes
<1>5. ASSUME NEW q \in Position
      PROVE  /\ q.row \in 0 .. kMaxRows - 1 /\ q["row"] = q.row
             /\ IF q.row + count < kMaxRows
                THEN /\ Below(q, "row", -count) \in Position
                     /\ Below(q, "row", -count).row = q.row + count
                ELSE Below(q, "row", -count) \notin Position
             /\ CellAt(cells, LTC, Below(q, "row", -count))
                  = SlotAt(cells, q.row + count - LTC.row + 1, q.col - LTC.col + 1)
  <2>1. q.row \in 0 .. kMaxRows - 1 BY Positions
  <2>2. -count \in Int /\ q.row - (-count) = q.row + count BY <2>1
  <2>3. /\ Below(q, "row", -count) = [row |-> q.row - (-count), col |-> q.col]
        /\ Below(q, "row", -count) \in Position <=> q.row - (-count) \in 0 .. kMaxRows - 1
    BY <2>2, PositionMoves
  <2>4. q["row"] = q.row OBVIOUS
  <2>5. q.row + count < kMaxRows <=> q.row + count \in 0 .. kMaxRows - 1 BY <1>1, <2>1
  <2>6. CellAt(cells, LTC, Below(q, "row", -count))
          = SlotAt(cells, q.row - (-count) - LTC.row + 1, q.col - LTC.col + 1)
    BY <2>2, SlotMoves
  <2> DEFINE x == q.row - (-count)
  <2>7. x = q.row + count BY <2>2
  <2>8. Below(q, "row", -count).row = x BY <2>3
  <2>9. CellAt(cells, LTC, Below(q, "row", -count)) = SlotAt(cells, x - LTC.row + 1, q.col - LTC.col + 1)
    BY <2>6
  <2>10. Below(q, "row", -count) \in Position <=> x \in 0 .. kMaxRows - 1 BY <2>3
  <2> HIDE DEF x
  <2>11. CellAt(cells, LTC, Below(q, "row", -count))
          = SlotAt(cells, q.row + count - LTC.row + 1, q.col - LTC.col + 1)
    <3> DEFINE i == q.row + count - LTC.row + 1
               k == x - LTC.row + 1
    <3>1. i = k BY <1>1, <2>1, <2>7
    <3> HIDE DEF i, k
    <3>2. CellAt(cells, LTC, Below(q, "row", -count)) = SlotAt(cells, k, q.col - LTC.col + 1)
      BY <2>9 DEF k
    <3>3. CellAt(cells, LTC, Below(q, "row", -count)) = SlotAt(cells, i, q.col - LTC.col + 1)
      BY <3>1, <3>2
    <3> QED BY <3>3 DEF i
  <2> QED BY <2>1, <2>4, <2>5, <2>7, <2>8, <2>10, <2>11
<1>6. CASE /\ first + count - 1 < lr /\ LTC' = [LTC EXCEPT !.row = @ - count]
           /\ RBC' = [RBC EXCEPT !.row = @ - count] /\ reply' = "Ok" /\ UNCHANGED cells
  <2> DEFINE l1 == lr - count
             b1 == br - count
  <2>1. LTC' = [row |-> l1, col |-> lc] /\ RBC' = [row |-> b1, col |-> bc] BY <1>4, <1>6
  <2>2. /\ l1 \in 0 .. kMaxRows /\ b1 \in Int /\ b1 < kMaxRows /\ l1 - 1 - kMaxRows <= b1
        /\ first <= l1 /\ first < lr /\ (cells # <<>> => b1 = l1 + n - 1)
    <3> HIDE DEF lr, br, n
    <3> QED BY <1>1, <1>3, <1>6, SMTT(60)
  <2>3. Enclosed(cells, LTC', RBC')
    <3>1. cells # <<>> => \A r \in 1 .. Len(cells) : lc + Len(cells[r]) - 1 <= bc
      BY DEF Enclosed
    <3> HIDE DEF l1, b1, lc, bc
    <3>2. Enclosed(cells, [row |-> l1, col |-> lc], [row |-> b1, col |-> bc])
      BY <1>2, <2>2, <3>1, CornersOf
    <3> QED BY <2>1, <3>2
  <2>4. ASSUME NEW q \in Position
        PROVE  /\ CellAt(cells, LTC', q) = CellAt(cells, LTC, Below(q, "row", -count))
               /\ q.row < first => CellAt(cells, LTC', q) = Null /\ CellAt(cells, LTC, q) = Null
               /\ q.row + count >= kMaxRows => CellAt(cells, LTC', q) = Null
    <3>1. q.row - LTC'.row + 1 = q.row + count - LTC.row + 1
      <4> DEFINE x == q.row
      <4>1. x \in Nat BY <1>5
      <4> HIDE DEF x, lr
      <4>2. x - l1 + 1 = x + count - lr + 1 BY <1>1, <4>1
      <4> QED BY <2>1, <4>2 DEF x, lr
    <3>2. q.col - LTC'.col + 1 = q.col - LTC.col + 1 BY <2>1
    <3>3. CellAt(cells, LTC', q) = SlotAt(cells, q.row + count - LTC.row + 1, q.col - LTC.col + 1)
      BY <3>1, <3>2 DEF CellAt
    <3>4. q.row < first => q.row < LTC'.row /\ q.row < LTC.row
      <4>1. q.row < first => q.row < l1 /\ q.row < lr
        <5> HIDE DEF lr, l1
        <5> QED BY <1>1, <1>5, <2>2, SMTT(60)
      <4> QED BY <2>1, <4>1
    <3>5. q.row + count >= kMaxRows => q.row > RBC'.row
      <4>1. q.row + count >= kMaxRows => q.row > br - count
        <5> HIDE DEF br
        <5> QED BY <1>1, <1>5
      <4> QED BY <2>1, <4>1
    <3> QED BY <1>5, <2>3, <3>3, <3>4, <3>5, NothingOutside
  <2>5. DeletedAt(cells, LTC, cells, LTC', "row", first, count)
    <3> SUFFICES ASSUME NEW q \in Position
                 PROVE  CellAt(cells, LTC', q)
                          = IF q["row"] < first THEN CellAt(cells, LTC, q)
                            ELSE IF Below(q, "row", -count) \in Position
                            THEN CellAt(cells, LTC, Below(q, "row", -count))
                            ELSE Null
      BY DEF DeletedAt
    <3>1. CASE q.row + count < kMaxRows BY <1>5, <2>4, <3>1
    <3>2. CASE ~ (q.row + count < kMaxRows)
      <4>1. q.row + count >= kMaxRows BY <1>1, <1>5, <3>2, SMTT(60)
      <4> QED BY <1>5, <2>4, <3>2, <4>1
    <3> QED BY <3>1, <3>2
  <2> QED BY <1>6, <2>3, <2>5 DEF Answers
<1>7. CASE first > br /\ reply' = "Ok" /\ UNCHANGED <<cells, LTC, RBC>>
  <2>1. ASSUME NEW q \in Position, q.row >= first PROVE CellAt(cells, LTC, q) = Null
    <3>1. q.row > RBC.row
      <4> HIDE DEF br
      <4>1. q.row > br BY <1>1, <1>5, <1>7, <2>1
      <4> QED BY <4>1 DEF br
    <3> QED BY <3>1, NothingOutside
  <2>2. ASSUME NEW q \in Position, ~ (q.row < first)
        PROVE  /\ CellAt(cells, LTC, q) = Null
               /\ Below(q, "row", -count) \in Position
                    => CellAt(cells, LTC, Below(q, "row", -count)) = Null
    <3>1. q.row >= first /\ q.row + count >= first BY <1>5, <2>2
    <3>2. Below(q, "row", -count) \in Position => Below(q, "row", -count).row >= first
      BY <1>5, <3>1
    <3> QED BY <2>1, <3>1, <3>2
  <2>3. DeletedAt(cells, LTC, cells, LTC, "row", first, count)
    BY <1>5, <2>2 DEF DeletedAt
  <2> QED BY <1>7, <2>3 DEF Answers
<1>8. CASE Undefined BY <1>8 DEF Undefined, Answers
<1>9. CASE /\ first + count - 1 >= lr /\ first <= br /\ EraseInside(cells, from, to)
           /\ cells' = Erased(cells, from, to)
           /\ RBC' = [RBC EXCEPT !.row = @ - (to - from + 1)]
           /\ reply' = "Ok" /\ UNCHANGED LTC
  <2> DEFINE end == to + 1
             m == end - from
             b1 == br - m
  <2>1. from <= to + 1 /\ to + 1 <= n BY <1>9 DEF EraseInside
  <2>2. cells' = Cut(cells, from, end)
    <3>1. to + 1 + 1 = to + 2
      <4>1. to \in Int
        <5> HIDE DEF lr, br
        <5> QED BY <1>1 DEF Lesser
      <4> HIDE DEF to
      <4> QED BY <4>1
    <3>2. SubSeq(cells, to + 1 + 1, Len(cells)) = SubSeq(cells, to + 2, Len(cells)) BY <3>1
    <3> QED BY <1>9, <3>2 DEF Erased, Cut
  <2>3. /\ from \in Nat /\ to \in Int /\ from <= to
        /\ from = IF first <= lr THEN 0 ELSE first - lr
        /\ to = (IF first + count - 1 - lr < br THEN first + count - 1 - lr ELSE br)
    <3> HIDE DEF lr, br
    <3> QED BY <1>1, <1>9, SMTT(60) DEF Larger, Lesser
  <2> HIDE DEF from, to
  <2>4. /\ from \in 0 .. n /\ end \in 0 .. n /\ from <= end /\ m \in Nat \ {0} /\ n # 0
    <3> HIDE DEF n
    <3> QED BY <1>1, <2>1, <2>3
  <2>5. cells # <<>> /\ br = lr + n - 1
    <3>1. cells # <<>> BY <2>4
    <3> QED BY <1>3, <3>1
  <2>6. /\ cells' \in Rows /\ Len(cells') = n - m
        /\ \A i \in Int : Row(cells', i) = IF i <= from THEN Row(cells, i) ELSE Row(cells, i + m)
    <3> HIDE DEF end
    <3> QED BY <2>2, <2>4, RowsCut DEF m
  <2>7. RBC' = [row |-> b1, col |-> bc]
    <3>1. to - from + 1 = m
      <4> QED BY <2>3
    <3> QED BY <1>4, <1>9, <3>1
  <2> HIDE DEF end, m
  <2>8. b1 \in Int /\ b1 < kMaxRows /\ lr - 1 - kMaxRows <= b1 /\ b1 = lr + (n - m) - 1
    <3>1. m \in 1 .. n
      <4> HIDE DEF n
      <4> QED BY <1>1, <2>3, <2>4 DEF m, end
    <3> HIDE DEF lr, br, n
    <3> QED BY <1>1, <2>5, <3>1
  <2>9. Enclosed(cells', LTC', RBC')
    <3>1. \A i \in 1 .. Len(cells') : lc + Len(cells'[i]) - 1 <= bc
      <4> SUFFICES ASSUME NEW i \in 1 .. Len(cells') PROVE lc + Len(cells'[i]) - 1 <= bc
        OBVIOUS
      <4>1. cells'[i] = Row(cells', i) BY DEF Row, ElementOr
      <4>2. \E k \in Int : Row(cells', i) = Row(cells, k)
        <5>1. i + m \in Int BY <2>4
        <5> QED BY <2>6, <5>1
      <4>3. \A k \in Int : lc + Len(Row(cells, k)) - 1 <= bc BY <2>5, RowsWithin
      <4> QED BY <4>1, <4>2, <4>3
    <3> HIDE DEF lr, lc, bc, b1, n
    <3>2. Enclosed(cells', [row |-> lr, col |-> lc], [row |-> b1, col |-> bc])
      BY <1>1, <1>2, <2>6, <2>8, <3>1, CornersOf
    <3> QED BY <1>4, <1>9, <2>7, <3>2
  <2>10. ASSUME first >= LTC.row, NEW q \in Position, q.row < first
         PROVE  CellAt(cells', LTC, q) = CellAt(cells, LTC, q)
    <3> DEFINE i == q.row - LTC.row + 1
    <3>1. i \in Int /\ i <= from
      <4>1. i = q.row - lr + 1 /\ first >= lr BY <2>10
      <4> HIDE DEF i, lr, br
      <4> QED BY <1>1, <1>5, <2>3, <2>10, <4>1, SMTT(60)
    <3> HIDE DEF i
    <3>2. Row(cells', i) = Row(cells, i) BY <2>6, <3>1
    <3> QED BY <3>2 DEF CellAt, SlotAt, i
  <2>11. ASSUME first >= LTC.row, NEW q \in Position, ~ (q.row < first)
         PROVE  CellAt(cells', LTC, q) = IF Below(q, "row", -count) \in Position
                                         THEN CellAt(cells, LTC, Below(q, "row", -count))
                                         ELSE Null
    <3>1. CASE m = count /\ q.row + count < kMaxRows
      <4> DEFINE i == q.row - LTC.row + 1
                 j == q.col - LTC.col + 1
      <4>1. i \in Int /\ ~ (i <= from) /\ q.row + count - LTC.row + 1 = i + m
        <5>1. i = q.row - lr + 1 /\ first >= lr BY <2>11
        <5>2. i \in Int /\ ~ (i <= from) /\ q.row + count - lr + 1 = i + m
          <6> HIDE DEF i, lr, br
          <6> QED BY <1>1, <1>5, <2>3, <2>11, <3>1, <5>1, SMTT(60)
        <5> QED BY <5>2
      <4>2. CellAt(cells, LTC, Below(q, "row", -count)) = SlotAt(cells, i + m, j)
        BY <1>5, <4>1
      <4>3. CellAt(cells', LTC, q) = SlotAt(cells', i, j) BY DEF CellAt
      <4> HIDE DEF i, j
      <4>4. SlotAt(cells', i, j) = SlotAt(cells, i + m, j) BY <2>6, <4>1 DEF SlotAt
      <4> QED BY <1>5, <3>1, <4>2, <4>3, <4>4
    <3>2. CASE m # count \/ ~ (q.row + count < kMaxRows)
      <4>1. q.row > b1
        <5>1. first >= lr BY <2>11
        <5>2. m = (IF first + count - 1 - lr < br THEN count ELSE br + 1 - (first - lr))
          <6> HIDE DEF lr, br
          <6> QED BY <1>1, <2>3, <5>1 DEF m, end
        <5>3. m <= count /\ m \in Nat /\ n \in Nat
          <6> HIDE DEF lr, br
          <6> QED BY <1>1, <2>3, <2>4, <5>1, <5>2
        <5>4. m # count => lr = 0 /\ b1 = first - 1
          <6>1. end <= n BY <2>4
          <6> HIDE DEF lr, br, n
          <6>2. m # count => to = br /\ end = br + 1 BY <1>1, <2>3, <5>2 DEF end
          <6>3. m # count => lr = 0 BY <1>1, <2>5, <6>1, <6>2
          <6> QED BY <1>1, <5>2, <6>3
        <5> HIDE DEF lr, br, n, b1
        <5>5. m # count => q.row > b1 BY <1>5, <2>8, <2>11, <5>4
        <5>6. m = count => q.row > b1
          <6>1. b1 = br - m BY DEF b1
          <6> QED BY <1>1, <1>5, <3>2, <6>1
        <5> QED BY <5>5, <5>6
      <4>2. CellAt(cells', LTC, q) = Null
        <5>1. q.row > RBC'.row /\ LTC' = LTC BY <1>9, <2>7, <4>1
        <5> QED BY <2>6, <2>9, <5>1, NothingOutside
      <4>3. Below(q, "row", -count) \in Position
              => CellAt(cells, LTC, Below(q, "row", -count)) = Null
        <5> SUFFICES ASSUME Below(q, "row", -count) \in Position
                     PROVE  CellAt(cells, LTC, Below(q, "row", -count)) = Null
          OBVIOUS
        <5>1. q.row + count < kMaxRows /\ Below(q, "row", -count).row = q.row + count BY <1>5
        <5>2. m # count BY <3>2, <5>1
        <5>3. q.row + count > br
          <6>1. first >= lr BY <2>11
          <6> HIDE DEF lr, br
          <6>2. ~ (first + count - 1 - lr < br)
            BY <1>1, <2>3, <5>2, <6>1 DEF m, end
          <6> QED BY <1>1, <1>5, <2>11, <6>2
        <5> QED BY <5>1, <5>3, NothingOutside
      <4> QED BY <4>2, <4>3
    <3> QED BY <3>1, <3>2
  <2>12. first >= LTC.row \/ first + count <= LTC.row => first >= LTC.row
    <3>1. first >= lr \/ first + count <= lr => first >= lr
      <4> HIDE DEF lr
      <4> QED BY <1>1, <1>9
    <3> QED BY <3>1
  <2>13. first >= LTC.row => DeletedAt(cells, LTC, cells', LTC', "row", first, count)
    BY <1>5, <1>9, <2>10, <2>11 DEF DeletedAt
  <2> QED BY <1>9, <2>6, <2>9, <2>12, <2>13 DEF Answers
<1> QED BY <1>6, <1>7, <1>8, <1>9 DEF EraseRows

\* Rows changed one by one.
LEMMA RowsMapped ==
  ASSUME NEW rows \in Rows, NEW t, t = [i \in DOMAIN rows |-> t[i]],
         \A i \in 1 .. Len(rows) : t[i] \in Seq(Slot)
  PROVE  t \in Rows /\ Len(t) = Len(rows)
<1> DEFINE S == Seq(Slot)
<1>1. Len(rows) \in Nat /\ DOMAIN rows = 1 .. Len(rows) BY RowTypes
<1>2. \A i \in 1 .. Len(rows) : t[i] \in S OBVIOUS
<1> HIDE DEF S
<1>3. t \in [1 .. Len(rows) -> S] BY <1>1, <1>2
<1>4. t \in Seq(S) /\ Len(t) = Len(rows) BY <1>1, <1>3
<1> QED BY <1>4 DEF S, Rows

\* Slots put into a row that reaches so far.
LEMMA RowWidened ==
  ASSUME NEW row \in Seq(Slot), NEW before \in Nat, NEW count \in Nat \ {0}
  PROVE  LET t == IF before < Len(row) THEN InsertedInto(row, before, Nulls(count)) ELSE row IN
         /\ t \in Seq(Slot) /\ Len(t) \in Nat /\ Len(t) <= Len(row) + count
         /\ \A j \in Int : ElementOr(t, j, Null) = IF j <= before THEN ElementOr(row, j, Null)
                                                 ELSE IF j <= before + count THEN Null
                                                 ELSE ElementOr(row, j - count, Null)
<1> DEFINE new == Nulls(count)
           u == Spliced(row, before, new)
           n == Len(row)
<1>1. new \in Seq(Slot) /\ Len(new) = count /\ AllAre(new, Null)
  <2>1. Larger(count, 0) = count BY DEF Larger
  <2> QED BY <2>1, Padding
<1>2. n \in Nat /\ Null \in Slot BY ElementsOfSeq DEF Slot
<1>3. InsertedInto(row, before, new) = u BY DEF InsertedInto, Spliced
<1> HIDE DEF new, u
<1>4. CASE before < Len(row)
  <2>1. before \in 0 .. Len(row) BY <1>2, <1>4
  <2>2. u \in Seq(Slot) /\ Len(u) = n + count
    BY <1>1, <2>1, SplicedElements DEF u
  <2>3. \A j \in Int : ElementOr(u, j, Null) = IF j <= before THEN ElementOr(row, j, Null)
                                              ELSE IF j <= before + count THEN Null
                                              ELSE ElementOr(row, j - count, Null)
    BY <1>1, <1>2, <2>1, SplicedElement, ZenonT(60) DEF u
  <2> HIDE DEF n
  <2>4. n + count \in Nat /\ n + count <= n + count BY <1>2
  <2> QED BY <1>3, <1>4, <2>2, <2>3, <2>4 DEF new, n
<1>5. CASE ~ (before < Len(row))
  <2>1. ASSUME NEW j \in Int, ~ (j <= before)
        PROVE  ElementOr(row, j, Null) = Null
    <3>1. j \notin 1 .. n BY <1>2, <1>5, <2>1
    <3> QED BY <3>1 DEF ElementOr
  <2>2. ASSUME NEW j \in Int, ~ (j <= before), ~ (j <= before + count)
        PROVE  ElementOr(row, j - count, Null) = Null
    <3>1. j - count \in Int /\ ~ (j - count <= before) BY <2>2
    <3> QED BY <2>1, <3>1
  <2>3. n <= n + count
    <3> HIDE DEF n
    <3> QED BY <1>2
  <2> QED BY <1>2, <1>5, <2>1, <2>2, <2>3
<1> QED BY <1>4, <1>5

\* CreateCols.
LEMMA ColsCreated ==
  ASSUME cells \in Rows, Enclosed(cells, LTC, RBC), NEW before \in Nat, NEW count \in Nat \ {0},
         CreateCols(before, count)
  PROVE  /\ cells' \in Rows /\ Enclosed(cells', LTC', RBC') /\ reply' \in Answers
         /\ reply' = "Ok" /\ (LTC.col = 0 \/ before < LTC.col \/ before > RBC.col)
              => InsertedAt(cells, LTC, cells', LTC', "col", before, count)
<1> DEFINE lr == LTC.row
           br == RBC.row
           lc == LTC.col
           bc == RBC.col
           n == Len(cells)
<1>1. CASE ~ CheckCellsSize(0, count) /\ Refuse
  BY <1>1 DEF Refuse, Answers
<1>2. /\ kMaxCols \in Nat /\ lc \in 0 .. kMaxCols /\ bc \in Int /\ bc < kMaxCols
      /\ lc - 1 - kMaxCols <= bc
  BY CornerTypes
<1>3. /\ kMaxRows \in Nat /\ lr \in 0 .. kMaxRows /\ br \in Int /\ br < kMaxRows
      /\ lr - 1 - kMaxRows <= br /\ n \in Nat
  BY CornerTypes
<1>4. cells # <<>> =>
        /\ br = lr + n - 1 /\ lc - 1 <= bc
        /\ \A i \in 1 .. n : /\ cells[i] \in Seq(Slot) /\ Len(cells[i]) \in Nat
                             /\ lc + Len(cells[i]) - 1 <= bc
  BY RowsWithin, RowTypes DEF Enclosed
<1>5. LTC = [row |-> lr, col |-> lc] /\ RBC = [row |-> br, col |-> bc] BY CornerTypes
<1>6. CheckCellsSize(0, count) => bc + count < kMaxCols
  <2>1. CheckCellsSize(0, count) => ~ (bc + count >= kMaxCols) BY DEF CheckCellsSize, TooBig
  <2> HIDE DEF bc
  <2> QED BY <1>2, <2>1
<1>7. ASSUME NEW q \in Position
      PROVE  /\ q.col \in 0 .. kMaxCols - 1 /\ q["col"] = q.col
             /\ q.col - count >= 0 => Below(q, "col", count) \in Position
                                      /\ Below(q, "col", count).col = q.col - count
  <2>1. q.col \in 0 .. kMaxCols - 1 BY Positions
  <2>2. /\ Below(q, "col", count) \in Position <=> q.col - count \in 0 .. kMaxCols - 1
        /\ Below(q, "col", count) = [row |-> q.row, col |-> q.col - count]
    BY PositionMoves
  <2>3. q["col"] = q.col OBVIOUS
  <2>4. q.col - count >= 0 => q.col - count \in 0 .. kMaxCols - 1 BY <1>2, <2>1
  <2> QED BY <2>1, <2>2, <2>3, <2>4
<1>8. CASE /\ CheckCellsSize(0, count) /\ (cells = <<>> \/ before > bc)
           /\ reply' = "Ok" /\ UNCHANGED <<cells, LTC, RBC>>
  <2>1. ASSUME NEW q \in Position, q.col >= before PROVE CellAt(cells, LTC, q) = Null
    <3>1. cells = <<>> \/ q.col > RBC.col
      <4> HIDE DEF bc
      <4>1. cells = <<>> \/ q.col > bc BY <1>2, <1>7, <1>8, <2>1
      <4> QED BY <4>1 DEF bc
    <3> QED BY <3>1, NothingOutside
  <2>2. ASSUME NEW q \in Position, q.col >= before + count
        PROVE  CellAt(cells, LTC, Below(q, "col", count)) = Null
    <3>1. q.col - count >= before /\ q.col - count >= 0 BY <1>7, <2>2
    <3>2. Below(q, "col", count) \in Position /\ Below(q, "col", count).col >= before
      BY <1>7, <3>1
    <3> QED BY <2>1, <3>2
  <2>3. InsertedAt(cells, LTC, cells, LTC, "col", before, count)
    BY <1>2, <1>7, <2>1, <2>2 DEF InsertedAt
  <2> QED BY <1>8, <2>3 DEF Answers
<1>9. CASE /\ CheckCellsSize(0, count) /\ cells # <<>> /\ ~ (before > bc) /\ before < lc
           /\ reply' = "Ok" /\ RBC' = [RBC EXCEPT !.col = @ + count]
           /\ LTC' = [LTC EXCEPT !.col = @ + count] /\ UNCHANGED cells
  <2> DEFINE l1 == lc + count
             b1 == bc + count
  <2>1. LTC' = [row |-> lr, col |-> l1] /\ RBC' = [row |-> br, col |-> b1] BY <1>5, <1>9
  <2>2. /\ l1 \in 0 .. kMaxCols /\ b1 \in Int /\ b1 < kMaxCols /\ l1 - 1 - kMaxCols <= b1
        /\ before < l1
    <3>1. lc <= bc + 1 /\ bc + count < kMaxCols
      <4>1. lc - 1 <= bc /\ bc + count < kMaxCols BY <1>4, <1>6, <1>9
      <4> HIDE DEF lc, bc
      <4> QED BY <1>2, <4>1
    <3> HIDE DEF lc, bc
    <3> QED BY <1>2, <1>9, <3>1
  <2>3. Enclosed(cells, LTC', RBC')
    <3>1. \A i \in 1 .. n : l1 + Len(cells[i]) - 1 <= b1
      <4> SUFFICES ASSUME NEW i \in 1 .. n PROVE l1 + Len(cells[i]) - 1 <= b1
        OBVIOUS
      <4> DEFINE m == Len(cells[i])
      <4>1. m \in Nat /\ lc + m - 1 <= bc BY <1>4, <1>9
      <4> HIDE DEF m, lc, bc
      <4>2. l1 + m - 1 <= b1 BY <1>2, <4>1
      <4> QED BY <4>2 DEF m
    <3>2. br = lr + Len(cells) - 1 BY <1>4, <1>9
    <3> HIDE DEF l1, b1, lr, br
    <3>3. Enclosed(cells, [row |-> lr, col |-> l1], [row |-> br, col |-> b1])
      BY <1>3, <2>2, <3>1, <3>2, CornersOf
    <3> QED BY <2>1, <3>3
  <2>4. ASSUME NEW q \in Position
        PROVE  CellAt(cells, LTC', q) = IF q.col < before + count THEN Null
                                        ELSE CellAt(cells, LTC, Below(q, "col", count))
    <3>1. CASE q.col < before + count
      <4>1. q.col < LTC'.col
        <5>1. q.col < l1
          <6> HIDE DEF lc
          <6> QED BY <1>2, <1>7, <1>9, <3>1
        <5> QED BY <2>1, <5>1
      <4> QED BY <2>3, <3>1, <4>1, NothingOutside
    <3>2. CASE ~ (q.col < before + count)
      <4>1. q.col - LTC'.col + 1 = q.col - count - LTC.col + 1
        <5>1. q.col - l1 + 1 = q.col - count - lc + 1
          <6> HIDE DEF lc
          <6> QED BY <1>2, <1>7
        <5> QED BY <2>1, <5>1
      <4>2. q.row - LTC'.row + 1 = q.row - LTC.row + 1 BY <2>1
      <4>3. CellAt(cells, LTC', q) = SlotAt(cells, q.row - LTC.row + 1, q.col - count - LTC.col + 1)
        BY <4>1, <4>2 DEF CellAt
      <4> QED BY <3>2, <4>3, SlotMoves
    <3> QED BY <3>1, <3>2
  <2>5. ASSUME NEW q \in Position, q.col < before
        PROVE  CellAt(cells, LTC, q) = Null /\ q.col < before + count
    <3>1. q.col < LTC.col /\ q.col < before + count
      <4>1. q.col < lc /\ q.col < before + count
        <5> HIDE DEF lc
        <5> QED BY <1>2, <1>7, <1>9, <2>5
      <4> QED BY <4>1
    <3> QED BY <3>1, NothingOutside
  <2>6. InsertedAt(cells, LTC, cells, LTC', "col", before, count)
    BY <1>7, <2>4, <2>5 DEF InsertedAt
  <2> QED BY <1>9, <2>3, <2>6 DEF Answers
<1>10. CASE /\ CheckCellsSize(0, count) /\ cells # <<>> /\ ~ (before > bc) /\ ~ (before < lc)
            /\ reply' = "Ok" /\ RBC' = [RBC EXCEPT !.col = @ + count]
            /\ cells' = [i \in DOMAIN cells |->
                           IF before < Len(cells[i])
                           THEN InsertedInto(cells[i], before, Nulls(count)) ELSE cells[i]]
            /\ UNCHANGED LTC
  <2> DEFINE b1 == bc + count
  <2>1. n \in Nat /\ DOMAIN cells = 1 .. n /\ \A i \in 1 .. n : cells[i] \in Seq(Slot)
    BY RowTypes
  <2>2. \A i \in 1 .. n :
          cells'[i] = IF before < Len(cells[i])
                      THEN InsertedInto(cells[i], before, Nulls(count)) ELSE cells[i]
    BY <1>10, <2>1
  <2>3. ASSUME NEW i \in 1 .. n
        PROVE  /\ cells'[i] \in Seq(Slot) /\ Len(cells'[i]) \in Nat
               /\ Len(cells'[i]) <= Len(cells[i]) + count
               /\ \A j \in Int :
                    ElementOr(cells'[i], j, Null)
                      = IF j <= before THEN ElementOr(cells[i], j, Null)
                        ELSE IF j <= before + count THEN Null
                        ELSE ElementOr(cells[i], j - count, Null)
    <3> DEFINE row == cells[i]
    <3>1. row \in Seq(Slot) BY <2>1
    <3>2. cells'[i] = IF before < Len(row) THEN InsertedInto(row, before, Nulls(count)) ELSE row
      BY <2>2
    <3> DEFINE t == IF before < Len(row) THEN InsertedInto(row, before, Nulls(count)) ELSE row
    <3> HIDE DEF row
    <3>3. /\ t \in Seq(Slot) /\ Len(t) \in Nat /\ Len(t) <= Len(row) + count
          /\ \A j \in Int : ElementOr(t, j, Null) = IF j <= before THEN ElementOr(row, j, Null)
                                                  ELSE IF j <= before + count THEN Null
                                                  ELSE ElementOr(row, j - count, Null)
      BY <3>1, RowWidened
    <3>4. cells'[i] = t BY <3>2
    <3> HIDE DEF t
    <3> QED BY <3>3, <3>4 DEF row
  <2>4. cells' \in Rows /\ Len(cells') = n
    <3>1. cells' = [i \in DOMAIN cells |-> cells'[i]] BY <1>10
    <3> QED BY <2>3, <3>1, RowsMapped
  <2>5. ASSUME NEW i \in Int, NEW j \in Int
        PROVE  SlotAt(cells', i, j) = IF j <= before THEN SlotAt(cells, i, j)
                                      ELSE IF j <= before + count THEN Null
                                      ELSE SlotAt(cells, i, j - count)
    <3>1. CASE i \in 1 .. n
      <4>1. Row(cells', i) = cells'[i] /\ Row(cells, i) = cells[i]
        BY <2>4, <3>1 DEF Row, ElementOr
      <4> QED BY <2>3, <3>1, <4>1 DEF SlotAt
    <3>2. CASE i \notin 1 .. n BY <2>4, <3>2, NoSlot
    <3> QED BY <3>1, <3>2
  <2>6. RBC' = [row |-> br, col |-> b1] BY <1>5, <1>10
  <2>7. Enclosed(cells', LTC, RBC')
    <3>1. \A i \in 1 .. n : lc + Len(cells'[i]) - 1 <= b1
      <4> SUFFICES ASSUME NEW i \in 1 .. n PROVE lc + Len(cells'[i]) - 1 <= b1
        OBVIOUS
      <4> DEFINE m == Len(cells[i])
                 m1 == Len(cells'[i])
      <4>1. m \in Nat /\ lc + m - 1 <= bc /\ m1 \in Nat /\ m1 <= m + count BY <1>4, <1>10, <2>3
      <4> HIDE DEF m, m1, lc, bc
      <4>2. lc + m1 - 1 <= b1 BY <1>2, <4>1
      <4> QED BY <4>2 DEF m1
    <3>2. br = lr + Len(cells') - 1 BY <1>4, <1>10, <2>4
    <3>3. b1 \in Int /\ b1 < kMaxCols /\ lc - 1 - kMaxCols <= b1
      <4>1. bc + count < kMaxCols BY <1>6, <1>10
      <4> HIDE DEF lc, bc
      <4> QED BY <1>2, <4>1
    <3> HIDE DEF b1, lr, br, lc
    <3>4. Enclosed(cells', [row |-> lr, col |-> lc], [row |-> br, col |-> b1])
      BY <1>2, <1>3, <2>4, <3>1, <3>2, <3>3, CornersOf
    <3> QED BY <1>5, <2>6, <3>4
  <2>8. ASSUME LTC.col = 0, NEW q \in Position
        PROVE  CellAt(cells', LTC, q) = IF q.col < before THEN CellAt(cells, LTC, q)
                                        ELSE IF q.col < before + count THEN Null
                                        ELSE CellAt(cells, LTC, Below(q, "col", count))
    <3> DEFINE i == q.row - LTC.row + 1
               j == q.col - LTC.col + 1
    <3>1. /\ i \in Int /\ j \in Int
          /\ (j <= before <=> q.col < before) /\ (j <= before + count <=> q.col < before + count)
          /\ q.col - count - LTC.col + 1 = j - count
      <4>1. j = q.col + 1 /\ q.col - count - LTC.col + 1 = j - count BY <1>7, <2>8
      <4>2. i \in Int
        <5>1. q.row \in Int /\ LTC.row \in Int BY Positions, CornerTypes
        <5> QED BY <5>1
      <4> HIDE DEF i, j
      <4> QED BY <1>7, <4>1, <4>2
    <3>2. CellAt(cells, LTC, Below(q, "col", count)) = SlotAt(cells, i, j - count)
      BY <3>1, SlotMoves
    <3>3. /\ CellAt(cells', LTC, q) = SlotAt(cells', i, j)
          /\ CellAt(cells, LTC, q) = SlotAt(cells, i, j)
      BY DEF CellAt
    <3> HIDE DEF i, j
    <3> QED BY <2>5, <3>1, <3>2, <3>3
  <2>9. LTC.col = 0 => InsertedAt(cells, LTC, cells', LTC, "col", before, count)
    BY <1>7, <2>8 DEF InsertedAt
  <2>10. (LTC.col = 0 \/ before < LTC.col \/ before > RBC.col) => LTC.col = 0 BY <1>10
  <2> QED BY <1>10, <2>4, <2>7, <2>9, <2>10 DEF Answers
<1> QED BY <1>1, <1>8, <1>9, <1>10 DEF CreateCols

\* Slots cut out of a row that reaches so far.
LEMMA RowNarrowed ==
  ASSUME NEW row \in Seq(Slot), NEW from \in Nat, NEW to \in Int, EraseInside(row, from, to)
  PROVE  LET t == Erased(row, from, to) IN
         /\ t \in Seq(Slot) /\ Len(t) = Len(row) - (to - from + 1)
         /\ \A j \in Int : ElementOr(t, j, Null) = IF j <= from THEN ElementOr(row, j, Null)
                                                 ELSE ElementOr(row, j + (to - from + 1), Null)
<1> DEFINE n == Len(row)
           end == to + 1
           u == Cut(row, from, end)
<1>1. n \in Nat /\ from <= end /\ end <= n BY ElementsOfSeq DEF EraseInside
<1>2. from \in 0 .. n /\ end \in Nat /\ end - from = to - from + 1 /\ to + 2 = end + 1
  <2> HIDE DEF n
  <2> QED BY <1>1
<1>3. Erased(row, from, to) = u
  <2> DEFINE i == to + 2
  <2>1. Erased(row, from, to) = SubSeq(row, 1, from) \o SubSeq(row, i, Len(row)) BY DEF Erased
  <2>2. i = end + 1 BY <1>2
  <2> HIDE DEF i, end
  <2> QED BY <2>1, <2>2 DEF Cut
<1> HIDE DEF u, end
<1>4. u \in Seq(Slot) /\ Len(u) = IF end < n THEN n - (end - from) ELSE from
  BY <1>1, <1>2, CutElements, ZenonT(60) DEF u
<1>5. Len(u) = n - (end - from)
  <2> HIDE DEF n
  <2> QED BY <1>1, <1>2, <1>4
<1>6. \A j \in Int : ElementOr(u, j, Null) = IF j <= from THEN ElementOr(row, j, Null)
                                            ELSE ElementOr(row, j + (end - from), Null)
  BY <1>1, <1>2, CutElement DEF u
<1> DEFINE m == to - from + 1
<1>7. m = end - from BY <1>2
<1> HIDE DEF m
<1>8. /\ u \in Seq(Slot) /\ Len(u) = n - m
      /\ \A j \in Int : ElementOr(u, j, Null) = IF j <= from THEN ElementOr(row, j, Null)
                                               ELSE ElementOr(row, j + m, Null)
  BY <1>4, <1>5, <1>6, <1>7
<1> QED BY <1>3, <1>8 DEF m

\* EraseCols.
LEMMA ColsErased ==
  ASSUME cells \in Rows, Enclosed(cells, LTC, RBC), NEW first \in Nat, NEW count \in Nat \ {0},
         EraseCols(first, count)
  PROVE  /\ cells' \in Rows /\ Enclosed(cells', LTC', RBC') /\ reply' \in Answers
         /\ reply' = "Ok" /\ (first >= LTC.col \/ first + count <= LTC.col)
              => DeletedAt(cells, LTC, cells', LTC', "col", first, count)
<1> DEFINE lr == LTC.row
           br == RBC.row
           lc == LTC.col
           bc == RBC.col
           n == Len(cells)
           from == Larger(lc, first) - lc
           to == Lesser(bc, first + count - 1) - lc
<1>1. /\ kMaxCols \in Nat /\ lc \in 0 .. kMaxCols /\ bc \in Int /\ bc < kMaxCols
      /\ lc - 1 - kMaxCols <= bc
  BY CornerTypes
<1>2. /\ kMaxRows \in Nat /\ lr \in 0 .. kMaxRows /\ br \in Int /\ br < kMaxRows
      /\ lr - 1 - kMaxRows <= br /\ n \in Nat
  BY CornerTypes
<1>3. cells # <<>> => /\ n # 0 /\ br = lr + n - 1
                      /\ \A i \in 1 .. n : Len(cells[i]) \in Nat /\ lc + Len(cells[i]) - 1 <= bc
  BY RowsWithin, RowTypes DEF Enclosed
<1>4. LTC = [row |-> lr, col |-> lc] /\ RBC = [row |-> br, col |-> bc] BY CornerTypes
<1>5. ASSUME NEW q \in Position
      PROVE  /\ q.col \in 0 .. kMaxCols - 1 /\ q["col"] = q.col
             /\ IF q.col + count < kMaxCols
                THEN /\ Below(q, "col", -count) \in Position
                     /\ Below(q, "col", -count).col = q.col + count
                ELSE Below(q, "col", -count) \notin Position
             /\ CellAt(cells, LTC, Below(q, "col", -count))
                  = SlotAt(cells, q.row - LTC.row + 1, q.col + count - LTC.col + 1)
  <2>1. q.col \in 0 .. kMaxCols - 1 BY Positions
  <2>2. -count \in Int /\ q.col - (-count) = q.col + count BY <2>1
  <2>3. /\ Below(q, "col", -count) = [row |-> q.row, col |-> q.col - (-count)]
        /\ Below(q, "col", -count) \in Position <=> q.col - (-count) \in 0 .. kMaxCols - 1
    BY <2>2, PositionMoves
  <2>4. q["col"] = q.col OBVIOUS
  <2>5. q.col + count < kMaxCols <=> q.col + count \in 0 .. kMaxCols - 1 BY <1>1, <2>1
  <2>6. CellAt(cells, LTC, Below(q, "col", -count))
          = SlotAt(cells, q.row - LTC.row + 1, q.col - (-count) - LTC.col + 1)
    BY <2>2, SlotMoves
  <2> DEFINE x == q.col - (-count)
  <2>7. x = q.col + count BY <2>2
  <2>8. Below(q, "col", -count).col = x BY <2>3
  <2>9. CellAt(cells, LTC, Below(q, "col", -count)) = SlotAt(cells, q.row - LTC.row + 1, x - LTC.col + 1)
    BY <2>6
  <2>10. Below(q, "col", -count) \in Position <=> x \in 0 .. kMaxCols - 1 BY <2>3
  <2> HIDE DEF x
  <2>11. CellAt(cells, LTC, Below(q, "col", -count))
          = SlotAt(cells, q.row - LTC.row + 1, q.col + count - LTC.col + 1)
    <3> DEFINE i == q.col + count - LTC.col + 1
               k == x - LTC.col + 1
    <3>1. i = k BY <1>1, <2>1, <2>7
    <3> HIDE DEF i, k
    <3>2. CellAt(cells, LTC, Below(q, "col", -count)) = SlotAt(cells, q.row - LTC.row + 1, k)
      BY <2>9 DEF k
    <3>3. CellAt(cells, LTC, Below(q, "col", -count)) = SlotAt(cells, q.row - LTC.row + 1, i)
      BY <3>1, <3>2
    <3> QED BY <3>3 DEF i
  <2> QED BY <2>1, <2>4, <2>5, <2>7, <2>8, <2>10, <2>11
<1>6. CASE /\ first + count - 1 < lc /\ LTC' = [LTC EXCEPT !.col = @ - count]
           /\ RBC' = [RBC EXCEPT !.col = @ - count] /\ reply' = "Ok" /\ UNCHANGED cells
  <2> DEFINE l1 == lc - count
             b1 == bc - count
  <2>1. LTC' = [row |-> lr, col |-> l1] /\ RBC' = [row |-> br, col |-> b1] BY <1>4, <1>6
  <2>2. /\ l1 \in 0 .. kMaxCols /\ b1 \in Int /\ b1 < kMaxCols /\ l1 - 1 - kMaxCols <= b1
        /\ first <= l1 /\ first < lc
    <3> HIDE DEF lc, bc
    <3> QED BY <1>1, <1>6
  <2>3. Enclosed(cells, LTC', RBC')
    <3>1. cells # <<>> => \A i \in 1 .. Len(cells) : l1 + Len(cells[i]) - 1 <= b1
      <4> SUFFICES ASSUME cells # <<>>, NEW i \in 1 .. Len(cells)
                   PROVE  l1 + Len(cells[i]) - 1 <= b1
        OBVIOUS
      <4> DEFINE k == Len(cells[i])
      <4>1. k \in Nat /\ lc + k - 1 <= bc BY <1>3
      <4> HIDE DEF k, lc, bc
      <4>2. l1 + k - 1 <= b1 BY <1>1, <4>1
      <4> QED BY <4>2 DEF k
    <3>2. cells # <<>> => br = lr + Len(cells) - 1 BY <1>3
    <3> HIDE DEF l1, b1, lr, br
    <3>3. Enclosed(cells, [row |-> lr, col |-> l1], [row |-> br, col |-> b1])
      BY <1>2, <2>2, <3>1, <3>2, CornersOf
    <3> QED BY <2>1, <3>3
  <2>4. ASSUME NEW q \in Position
        PROVE  /\ CellAt(cells, LTC', q) = CellAt(cells, LTC, Below(q, "col", -count))
               /\ q.col < first => CellAt(cells, LTC', q) = Null /\ CellAt(cells, LTC, q) = Null
               /\ q.col + count >= kMaxCols => CellAt(cells, LTC', q) = Null
    <3>1. q.col - LTC'.col + 1 = q.col + count - LTC.col + 1
      <4> DEFINE x == q.col
      <4>1. x \in Nat BY <1>5
      <4> HIDE DEF x, lc
      <4>2. x - l1 + 1 = x + count - lc + 1 BY <1>1, <4>1
      <4> QED BY <2>1, <4>2 DEF x, lc
    <3>2. q.row - LTC'.row + 1 = q.row - LTC.row + 1 BY <2>1
    <3>3. CellAt(cells, LTC', q) = SlotAt(cells, q.row - LTC.row + 1, q.col + count - LTC.col + 1)
      BY <3>1, <3>2 DEF CellAt
    <3>4. q.col < first => q.col < LTC'.col /\ q.col < LTC.col
      <4>1. q.col < first => q.col < l1 /\ q.col < lc
        <5> HIDE DEF lc, l1
        <5> QED BY <1>1, <1>5, <2>2
      <4> QED BY <2>1, <4>1
    <3>5. q.col + count >= kMaxCols => q.col > RBC'.col
      <4>1. q.col + count >= kMaxCols => q.col > bc - count
        <5> HIDE DEF bc
        <5> QED BY <1>1, <1>5
      <4> QED BY <2>1, <4>1
    <3> QED BY <1>5, <2>3, <3>3, <3>4, <3>5, NothingOutside
  <2>5. DeletedAt(cells, LTC, cells, LTC', "col", first, count)
    <3> SUFFICES ASSUME NEW q \in Position
                 PROVE  CellAt(cells, LTC', q)
                          = IF q["col"] < first THEN CellAt(cells, LTC, q)
                            ELSE IF Below(q, "col", -count) \in Position
                            THEN CellAt(cells, LTC, Below(q, "col", -count))
                            ELSE Null
      BY DEF DeletedAt
    <3>1. CASE q.col + count < kMaxCols BY <1>5, <2>4, <3>1
    <3>2. CASE ~ (q.col + count < kMaxCols)
      <4>1. q.col + count >= kMaxCols BY <1>1, <1>5, <3>2
      <4> QED BY <1>5, <2>4, <3>2, <4>1
    <3> QED BY <3>1, <3>2
  <2> QED BY <1>6, <2>3, <2>5 DEF Answers
<1>7. CASE first > bc /\ reply' = "Ok" /\ UNCHANGED <<cells, LTC, RBC>>
  <2>1. ASSUME NEW q \in Position, q.col >= first PROVE CellAt(cells, LTC, q) = Null
    <3>1. q.col > RBC.col
      <4> HIDE DEF bc
      <4>1. q.col > bc BY <1>1, <1>5, <1>7, <2>1
      <4> QED BY <4>1 DEF bc
    <3> QED BY <3>1, NothingOutside
  <2>2. ASSUME NEW q \in Position, ~ (q.col < first)
        PROVE  /\ CellAt(cells, LTC, q) = Null
               /\ Below(q, "col", -count) \in Position
                    => CellAt(cells, LTC, Below(q, "col", -count)) = Null
    <3>1. q.col >= first /\ q.col + count >= first BY <1>5, <2>2
    <3>2. Below(q, "col", -count) \in Position => Below(q, "col", -count).col >= first
      BY <1>5, <3>1
    <3> QED BY <2>1, <3>1, <3>2
  <2>3. DeletedAt(cells, LTC, cells, LTC, "col", first, count)
    BY <1>5, <2>2 DEF DeletedAt
  <2> QED BY <1>7, <2>3 DEF Answers
<1>8. CASE Undefined BY <1>8 DEF Undefined, Answers
<1>9. CASE /\ first + count - 1 >= lc /\ first <= bc
           /\ \A i \in DOMAIN cells : EraseInside(cells[i], from, to)
           /\ cells' = [i \in DOMAIN cells |-> Erased(cells[i], from, to)]
           /\ RBC' = [RBC EXCEPT !.col = @ - (to - from + 1)]
           /\ reply' = "Ok" /\ UNCHANGED LTC
  <2> DEFINE m == to - from + 1
             b1 == bc - m
  <2>1. n \in Nat /\ DOMAIN cells = 1 .. n /\ \A i \in 1 .. n : cells[i] \in Seq(Slot)
    BY RowTypes
  <2>2. /\ from \in Nat /\ to \in Int /\ m \in Int
        /\ from = (IF lc < first THEN first - lc ELSE 0)
        /\ to = (IF bc < first + count - 1 THEN bc - lc ELSE first + count - 1 - lc)
    <3>1. from \in Nat /\ from = (IF lc < first THEN first - lc ELSE 0)
      <4> HIDE DEF lc
      <4> QED BY <1>1 DEF Larger
    <3>2. to \in Int /\ to = (IF bc < first + count - 1 THEN bc - lc ELSE first + count - 1 - lc)
      <4> HIDE DEF lc, bc
      <4> QED BY <1>1 DEF Lesser
    <3> HIDE DEF from, to
    <3> QED BY <3>1, <3>2
  <2>3. \A i \in 1 .. n : EraseInside(cells[i], from, to) /\ cells'[i] = Erased(cells[i], from, to)
    BY <1>9, <2>1
  <2>4. RBC' = [row |-> br, col |-> b1] BY <1>4, <1>9
  <2> HIDE DEF from, to
  <2>5. ASSUME NEW i \in 1 .. n
        PROVE  /\ cells'[i] \in Seq(Slot) /\ Len(cells'[i]) = Len(cells[i]) - m
               /\ \A j \in Int :
                    ElementOr(cells'[i], j, Null) = IF j <= from THEN ElementOr(cells[i], j, Null)
                                                   ELSE ElementOr(cells[i], j + m, Null)
    <3> DEFINE row == cells[i]
               t == Erased(row, from, to)
    <3>1. row \in Seq(Slot) /\ EraseInside(row, from, to) /\ cells'[i] = t BY <2>1, <2>3
    <3> HIDE DEF row
    <3>2. /\ t \in Seq(Slot) /\ Len(t) = Len(row) - m
          /\ \A j \in Int : ElementOr(t, j, Null) = IF j <= from THEN ElementOr(row, j, Null)
                                                  ELSE ElementOr(row, j + m, Null)
      <4>1. from \in Nat /\ to \in Int /\ row \in Seq(Slot) /\ EraseInside(row, from, to)
        BY <2>2, <3>1
      <4> QED BY ONLY <4>1, RowNarrowed, ZenonT(60)
    <3> HIDE DEF t
    <3> QED BY <3>1, <3>2 DEF row
  <2>6. cells' \in Rows /\ Len(cells') = n
    <3>1. cells' = [i \in DOMAIN cells |-> cells'[i]] BY <1>9
    <3> QED BY <2>5, <3>1, RowsMapped
  <2>7. ASSUME NEW i \in Int, NEW j \in Int
        PROVE  SlotAt(cells', i, j) = IF j <= from THEN SlotAt(cells, i, j)
                                      ELSE SlotAt(cells, i, j + m)
    <3>1. CASE i \in 1 .. n
      <4>1. Row(cells', i) = cells'[i] /\ Row(cells, i) = cells[i]
        BY <2>6, <3>1 DEF Row, ElementOr
      <4> QED BY <2>5, <3>1, <4>1 DEF SlotAt
    <3>2. CASE i \notin 1 .. n BY <2>6, <3>2, NoSlot
    <3> QED BY <3>1, <3>2
  <2>8. b1 \in Int /\ b1 < kMaxCols /\ lc - 1 - kMaxCols <= b1
    <3>1. m <= bc - lc + 1
      <4> HIDE DEF lc, bc
      <4> QED BY <1>1, <2>2
    <3>2. m >= 0 \/ (m = bc - lc + 1 - from /\ lc + from <= kMaxCols)
      <4> HIDE DEF lc, bc
      <4>1. CASE bc < first + count - 1
        <5>1. m = bc - lc + 1 - from BY <1>1, <2>2, <4>1
        <5>2. lc + from <= kMaxCols BY <1>1, <1>9, <2>2
        <5> QED BY <5>1, <5>2
      <4>2. CASE ~ (bc < first + count - 1)
        <5>1. to = first + count - 1 - lc BY <2>2, <4>2
        <5> QED BY <1>1, <1>9, <2>2, <5>1
      <4> QED BY <4>1, <4>2
    <3> HIDE DEF lc, bc, m
    <3> QED BY <1>1, <2>2, <3>1, <3>2
  <2> HIDE DEF m, b1
  <2>9. Enclosed(cells', LTC', RBC')
    <3>1. \A i \in 1 .. n : lc + Len(cells'[i]) - 1 <= b1
      <4> SUFFICES ASSUME NEW i \in 1 .. n PROVE lc + Len(cells'[i]) - 1 <= b1
        OBVIOUS
      <4>1. cells # <<>> BY <2>1
      <4> DEFINE k == Len(cells[i])
                 k1 == Len(cells'[i])
      <4>2. k \in Nat /\ lc + k - 1 <= bc /\ k1 = k - m BY <1>3, <2>5, <4>1
      <4>3. b1 = bc - m BY DEF b1
      <4> HIDE DEF k, k1, lc, bc
      <4>4. lc + k1 - 1 <= b1 BY <1>1, <2>2, <4>2, <4>3
      <4> QED BY <4>4 DEF k1
    <3>2. cells' # <<>> => br = lr + Len(cells') - 1
      <4>1. cells' # <<>> => cells # <<>>
        <5>1. cells' # <<>> => Len(cells') # 0 BY <2>6 DEF Rows
        <5> QED BY <2>6, <5>1
      <4> QED BY <1>3, <2>6, <4>1
    <3> HIDE DEF lr, br, lc
    <3>3. Enclosed(cells', [row |-> lr, col |-> lc], [row |-> br, col |-> b1])
      BY <1>1, <1>2, <2>6, <2>8, <3>1, <3>2, CornersOf
    <3> QED BY <1>4, <1>9, <2>4, <3>3
  <2>10. ASSUME first >= LTC.col, NEW q \in Position, q.col < first
         PROVE  CellAt(cells', LTC, q) = CellAt(cells, LTC, q)
    <3> DEFINE i == q.row - LTC.row + 1
               j == q.col - LTC.col + 1
    <3>1. j \in Int /\ j <= from
      <4>1. j = q.col - lc + 1 /\ first >= lc BY <2>10
      <4> HIDE DEF j, lc, bc
      <4> QED BY <1>1, <1>5, <2>2, <2>10, <4>1
    <3>2. i \in Int
      <4>1. q.row \in Int /\ LTC.row \in Int BY Positions, CornerTypes
      <4> QED BY <4>1
    <3> HIDE DEF i, j
    <3>3. SlotAt(cells', i, j) = SlotAt(cells, i, j) BY <2>7, <3>1, <3>2
    <3> QED BY <3>3 DEF CellAt, i, j
  <2>11. ASSUME first >= LTC.col, NEW q \in Position, ~ (q.col < first)
         PROVE  CellAt(cells', LTC, q) = IF Below(q, "col", -count) \in Position
                                         THEN CellAt(cells, LTC, Below(q, "col", -count))
                                         ELSE Null
    <3>1. m = (IF bc < first + count - 1 THEN bc - first + 1 ELSE count) /\ b1 = bc - m
      <4>1. first >= lc BY <2>11
      <4> HIDE DEF lc, bc
      <4> QED BY <1>1, <2>2, <4>1 DEF m, b1
    <3>2. CASE m = count /\ q.col + count < kMaxCols
      <4> DEFINE i == q.row - LTC.row + 1
                 j == q.col - LTC.col + 1
      <4>1. j \in Int /\ ~ (j <= from) /\ q.col + count - LTC.col + 1 = j + m
        <5>1. j = q.col - lc + 1 /\ first >= lc BY <2>11
        <5>2. j \in Int /\ ~ (j <= from) /\ q.col + count - lc + 1 = j + m
          <6> HIDE DEF j, lc, bc
          <6> QED BY <1>1, <1>5, <2>2, <2>11, <3>2, <5>1
        <5> QED BY <5>2
      <4>2. i \in Int
        <5>1. q.row \in Int /\ LTC.row \in Int BY Positions, CornerTypes
        <5> QED BY <5>1
      <4>3. CellAt(cells, LTC, Below(q, "col", -count)) = SlotAt(cells, i, j + m)
        BY <1>5, <4>1
      <4>4. CellAt(cells', LTC, q) = SlotAt(cells', i, j) BY DEF CellAt
      <4> HIDE DEF i, j
      <4>5. SlotAt(cells', i, j) = SlotAt(cells, i, j + m) BY <2>7, <4>1, <4>2
      <4> QED BY <1>5, <3>2, <4>3, <4>4, <4>5
    <3>3. CASE m # count \/ ~ (q.col + count < kMaxCols)
      <4>1. q.col > b1
        <5> HIDE DEF lc, bc
        <5>1. CASE m # count BY <1>1, <1>5, <2>11, <3>1, <5>1
        <5>2. CASE m = count BY <1>1, <1>5, <3>1, <3>3, <5>2
        <5> QED BY <5>1, <5>2
      <4>2. CellAt(cells', LTC, q) = Null
        <5>1. q.col > RBC'.col /\ LTC' = LTC BY <1>9, <2>4, <4>1
        <5> QED BY <2>6, <2>9, <5>1, NothingOutside
      <4>3. Below(q, "col", -count) \in Position
              => CellAt(cells, LTC, Below(q, "col", -count)) = Null
        <5> SUFFICES ASSUME Below(q, "col", -count) \in Position
                     PROVE  CellAt(cells, LTC, Below(q, "col", -count)) = Null
          OBVIOUS
        <5>1. q.col + count < kMaxCols /\ Below(q, "col", -count).col = q.col + count BY <1>5
        <5>2. bc < first + count - 1 BY <3>1, <3>3, <5>1
        <5>3. q.col + count > bc
          <6> HIDE DEF bc
          <6> QED BY <1>1, <1>5, <2>11, <5>2
        <5> QED BY <5>1, <5>3, NothingOutside
      <4> QED BY <4>2, <4>3
    <3> QED BY <3>2, <3>3
  <2>12. first >= LTC.col \/ first + count <= LTC.col => first >= LTC.col
    <3>1. first >= lc \/ first + count <= lc => first >= lc
      <4> HIDE DEF lc
      <4> QED BY <1>1, <1>9
    <3> QED BY <3>1
  <2>13. first >= LTC.col => DeletedAt(cells, LTC, cells', LTC', "col", first, count)
    BY <1>5, <1>9, <2>10, <2>11 DEF DeletedAt
  <2> QED BY <1>9, <2>6, <2>9, <2>12, <2>13 DEF Answers
<1> QED BY <1>6, <1>7, <1>8, <1>9 DEF EraseCols
-----------------------------------------------------------------------------
(* The far corner.  CheckCellsSize goes by it, so that what is within it    *)
(* has to stay there, whether there is a cell that far out or not.          *)

\* CreateEmptyCell does not take it back.
LEMMA CornerGrows ==
  ASSUME cells \in Rows, Enclosed(cells, LTC, RBC), cells # <<>>, NEW p \in Position, NEW kind,
         CreateEmptyCell(p, kind)
  PROVE  RBC.row <= RBC'.row /\ RBC.col <= RBC'.col
<1> DEFINE up == Larger(LTC.row - p.row, 0)
           left == Larger(LTC.col - p.col, 0)
           r == Larger(p.row - LTC.row, 0) + 1
           c == Larger(p.col - LTC.col, 0) + 1
           n == Len(cells)
           rows == Emptys(up) \o cells \o Emptys(r - n)
           wide == Widened(rows, left, r)
           w == Len(wide[r])
           lr == LTC.row
           lc == LTC.col
           br == RBC.row
           bc == RBC.col
<1>1. /\ LTC' = [row |-> lr - up, col |-> lc - left]
      /\ RBC' = [row |-> IF r > n /\ up = 0 THEN LTC'.row + Len(rows) - 1 ELSE br,
                 col |-> IF c > w THEN Larger(bc, LTC'.col + c - 1) ELSE bc]
  BY DEF CreateEmptyCell
<1>2. /\ p.row \in Nat /\ p.col \in Nat /\ lr \in Nat /\ lc \in Nat /\ br \in Int /\ bc \in Int
      /\ n \in Nat /\ br = lr + n - 1
  BY Positions, CornerTypes, RowsWithin
<1>3. /\ up \in Nat /\ r \in Nat \ {0} /\ left \in Nat /\ c \in Nat \ {0} /\ lc - left \in Nat
  BY <1>2, Growth
<1>4. LTC'.row = lr - up /\ LTC'.col = lc - left BY <1>1
<1> HIDE DEF up, left, r, c, wide, w, lc, bc
<1>5. bc <= RBC'.col BY <1>1, <1>2, <1>3, <1>4 DEF Larger
<1>6. ASSUME r > n, up = 0 PROVE br <= LTC'.row + Len(rows) - 1
  <2>1. /\ Emptys(up) \in Rows /\ Len(Emptys(up)) = 0
    <3>1. Larger(up, 0) = 0 BY <1>6 DEF Larger
    <3> QED BY <1>3, <3>1, Padding
  <2>2. Emptys(r - n) \in Rows /\ Len(Emptys(r - n)) = r - n
    <3>1. r - n \in Int /\ Larger(r - n, 0) = r - n
      <4> HIDE DEF n
      <4> QED BY <1>2, <1>3, <1>6 DEF Larger
    <3> QED BY <3>1, Padding
  <2> DEFINE S == Seq(Slot)
             a == Emptys(up)
             b == Emptys(r - n)
  <2>3. a \in Seq(S) /\ b \in Seq(S) /\ cells \in Seq(S) /\ Len(a) = 0 /\ Len(b) = r - n
    BY <2>1, <2>2 DEF Rows
  <2> HIDE DEF S, a, b
  <2>4. a \o cells \in Seq(S) /\ Len(a \o cells) = Len(a) + n BY <2>3, ConcatElements
  <2>5. Len((a \o cells) \o b) = Len(a \o cells) + Len(b) BY <2>3, <2>4, ConcatElements
  <2>6. Len(rows) = (0 + n) + (r - n) BY <2>3, <2>4, <2>5 DEF a, b
  <2> HIDE DEF rows, n
  <2> QED BY <1>2, <1>3, <1>4, <1>6, <2>6
<1>7. br <= RBC'.row BY <1>1, <1>2, <1>6
<1> QED BY <1>5, <1>7 DEF bc

\* An insertion takes it along, when it is not before the place.
LEMMA CornerInserted ==
  ASSUME cells \in Rows, Enclosed(cells, LTC, RBC), NEW before \in Nat, NEW count \in Nat \ {0},
         NEW i \in Nat
  PROVE  /\ CreateRows(before, count) /\ reply' = "Ok" /\ cells # <<>> /\ i <= RBC.row =>
              RBC'.col = RBC.col /\ (IF i < before THEN i ELSE i + count) <= RBC'.row
         /\ CreateCols(before, count) /\ reply' = "Ok" /\ cells # <<>> /\ i <= RBC.col =>
              RBC'.row = RBC.row /\ (IF i < before THEN i ELSE i + count) <= RBC'.col
         /\ (CreateRows(before, count) \/ CreateCols(before, count)) =>
              /\ cells' = <<>> => cells = <<>>
              /\ cells = <<>> => UNCHANGED <<LTC, RBC>>
<1>1. /\ RBC = [row |-> RBC.row, col |-> RBC.col] /\ RBC.row \in Int /\ RBC.col \in Int
      /\ LTC.row \in Nat /\ LTC.col \in Nat /\ Len(cells) \in Nat
      /\ cells # <<>> => RBC.row = LTC.row + Len(cells) - 1
  BY CornerTypes, RowsWithin
<1>2. "Ok" # "TableTooBig" OBVIOUS
<1>3. ASSUME CreateRows(before, count), reply' = "Ok", cells # <<>>, i <= RBC.row
      PROVE  RBC'.col = RBC.col /\ (IF i < before THEN i ELSE i + count) <= RBC'.row
  <2>1. CASE before - LTC.row >= Len(cells)
    <3>1. RBC' = RBC BY <1>2, <1>3, <2>1 DEF CreateRows, Refuse, RowOffset
    <3> QED BY <1>1, <1>3, <2>1, <3>1
  <2>2. CASE ~ (before - LTC.row >= Len(cells))
    <3>1. RBC' = [RBC EXCEPT !.row = @ + count]
      BY <1>2, <1>3, <2>2 DEF CreateRows, Refuse, RowOffset
    <3>2. RBC'.row = RBC.row + count /\ RBC'.col = RBC.col BY <1>1, <3>1
    <3> QED BY <1>1, <1>3, <3>2
  <2> QED BY <2>1, <2>2
<1>4. ASSUME CreateCols(before, count), reply' = "Ok", cells # <<>>, i <= RBC.col
      PROVE  RBC'.row = RBC.row /\ (IF i < before THEN i ELSE i + count) <= RBC'.col
  <2>1. CASE before > RBC.col
    <3>1. RBC' = RBC BY <1>2, <1>4, <2>1 DEF CreateCols, Refuse
    <3> QED BY <1>1, <1>4, <2>1, <3>1
  <2>2. CASE ~ (before > RBC.col)
    <3>1. RBC' = [RBC EXCEPT !.col = @ + count]
      BY <1>2, <1>4, <2>2 DEF CreateCols, Refuse
    <3>2. RBC'.row = RBC.row /\ RBC'.col = RBC.col + count BY <1>1, <3>1
    <3> QED BY <1>1, <1>4, <3>2
  <2> QED BY <2>1, <2>2
<1>5. ASSUME CreateRows(before, count) \/ CreateCols(before, count), cells = <<>>
      PROVE  UNCHANGED <<LTC, RBC>>
  BY <1>5 DEF CreateRows, CreateCols, Refuse
<1>6. ASSUME CreateRows(before, count) \/ CreateCols(before, count), cells # <<>>
      PROVE  cells' # <<>>
  <2>1. CASE UNCHANGED cells BY <1>6, <2>1
  <2>2. CASE cells' = [k \in DOMAIN cells |->
                         IF before < Len(cells[k]) THEN InsertedInto(cells[k], before, Nulls(count))
                         ELSE cells[k]]
    <3>1. 1 \in DOMAIN cells BY <1>6, RowTypes, RowsWithin
    <3>2. 1 \in DOMAIN cells' BY <2>2, <3>1
    <3>3. DOMAIN <<>> = {} OBVIOUS
    <3> QED BY <3>2, <3>3
  <2>3. CASE CreateRows(before, count) /\ ~ UNCHANGED cells
    <3> DEFINE new == Emptys(count)
               at == RowOffset(before)
    <3>1. cells' = InsertedInto(cells, at, new) /\ ~ at < 0 /\ ~ at >= Len(cells)
      BY <2>3 DEF CreateRows, Refuse
    <3>2. cells' = Spliced(cells, at, new) BY <3>1 DEF InsertedInto, Spliced
    <3>3. at \in 0 .. Len(cells) BY <1>1, <3>1 DEF RowOffset
    <3>4. count \in Int /\ new \in Rows /\ AllAre(new, <<>>) BY Padding
    <3> HIDE DEF new, at
    <3>5. Len(cells') = Len(cells) + Len(new) /\ Len(new) \in Nat BY <3>2, <3>3, <3>4, RowsSpliced
    <3>6. Len(cells) \in Nat \ {0} BY <1>6, RowsWithin
    <3>7. Len(<<>>) = 0 OBVIOUS
    <3> QED BY <3>5, <3>6, <3>7
  <2> QED BY <1>6, <2>1, <2>2, <2>3 DEF CreateCols, Refuse
<1> QED BY <1>3, <1>4, <1>5, <1>6

\* EraseRows, where it counts from the right row, is defined, and takes the
\* corner back by what it erases.
LEMMA RowCornerErased ==
  ASSUME cells \in Rows, Enclosed(cells, LTC, RBC), NEW first \in Nat, NEW count \in Nat \ {0},
         EraseRows(first, count), LTC.row = 0 \/ first + count <= LTC.row,
         cells = <<>> => RBC.row < LTC.row
  PROVE  /\ reply' = "Ok" /\ (cells' = <<>> => RBC'.row < LTC'.row)
         /\ cells # <<>> => /\ RBC'.col = RBC.col
                            /\ \A i \in Nat : i <= RBC.row /\ i < first => i <= RBC'.row
                            /\ \A i \in Nat : i <= RBC.row /\ i >= first + count => i - count <= RBC'.row
<1> DEFINE lr == LTC.row
           br == RBC.row
           n == Len(cells)
           from == Larger(0, first - lr)
           to == Lesser(first + count - 1 - lr, br)
<1>1. /\ n \in Nat /\ lr \in Nat /\ br \in Int
      /\ LTC = [row |-> lr, col |-> LTC.col] /\ RBC = [row |-> br, col |-> RBC.col]
  BY CornerTypes
<1>2. cells # <<>> => n # 0 /\ br = lr + n - 1 BY RowsWithin
<1>3. CASE /\ first + count - 1 < lr /\ LTC' = [LTC EXCEPT !.row = @ - count]
           /\ RBC' = [RBC EXCEPT !.row = @ - count] /\ reply' = "Ok" /\ UNCHANGED cells
  <2>1. LTC'.row = lr - count /\ RBC'.row = br - count /\ RBC'.col = RBC.col BY <1>1, <1>3
  <2>2. br - count < lr - count <=> br < lr
    <3> HIDE DEF lr, br
    <3> QED BY <1>1
  <2>3. cells # <<>> => \A i \in Nat : i <= br /\ i < first => i <= br - count
    <3> HIDE DEF lr, br, n
    <3> QED BY <1>1, <1>2, <1>3
  <2>4. \A i \in Nat : i <= br => i - count <= br - count
    <3> HIDE DEF br
    <3> QED BY <1>1
  <2> QED BY <1>3, <2>1, <2>2, <2>3, <2>4
<1>4. CASE first > br /\ reply' = "Ok" /\ UNCHANGED <<cells, LTC, RBC>>
  <2>1. \A i \in Nat : i <= br /\ i >= first + count => i - count <= br
    <3> HIDE DEF br
    <3> QED BY <1>1
  <2> QED BY <1>4, <2>1
<1>5. ASSUME first + count - 1 >= lr, first <= br
      PROVE  /\ lr = 0 /\ cells # <<>> /\ n # 0 /\ br = n - 1
             /\ from = first /\ to \in Int /\ from <= to /\ to + 1 <= n
             /\ to = IF first + count - 1 < br THEN first + count - 1 ELSE br
  <2>1. lr = 0
    <3> HIDE DEF lr
    <3>1. lr = 0 \/ first + count <= lr BY DEF lr
    <3> QED BY <1>1, <1>5, <3>1
  <2>2. cells # <<>> 
    <3>1. ~ (br < lr)
      <4> HIDE DEF lr, br
      <4> QED BY <1>1, <1>5, <2>1
    <3> QED BY <3>1
  <2> HIDE DEF lr, br, n
  <2>3. n # 0 /\ br = n - 1 BY <1>1, <1>2, <2>1, <2>2
  <2>4. from = first BY <2>1 DEF Larger
  <2>5. to = IF first + count - 1 < br THEN first + count - 1 ELSE br BY <2>1 DEF Lesser
  <2> HIDE DEF from, to
  <2> QED BY <1>1, <1>5, <2>1, <2>2, <2>3, <2>4, <2>5, SMTT(60)
<1>7. CASE /\ first + count - 1 >= lr /\ first <= br /\ cells' = Erased(cells, from, to)
           /\ RBC' = [RBC EXCEPT !.row = @ - (to - from + 1)] /\ reply' = "Ok" /\ UNCHANGED LTC
  <2> DEFINE end == to + 1
             b1 == br - (to - from + 1)
  <2>1. RBC'.row = b1 /\ RBC'.col = RBC.col /\ LTC'.row = lr BY <1>1, <1>7
  <2>2. /\ lr = 0 /\ n # 0 /\ br = n - 1 /\ from = first /\ to \in Int /\ from <= to /\ to + 1 <= n
        /\ to = IF first + count - 1 < br THEN first + count - 1 ELSE br
    <3> HIDE DEF lr, br, n, from, to
    <3> QED BY <1>5, <1>7
  <2> HIDE DEF lr, br, n, from, to
  <2>3. cells' = Cut(cells, from, end)
    <3>1. to + 1 + 1 = to + 2 BY <2>2
    <3>2. SubSeq(cells, to + 1 + 1, Len(cells)) = SubSeq(cells, to + 2, Len(cells)) BY <3>1
    <3> QED BY <1>7, <3>2 DEF Erased, Cut
  <2>4. end \in 0 .. n /\ from \in 0 .. n /\ from <= end BY <1>1, <2>2
  <2>5. Len(cells') = n - (end - from)
    <3> HIDE DEF end
    <3> QED BY <2>3, <2>4, RowsCut DEF n
  <2>6. b1 = Len(cells') - 1
    <3> DEFINE k == Len(cells')
    <3>1. k = n - (end - from) BY <2>5
    <3> HIDE DEF k
    <3>2. b1 = k - 1 BY <1>1, <2>2, <3>1
    <3> QED BY <3>2 DEF k
  <2>7. Len(<<>>) = 0 OBVIOUS
  <2>8. cells' = <<>> => b1 < lr BY <2>2, <2>6, <2>7
  <2>9. \A i \in Nat : i <= br /\ i < first => i <= b1 BY <1>1, <2>2
  <2>10. \A i \in Nat : i <= br /\ i >= first + count => i - count <= b1 BY <1>1, <2>2
  <2> HIDE DEF b1
  <2> QED BY <1>7, <2>1, <2>8, <2>9, <2>10 DEF br, lr
<1>8. first + count - 1 < lr \/ (first + count - 1 >= lr /\ first > br)
        \/ (first + count - 1 >= lr /\ first <= br)
  <2> HIDE DEF lr, br
  <2> QED BY <1>1
<1>9. CASE first + count - 1 >= lr /\ first <= br
  <2>1. EraseInside(cells, from, to)
    <3> HIDE DEF lr, br, from, to
    <3>1. from <= to /\ to \in Int /\ to + 1 <= n /\ from = first BY <1>5, <1>9
    <3> QED BY <3>1 DEF EraseInside, n
  <2>2. ~ (first + count - 1 < lr) /\ ~ (first > br)
    <3> HIDE DEF lr, br
    <3> QED BY <1>1, <1>9
  <2>3. /\ cells' = Erased(cells, from, to) /\ RBC' = [RBC EXCEPT !.row = @ - (to - from + 1)]
        /\ reply' = "Ok" /\ UNCHANGED LTC
    <3> HIDE DEF from, to
    <3> QED BY <2>1, <2>2 DEF EraseRows, from, to
  <2> QED BY <1>7, <1>9, <2>3
<1> QED BY <1>3, <1>4, <1>8, <1>9 DEF EraseRows

\* EraseCols, where it does not reach across the left edge, likewise; it is
\* defined where every row reaches as far as the slots it erases.
LEMMA ColCornerErased ==
  ASSUME cells \in Rows, Enclosed(cells, LTC, RBC), NEW first \in Nat, NEW count \in Nat \ {0},
         EraseCols(first, count), first >= LTC.col \/ first + count <= LTC.col
  PROVE  /\ LTC'.row = LTC.row /\ RBC'.row = RBC.row /\ (cells' = <<>> => cells = <<>>)
         /\ \/ reply' = "Ok"
            \/ /\ first + count > LTC.col /\ first <= RBC.col
               /\ \E r \in DOMAIN cells :
                    LTC.col + Len(cells[r]) <= Lesser(RBC.col, first + count - 1)
         /\ cells # <<>> /\ reply' = "Ok" =>
              /\ \A i \in Nat : i <= RBC.col /\ i < first => i <= RBC'.col
              /\ \A i \in Nat : i <= RBC.col /\ i >= first + count => i - count <= RBC'.col
<1> DEFINE lc == LTC.col
           bc == RBC.col
           n == Len(cells)
           from == Larger(lc, first) - lc
           to == Lesser(bc, first + count - 1) - lc
<1>1. /\ n \in Nat /\ lc \in Nat /\ bc \in Int
      /\ LTC = [row |-> LTC.row, col |-> lc] /\ RBC = [row |-> RBC.row, col |-> bc]
      /\ DOMAIN cells = 1 .. n /\ \A r \in 1 .. n : Len(cells[r]) \in Nat
  <2>1. DOMAIN cells = 1 .. n /\ \A r \in 1 .. n : Len(cells[r]) \in Nat BY RowTypes
  <2> QED BY <2>1, CornerTypes
<1>2. cells # <<>> => 1 \in DOMAIN cells /\ lc - 1 <= bc
  <2> SUFFICES ASSUME cells # <<>> PROVE 1 \in DOMAIN cells /\ lc - 1 <= bc OBVIOUS
  <2>1. n \in Nat \ {0} /\ lc - 1 <= bc BY RowsWithin
  <2> HIDE DEF n
  <2> QED BY <1>1, <2>1
<1>3. CASE /\ first + count - 1 < lc /\ LTC' = [LTC EXCEPT !.col = @ - count]
           /\ RBC' = [RBC EXCEPT !.col = @ - count] /\ reply' = "Ok" /\ UNCHANGED cells
  <2>1. LTC'.row = LTC.row /\ RBC'.col = bc - count /\ RBC'.row = RBC.row BY <1>1, <1>3
  <2>2. cells # <<>> => \A i \in Nat : i <= bc /\ i < first => i <= bc - count
    <3> HIDE DEF lc, bc, n
    <3> QED BY <1>1, <1>2, <1>3
  <2>3. \A i \in Nat : i <= bc => i - count <= bc - count
    <3> HIDE DEF bc
    <3> QED BY <1>1
  <2> QED BY <1>3, <2>1, <2>2, <2>3
<1>4. CASE first > bc /\ reply' = "Ok" /\ UNCHANGED <<cells, LTC, RBC>>
  <2>1. \A i \in Nat : i <= bc /\ i >= first + count => i - count <= bc
    <3> HIDE DEF bc
    <3> QED BY <1>1
  <2> QED BY <1>4, <2>1
<1>5. CASE first + count - 1 >= lc /\ first <= bc
  <2>1. /\ lc <= first /\ from = first - lc
        /\ to + 1 = (IF bc < first + count - 1 THEN bc ELSE first + count - 1) - lc + 1
        /\ ~ (first + count - 1 < lc) /\ ~ (first > bc) /\ first + count > lc
        /\ from \in Int /\ to \in Int /\ from <= to + 1
    <3>1. first >= lc \/ first + count <= lc BY DEF lc
    <3> HIDE DEF lc, bc
    <3>2. lc <= first BY <1>1, <1>5, <3>1
    <3>3. Larger(lc, first) = first BY <1>1, <3>2 DEF Larger
    <3>4. Lesser(bc, first + count - 1) = IF bc < first + count - 1 THEN bc ELSE first + count - 1
      BY DEF Lesser
    <3> QED BY <1>1, <1>5, <3>2, <3>3, <3>4
  <2>2. CASE \A i \in DOMAIN cells : EraseInside(cells[i], from, to)
    <3>1. /\ cells' = [i \in DOMAIN cells |-> Erased(cells[i], from, to)]
          /\ RBC' = [RBC EXCEPT !.col = @ - (to - from + 1)]
          /\ reply' = "Ok" /\ UNCHANGED LTC
      <4> HIDE DEF from, to
      <4> QED BY <2>1, <2>2 DEF EraseCols, from, to
    <3>2. RBC'.col = bc - (to - from + 1) /\ RBC'.row = RBC.row BY <1>1, <3>1
    <3>3. cells' = <<>> => cells = <<>>
      <4>1. DOMAIN cells' = DOMAIN cells BY <3>1
      <4>2. DOMAIN <<>> = {} OBVIOUS
      <4> QED BY <1>2, <4>1, <4>2
    <3>4. /\ \A i \in Nat : i <= bc /\ i < first => i <= bc - (to - from + 1)
          /\ \A i \in Nat : i <= bc /\ i >= first + count => i - count <= bc - (to - from + 1)
      <4> HIDE DEF lc, bc, from, to
      <4> QED BY <1>1, <2>1, SMTT(60)
    <3> HIDE DEF from, to
    <3> QED BY <3>1, <3>2, <3>3, <3>4
  <2>3. CASE ~ \A i \in DOMAIN cells : EraseInside(cells[i], from, to)
    <3>1. Undefined
      <4> HIDE DEF from, to
      <4> QED BY <2>1, <2>3 DEF EraseCols, from, to
    <3>2. PICK i \in DOMAIN cells : ~ EraseInside(cells[i], from, to) BY <2>3
    <3>3. Len(cells[i]) \in Nat BY <1>1
    <3>4. lc + Len(cells[i]) <= Lesser(bc, first + count - 1)
      <4>1. ~ (to + 1 <= Len(cells[i]))
        <5> HIDE DEF from, to
        <5> QED BY <2>1, <3>2 DEF EraseInside
      <4> DEFINE k == Len(cells[i])
                 m == Lesser(bc, first + count - 1)
      <4>2. m \in Int
        <5> HIDE DEF bc
        <5> QED BY <1>1 DEF Lesser
      <4>3. to = m - lc OBVIOUS
      <4> HIDE DEF k, m, lc, to
      <4>4. ~ (m - lc + 1 <= k) BY <4>1, <4>3 DEF k
      <4>5. lc + k <= m BY <1>1, <3>3, <4>2, <4>4 DEF k
      <4> QED BY <4>5 DEF k, m
    <3> QED BY <1>5, <2>1, <3>1, <3>4 DEF Undefined
  <2> QED BY <2>2, <2>3
<1>6. first + count - 1 < lc \/ (first + count - 1 >= lc /\ first > bc)
        \/ (first + count - 1 >= lc /\ first <= bc)
  <2> HIDE DEF lc, bc
  <2> QED BY <1>1
<1>7. CASE first + count - 1 >= lc /\ first > bc
  <2>1. ~ (first + count - 1 < lc) /\ ~ (first <= bc)
    <3> HIDE DEF lc, bc
    <3> QED BY <1>1, <1>7
  <2> QED BY <1>4, <1>7, <2>1 DEF EraseCols
<1>8. CASE first + count - 1 < lc
  <2>1. ~ (first + count - 1 >= lc)
    <3> HIDE DEF lc
    <3> QED BY <1>1, <1>8
  <2> QED BY <1>3, <1>8, <2>1 DEF EraseCols
<1> QED BY <1>5, <1>6, <1>7, <1>8
-----------------------------------------------------------------------------
(* The invariant.                                                           *)

\* An empty sheet has its corners at the origin and no rows.
LEMMA InitHolds == Init => IInv
<1> SUFFICES ASSUME Init PROVE IInv OBVIOUS
<1>1. /\ cells = <<>> /\ LTC = [row |-> kMaxRows, col |-> kMaxCols]
      /\ RBC = [row |-> -1, col |-> -1] /\ reply = "Ok"
  BY DEF Init
<1>2. kMaxRows \in Nat \ {0} /\ kMaxCols \in Nat \ {0} BY Positions
<1>3. cells \in Rows
  <2> DEFINE S == Seq(Slot)
  <2>1. <<>> \in Seq(S) OBVIOUS
  <2> QED BY <1>1, <2>1 DEF Rows
<1>4. -1 < kMaxRows /\ -1 < kMaxCols /\ kMaxRows - 1 - kMaxRows <= -1 /\ kMaxCols - 1 - kMaxCols <= -1
  BY <1>2
<1>5. Enclosed(cells, LTC, RBC) BY <1>1, <1>2, <1>3, <1>4 DEF Enclosed
<1> QED BY <1>1, <1>3, <1>5 DEF IInv, Answers

\* Each call keeps the invariant, by the lemma about its operation.
LEMMA NextKeeps == IInv /\ Next => IInv'
<1> SUFFICES ASSUME IInv, Next PROVE IInv' OBVIOUS
<1>1. cells \in Rows /\ Enclosed(cells, LTC, RBC) BY DEF IInv
<1>2. ASSUME NEW p \in Position, NEW kind \in Kind, SetCell(p, kind) PROVE IInv'
  <2>1. CASE Cell(p) = Null
    <3>1. CreateEmptyCell(p, kind) /\ reply' = "Ok" BY <1>2, <2>1 DEF SetCell
    <3> QED BY <1>1, <3>1, CellCreated DEF IInv, Answers
  <2>2. CASE Cell(p) # Null
    <3>1. cells' = Put(p, kind) /\ LTC' = LTC /\ RBC' = RBC /\ reply' = "Ok"
      BY <1>2, <2>2 DEF SetCell
    <3>2. Put(p, kind) \in Rows /\ Enclosed(Put(p, kind), LTC, RBC)
      BY <1>1, <2>2, SlotChanged DEF Slot
    <3> QED BY <3>1, <3>2 DEF IInv, Answers
  <2> QED BY <2>1, <2>2
<1>3. ASSUME NEW p \in Position, DeleteCell(p) PROVE IInv'
  <2>1. cells' = Put(p, Null) /\ LTC' = LTC /\ RBC' = RBC /\ reply' = "Ok" /\ Cell(p) # Null
    BY <1>3 DEF DeleteCell
  <2>2. Put(p, Null) \in Rows /\ Enclosed(Put(p, Null), LTC, RBC)
    BY <1>1, <2>1, SlotChanged DEF Slot
  <2> QED BY <2>1, <2>2 DEF IInv, Answers
<1>4. ASSUME NEW from \in Nat, NEW count \in Nat \ {0},
             CreateRows(from, count) \/ EraseRows(from, count)
                \/ CreateCols(from, count) \/ EraseCols(from, count)
      PROVE  IInv'
  BY <1>1, <1>4, RowsCreated, RowsErased, ColsCreated, ColsErased DEF IInv
<1>5. ASSUME NEW max \in Nat, NEW from \in 0 .. max - 1, NEW count \in 1 .. max - from
      PROVE  from \in Nat /\ count \in Nat \ {0}
  OBVIOUS
<1>6. kMaxRows \in Nat /\ kMaxCols \in Nat BY Positions
<1> QED BY <1>2, <1>3, <1>4, <1>5, <1>6 DEF Next

\* Every reachable storage lies within its corners.
THEOREM Invariance == Spec => []IInv
<1>1. IInv /\ UNCHANGED vars => IInv' BY DEF IInv, vars
<1>2. IInv /\ [Next]_vars => IInv' BY <1>1, NextKeeps
<1> QED BY InitHolds, <1>2, PTL DEF Spec

\* The types, and how far the corners get.
THEOREM TypeCorrect == Spec => []TypeOK
<1>1. IInv => TypeOK
  <2> SUFFICES ASSUME IInv PROVE TypeOK OBVIOUS
  <2>1. cells \in Rows /\ Enclosed(cells, LTC, RBC) /\ reply \in Answers BY DEF IInv
  <2> DEFINE lr == LTC.row
             br == RBC.row
             lc == LTC.col
             bc == RBC.col
  <2>2. /\ kMaxRows \in Nat /\ lr \in 0 .. kMaxRows /\ br \in Int /\ br < kMaxRows
        /\ lr - 1 - kMaxRows <= br
        /\ kMaxCols \in Nat /\ lc \in 0 .. kMaxCols /\ bc \in Int /\ bc < kMaxCols
        /\ lc - 1 - kMaxCols <= bc
    BY <2>1, CornerTypes
  <2>3. {lr, br} \subseteq -1 - kMaxRows .. kMaxRows /\ {lc, bc} \subseteq -1 - kMaxCols .. kMaxCols
    <3> HIDE DEF lr, br, lc, bc
    <3> QED BY <2>2
  <2> QED BY <2>1, <2>3 DEF TypeOK, Rows, Slot, Answers
<1> QED BY <1>1, Invariance, PTL

\* No cell is beyond the corners that CheckCellsSize looks at.
THEOREM CornersHold == Spec => []CornersEnclose
<1>1. IInv => CornersEnclose
  <2> SUFFICES ASSUME IInv, cells # <<>>
               PROVE  /\ RBC.row = LTC.row + Len(cells) - 1
                      /\ \A r \in DOMAIN cells : LTC.col + Len(cells[r]) - 1 <= RBC.col
                      /\ LTC.row >= 0 /\ LTC.col >= 0 /\ RBC.row < kMaxRows /\ RBC.col < kMaxCols
    BY DEF CornersEnclose
  <2>1. cells \in Rows /\ Enclosed(cells, LTC, RBC) BY DEF IInv
  <2>2. DOMAIN cells = 1 .. Len(cells) BY <2>1, RowTypes
  <2> QED BY <2>1, <2>2 DEF Enclosed
<1> QED BY <1>1, Invariance, PTL
-----------------------------------------------------------------------------
(* What the steps do to the sheet.                                          *)

\* What GetCell sees is what the slots hold.
LEMMA ViewIsSlots ==
  IInv => \A p \in Position : Cell(p) = CellAt(cells, LTC, p)
BY SlotIsRead DEF IInv, Cell

\* A step that is described changes the view as its lemma says.
LEMMA ViewChanges ==
  ASSUME IInv, IInv'
  PROVE  /\ \A x : \A p \in Position :
              (\A q \in Position : CellAt(cells', LTC', q) = IF q = p THEN x ELSE CellAt(cells, LTC, q))
                => View' = [View EXCEPT ![p] = x]
         /\ \A axis \in {"row", "col"}, before \in Nat, count \in Nat \ {0} :
              InsertedAt(cells, LTC, cells', LTC', axis, before, count)
                => View' = ViewAfterInsertion(axis, before, count)
         /\ \A axis \in {"row", "col"}, first \in Nat, count \in Nat \ {0} :
              DeletedAt(cells, LTC, cells', LTC', axis, first, count)
                => View' = ViewAfterDeletion(axis, first, count)
<1>1. cells \in Rows /\ cells' \in Rows BY DEF IInv
<1>2. \A p \in Position : View[p] = CellAt(cells, LTC, p)
  BY ViewIsSlots DEF View
<1>3. View' = [p \in Position |-> CellAt(cells', LTC', p)]
  <2>1. \A p \in Position : Cell(p)' = CellAt(cells', LTC', p) BY <1>1, SlotIsRead DEF Cell
  <2> QED BY <2>1 DEF View
<1>4. View = [p \in Position |-> View[p]] BY DEF View
<1> HIDE DEF View
<1>5. ASSUME NEW p \in Position, NEW x,
             \A q \in Position : CellAt(cells', LTC', q) = IF q = p THEN x ELSE CellAt(cells, LTC, q)
      PROVE  View' = [View EXCEPT ![p] = x]
  <2>1. [View EXCEPT ![p] = x] = [q \in Position |-> IF q = p THEN x ELSE View[q]] BY <1>4
  <2> QED BY <1>2, <1>3, <1>5, <2>1
<1>6. ASSUME NEW axis \in {"row", "col"}, NEW before \in Nat, NEW count \in Nat \ {0},
             NEW q \in Position, ~ (q[axis] < before), ~ (q[axis] < before + count)
      PROVE  View[Below(q, axis, count)] = CellAt(cells, LTC, Below(q, axis, count))
  <2>1. Below(q, axis, count) \in Position
    <3>1. q.row \in 0 .. kMaxRows - 1 /\ q.col \in 0 .. kMaxCols - 1 BY Positions
    <3>2. CASE axis = "row"
      <4>1. q.row - count \in 0 .. kMaxRows - 1 BY <1>6, <3>1, <3>2, Positions
      <4> QED BY <3>2, <4>1, PositionMoves
    <3>3. CASE axis = "col"
      <4>1. q.col - count \in 0 .. kMaxCols - 1 BY <1>6, <3>1, <3>3, Positions
      <4> QED BY <3>3, <4>1, PositionMoves
    <3> QED BY <3>2, <3>3
  <2> QED BY <1>2, <2>1
<1>7. ASSUME NEW axis \in {"row", "col"}, NEW before \in Nat, NEW count \in Nat \ {0},
             InsertedAt(cells, LTC, cells', LTC', axis, before, count)
      PROVE  View' = ViewAfterInsertion(axis, before, count)
  BY <1>2, <1>3, <1>6, <1>7 DEF InsertedAt, ViewAfterInsertion
<1>8. ASSUME NEW axis \in {"row", "col"}, NEW first \in Nat, NEW count \in Nat \ {0},
             DeletedAt(cells, LTC, cells', LTC', axis, first, count)
      PROVE  View' = ViewAfterDeletion(axis, first, count)
  BY <1>2, <1>3, <1>8 DEF DeletedAt, ViewAfterDeletion
<1> QED BY <1>5, <1>7, <1>8

\* Setting or clearing a cell changes that cell and no other, for all ways the
\* storage has to grow.
THEOREM OthersStay == Spec => CellsStayPut
<1> DEFINE Stay == \A p \in Position :
                     /\ \A kind \in Kind : SetCell(p, kind) => View' = [View EXCEPT ![p] = kind]
                     /\ DeleteCell(p) => View' = [View EXCEPT ![p] = Null]
<1>1. ASSUME IInv, IInv' PROVE Stay
  <2>1. cells \in Rows /\ Enclosed(cells, LTC, RBC) BY <1>1 DEF IInv
  <2>2. ASSUME NEW p \in Position, NEW kind \in Kind, SetCell(p, kind)
        PROVE  View' = [View EXCEPT ![p] = kind]
    <3>1. \A q \in Position :
            CellAt(cells', LTC', q) = IF q = p THEN kind ELSE CellAt(cells, LTC, q)
      <4>1. CASE Cell(p) = Null
        <5>1. CreateEmptyCell(p, kind) BY <2>2, <4>1 DEF SetCell
        <5> QED BY <2>1, <5>1, CellCreated
      <4>2. CASE Cell(p) # Null
        <5>1. cells' = Put(p, kind) /\ LTC' = LTC BY <2>2, <4>2 DEF SetCell
        <5>2. kind \in Slot BY DEF Slot
        <5> QED BY <2>1, <4>2, <5>1, <5>2, SlotChanged
      <4> QED BY <4>1, <4>2
    <3> QED BY <1>1, <3>1, ViewChanges
  <2>3. ASSUME NEW p \in Position, DeleteCell(p)
        PROVE  View' = [View EXCEPT ![p] = Null]
    <3>1. cells' = Put(p, Null) /\ LTC' = LTC /\ Cell(p) # Null /\ Null \in Slot
      BY <2>3 DEF DeleteCell, Slot
    <3>2. \A q \in Position :
            CellAt(cells', LTC', q) = IF q = p THEN Null ELSE CellAt(cells, LTC, q)
      BY <2>1, <3>1, SlotChanged
    <3> QED BY <1>1, <3>2, ViewChanges
  <2> QED BY <2>2, <2>3
<1> QED BY <1>1, Invariance, PTL DEF CellsStayPut

LEMMA SideType == Side \in Nat
BY Positions DEF Side, Larger

\* Insertions move every cell as they should.
THEOREM InsertedExactly == Spec => InsertionMoves
<1> DEFINE Move == reply' = "Ok" => \A from \in 0 .. Side, count \in 1 .. Side :
                     /\ CreateRows(from, count) => View' = ViewAfterInsertion("row", from, count)
                     /\ (LTC.col = 0 \/ from < LTC.col \/ from > RBC.col) /\ CreateCols(from, count)
                          => View' = ViewAfterInsertion("col", from, count)
<1>1. ASSUME IInv, IInv' PROVE Move
  <2>1. cells \in Rows /\ Enclosed(cells, LTC, RBC) BY <1>1 DEF IInv
  <2> SUFFICES ASSUME reply' = "Ok", NEW from \in 0 .. Side, NEW count \in 1 .. Side
               PROVE  /\ CreateRows(from, count) => View' = ViewAfterInsertion("row", from, count)
                      /\ (LTC.col = 0 \/ from < LTC.col \/ from > RBC.col) /\ CreateCols(from, count)
                           => View' = ViewAfterInsertion("col", from, count)
    OBVIOUS
  <2>2. from \in Nat /\ count \in Nat \ {0} BY SideType
  <2>3. ASSUME CreateRows(from, count) PROVE View' = ViewAfterInsertion("row", from, count)
    <3>1. InsertedAt(cells, LTC, cells', LTC', "row", from, count) BY <2>1, <2>2, <2>3, RowsCreated
    <3> QED BY <1>1, <2>2, <3>1, ViewChanges
  <2>4. ASSUME LTC.col = 0 \/ from < LTC.col \/ from > RBC.col, CreateCols(from, count)
        PROVE  View' = ViewAfterInsertion("col", from, count)
    <3>1. InsertedAt(cells, LTC, cells', LTC', "col", from, count) BY <2>1, <2>2, <2>4, ColsCreated
    <3> QED BY <1>1, <2>2, <3>1, ViewChanges
  <2> QED BY <2>3, <2>4
<1> QED BY <1>1, Invariance, PTL DEF InsertionMoves

\* Deletions that do not reach across an edge of what is stored do, too.
THEOREM DeletedExactly == Spec => DeletionMoves
<1> DEFINE Move == reply' = "Ok" => \A from \in 0 .. Side, count \in 1 .. Side :
                     /\ (from >= LTC.row \/ from + count <= LTC.row) /\ EraseRows(from, count)
                          => View' = ViewAfterDeletion("row", from, count)
                     /\ (from >= LTC.col \/ from + count <= LTC.col) /\ EraseCols(from, count)
                          => View' = ViewAfterDeletion("col", from, count)
<1>1. ASSUME IInv, IInv' PROVE Move
  <2>1. cells \in Rows /\ Enclosed(cells, LTC, RBC) BY <1>1 DEF IInv
  <2> SUFFICES ASSUME reply' = "Ok", NEW from \in 0 .. Side, NEW count \in 1 .. Side
               PROVE  /\ (from >= LTC.row \/ from + count <= LTC.row) /\ EraseRows(from, count)
                           => View' = ViewAfterDeletion("row", from, count)
                      /\ (from >= LTC.col \/ from + count <= LTC.col) /\ EraseCols(from, count)
                           => View' = ViewAfterDeletion("col", from, count)
    OBVIOUS
  <2>2. from \in Nat /\ count \in Nat \ {0} BY SideType
  <2>3. ASSUME from >= LTC.row \/ from + count <= LTC.row, EraseRows(from, count)
        PROVE  View' = ViewAfterDeletion("row", from, count)
    <3>1. DeletedAt(cells, LTC, cells', LTC', "row", from, count) BY <2>1, <2>2, <2>3, RowsErased
    <3> QED BY <1>1, <2>2, <3>1, ViewChanges
  <2>4. ASSUME from >= LTC.col \/ from + count <= LTC.col, EraseCols(from, count)
        PROVE  View' = ViewAfterDeletion("col", from, count)
    <3>1. DeletedAt(cells, LTC, cells', LTC', "col", from, count) BY <2>1, <2>2, <2>4, ColsErased
    <3> QED BY <1>1, <2>2, <3>1, ViewChanges
  <2> QED BY <2>3, <2>4
<1> QED BY <1>1, Invariance, PTL DEF DeletionMoves
-----------------------------------------------------------------------------
(* What is printed.                                                         *)

\* The positions with text are those of the slots with text.
LEMMA TextSlots ==
  ASSUME IInv
  PROVE  /\ \A p \in Filled :
              LET r == p.row - LTC.row + 1
                  c == p.col - LTC.col + 1
              IN  /\ r \in 1 .. Len(cells) /\ c \in 1 .. Len(cells[r])
                  /\ cells[r][c] = "text" /\ HasText(r)
         /\ \A r \in 1 .. Len(cells) : \A c \in 1 .. Len(cells[r]) :
              cells[r][c] = "text" =>
                [row |-> LTC.row + r - 1, col |-> LTC.col + c - 1] \in Filled
<1>1. /\ DOMAIN cells = 1 .. Len(cells) /\ Len(cells) \in Nat
      /\ \A r \in 1 .. Len(cells) :
           DOMAIN cells[r] = 1 .. Len(cells[r]) /\ Len(cells[r]) \in Nat
  BY RowTypes, ElementsOfSeq DEF IInv
<1>2. \A p \in Position :
        LET r == p.row - LTC.row + 1
            c == p.col - LTC.col + 1
        IN  View[p] = IF r \in DOMAIN cells /\ c \in DOMAIN cells[r] THEN cells[r][c] ELSE Null
  BY DEF View, Cell
<1>3. ASSUME NEW p \in Filled
      PROVE  LET r == p.row - LTC.row + 1
                 c == p.col - LTC.col + 1
             IN  /\ r \in 1 .. Len(cells) /\ c \in 1 .. Len(cells[r])
                 /\ cells[r][c] = "text" /\ HasText(r)
  <2> DEFINE r == p.row - LTC.row + 1
             c == p.col - LTC.col + 1
  <2>1. p \in Position /\ View[p] = "text" /\ Null # "text" BY DEF Filled, Null
  <2>2. View[p] = IF r \in DOMAIN cells /\ c \in DOMAIN cells[r] THEN cells[r][c] ELSE Null
    BY <1>2, <2>1
  <2> HIDE DEF r, c
  <2>3. r \in DOMAIN cells /\ c \in DOMAIN cells[r] /\ cells[r][c] = "text" BY <2>1, <2>2
  <2>4. HasText(r) BY <2>3 DEF HasText
  <2>5. r \in 1 .. Len(cells) /\ c \in 1 .. Len(cells[r]) BY <1>1, <2>3
  <2> QED BY <2>3, <2>4, <2>5 DEF r, c
<1>4. ASSUME NEW r \in 1 .. Len(cells), NEW c \in 1 .. Len(cells[r]), cells[r][c] = "text"
      PROVE  [row |-> LTC.row + r - 1, col |-> LTC.col + c - 1] \in Filled
  <2> DEFINE n == Len(cells)
             w == Len(cells[r])
             lr == LTC.row
             lc == LTC.col
             p == [row |-> lr + r - 1, col |-> lc + c - 1]
  <2>1. n \in Nat /\ w \in Nat /\ r \in 1 .. n /\ c \in 1 .. w BY <1>1
  <2>2. cells # <<>>
    <3>1. Len(<<>>) = 0 OBVIOUS
    <3> QED BY <2>1, <3>1
  <2>3. /\ lr \in 0 .. kMaxRows /\ lc \in 0 .. kMaxCols /\ RBC.row \in Int /\ RBC.col \in Int
        /\ RBC.row = lr + n - 1 /\ lc + w - 1 <= RBC.col
        /\ RBC.row < kMaxRows /\ RBC.col < kMaxCols
    BY <2>2 DEF IInv, Enclosed
  <2> HIDE DEF n, w, lr, lc
  <2>4. lr + r - 1 \in 0 .. kMaxRows - 1 /\ lc + c - 1 \in 0 .. kMaxCols - 1
    BY <2>1, <2>3, BoundsAssumption
  <2>5. p \in Position BY <2>4 DEF Position
  <2>6. p.row - lr + 1 = r /\ p.col - lc + 1 = c BY <2>1, <2>3
  <2>7. View[p] = cells[r][c] BY <1>1, <1>2, <2>1, <2>5, <2>6 DEF lr, lc, n, w
  <2> QED BY <1>4, <2>5, <2>7 DEF Filled, lr, lc
<1> QED BY <1>3, <1>4

\* FindBottomOffset counts the rows below the last one with text ...
LEMMA LastRowWithText ==
  ASSUME IInv, NEW s \in 1 .. Len(cells), HasText(s)
  PROVE  \E m \in 1 .. Len(cells) :
           /\ RowsWithoutText = Len(cells) - m /\ HasText(m)
           /\ \A r \in 1 .. Len(cells) : HasText(r) => r <= m
<1> DEFINE n == Len(cells)
           P == {r \in 1 .. n : HasText(r)}
<1>1. n \in Nat /\ DOMAIN cells = 1 .. n BY RowTypes DEF IInv
<1> HIDE DEF n
<1>2. P \in SUBSET Nat /\ P # {} /\ \A r \in P : r <= n BY <1>1 DEF n
<1>3. PICK m \in P : \A r \in P : r <= m
  <2> HIDE DEF P
  <2> QED BY <1>1, <1>2, GreatestNat
<1>4. m \in 1 .. n /\ HasText(m) /\ \A r \in 1 .. n : HasText(r) => r <= m BY <1>3
<1>5. \A r \in 1 .. n : (\A t \in r .. n : ~ HasText(t)) <=> r \in m + 1 .. n
  BY <1>1, <1>4
<1>6. RowsWithoutText = Cardinality(m + 1 .. n)
  <2>1. {r \in DOMAIN cells : \A t \in r .. Len(cells) : ~ HasText(t)} = m + 1 .. n
    <3>1. m + 1 .. n \subseteq 1 .. n BY <1>1, <1>4
    <3> QED BY <1>1, <1>5, <3>1 DEF n
  <2> QED BY <2>1 DEF RowsWithoutText
<1>7. Cardinality(m + 1 .. n) = n - m
  <2>1. m + 1 \in Int /\ n \in Int BY <1>1, <1>4
  <2>2. Cardinality(m + 1 .. n) = IF m + 1 > n THEN 0 ELSE n - (m + 1) + 1
    BY <2>1, FS_Interval
  <2> QED BY <1>1, <1>4, <2>2
<1> QED BY <1>4, <1>6, <1>7 DEF n

\* ... and LastTextIndex is the last column with text.
LEMMA LastColWithText ==
  ASSUME IInv, NEW s \in 1 .. Len(cells), HasText(s)
  PROVE  /\ LastTextIndex \in Nat
         /\ \E r \in 1 .. Len(cells) : \E c \in 1 .. Len(cells[r]) :
              cells[r][c] = "text" /\ c = LastTextIndex + 1
         /\ \A r \in 1 .. Len(cells) : \A c \in 1 .. Len(cells[r]) :
              cells[r][c] = "text" => c <= LastTextIndex + 1
<1> DEFINE n == Len(cells)
           At(r) == {c - 1 : c \in {d \in DOMAIN cells[r] : cells[r][d] = "text"}}
           T == {0} \cup UNION {At(r) : r \in DOMAIN cells}
<1>1. /\ n \in Nat /\ DOMAIN cells = 1 .. n
      /\ \A r \in 1 .. n : DOMAIN cells[r] = 1 .. Len(cells[r]) /\ Len(cells[r]) \in Nat
  BY RowTypes, ElementsOfSeq DEF IInv
<1>2. \A r \in 1 .. n : Len(cells[r]) <= kMaxCols
  <2> SUFFICES ASSUME NEW r \in 1 .. n PROVE Len(cells[r]) <= kMaxCols OBVIOUS
  <2> DEFINE w == Len(cells[r])
             lc == LTC.col
             bc == RBC.col
  <2>1. cells # <<>>
    <3>1. Len(<<>>) = 0 OBVIOUS
    <3> QED BY <1>1, <3>1
  <2>2. lc \in 0 .. kMaxCols /\ bc \in Int /\ lc + w - 1 <= bc /\ bc < kMaxCols /\ w \in Nat
    BY <1>1, <2>1 DEF IInv, Enclosed
  <2> HIDE DEF w, lc, bc
  <2>3. w <= kMaxCols BY <2>2, BoundsAssumption
  <2> QED BY <2>3 DEF w
<1>3. \A x : x \in T <=> x = 0 \/ \E r \in 1 .. n : \E c \in 1 .. Len(cells[r]) :
                                    cells[r][c] = "text" /\ x = c - 1
  <2>1. \A r, x : x \in At(r) <=> \E c \in DOMAIN cells[r] : cells[r][c] = "text" /\ x = c - 1
    OBVIOUS
  <2> HIDE DEF At
  <2>2. \A x : x \in T <=> x = 0 \/ \E r \in DOMAIN cells : x \in At(r) OBVIOUS
  <2> HIDE DEF T
  <2> QED BY <1>1, <2>1, <2>2, SMTT(60)
<1>4. LastTextIndex = Max(T) BY DEF LastTextIndex
<1> HIDE DEF T
<1>5. T \in SUBSET Nat /\ T # {} /\ \A x \in T : x <= kMaxCols
  <2>1. ASSUME NEW x \in T PROVE x \in Nat /\ x <= kMaxCols
    <3>1. CASE x = 0 BY <3>1, BoundsAssumption
    <3>2. CASE x # 0
      <4>1. PICK r \in 1 .. n : \E c \in 1 .. Len(cells[r]) : x = c - 1 BY <1>3, <2>1, <3>2
      <4>2. PICK c \in 1 .. Len(cells[r]) : x = c - 1 BY <4>1
      <4>3. Len(cells[r]) \in Nat /\ Len(cells[r]) <= kMaxCols BY <1>1, <1>2
      <4> QED BY <4>2, <4>3, BoundsAssumption
    <3> QED BY <3>1, <3>2
  <2>2. 0 \in T BY <1>3
  <2> QED BY <2>1, <2>2
<1>6. \E x \in T : \A y \in T : x >= y
  <2>1. PICK x \in T : \A y \in T : y <= x
    BY <1>5, GreatestNat, BoundsAssumption
  <2>2. \A y \in T : x >= y BY <1>5, <2>1
  <2> QED BY <2>2
<1> DEFINE l == LastTextIndex
<1>7. l \in T /\ \A y \in T : l >= y BY <1>4, <1>6 DEF Max
<1> HIDE DEF l
<1>8. l \in Nat BY <1>5, <1>7
<1>9. \A r \in 1 .. n : \A c \in 1 .. Len(cells[r]) : cells[r][c] = "text" => c <= l + 1
  <2> SUFFICES ASSUME NEW r \in 1 .. n, NEW c \in 1 .. Len(cells[r]), cells[r][c] = "text"
               PROVE  c <= l + 1
    OBVIOUS
  <2>1. c - 1 \in T BY <1>3
  <2> QED BY <1>1, <1>7, <1>8, <2>1
<1>10. \E r \in 1 .. n : \E c \in 1 .. Len(cells[r]) : cells[r][c] = "text" /\ c = l + 1
  <2>1. CASE l # 0
    <3>1. PICK r \in 1 .. n : \E c \in 1 .. Len(cells[r]) : cells[r][c] = "text" /\ l = c - 1
      BY <1>3, <1>7, <2>1
    <3>2. PICK c \in 1 .. Len(cells[r]) : cells[r][c] = "text" /\ l = c - 1 BY <3>1
    <3>3. c = l + 1 BY <1>1, <3>2
    <3> QED BY <3>2, <3>3
  <2>2. CASE l = 0
    <3>1. s \in 1 .. n BY DEF n
    <3>2. PICK c \in 1 .. Len(cells[s]) : cells[s][c] = "text" BY <1>1, <3>1 DEF HasText
    <3>3. c <= l + 1 BY <1>9, <3>1, <3>2
    <3>4. c = l + 1 BY <1>1, <2>2, <3>1, <3>2, <3>3
    <3> QED BY <3>1, <3>2, <3>4
  <2> QED BY <2>1, <2>2
<1> QED BY <1>8, <1>9, <1>10 DEF n, l

\* So the printable size reaches to the last row and to the last column that
\* hold text, and no further.
LEMMA SizeOfText ==
  ASSUME IInv, Filled # {}
  PROVE  \E rows \in Nat, cols \in Nat :
           /\ GetPrintableSize = [rows |-> rows, cols |-> cols]
           /\ \A p \in Filled : p.row < rows /\ p.col < cols
           /\ \E p \in Filled : p.row = rows - 1
           /\ \E p \in Filled : p.col = cols - 1
<1> DEFINE n == Len(cells)
           lr == LTC.row
           lc == LTC.col
           br == RBC.row
           l == LastTextIndex
<1>1. PICK p0 : p0 \in Filled OBVIOUS
<1> DEFINE s == p0.row - LTC.row + 1
<1>2. s \in 1 .. n /\ HasText(s) BY <1>1, TextSlots
<1> HIDE DEF s
<1>3. n \in Nat /\ DOMAIN cells = 1 .. n
      /\ \A r \in 1 .. n : DOMAIN cells[r] = 1 .. Len(cells[r]) /\ Len(cells[r]) \in Nat
  BY RowTypes, ElementsOfSeq DEF IInv
<1>4. cells # <<>>
  <2>1. Len(<<>>) = 0 OBVIOUS
  <2> QED BY <1>2, <1>3, <2>1
<1>5. lr \in Nat /\ lc \in Nat /\ br = lr + n - 1
  BY <1>4, BoundsAssumption DEF IInv, Enclosed
<1>6. PICK m \in 1 .. n : /\ RowsWithoutText = n - m /\ HasText(m)
                          /\ \A r \in 1 .. n : HasText(r) => r <= m
  BY <1>2, LastRowWithText
<1>7. /\ l \in Nat
      /\ \E r \in 1 .. n : \E c \in 1 .. Len(cells[r]) : cells[r][c] = "text" /\ c = l + 1
      /\ \A r \in 1 .. n : \A c \in 1 .. Len(cells[r]) : cells[r][c] = "text" => c <= l + 1
  BY <1>2, LastColWithText
<1>8. GetPrintableSize = [rows |-> lr + m, cols |-> lc + l + 1]
  <2> DEFINE v == br + 1 - RowsWithoutText
             h == lc + l + 1
  <2>1. GetPrintableSize = IF cells = <<>> \/ v <= 0 \/ h <= 0 THEN [rows |-> 0, cols |-> 0]
                           ELSE [rows |-> v, cols |-> h]
    BY DEF GetPrintableSize
  <2>2. v = lr + m /\ v > 0
    <3> HIDE DEF n, lr, br
    <3> QED BY <1>3, <1>5, <1>6
  <2>3. h > 0
    <3> HIDE DEF lc, l
    <3> QED BY <1>5, <1>7
  <2> HIDE DEF v, h
  <2>4. ~ (v <= 0) /\ ~ (h <= 0)
    <3>1. v \in Int /\ h \in Int BY <1>3, <1>5, <1>6, <1>7, <2>2, SMTT(60) DEF h, n
    <3> QED BY <2>2, <2>3, <3>1
  <2> QED BY <1>4, <2>1, <2>2, <2>4 DEF h
<1>9. \A p \in Filled : p.row < lr + m /\ p.col < lc + l + 1
  <2> SUFFICES ASSUME NEW p \in Filled PROVE p.row < lr + m /\ p.col < lc + l + 1 OBVIOUS
  <2> DEFINE x == p.row
             y == p.col
  <2>1. x \in Int /\ y \in Int BY Positions DEF Filled
  <2>2. /\ x - lr + 1 \in 1 .. n /\ HasText(x - lr + 1)
        /\ y - lc + 1 \in 1 .. Len(cells[x - lr + 1]) /\ cells[x - lr + 1][y - lc + 1] = "text"
    BY TextSlots
  <2>3. x - lr + 1 <= m /\ y - lc + 1 <= l + 1 BY <1>6, <1>7, <2>2
  <2> HIDE DEF n, lr, lc, l, x, y
  <2>4. x < lr + m /\ y < lc + l + 1 BY <1>3, <1>5, <1>6, <1>7, <2>1, <2>3
  <2> QED BY <2>4 DEF x, y
<1>10. \E p \in Filled : p.row = (lr + m) - 1
  <2>1. PICK c \in 1 .. Len(cells[m]) : cells[m][c] = "text" BY <1>3, <1>6 DEF HasText
  <2>2. [row |-> lr + m - 1, col |-> lc + c - 1] \in Filled BY <1>6, <2>1, TextSlots
  <2>3. lr + m - 1 = (lr + m) - 1 BY <1>3, <1>5
  <2> QED BY <2>2, <2>3
<1>11. \E p \in Filled : p.col = (lc + l + 1) - 1
  <2>1. PICK r \in 1 .. n : \E c \in 1 .. Len(cells[r]) : cells[r][c] = "text" /\ c = l + 1
    BY <1>7
  <2>2. PICK c \in 1 .. Len(cells[r]) : cells[r][c] = "text" /\ c = l + 1 BY <2>1
  <2>3. [row |-> lr + r - 1, col |-> lc + c - 1] \in Filled BY <2>2, TextSlots
  <2>4. lc + c - 1 = (lc + l + 1) - 1 BY <1>5, <1>7, <2>2
  <2> QED BY <2>3, <2>4
<1> HIDE DEF n, lr, lc, br, l
<1> DEFINE rows == lr + m
           cols == lc + l + 1
<1>12. rows \in Nat /\ cols \in Nat BY <1>3, <1>5, <1>6, <1>7
<1>13. GetPrintableSize = [rows |-> rows, cols |-> cols] BY <1>8
<1>14. \A p \in Filled : p.row < rows /\ p.col < cols BY <1>9
<1>15. \E p \in Filled : p.row = rows - 1 BY <1>10
<1>16. \E p \in Filled : p.col = cols - 1 BY <1>11
<1> HIDE DEF rows, cols
<1> QED BY <1>12, <1>13, <1>14, <1>15, <1>16

\* Without text, all rows stored are cut off and those above them are left: none,
\* if the first that is stored is the first of the table.
LEMMA SizeWithoutText ==
  ASSUME IInv, Filled = {}
  PROVE  GetPrintableSize = IF cells # <<>> /\ LTC.row > 0
                            THEN [rows |-> LTC.row, cols |-> LTC.col + 1]
                            ELSE [rows |-> 0, cols |-> 0]
<1> DEFINE n == Len(cells)
           v == RBC.row + 1 - RowsWithoutText
           h == LTC.col + LastTextIndex + 1
<1>1. GetPrintableSize = IF cells = <<>> \/ v <= 0 \/ h <= 0 THEN [rows |-> 0, cols |-> 0]
                         ELSE [rows |-> v, cols |-> h]
  BY DEF GetPrintableSize
<1>2. CASE cells = <<>> BY <1>1, <1>2
<1>3. CASE cells # <<>>
  <2>1. n \in Nat /\ DOMAIN cells = 1 .. n
        /\ \A r \in 1 .. n : DOMAIN cells[r] = 1 .. Len(cells[r])
    BY RowTypes, ElementsOfSeq DEF IInv
  <2>2. \A r \in 1 .. n : ~ HasText(r) BY <2>1, TextSlots DEF HasText
  <2>3. RowsWithoutText = n
    <3> HIDE DEF n
    <3>1. \A r \in 1 .. n : \A s \in r .. n : s \in 1 .. n BY <2>1
    <3>2. {r \in DOMAIN cells : \A s \in r .. n : ~ HasText(s)} = 1 .. n BY <2>1, <2>2, <3>1
    <3>3. Cardinality(1 .. n) = n BY <2>1, FS_Interval
    <3> QED BY <3>2, <3>3 DEF RowsWithoutText, n
  <2>4. LTC.row \in Nat /\ LTC.col \in Nat /\ RBC.row = LTC.row + n - 1
    BY <1>3, BoundsAssumption DEF IInv, Enclosed
  <2>5. v = LTC.row
    <3> HIDE DEF n
    <3> QED BY <2>1, <2>3, <2>4
  <2>6. LastTextIndex = 0
    <3> DEFINE Indices == UNION {{c - 1 : c \in {d \in DOMAIN cells[r] : cells[r][d] = "text"}} :
                                 r \in DOMAIN cells}
    <3>1. Indices = {} BY <2>1, <2>2 DEF HasText
    <3>2. LastTextIndex = Max({0} \cup Indices) BY DEF LastTextIndex
    <3> HIDE DEF Indices
    <3>3. {0} \cup Indices = {0} BY <3>1
    <3>4. Max({0}) = 0 BY DEF Max
    <3> QED BY <3>2, <3>3, <3>4
  <2>7. h = LTC.col + 1 BY <2>4, <2>6
  <2> HIDE DEF v, h
  <2> QED BY <1>1, <1>3, <2>4, <2>5, <2>7
<1> QED BY <1>2, <1>3

\* GetPrintableSize is the smallest rectangle from A1 that holds all text, and
\* nothing for a sheet without text; but where rows without text are stored, and
\* those above them are not, it is these rows (GetPrintableSize, FindBottomOffset).
THEOREM SizeIsExact == Spec => []SizeExact
<1>1. ASSUME NEW S, NEW x \in S, \A y \in S : x >= y, S \subseteq Int PROVE Max(S) = x
  <2>1. Max(S) \in S /\ \A y \in S : Max(S) >= y BY <1>1 DEF Max
  <2>2. Max(S) >= x /\ x >= Max(S) /\ Max(S) \in Int /\ x \in Int BY <1>1, <2>1
  <2> HIDE DEF Max
  <2> QED BY <2>2
<1>2. ASSUME IInv, Filled # {} PROVE GetPrintableSize = Rectangle
  <2>1. PICK rows \in Nat, cols \in Nat :
           /\ GetPrintableSize = [rows |-> rows, cols |-> cols]
           /\ \A p \in Filled : p.row < rows /\ p.col < cols
           /\ \E p \in Filled : p.row = rows - 1
           /\ \E p \in Filled : p.col = cols - 1
    BY <1>2, SizeOfText
  <2>2. \A p \in Filled : p.row \in Int /\ p.col \in Int BY Positions DEF Filled
  <2>3. Max({p.row : p \in Filled}) = rows - 1
    <3> DEFINE S == {p.row : p \in Filled}
    <3>1. rows - 1 \in S BY <2>1
    <3>2. \A y \in S : rows - 1 >= y BY <2>1, <2>2
    <3>3. S \subseteq Int BY <2>2
    <3> HIDE DEF S
    <3>4. Max(S) = rows - 1 BY <1>1, <3>1, <3>2, <3>3
    <3> QED BY <3>4 DEF S
  <2>4. Max({p.col : p \in Filled}) = cols - 1
    <3> DEFINE S == {p.col : p \in Filled}
    <3>1. cols - 1 \in S BY <2>1
    <3>2. \A y \in S : cols - 1 >= y BY <2>1, <2>2
    <3>3. S \subseteq Int BY <2>2
    <3> HIDE DEF S
    <3>4. Max(S) = cols - 1 BY <1>1, <3>1, <3>2, <3>3
    <3> QED BY <3>4 DEF S
  <2>5. rows - 1 + 1 = rows /\ cols - 1 + 1 = cols OBVIOUS
  <2> QED BY <1>2, <2>1, <2>3, <2>4, <2>5 DEF Rectangle
<1>3. ASSUME IInv, Filled = {}
      PROVE  GetPrintableSize = IF cells # <<>> /\ LTC.row > 0
                                THEN [rows |-> LTC.row, cols |-> LTC.col + 1] ELSE Rectangle
  BY <1>3, SizeWithoutText DEF Rectangle
<1>4. IInv => SizeExact BY <1>2, <1>3 DEF SizeExact
<1> QED BY <1>4, Invariance, PTL

\* PrintTexts shows the text of every cell in its field, and nothing else.
THEOREM PrintIsExact == Spec => []PrintShowsView
<1>1. ASSUME IInv, NEW p \in Position
      PROVE  View[p] = "text" <=>
               /\ p.row + 1 \in DOMAIN PrintTexts /\ p.col + 1 \in DOMAIN PrintTexts[p.row + 1]
               /\ PrintTexts[p.row + 1][p.col + 1] = "text"
  <2> DEFINE x == p.row
             y == p.col
             Line1 == [i \in 1 .. GetPrintableSize.cols |-> Field(x, i - 1)]
  <2>1. x \in Nat /\ y \in Nat /\ p = [row |-> x, col |-> y] BY Positions
  <2>2. View[p] = Cell(p) BY DEF View
  <2>3. Field(x, y) = "text" <=> View[p] = "text" BY <2>1, <2>2 DEF Field
  <2>4. Line(x) = IF x < LTC.row \/ ~ HasText(x - LTC.row + 1) THEN <<"blank", "blank">> ELSE Line1
    BY DEF Line
  <2>5. DOMAIN PrintTexts = 1 .. GetPrintableSize.rows BY DEF PrintTexts
  <2>6. x + 1 \in DOMAIN PrintTexts => PrintTexts[x + 1] = Line(x)
    <3> DEFINE k == x + 1
    <3>1. k - 1 = x BY <2>1
    <3> HIDE DEF k
    <3>2. k \in DOMAIN PrintTexts => PrintTexts[k] = Line(k - 1) BY Zenon DEF PrintTexts
    <3> QED BY <3>1, <3>2 DEF k
  <2>7. /\ DOMAIN Line1 = 1 .. GetPrintableSize.cols
        /\ y + 1 \in DOMAIN Line1 => Line1[y + 1] = Field(x, y)
    <3> DEFINE k == y + 1
    <3>1. k - 1 = y BY <2>1
    <3>2. DOMAIN Line1 = 1 .. GetPrintableSize.cols OBVIOUS
    <3> HIDE DEF k
    <3>3. k \in DOMAIN Line1 => Line1[k] = Field(x, k - 1) BY Zenon
    <3> QED BY <3>1, <3>2, <3>3 DEF k
  <2> HIDE DEF Line1
  <2>8. ASSUME View[p] = "text"
        PROVE  /\ x + 1 \in DOMAIN PrintTexts /\ y + 1 \in DOMAIN PrintTexts[x + 1]
               /\ PrintTexts[x + 1][y + 1] = "text"
    <3>1. p \in Filled BY <2>8 DEF Filled
    <3>2. PICK rows \in Nat, cols \in Nat :
             /\ GetPrintableSize = [rows |-> rows, cols |-> cols]
             /\ \A q \in Filled : q.row < rows /\ q.col < cols
      BY <1>1, <3>1, SizeOfText
    <3>3. x + 1 \in 1 .. rows /\ y + 1 \in 1 .. cols BY <2>1, <3>1, <3>2
    <3>4. x - LTC.row + 1 \in 1 .. Len(cells) /\ HasText(x - LTC.row + 1)
      BY <1>1, <3>1, TextSlots
    <3>5. ~ (x < LTC.row)
      <4>1. LTC.row \in Int BY <1>1 DEF IInv, Enclosed
      <4>2. x - LTC.row + 1 >= 1
        <5>1. Len(cells) \in Nat BY <1>1, RowTypes DEF IInv
        <5> QED BY <3>4, <5>1
      <4> HIDE DEF x
      <4> QED BY <2>1, <4>1, <4>2
    <3>6. Line(x) = Line1 BY <2>4, <3>4, <3>5
    <3>7. x + 1 \in DOMAIN PrintTexts /\ y + 1 \in DOMAIN Line1 BY <2>5, <2>7, <3>2, <3>3
    <3> QED BY <2>3, <2>6, <2>7, <2>8, <3>6, <3>7
  <2>9. ASSUME x + 1 \in DOMAIN PrintTexts, y + 1 \in DOMAIN PrintTexts[x + 1],
               PrintTexts[x + 1][y + 1] = "text"
        PROVE  View[p] = "text"
    <3> DEFINE b == <<"blank", "blank">>
    <3>1. DOMAIN b = 1 .. 2 /\ \A i \in 1 .. 2 : b[i] # "text" OBVIOUS
    <3>2. y + 1 \in DOMAIN Line(x) /\ Line(x)[y + 1] = "text" BY <2>6, <2>9
    <3> HIDE DEF b
    <3>3. Line(x) # b BY <3>1, <3>2
    <3>4. Line(x) = Line1 BY <2>4, <3>3 DEF b
    <3> QED BY <2>3, <2>7, <3>2, <3>4
  <2> QED BY <2>8, <2>9
<1>2. IInv => PrintShowsView BY <1>1 DEF PrintShowsView
<1> QED BY <1>2, Invariance, PTL
=============================================================================
