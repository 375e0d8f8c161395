-------------------------- MODULE FormulaRefsProofs --------------------------
(* Theorems about FormulaRefs, for any number of rows, columns and leaves   *)
(* and any bound on the calls.                                              *)
(*                                                                          *)
(* The list and the leaves of a formula are rebuilt apart from each other   *)
(* by every handler, so what either says of the other is part of one        *)
(* inductive invariant, with where each leaf is in the history.             *)

EXTENDS FormulaRefs, FormulaMovesProofs

-----------------------------------------------------------------------------
(* The rows, or the columns, of the history: lines that the formula was     *)
(* parsed with, each once, and lines inserted since.                        *)

Lines ==
  {s \in Seq({New} \cup Nat) :
     /\ Len(s) <= MaxLength
     /\ \A i, j \in 1 .. Len(s) : s[i] = s[j] /\ s[i] # New => i = j}

\* The line x is the one numbered k now.
On(s, k, x) == k + 1 \in 1 .. Len(s) /\ s[k + 1] = x
Kept(s, x) == \E i \in 1 .. Len(s) : s[i] = x

\* An insertion makes room, and what was there is there, further on.
LEMMA InsertedElements ==
  ASSUME NEW S, New \in S, NEW s \in Seq(S), NEW before \in Nat, NEW count \in Nat
  PROVE  LET t == InsertedInto(s, before, count)
             To(i) == IF i > before THEN i + count ELSE i
         IN  /\ t \in Seq(S)
             /\ \A i \in 1 .. Len(s) : To(i) \in 1 .. Len(t) /\ t[To(i)] = s[i]
             /\ \A k \in 1 .. Len(t) : t[k] = New \/ \E i \in 1 .. Len(s) : k = To(i)
<1> DEFINE n == Len(s)
           To(i) == IF i > before THEN i + count ELSE i
<1>1. n \in Nat /\ DOMAIN s = 1 .. n /\ \A i \in 1 .. n : s[i] \in S
  BY ElementsOfSeq
<1> HIDE DEF n
<1>2. CASE before >= n
  <2>1. InsertedInto(s, before, count) = s BY <1>2 DEF InsertedInto, n
  <2>2. \A i \in 1 .. n : To(i) = i BY <1>1, <1>2
  <2> QED BY <1>1, <2>1, <2>2 DEF n
<1>3. CASE before < n
  <2> DEFINE b == [i \in 1 .. count |-> New]
             t == Spliced(s, before, b)
  <2>1. InsertedInto(s, before, count) = t
    <3>1. ~ (before >= Len(s)) BY <1>1, <1>3 DEF n
    <3> QED BY <3>1 DEF InsertedInto, Spliced
  <2>2. b \in Seq(S) /\ Len(b) = count /\ \A i \in 1 .. count : b[i] = New
    OBVIOUS
  <2> HIDE DEF b
  <2>3. before \in 0 .. Len(s) BY <1>1, <1>3 DEF n
  <2>4. /\ t \in Seq(S) /\ Len(t) = n + count
        /\ \A k \in 1 .. before : t[k] = s[k]
        /\ \A k \in 1 .. count : t[before + k] = New
        /\ \A k \in before + 1 .. n : t[k + count] = s[k]
    <3>1. /\ t \in Seq(S) /\ Len(t) = Len(s) + Len(b)
          /\ \A k \in 1 .. before : t[k] = s[k]
          /\ \A k \in 1 .. Len(b) : t[before + k] = b[k]
          /\ \A k \in before + 1 .. Len(s) : t[k + Len(b)] = s[k]
      BY <2>2, <2>3, SplicedElements, ZenonT(60)
    <3> QED BY <2>2, <3>1 DEF n
  <2> HIDE DEF t
  <2>5. ASSUME NEW i \in 1 .. n PROVE To(i) \in 1 .. Len(t) /\ t[To(i)] = s[i]
    <3>1. CASE i > before
      <4>1. i \in before + 1 .. n /\ i + count \in 1 .. n + count BY <1>1, <3>1
      <4> QED BY <2>4, <3>1, <4>1
    <3>2. CASE ~ (i > before)
      <4>1. i \in 1 .. before /\ i \in 1 .. n + count BY <1>1, <3>2
      <4> QED BY <2>4, <3>2, <4>1
    <3> QED BY <3>1, <3>2
  <2>6. ASSUME NEW k \in 1 .. Len(t) PROVE t[k] = New \/ \E i \in 1 .. n : k = To(i)
    <3>1. CASE k <= before BY <1>1, <1>3, <3>1
    <3>2. CASE k > before /\ k <= before + count
      <4>1. k - before \in 1 .. count /\ before + (k - before) = k BY <1>1, <2>4, <3>2
      <4> QED BY <2>4, <4>1
    <3>3. CASE k > before + count
      <4>1. k - count \in 1 .. n /\ k - count > before /\ k = k - count + count
        BY <1>1, <2>4, <3>3
      <4> QED BY <4>1
    <3> QED BY <1>1, <2>4, <3>1, <3>2, <3>3
  <2> QED BY <2>1, <2>4, <2>5, <2>6 DEF n
<1> QED BY <1>1, <1>2, <1>3

\* A deletion closes the gap: what is at place k was at OldPlace(k).
OldPlace(k, first, count) == IF k > first THEN k + count ELSE k

\* A deletion takes some lines, and those behind it come nearer.
LEMMA RemovedElements ==
  ASSUME NEW S, New \in S, NEW s \in Seq(S), NEW first \in Nat, NEW count \in Nat
  PROVE  LET t == RemovedFrom(s, first, count) IN
         /\ t \in Seq(S) /\ Len(t) <= Len(s)
         /\ \A k \in 1 .. Len(t) :
              /\ OldPlace(k, first, count) \in 1 .. Len(s)
              /\ t[k] = s[OldPlace(k, first, count)]
         /\ \A i \in 1 .. Len(s) :
              i <= first \/ i > first + count =>
                \E k \in 1 .. Len(t) : i = OldPlace(k, first, count)
<1> DEFINE n == Len(s)
           From(k) == OldPlace(k, first, count)
<1> USE DEF OldPlace
<1>1. n \in Nat /\ DOMAIN s = 1 .. n /\ \A i \in 1 .. n : s[i] \in S
  BY ElementsOfSeq
<1> HIDE DEF n
<1>2. CASE first >= n
  <2>1. RemovedFrom(s, first, count) = s BY <1>2 DEF RemovedFrom, n
  <2>2. \A k \in 1 .. n : From(k) = k BY <1>1, <1>2
  <2> QED BY <1>1, <2>1, <2>2 DEF n
<1>3. CASE first < n
  <2> DEFINE t == Cut(s, first, first + count)
  <2>1. RemovedFrom(s, first, count) = t
    <3>1. ~ (first >= Len(s)) BY <1>1, <1>3 DEF n
    <3> QED BY <3>1 DEF RemovedFrom, Cut
  <2>2. first \in 0 .. Len(s) /\ first + count \in Nat /\ first <= first + count
    BY <1>1, <1>3 DEF n
  <2>3. /\ t \in Seq(S)
        /\ Len(t) = IF first + count < n THEN n - count ELSE first
        /\ \A k \in 1 .. first : t[k] = s[k]
        /\ \A k \in first + count + 1 .. n : t[k - count] = s[k]
    <3> DEFINE to == first + count
    <3>1. to = first + count /\ to \in Nat /\ first <= to BY <2>2
    <3> HIDE DEF to
    <3>2. LET u == Cut(s, first, to) IN
          /\ u \in Seq(S) /\ Len(u) = IF to < Len(s) THEN Len(s) - (to - first) ELSE first
          /\ \A k \in 1 .. first : u[k] = s[k]
          /\ \A k \in to + 1 .. Len(s) : u[k - (to - first)] = s[k]
      BY <2>2, <3>1, CutElements, ZenonT(60)
    <3>3. to - first = count BY <3>1
    <3> QED BY <3>1, <3>2, <3>3 DEF n
  <2> HIDE DEF t
  <2>4. ASSUME NEW k \in 1 .. Len(t) PROVE From(k) \in 1 .. n /\ t[k] = s[From(k)]
    <3>1. CASE k > first
      <4>1. k + count \in first + count + 1 .. n /\ k + count - count = k
        BY <1>1, <2>3, <3>1
      <4> QED BY <2>3, <3>1, <4>1
    <3>2. CASE ~ (k > first)
      <4>1. k \in 1 .. first BY <1>1, <2>3, <3>2
      <4> QED BY <1>1, <1>3, <2>3, <3>2, <4>1
    <3> QED BY <3>1, <3>2
  <2>5. ASSUME NEW i \in 1 .. n, i <= first \/ i > first + count
        PROVE  \E k \in 1 .. Len(t) : i = From(k)
    <3>1. CASE i <= first
      <4>1. i \in 1 .. Len(t) /\ i = From(i) BY <1>1, <2>3, <3>1
      <4> QED BY <4>1
    <3>2. CASE i > first + count
      <4>1. i - count \in 1 .. Len(t) /\ i = From(i - count) BY <1>1, <2>3, <3>2
      <4> QED BY <4>1
    <3> QED BY <2>5, <3>1, <3>2
  <2>6. Len(t) <= n BY <1>1, <1>3, <2>3
  <2> HIDE DEF From
  <2>7. /\ t \in Seq(S) /\ Len(t) <= n
        /\ \A k \in 1 .. Len(t) : From(k) \in 1 .. n /\ t[k] = s[From(k)]
        /\ \A i \in 1 .. n : i <= first \/ i > first + count =>
             \E k \in 1 .. Len(t) : i = From(k)
    BY <2>3, <2>4, <2>5, <2>6
  <2> QED BY <2>1, <2>7 DEF n, From
<1> QED
  <2>1. first >= n \/ first < n BY <1>1
  <2> QED BY <1>2, <1>3, <2>1

\* Where the lines are after an insertion: none is lost, and those from before
\* on are count further on.
LEMMA LinesInserted ==
  ASSUME NEW s \in Lines, NEW before \in Nat, NEW count \in Nat, Fits(s, before, count)
  PROVE  LET t == InsertedInto(s, before, count) IN
         /\ t \in Lines
         /\ \A x \in Nat : Kept(t, x) => Kept(s, x)
         /\ \A k, x \in Nat : On(s, k, x) => On(t, IF k >= before THEN k + count ELSE k, x)
<1> DEFINE t == InsertedInto(s, before, count)
           To(i) == IF i > before THEN i + count ELSE i
<1>1. /\ s \in Seq({New} \cup Nat)
      /\ \A i, j \in 1 .. Len(s) : s[i] = s[j] /\ s[i] # New => i = j
  BY DEF Lines
<1>2. Len(s) \in Nat BY <1>1
<1>3. New \notin Nat BY DEF New
<1>4. /\ t \in Seq({New} \cup Nat)
      /\ \A i \in 1 .. Len(s) : To(i) \in 1 .. Len(t) /\ t[To(i)] = s[i]
      /\ \A k \in 1 .. Len(t) : t[k] = New \/ \E i \in 1 .. Len(s) : k = To(i)
  <2> DEFINE S == {New} \cup Nat
  <2>1. New \in S /\ s \in Seq(S) BY <1>1
  <2> HIDE DEF S
  <2>2. /\ t \in Seq(S)
        /\ \A i \in 1 .. Len(s) : To(i) \in 1 .. Len(t) /\ t[To(i)] = s[i]
        /\ \A k \in 1 .. Len(t) : t[k] = New \/ \E i \in 1 .. Len(s) : k = To(i)
    BY <2>1, InsertedElements
  <2> QED BY <2>2 DEF S
<1>5. Len(t) <= MaxLength BY DEF Fits
<1> HIDE DEF t
<1>6. ASSUME NEW k \in 1 .. Len(t), NEW l \in 1 .. Len(t), t[k] = t[l], t[k] # New
      PROVE  k = l
  <2>1. PICK i \in 1 .. Len(s) : k = To(i) BY <1>4, <1>6
  <2>2. PICK j \in 1 .. Len(s) : l = To(j) BY <1>4, <1>6
  <2>3. t[k] = s[i] /\ t[l] = s[j] BY <1>4, <2>1, <2>2
  <2> QED BY <1>1, <1>6, <2>1, <2>2, <2>3
<1>7. t \in Lines BY <1>4, <1>5, <1>6 DEF Lines
<1>8. ASSUME NEW x \in Nat, Kept(t, x) PROVE Kept(s, x)
  <2>1. PICK k \in 1 .. Len(t) : t[k] = x BY <1>8 DEF Kept
  <2>2. PICK i \in 1 .. Len(s) : k = To(i) BY <1>3, <1>4, <2>1
  <2>3. s[i] = x BY <1>4, <2>1, <2>2
  <2> QED BY <2>3 DEF Kept
<1>9. ASSUME NEW k \in Nat, NEW x \in Nat, On(s, k, x)
      PROVE  On(t, IF k >= before THEN k + count ELSE k, x)
  <2>1. k + 1 \in 1 .. Len(s) /\ s[k + 1] = x BY <1>9 DEF On
  <2>2. To(k + 1) \in 1 .. Len(t) /\ t[To(k + 1)] = x BY <1>4, <2>1
  <2>3. To(k + 1) = (IF k >= before THEN k + count ELSE k) + 1 OBVIOUS
  <2> HIDE DEF To
  <2> QED BY <2>2, <2>3 DEF On
<1> QED BY <1>7, <1>8, <1>9 DEF t

\* Where they are after a deletion: those it names are lost, and those after
\* them count further up.
LEMMA LinesRemoved ==
  ASSUME NEW s \in Lines, NEW first \in Nat, NEW count \in Nat
  PROVE  LET t == RemovedFrom(s, first, count) IN
         /\ t \in Lines
         /\ \A x \in Nat : Kept(t, x) => Kept(s, x)
         /\ \A k, x \in Nat : On(s, k, x) =>
              /\ k < first => On(t, k, x)
              /\ k >= first /\ k <= first + count - 1 => ~ Kept(t, x)
              /\ k > first + count - 1 => k - count \in Nat /\ On(t, k - count, x)
<1> DEFINE t == RemovedFrom(s, first, count)
           From(k) == OldPlace(k, first, count)
<1>1. /\ s \in Seq({New} \cup Nat) /\ Len(s) <= MaxLength
      /\ \A i, j \in 1 .. Len(s) : s[i] = s[j] /\ s[i] # New => i = j
  BY DEF Lines
<1>2. Len(s) \in Nat BY <1>1
<1>3. New \notin Nat BY DEF New
<1>4. /\ t \in Seq({New} \cup Nat) /\ Len(t) <= Len(s)
      /\ \A k \in 1 .. Len(t) : From(k) \in 1 .. Len(s) /\ t[k] = s[From(k)]
      /\ \A i \in 1 .. Len(s) :
           i <= first \/ i > first + count => \E k \in 1 .. Len(t) : i = From(k)
  <2> DEFINE S == {New} \cup Nat
  <2>1. New \in S /\ s \in Seq(S) BY <1>1
  <2> HIDE DEF S
  <2>2. /\ t \in Seq(S) /\ Len(t) <= Len(s)
        /\ \A k \in 1 .. Len(t) : From(k) \in 1 .. Len(s) /\ t[k] = s[From(k)]
        /\ \A i \in 1 .. Len(s) :
             i <= first \/ i > first + count => \E k \in 1 .. Len(t) : i = From(k)
    BY <2>1, RemovedElements
  <2> QED BY <2>2 DEF S
<1> HIDE DEF t
<1> USE DEF OldPlace
<1>5. Len(t) \in Nat BY <1>4
<1>6. Len(t) <= MaxLength BY <1>1, <1>2, <1>4, <1>5, BoundsAssumption
<1>7. ASSUME NEW k \in 1 .. Len(t), NEW l \in 1 .. Len(t), t[k] = t[l], t[k] # New
      PROVE  k = l
  <2>1. From(k) = From(l) BY <1>1, <1>4, <1>7
  <2> QED BY <1>5, <2>1
<1>8. t \in Lines BY <1>4, <1>6, <1>7 DEF Lines
<1>9. ASSUME NEW x \in Nat, Kept(t, x) PROVE Kept(s, x)
  <2>1. PICK k \in 1 .. Len(t) : t[k] = x BY <1>9 DEF Kept
  <2> QED BY <1>4, <2>1 DEF Kept
<1>10. ASSUME NEW k \in Nat, NEW x \in Nat, On(s, k, x)
       PROVE  /\ k < first => On(t, k, x)
              /\ k >= first /\ k <= first + count - 1 => ~ Kept(t, x)
              /\ k > first + count - 1 => k - count \in Nat /\ On(t, k - count, x)
  <2>1. k + 1 \in 1 .. Len(s) /\ s[k + 1] = x BY <1>10 DEF On
  <2>2. ASSUME NEW l \in 1 .. Len(t), k + 1 = From(l) PROVE t[l] = x
    BY <1>4, <2>1, <2>2
  <2>3. CASE k < first
    <3>1. PICK l \in 1 .. Len(t) : k + 1 = From(l) BY <1>4, <2>1, <2>3
    <3>2. l = k + 1 BY <1>5, <2>3, <3>1
    <3> QED BY <2>2, <2>3, <3>1, <3>2 DEF On
  <2>4. CASE k >= first /\ k <= first + count - 1
    <3>1. ASSUME NEW l \in 1 .. Len(t), t[l] = x PROVE FALSE
      <4>1. From(l) = k + 1 BY <1>1, <1>3, <1>4, <2>1, <3>1
      <4> QED BY <1>5, <2>4, <4>1
    <3> QED BY <2>4, <3>1 DEF Kept
  <2>5. CASE k > first + count - 1
    <3>1. k + 1 > first + count BY <2>5
    <3>2. PICK l \in 1 .. Len(t) : k + 1 = From(l) BY <1>4, <2>1, <3>1
    <3>3. l = k - count + 1 /\ k - count \in Nat BY <1>5, <2>5, <3>2
    <3> QED BY <2>2, <2>5, <3>2, <3>3 DEF On
  <2> QED BY <2>3, <2>4, <2>5
<1> QED BY <1>8, <1>9, <1>10 DEF t
-----------------------------------------------------------------------------
(* What a leaf is to the history.                                           *)

\* The cell p is at q among the rows rs and the columns cs, or has gone from
\* them and q is invalid.
Follows(rs, cs, q, p) ==
  \/ q \in Place /\ On(rs, q.row, p.row) /\ On(cs, q.col, p.col)
  \/ q = Gone /\ ~ (Kept(rs, p.row) /\ Kept(cs, p.col))

\* A position goes the way of its row in an insertion of rows ...
LEMMA InsertedRowFollows ==
  ASSUME NEW rs \in Lines, NEW cs \in Lines, NEW before \in Nat, NEW count \in Nat,
         Fits(rs, before, count), NEW p \in Place, NEW q, Follows(rs, cs, q, p)
  PROVE  Follows(InsertedInto(rs, before, count), cs, InsertedAt(q, "row", before, count), p)
<1>1. p.row \in Nat /\ p.col \in Nat BY DEF Place
<1>2. CASE q = Gone
  <2>1. InsertedAt(q, "row", before, count) = Gone BY <1>2 DEF InsertedAt, Gone
  <2> QED BY <1>1, <1>2, <2>1, LinesInserted DEF Follows, Place, Gone
<1>3. CASE q \in Place /\ On(rs, q.row, p.row) /\ On(cs, q.col, p.col)
  <2> DEFINE r == InsertedAt(q, "row", before, count)
  <2>1. /\ r \in Place /\ r.col = q.col
        /\ r.row = IF q.row >= before THEN q.row + count ELSE q.row
    BY <1>3 DEF InsertedAt, Place
  <2>2. q.row \in Nat BY <1>3 DEF Place
  <2> HIDE DEF r
  <2>3. On(InsertedInto(rs, before, count), r.row, p.row)
    BY <1>1, <1>3, <2>1, <2>2, LinesInserted
  <2>4. Follows(InsertedInto(rs, before, count), cs, r, p) BY <1>3, <2>1, <2>3 DEF Follows
  <2> QED BY <2>4 DEF r
<1> QED BY <1>2, <1>3 DEF Follows

\* ... and of its column in an insertion of columns.
LEMMA InsertedColFollows ==
  ASSUME NEW rs \in Lines, NEW cs \in Lines, NEW before \in Nat, NEW count \in Nat,
         Fits(cs, before, count), NEW p \in Place, NEW q, Follows(rs, cs, q, p)
  PROVE  Follows(rs, InsertedInto(cs, before, count), InsertedAt(q, "col", before, count), p)
<1>1. p.row \in Nat /\ p.col \in Nat BY DEF Place
<1>2. CASE q = Gone
  <2>1. InsertedAt(q, "col", before, count) = Gone BY <1>2 DEF InsertedAt, Gone
  <2> QED BY <1>1, <1>2, <2>1, LinesInserted DEF Follows, Place, Gone
<1>3. CASE q \in Place /\ On(rs, q.row, p.row) /\ On(cs, q.col, p.col)
  <2> DEFINE r == InsertedAt(q, "col", before, count)
  <2>1. /\ r \in Place /\ r.row = q.row
        /\ r.col = IF q.col >= before THEN q.col + count ELSE q.col
    BY <1>3 DEF InsertedAt, Place
  <2>2. q.col \in Nat BY <1>3 DEF Place
  <2> HIDE DEF r
  <2>3. On(InsertedInto(cs, before, count), r.col, p.col)
    BY <1>1, <1>3, <2>1, <2>2, LinesInserted
  <2>4. Follows(rs, InsertedInto(cs, before, count), r, p) BY <1>3, <2>1, <2>3 DEF Follows
  <2> QED BY <2>4 DEF r
<1> QED BY <1>2, <1>3 DEF Follows

\* In a deletion of rows it goes the way of its row, or is gone with it ...
LEMMA DeletedRowFollows ==
  ASSUME NEW rs \in Lines, NEW cs \in Lines, NEW first \in Nat, NEW count \in Nat,
         NEW p \in Place, NEW q, Follows(rs, cs, q, p)
  PROVE  Follows(RemovedFrom(rs, first, count), cs, DeletedAt(q, "row", first, count), p)
<1>1. p.row \in Nat /\ p.col \in Nat BY DEF Place
<1> DEFINE t == RemovedFrom(rs, first, count)
           r == DeletedAt(q, "row", first, count)
<1>2. CASE q = Gone
  <2>1. r = Gone BY <1>2 DEF DeletedAt, Gone
  <2>2. Kept(t, p.row) => Kept(rs, p.row) BY <1>1, LinesRemoved
  <2> QED BY <1>2, <2>1, <2>2 DEF Follows, Place, Gone
<1>3. CASE q \in Place /\ On(rs, q.row, p.row) /\ On(cs, q.col, p.col)
  <2>1. q.row \in Nat /\ q.col \in Nat BY <1>3 DEF Place
  <2>2. /\ q.row < first => On(t, q.row, p.row)
        /\ q.row >= first /\ q.row <= first + count - 1 => ~ Kept(t, p.row)
        /\ q.row > first + count - 1 => q.row - count \in Nat /\ On(t, q.row - count, p.row)
    BY <1>1, <1>3, <2>1, LinesRemoved
  <2> HIDE DEF t
  <2>3. CASE q.row < first
    <3>1. r = q BY <2>3 DEF DeletedAt
    <3> QED BY <1>3, <2>2, <2>3, <3>1 DEF Follows, t
  <2>4. CASE q.row >= first /\ q.row <= first + count - 1
    <3>1. r = Gone BY <2>1, <2>4 DEF DeletedAt
    <3> QED BY <2>2, <2>4, <3>1 DEF Follows, t
  <2>5. CASE q.row > first + count - 1 /\ q.row >= first
    <3>1. /\ r \in Place /\ r.row = q.row - count /\ r.col = q.col
      BY <1>3, <2>1, <2>2, <2>5 DEF DeletedAt, Place
    <3> HIDE DEF r
    <3> QED BY <1>3, <2>2, <2>5, <3>1 DEF Follows, t, r
  <2> QED BY <2>1, <2>3, <2>4, <2>5
<1> QED BY <1>2, <1>3 DEF Follows

\* ... and likewise in a deletion of columns.
LEMMA DeletedColFollows ==
  ASSUME NEW rs \in Lines, NEW cs \in Lines, NEW first \in Nat, NEW count \in Nat,
         NEW p \in Place, NEW q, Follows(rs, cs, q, p)
  PROVE  Follows(rs, RemovedFrom(cs, first, count), DeletedAt(q, "col", first, count), p)
<1>1. p.row \in Nat /\ p.col \in Nat BY DEF Place
<1> DEFINE t == RemovedFrom(cs, first, count)
           r == DeletedAt(q, "col", first, count)
<1>2. CASE q = Gone
  <2>1. r = Gone BY <1>2 DEF DeletedAt, Gone
  <2>2. Kept(t, p.col) => Kept(cs, p.col) BY <1>1, LinesRemoved
  <2> QED BY <1>2, <2>1, <2>2 DEF Follows, Place, Gone
<1>3. CASE q \in Place /\ On(rs, q.row, p.row) /\ On(cs, q.col, p.col)
  <2>1. q.row \in Nat /\ q.col \in Nat BY <1>3 DEF Place
  <2>2. /\ q.col < first => On(t, q.col, p.col)
        /\ q.col >= first /\ q.col <= first + count - 1 => ~ Kept(t, p.col)
        /\ q.col > first + count - 1 => q.col - count \in Nat /\ On(t, q.col - count, p.col)
    BY <1>1, <1>3, <2>1, LinesRemoved
  <2> HIDE DEF t
  <2>3. CASE q.col < first
    <3>1. r = q BY <2>3 DEF DeletedAt
    <3> QED BY <1>3, <2>2, <2>3, <3>1 DEF Follows, t
  <2>4. CASE q.col >= first /\ q.col <= first + count - 1
    <3>1. r = Gone BY <2>1, <2>4 DEF DeletedAt
    <3> QED BY <2>2, <2>4, <3>1 DEF Follows, t
  <2>5. CASE q.col > first + count - 1 /\ q.col >= first
    <3>1. /\ r \in Place /\ r.col = q.col - count /\ r.row = q.row
      BY <1>3, <2>1, <2>2, <2>5 DEF DeletedAt, Place
    <3> HIDE DEF r
    <3> QED BY <1>3, <2>2, <2>5, <3>1 DEF Follows, t, r
  <2> QED BY <2>1, <2>3, <2>4, <2>5
<1> QED BY <1>2, <1>3 DEF Follows
-----------------------------------------------------------------------------
(* The invariant.                                                           *)

\* Every leaf names the cell it named, among the rows rs and the columns cs.
AllFollow(f, rs, cs) ==
  /\ named \in Seq(Place) /\ Len(named) = Len(f.tree)
  /\ \A i \in 1 .. Len(named) : Follows(rs, cs, f.tree[i], named[i])

Answers == Results \cup {"Value", "#REF!", "Throws", "Crash"}

IInv ==
  /\ Consistent(formula)
  /\ rows \in Lines /\ cols \in Lines
  /\ AllFollow(formula, rows, cols)
  /\ reply.result \in Answers

\* The bounds are natural numbers.
LEMMA BoundTypes ==
  /\ MaxLength \in Nat /\ MaxCount \in Nat /\ MaxLeaves \in Nat
  /\ Rows \in Nat /\ Cols \in Nat /\ Rows <= MaxLength /\ Cols <= MaxLength
BY BoundsAssumption

\* At the time of parsing every line is where it was.
LEMMA StartLines ==
  ASSUME NEW n \in Nat, n <= MaxLength
  PROVE  LET s == [i \in 1 .. n |-> i - 1] IN
         s \in Lines /\ \A k \in 0 .. n - 1 : On(s, k, k)
<1> DEFINE s == [i \in 1 .. n |-> i - 1]
<1>1. s \in Seq({New} \cup Nat) /\ Len(s) = n /\ \A i \in 1 .. n : s[i] = i - 1 OBVIOUS
<1> HIDE DEF s
<1>2. s \in Lines BY <1>1 DEF Lines
<1>3. \A k \in 0 .. n - 1 : On(s, k, k) BY <1>1 DEF On
<1> QED BY <1>2, <1>3 DEF s

\* Leaves that were moved by To are where To takes them.
LEMMA LeavesMoved ==
  ASSUME Consistent(formula), AllFollow(formula, rows, cols), NEW f, NEW rs, NEW cs, NEW To,
         f.tree = [i \in DOMAIN formula.tree |-> To[i]],
         \A i \in 1 .. Len(named) :
           Follows(rows, cols, formula.tree[i], named[i]) => Follows(rs, cs, To[i], named[i])
  PROVE  AllFollow(f, rs, cs)
<1>1. Len(formula.tree) \in Nat /\ DOMAIN formula.tree = 1 .. Len(formula.tree)
  BY ListsOfFormula
<1>2. Len(f.tree) = Len(formula.tree) BY <1>1
<1>3. Len(named) = Len(formula.tree) BY DEF AllFollow
<1>4. \A i \in 1 .. Len(named) : f.tree[i] = To[i] BY <1>1, <1>3
<1> QED BY <1>2, <1>3, <1>4 DEF AllFollow

\* What the parser leaves is consistent, and every leaf names its cell.
LEMMA InitInvariant == Init => IInv
<1> SUFFICES ASSUME Init PROVE IInv OBVIOUS
<1> DEFINE Cell == [row : 0 .. Rows - 1, col : 0 .. Cols - 1]
<1>1. PICK leaves \in SeqOf(Cell, MaxLeaves) : formula = ParsedFormula(leaves) BY DEF Init
<1>2. Cell \subseteq Place BY BoundTypes DEF Place
<1>3. leaves \in Seq(Cell)
  <2>1. PICK n \in 0 .. MaxLeaves : leaves \in [1 .. n -> Cell] BY DEF SeqOf
  <2>2. n \in Nat BY <2>1, BoundTypes
  <2> HIDE DEF Cell
  <2> QED BY <2>1, <2>2
<1>4. \A i \in 1 .. Len(leaves) : leaves[i] \in Cell /\ leaves[i] \in Place
  BY <1>2, <1>3, ElementsOfSeq
<1>5. leaves \in Seq(Place) BY <1>3, <1>4, SeqOfElements
<1>6. Consistent(formula) /\ formula.tree = leaves BY <1>1, <1>5, ParsedConsistent
<1>7. /\ rows \in Lines /\ \A k \in 0 .. Rows - 1 : On(rows, k, k)
      /\ cols \in Lines /\ \A k \in 0 .. Cols - 1 : On(cols, k, k)
  BY StartLines, BoundTypes DEF Init
<1>8. ASSUME NEW i \in 1 .. Len(leaves) PROVE Follows(rows, cols, leaves[i], leaves[i])
  <2>1. leaves[i].row \in 0 .. Rows - 1 /\ leaves[i].col \in 0 .. Cols - 1 BY <1>4
  <2> QED BY <1>4, <1>7, <2>1 DEF Follows
<1>9. named = leaves BY <1>6 DEF Init
<1>10. AllFollow(formula, rows, cols) BY <1>5, <1>6, <1>8, <1>9 DEF AllFollow
<1>11. reply.result \in Answers BY DEF Init, Answers
<1> QED BY <1>6, <1>7, <1>10, <1>11 DEF IInv

\* Each call keeps the invariant: the formula by the lemmas about the handlers, where
\* its leaves are by those about the lines.
LEMMA StepInvariant == IInv /\ [Next]_vars => IInv'
<1> SUFFICES ASSUME IInv, [Next]_vars PROVE IInv' OBVIOUS
<1>1. /\ Consistent(formula) /\ rows \in Lines /\ cols \in Lines
      /\ AllFollow(formula, rows, cols) /\ reply.result \in Answers
  BY DEF IInv
<1>2. Results \subseteq Answers BY DEF Answers
<1>3. /\ \A i \in 1 .. Len(named) : named[i] \in Place
      /\ Len(named) = Len(formula.tree)
      /\ DOMAIN formula.tree = 1 .. Len(named)
  BY <1>1, ElementsOfSeq, ListsOfFormula DEF AllFollow
<1>4. ASSUME NEW from \in 0 .. MaxLength, NEW count \in 1 .. MaxCount, InsertRows(from, count)
      PROVE  IInv'
  <2> DEFINE leaves == LeavesInserted(formula, "row", from, count)
  <2>1. from \in Nat /\ count \in Nat \ {0} BY BoundTypes
  <2>2. Fits(rows, from, count) /\ rows' = InsertedInto(rows, from, count)
        /\ cols' = cols /\ named' = named
    BY <1>4 DEF InsertRows
  <2>3. Consistent(formula') /\ formula'.tree = leaves /\ reply'.result \in Answers
    <3>1. CASE formula.ref_cells # <<>> /\ Becomes(HandleInsertedRows(formula, from, count))
      <4>1. MovesWith(formula, leaves, HandleInsertedRows(formula, from, count))
        BY <1>1, <2>1, <3>1, InsertedRowsHandled
      <4> QED BY <1>2, <3>1, <4>1 DEF MovesWith, Becomes
    <3>2. CASE formula.ref_cells = <<>> /\ Becomes(Unaffected(formula))
      <4>1. leaves = formula.tree BY <1>1, <2>1, <3>2, NothingLeftToShift
      <4> QED BY <1>1, <1>2, <3>2, <4>1 DEF Becomes, Unaffected, Results
    <3>3. CASE formula.ref_cells = <<>> /\ Becomes(ShiftRows(formula, from, count))
      <4>1. LET h == ShiftRows(formula, from, count) IN
            Consistent(h.formula) /\ h.formula.tree = leaves /\ h.result \in Results
        BY <1>1, <2>1, <3>3, NothingLeftToShift
      <4> QED BY <1>2, <3>3, <4>1 DEF Becomes
    <3>4. CASE /\ formula.ref_cells = <<>>
               /\ Becomes([formula |-> formula, result |-> "Crash"])
      <4>1. leaves = formula.tree BY <1>1, <2>1, <3>4, NothingLeftToShift
      <4> QED BY <1>1, <3>4, <4>1 DEF Becomes, Answers
    <3> QED BY <1>4, <3>1, <3>2, <3>3, <3>4 DEF InsertRows
  <2>4. rows' \in Lines BY <1>1, <2>1, <2>2, LinesInserted
  <2>5. AllFollow(formula', rows', cols)
    <3> DEFINE To == [i \in DOMAIN formula.tree |->
                        InsertedAt(formula.tree[i], "row", from, count)]
    <3>1. \A i \in 1 .. Len(named) :
            Follows(rows, cols, formula.tree[i], named[i]) => Follows(rows', cols, To[i], named[i])
      BY <1>1, <1>3, <2>1, <2>2, InsertedRowFollows
    <3>2. formula'.tree = [i \in DOMAIN formula.tree |-> To[i]] BY <2>3 DEF LeavesInserted
    <3> HIDE DEF To
    <3> QED BY <1>1, <3>1, <3>2, LeavesMoved
  <2> QED BY <1>1, <2>2, <2>3, <2>4, <2>5 DEF IInv, AllFollow
<1>5. ASSUME NEW from \in 0 .. MaxLength, NEW count \in 1 .. MaxCount, InsertCols(from, count)
      PROVE  IInv'
  <2> DEFINE leaves == LeavesInserted(formula, "col", from, count)
  <2>1. from \in Nat /\ count \in Nat \ {0} BY BoundTypes
  <2>2. Fits(cols, from, count) /\ cols' = InsertedInto(cols, from, count)
        /\ rows' = rows /\ named' = named
    BY <1>5 DEF InsertCols
  <2>3. Consistent(formula') /\ formula'.tree = leaves /\ reply'.result \in Answers
    <3>1. MovesWith(formula, leaves, HandleInsertedCols(formula, from, count))
      BY <1>1, <2>1, InsertedColsHandled
    <3> QED BY <1>2, <1>5, <3>1 DEF MovesWith, Becomes, InsertCols
  <2>4. cols' \in Lines BY <1>1, <2>1, <2>2, LinesInserted
  <2>5. AllFollow(formula', rows, cols')
    <3> DEFINE To == [i \in DOMAIN formula.tree |->
                        InsertedAt(formula.tree[i], "col", from, count)]
    <3>1. \A i \in 1 .. Len(named) :
            Follows(rows, cols, formula.tree[i], named[i]) => Follows(rows, cols', To[i], named[i])
      BY <1>1, <1>3, <2>1, <2>2, InsertedColFollows
    <3>2. formula'.tree = [i \in DOMAIN formula.tree |-> To[i]] BY <2>3 DEF LeavesInserted
    <3> HIDE DEF To
    <3> QED BY <1>1, <3>1, <3>2, LeavesMoved
  <2> QED BY <1>1, <2>2, <2>3, <2>4, <2>5 DEF IInv, AllFollow
<1>6. ASSUME NEW from \in 0 .. MaxLength, NEW count \in 1 .. MaxCount, DeleteRows(from, count)
      PROVE  IInv'
  <2> DEFINE leaves == LeavesDeleted(formula, "row", from, count)
  <2>1. from \in Nat /\ count \in Nat \ {0} BY BoundTypes
  <2>2. rows' = RemovedFrom(rows, from, count) /\ cols' = cols /\ named' = named
    BY <1>6 DEF DeleteRows
  <2>3. Consistent(formula') /\ formula'.tree = leaves /\ reply'.result \in Answers
    <3>1. MovesWith(formula, leaves, HandleDeletedRows(formula, from, count))
      BY <1>1, <2>1, DeletedRowsHandled
    <3> QED BY <1>2, <1>6, <3>1 DEF MovesWith, Becomes, DeleteRows
  <2>4. rows' \in Lines BY <1>1, <2>1, <2>2, LinesRemoved
  <2>5. AllFollow(formula', rows', cols)
    <3> DEFINE To == [i \in DOMAIN formula.tree |->
                        DeletedAt(formula.tree[i], "row", from, count)]
    <3>1. \A i \in 1 .. Len(named) :
            Follows(rows, cols, formula.tree[i], named[i]) => Follows(rows', cols, To[i], named[i])
      BY <1>1, <1>3, <2>1, <2>2, DeletedRowFollows
    <3>2. formula'.tree = [i \in DOMAIN formula.tree |-> To[i]] BY <2>3 DEF LeavesDeleted
    <3> HIDE DEF To
    <3> QED BY <1>1, <3>1, <3>2, LeavesMoved
  <2> QED BY <1>1, <2>2, <2>3, <2>4, <2>5 DEF IInv, AllFollow
<1>7. ASSUME NEW from \in 0 .. MaxLength, NEW count \in 1 .. MaxCount, DeleteCols(from, count)
      PROVE  IInv'
  <2> DEFINE leaves == LeavesDeleted(formula, "col", from, count)
  <2>1. from \in Nat /\ count \in Nat \ {0} BY BoundTypes
  <2>2. cols' = RemovedFrom(cols, from, count) /\ rows' = rows /\ named' = named
    BY <1>7 DEF DeleteCols
  <2>3. Consistent(formula') /\ formula'.tree = leaves /\ reply'.result \in Answers
    <3>1. MovesWith(formula, leaves, HandleDeletedCols(formula, from, count))
      BY <1>1, <2>1, DeletedColsHandled
    <3> QED BY <1>2, <1>7, <3>1 DEF MovesWith, Becomes, DeleteCols
  <2>4. cols' \in Lines BY <1>1, <2>1, <2>2, LinesRemoved
  <2>5. AllFollow(formula', rows, cols')
    <3> DEFINE To == [i \in DOMAIN formula.tree |->
                        DeletedAt(formula.tree[i], "col", from, count)]
    <3>1. \A i \in 1 .. Len(named) :
            Follows(rows, cols, formula.tree[i], named[i]) => Follows(rows, cols', To[i], named[i])
      BY <1>1, <1>3, <2>1, <2>2, DeletedColFollows
    <3>2. formula'.tree = [i \in DOMAIN formula.tree |-> To[i]] BY <2>3 DEF LeavesDeleted
    <3> HIDE DEF To
    <3> QED BY <1>1, <3>1, <3>2, LeavesMoved
  <2> QED BY <1>1, <2>2, <2>3, <2>4, <2>5 DEF IInv, AllFollow
<1>8. CASE Evaluate
  <2>1. reply'.result \in Answers BY <1>8 DEF Evaluate, Answers
  <2>2. formula' = formula /\ rows' = rows /\ cols' = cols /\ named' = named
    BY <1>8 DEF Evaluate
  <2> QED BY <1>1, <2>1, <2>2 DEF IInv, AllFollow
<1>9. CASE UNCHANGED vars BY <1>1, <1>9 DEF vars, IInv, AllFollow
<1> QED BY <1>4, <1>5, <1>6, <1>7, <1>8, <1>9 DEF Next

\* The invariant holds in every state.
THEOREM Invariance == Spec => []IInv
<1> QED BY InitInvariant, StepInvariant, PTL DEF Spec
-----------------------------------------------------------------------------
(* What follows.                                                            *)

\* A leaf that follows its cell is at the one place that has it.
LEMMA FollowsIsCurrent ==
  ASSUME rows \in Lines, cols \in Lines, NEW p \in Place, NEW q, Follows(rows, cols, q, p)
  PROVE  q = Current(p) /\ q \in Position \cup {Gone}
<1>1. /\ Len(rows) \in Nat /\ DOMAIN rows = 1 .. Len(rows) /\ Len(rows) <= MaxLength
      /\ Len(cols) \in Nat /\ DOMAIN cols = 1 .. Len(cols) /\ Len(cols) <= MaxLength
      /\ \A i, j \in 1 .. Len(rows) : rows[i] = rows[j] /\ rows[i] # New => i = j
      /\ \A i, j \in 1 .. Len(cols) : cols[i] = cols[j] /\ cols[i] # New => i = j
  <2>1. rows \in Seq({New} \cup Nat) /\ cols \in Seq({New} \cup Nat) BY DEF Lines
  <2>2. /\ Len(rows) \in Nat /\ DOMAIN rows = 1 .. Len(rows)
        /\ Len(cols) \in Nat /\ DOMAIN cols = 1 .. Len(cols)
    BY <2>1, ElementsOfSeq
  <2> QED BY <2>2 DEF Lines
<1>2. p.row \in Nat /\ p.col \in Nat /\ New \notin Nat BY DEF Place, New
<1>3. CASE q \in Place /\ On(rows, q.row, p.row) /\ On(cols, q.col, p.col)
  <2>1. q.row \in 0 .. MaxLength - 1 /\ q.col \in 0 .. MaxLength - 1
    BY <1>1, <1>3, BoundTypes DEF On, Place
  <2>2. q \in Position BY <1>3, <2>1 DEF Place, Position
  <2>3. IsNow(q, p) BY <1>1, <1>3 DEF IsNow, On
  <2>4. ASSUME NEW r \in Position, IsNow(r, p) PROVE r = q
    <3>1. r.row + 1 = q.row + 1 /\ r.col + 1 = q.col + 1
      BY <1>1, <1>2, <2>3, <2>4 DEF IsNow
    <3>2. /\ r.row \in Int /\ r.col \in Int /\ q.row \in Int /\ q.col \in Int
          /\ r = [row |-> r.row, col |-> r.col] /\ q = [row |-> q.row, col |-> q.col]
      BY <2>2, <2>4 DEF Position
    <3>3. r.row = q.row /\ r.col = q.col BY <3>1, <3>2
    <3> QED BY <3>2, <3>3
  <2>5. Current(p) = CHOOSE r \in Position : IsNow(r, p) BY <2>2, <2>3 DEF Current
  <2> QED BY <2>2, <2>3, <2>4, <2>5
<1>4. CASE q = Gone /\ ~ (Kept(rows, p.row) /\ Kept(cols, p.col))
  <2>1. \A r \in Position : ~ IsNow(r, p) BY <1>1, <1>4 DEF IsNow, Kept
  <2> QED BY <1>4, <2>1 DEF Current
<1> QED BY <1>3, <1>4 DEF Follows

\* Every leaf names the cell it named when the formula was parsed, wherever the
\* handlers have taken it, or is #REF! if that cell was deleted.
THEOREM ReferencesFollow == Spec => []LeavesFollow
<1>1. IInv => LeavesFollow
  <2> SUFFICES ASSUME IInv, NEW i \in DOMAIN formula.tree
               PROVE  formula.tree[i] = Current(named[i])
    BY DEF LeavesFollow
  <2>1. /\ rows \in Lines /\ cols \in Lines /\ named \in Seq(Place) /\ i \in 1 .. Len(named)
        /\ \A j \in 1 .. Len(named) : Follows(rows, cols, formula.tree[j], named[j])
    BY ListsOfFormula DEF IInv, AllFollow
  <2>2. named[i] \in Place BY <2>1, ElementsOfSeq
  <2> QED BY <2>1, <2>2, FollowsIsCurrent
<1> QED BY <1>1, Invariance, PTL

\* The handlers keep leaves and list within the sheet, and answer one of their
\* results.
THEOREM TypeCorrect == Spec => []TypeOK
<1>1. IInv => TypeOK
  <2> SUFFICES ASSUME IInv PROVE TypeOK OBVIOUS
  <2>1. \A i \in DOMAIN formula.tree : formula.tree[i] \in Position \cup {Gone}
    <3> SUFFICES ASSUME NEW i \in DOMAIN formula.tree
                 PROVE  formula.tree[i] \in Position \cup {Gone}
      OBVIOUS
    <3>1. /\ rows \in Lines /\ cols \in Lines /\ named \in Seq(Place)
          /\ i \in 1 .. Len(named)
          /\ \A j \in 1 .. Len(named) : Follows(rows, cols, formula.tree[j], named[j])
      BY ListsOfFormula DEF IInv, AllFollow
    <3>2. named[i] \in Place BY <3>1, ElementsOfSeq
    <3> QED BY <3>1, <3>2, FollowsIsCurrent
  <2>2. Consistent(formula) BY DEF IInv
  <2>3. \A i \in DOMAIN formula.ref_cells : formula.ref_cells[i] \in Position
    BY <2>1, <2>2, ListsOfFormula
  <2> QED BY <2>1, <2>2, <2>3 DEF IInv, Consistent, TypeOK, Answers
<1> QED BY <1>1, Invariance, PTL

\* GetReferencedCells returns the valid leaves of the tree, sorted and each
\* once, although the two are updated by different loops.
THEOREM ListIsLeaves == Spec => []RefsOfTree
<1>1. IInv => RefsOfTree BY DEF IInv, Consistent, InOrder, RefsOfTree
<1> QED BY <1>1, Invariance, PTL

\* Evaluate answers #REF! only for a formula that lost a reference.
THEOREM NoFalseAlarm == Spec => []NoFalseRef
<1>1. IInv => NoFalseRef BY DEF IInv, Consistent, NoFalseRef
<1> QED BY <1>1, Invariance, PTL

\* A handler answers what it did to the leaves, although it decides on the
\* list: the early returns skip exactly the calls that move no leaf.
THEOREM AnswersAreTrue == Spec => EffectReported
<1> DEFINE A == reply'.call = "Handle" /\ formula.self_hr # "ReferencesChanged"
                  /\ formula.ref_cells # <<>> => reply'.result = Effect
<1>1. IInv /\ [Next]_vars => [A]_vars
  <2> SUFFICES ASSUME IInv, Next, formula.self_hr # "ReferencesChanged",
                      formula.ref_cells # <<>>, reply'.call = "Handle"
               PROVE  reply'.result = Effect
    BY DEF vars
  <2>1. Effect = EffectOn(formula, formula') BY DEF Effect, EffectOn
  <2>2. Consistent(formula) BY DEF IInv
  <2>3. ASSUME NEW from \in 0 .. MaxLength, NEW count \in 1 .. MaxCount,
               InsertRows(from, count)
        PROVE  reply'.result = EffectOn(formula, formula')
    <3>1. from \in Nat /\ count \in Nat \ {0} BY BoundTypes
    <3> QED BY <2>2, <2>3, <3>1, InsertedRowsHandled DEF InsertRows, MovesWith, Becomes
  <2>4. ASSUME NEW from \in 0 .. MaxLength, NEW count \in 1 .. MaxCount,
               InsertCols(from, count)
        PROVE  reply'.result = EffectOn(formula, formula')
    <3>1. from \in Nat /\ count \in Nat \ {0} BY BoundTypes
    <3> QED BY <2>2, <2>4, <3>1, InsertedColsHandled DEF InsertCols, MovesWith, Becomes
  <2>5. ASSUME NEW from \in 0 .. MaxLength, NEW count \in 1 .. MaxCount,
               DeleteRows(from, count)
        PROVE  reply'.result = EffectOn(formula, formula')
    <3>1. from \in Nat /\ count \in Nat \ {0} BY BoundTypes
    <3> QED BY <2>2, <2>5, <3>1, DeletedRowsHandled DEF DeleteRows, MovesWith, Becomes
  <2>6. ASSUME NEW from \in 0 .. MaxLength, NEW count \in 1 .. MaxCount,
               DeleteCols(from, count)
        PROVE  reply'.result = EffectOn(formula, formula')
    <3>1. from \in Nat /\ count \in Nat \ {0} BY BoundTypes
    <3> QED BY <2>2, <2>6, <3>1, DeletedColsHandled DEF DeleteCols, MovesWith, Becomes
  <2>7. ~ Evaluate BY DEF Evaluate
  <2> QED BY <2>1, <2>3, <2>4, <2>5, <2>6, <2>7 DEF Next
<1> QED BY <1>1, Invariance, PTL DEF Spec, EffectReported
=============================================================================
