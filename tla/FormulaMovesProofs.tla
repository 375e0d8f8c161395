------------------------- MODULE FormulaMovesProofs -------------------------
(* Facts about FormulaMoves, for formulas with any number of leaves: what   *)
(* the handlers leave of a formula, and what they answer.                   *)

EXTENDS FormulaMoves, SequenceFacts

Place == [row : Nat, col : Nat]

-----------------------------------------------------------------------------
(* The order of positions, and lists sorted by it.                          *)

\* Position::operator< is a strict total order, in which the invalid position
\* comes first.
LEMMA LessOrders ==
  ASSUME NEW p \in Place \cup {Gone}, NEW q \in Place \cup {Gone}, NEW r \in Place \cup {Gone}
  PROVE  /\ ~ Less(p, p)
         /\ Less(p, q) /\ Less(q, r) => Less(p, r)
         /\ Less(p, q) \/ Less(q, p) \/ p = q
         /\ p # Gone => ~ Less(p, [row |-> 0, col |-> 0]) /\ Less(Gone, p)
         /\ Less(Gone, [row |-> 0, col |-> 0])
         /\ Less(p, q) => p.row <= q.row
BY DEF Less, Place, Gone

InOrder(s) == \A i, j \in DOMAIN s : i < j => Less(s[i], s[j])

\* What is sorted is the same elements as before, none before a lesser one; and
\* what was in the list once is in it once.
LEMMA SortedOrders ==
  ASSUME NEW s \in Seq(Place \cup {Gone})
  PROVE  LET t == Sorted(s) IN
         /\ t \in Seq(Place \cup {Gone}) /\ Len(t) = Len(s) /\ ToSet(t) = ToSet(s)
         /\ \A i, j \in 1 .. Len(t) : i < j => Less(t[i], t[j]) \/ t[i] = t[j]
         /\ \A i, j \in 1 .. Len(t) : i # j /\ t[i] = t[j] =>
              \E k, l \in 1 .. Len(s) : k # l /\ s[k] = s[l] /\ s[k] = t[i]
<1> DEFINE n == Len(s)
           before == [i \in 1 .. n |-> Before(s, i)]
           At(k) == CHOOSE i \in DOMAIN s : Cardinality(Before(s, i)) = k - 1
           t == [k \in DOMAIN s |-> s[At(k)]]
<1>1. n \in Nat /\ DOMAIN s = 1 .. n /\ \A i \in 1 .. n : s[i] \in Place \cup {Gone} OBVIOUS
<1>2. before \in [1 .. n -> SUBSET (1 .. n)] BY <1>1 DEF Before
<1>3. \A i, j \in 1 .. n : i \in before[j] <=> Less(s[i], s[j]) \/ (s[i] = s[j] /\ i < j)
  BY <1>1 DEF Before
<1>4. Sorted(s) = t /\ \A i \in 1 .. n : before[i] = Before(s, i) BY DEF Sorted
<1> HIDE DEF before
<1>5. \A i \in 1 .. n : i \notin before[i] BY <1>1, <1>3, LessOrders
<1>6. \A i, j \in 1 .. n : i # j => i \in before[j] \/ j \in before[i]
  BY <1>1, <1>3, LessOrders
<1>7. \A i, j, k \in 1 .. n : i \in before[j] /\ j \in before[k] => i \in before[k]
  BY <1>1, <1>3, LessOrders
<1>8. /\ \A i, j \in 1 .. n : i \in before[j] <=> Cardinality(before[i]) < Cardinality(before[j])
      /\ \A i \in 1 .. n : Cardinality(before[i]) \in 0 .. n - 1
      /\ \A k \in 1 .. n : \E i \in 1 .. n : Cardinality(before[i]) = k - 1
      /\ \A i, j \in 1 .. n : Cardinality(before[i]) = Cardinality(before[j]) => i = j
  BY <1>1, <1>2, <1>5, <1>6, <1>7, RankIsPlace
<1>9. \A k \in 1 .. n : At(k) \in 1 .. n /\ Cardinality(before[At(k)]) = k - 1
  <2> SUFFICES ASSUME NEW k \in 1 .. n
               PROVE  At(k) \in 1 .. n /\ Cardinality(before[At(k)]) = k - 1
    OBVIOUS
  <2>1. \E i \in DOMAIN s : Cardinality(Before(s, i)) = k - 1 BY <1>1, <1>4, <1>8
  <2>2. At(k) \in DOMAIN s /\ Cardinality(Before(s, At(k))) = k - 1 BY <2>1
  <2> QED BY <1>1, <1>4, <2>2
<1>10. \A k \in 1 .. n : t[k] = s[At(k)] BY <1>1
<1> HIDE DEF At
<1>11. t \in Seq(Place \cup {Gone}) /\ Len(t) = n BY <1>1, <1>9
<1>12. ASSUME NEW i \in 1 .. n PROVE \E k \in 1 .. n : At(k) = i
  <2> DEFINE k == Cardinality(before[i]) + 1
  <2>1. Cardinality(before[i]) \in 0 .. n - 1 BY <1>8
  <2>2. k \in 1 .. n /\ Cardinality(before[i]) = k - 1 BY <2>1
  <2> HIDE DEF k
  <2>3. At(k) = i BY <1>8, <1>9, <2>2
  <2> QED BY <2>2, <2>3
<1>13. ToSet(t) = ToSet(s)
  <2>1. DOMAIN t = 1 .. n BY <1>1
  <2>2. \A k \in 1 .. n : \E i \in 1 .. n : t[k] = s[i] BY <1>9, <1>10
  <2>3. \A i \in 1 .. n : \E k \in 1 .. n : s[i] = t[k] BY <1>10, <1>12
  <2> HIDE DEF t
  <2>4. \A x \in ToSet(t) : x \in ToSet(s) BY <1>1, <2>1, <2>2 DEF ToSet
  <2>5. \A x \in ToSet(s) : x \in ToSet(t) BY <1>1, <2>1, <2>3 DEF ToSet
  <2> QED BY <2>4, <2>5
<1>14. ASSUME NEW i \in 1 .. n, NEW j \in 1 .. n, i < j
       PROVE  At(i) # At(j) /\ (Less(t[i], t[j]) \/ t[i] = t[j])
  <2>1. /\ At(i) \in 1 .. n /\ At(j) \in 1 .. n
        /\ Cardinality(before[At(i)]) = i - 1 /\ Cardinality(before[At(j)]) = j - 1
    BY <1>9
  <2>2. i - 1 < j - 1 BY <1>1, <1>14
  <2>3. At(i) \in before[At(j)] BY <1>8, <2>1, <2>2
  <2> HIDE DEF t
  <2> QED BY <1>3, <1>5, <1>10, <2>1, <2>3
<1> HIDE DEF t
<1>15. ASSUME NEW i \in 1 .. n, NEW j \in 1 .. n, i # j, t[i] = t[j]
       PROVE  \E k, l \in 1 .. n : k # l /\ s[k] = s[l] /\ s[k] = t[i]
  <2>1. At(i) # At(j) BY <1>14, <1>15
  <2>2. At(i) \in 1 .. n /\ At(j) \in 1 .. n /\ t[i] = s[At(i)] /\ t[j] = s[At(j)]
    BY <1>9, <1>10
  <2> QED BY <1>15, <2>1, <2>2
<1>16. \A i, j \in 1 .. Len(t) : i < j => Less(t[i], t[j]) \/ t[i] = t[j] BY <1>11, <1>14
<1>17. \A i, j \in 1 .. Len(t) : i # j /\ t[i] = t[j] =>
         \E k, l \in 1 .. Len(s) : k # l /\ s[k] = s[l] /\ s[k] = t[i]
  BY <1>11, <1>15
<1> HIDE DEF n
<1> QED BY <1>4, <1>11, <1>13, <1>16, <1>17 DEF n

\* lower_bound by row splits an ordered list at the row.
LEMMA LowerBoundSplits ==
  ASSUME NEW s \in Seq(Place), InOrder(s), NEW row \in Int
  PROVE  \A i \in DOMAIN s : i >= LowerBound(s, row) <=> s[i].row >= row
<1> DEFINE n == Len(s)
           D == {i \in DOMAIN s : s[i].row < row}
<1>1. n \in Nat /\ DOMAIN s = 1 .. n /\ \A i \in 1 .. n : s[i] \in Place /\ s[i].row \in Nat
  <2>1. n \in Nat /\ DOMAIN s = 1 .. n /\ \A i \in 1 .. n : s[i] \in Place OBVIOUS
  <2> QED BY <2>1 DEF Place
<1>2. D \in SUBSET (1 .. n) BY <1>1
<1>3. ASSUME NEW i \in D, NEW j \in 1 .. n, j <= i PROVE j \in D
  <2>1. j = i \/ s[j].row <= s[i].row BY <1>1, <1>3, LessOrders, SMTT(60) DEF InOrder
  <2> QED BY <1>1, <2>1
<1>4. \A i \in 1 .. n : i \in D <=> ~ s[i].row >= row BY <1>1
<1>5. LowerBound(s, row) = 1 + Cardinality(D) BY DEF LowerBound
<1> HIDE DEF n, D
<1>6. D = 1 .. Cardinality(D) /\ Cardinality(D) \in 0 .. n BY <1>1, <1>2, <1>3, PrefixCount
<1> QED BY <1>1, <1>4, <1>5, <1>6

\* ref_cells.back() is in the last row of an ordered list.
LEMMA LastIsLowest ==
  ASSUME NEW s \in Seq(Place), s # <<>>, InOrder(s)
  PROVE  /\ Len(s) \in DOMAIN s /\ Last(s) = s[Len(s)] /\ Last(s) \in Place
         /\ \A i \in DOMAIN s : s[i].row <= Last(s).row
<1>1. /\ Len(s) \in Nat \ {0} /\ DOMAIN s = 1 .. Len(s)
      /\ \A i \in 1 .. Len(s) : s[i] \in Place /\ s[i].row \in Nat
  <2>1. /\ Len(s) \in Nat \ {0} /\ DOMAIN s = 1 .. Len(s)
        /\ \A i \in 1 .. Len(s) : s[i] \in Place
    OBVIOUS
  <2> QED BY <2>1 DEF Place
<1>2. Last(s) = s[Len(s)] BY DEF Last
<1>3. ASSUME NEW i \in 1 .. Len(s) PROVE s[i].row <= s[Len(s)].row
  <2>1. s[i] \in Place /\ s[Len(s)] \in Place /\ s[i].row \in Nat BY <1>1
  <2>2. CASE i = Len(s) BY <2>1, <2>2
  <2>3. CASE i < Len(s)
    <3>1. Less(s[i], s[Len(s)]) BY <1>1, <2>3 DEF InOrder
    <3> QED BY <2>1, <3>1, LessOrders
  <2>4. i = Len(s) \/ i < Len(s)
    <3> DEFINE n == Len(s)
    <3>1. n \in Nat /\ i \in 1 .. n BY <1>1
    <3> HIDE DEF n
    <3>2. i = n \/ i < n BY ONLY <3>1
    <3> QED BY <3>2 DEF n
  <2> QED BY <2>2, <2>3, <2>4
<1>4. Len(s) \in 1 .. Len(s) BY <1>1
<1> QED BY <1>1, <1>2, <1>3, <1>4
-----------------------------------------------------------------------------
(* Where positions go.                                                      *)

Axes == {"row", "col"}

\* An insertion keeps the order of positions and loses none.
LEMMA InsertionKeepsOrder ==
  ASSUME NEW axis \in Axes, NEW before \in Nat, NEW count \in Nat,
         NEW p \in Place \cup {Gone}, NEW q \in Place \cup {Gone}
  PROVE  LET To(r) == InsertedAt(r, axis, before, count) IN
         /\ To(p) \in Place \cup {Gone} /\ (To(p) = Gone <=> p = Gone)
         /\ Less(p, q) => Less(To(p), To(q))
         /\ p[axis] < before => To(p) = p
         /\ count > 0 /\ p[axis] >= before => To(p) # p
<1>1. CASE axis = "row" BY <1>1 DEF InsertedAt, Place, Gone, Less
<1>2. CASE axis = "col" BY <1>2 DEF InsertedAt, Place, Gone, Less
<1> QED BY <1>1, <1>2 DEF Axes

\* A deletion loses exactly what it deletes and keeps the order of the rest.
LEMMA DeletionKeepsOrder ==
  ASSUME NEW axis \in Axes, NEW first \in Nat, NEW count \in Nat,
         NEW p \in Place \cup {Gone}, NEW q \in Place \cup {Gone}
  PROVE  LET To(r) == DeletedAt(r, axis, first, count) IN
         /\ To(p) \in Place \cup {Gone}
         /\ To(p) = Gone <=> p = Gone \/ Deletes(p, axis, first, count)
         /\ Less(p, q) /\ To(p) # Gone /\ To(q) # Gone => Less(To(p), To(q))
         /\ p[axis] < first => To(p) = p
         /\ count > 0 /\ p[axis] >= first => To(p) # p
<1>1. CASE axis = "row" BY <1>1 DEF DeletedAt, Deletes, Place, Gone, Less
<1>2. CASE axis = "col" BY <1>2 DEF DeletedAt, Deletes, Place, Gone, Less
<1> QED BY <1>1, <1>2 DEF Axes
-----------------------------------------------------------------------------
(* The two lists of a formula.                                              *)

\* The invalid positions of a list sorted go, and only they.
LEMMA GoneIsDropped ==
  ASSUME NEW s \in Seq(Place \cup {Gone}),
         \A i, j \in 1 .. Len(s) : i # j /\ s[i] = s[j] => s[i] = Gone
  PROVE  /\ DropGone(s) \in Seq(Place) /\ InOrder(DropGone(s))
         /\ ToSet(DropGone(s)) = ToSet(s) \ {Gone}
<1> DEFINE t == Sorted(s)
           n == Len(t)
           k == BeforeOrigin(t)
           D == {i \in DOMAIN t : Less(t[i], [row |-> 0, col |-> 0])}
           u == DropGone(s)
<1>1. u = SubSeq(t, k + 1, n) BY DEF DropGone
<1>2. k = Cardinality(D) BY DEF BeforeOrigin
<1>3. /\ t \in Seq(Place \cup {Gone}) /\ ToSet(t) = ToSet(s)
      /\ \A i, j \in 1 .. n : i < j => Less(t[i], t[j]) \/ t[i] = t[j]
      /\ \A i, j \in 1 .. n : i # j /\ t[i] = t[j] => t[i] = Gone
  BY SortedOrders
<1> HIDE DEF t, u, k
<1>4. n \in Nat /\ DOMAIN t = 1 .. n /\ \A i \in 1 .. n : t[i] \in Place \cup {Gone}
  BY <1>3
<1> HIDE DEF n
<1>5. D \in SUBSET (1 .. n) /\ \A i \in 1 .. n : i \in D <=> t[i] = Gone
  BY <1>4, LessOrders
<1> HIDE DEF D
<1>6. ASSUME NEW i \in D, NEW j \in 1 .. n, j <= i PROVE j \in D
  <2>1. j = i \/ Less(t[j], Gone) \/ t[j] = Gone BY <1>3, <1>4, <1>5, <1>6
  <2>2. t[j] = Gone
    <3>1. Less(t[j], Gone) => t[j] = Gone BY <1>4, LessOrders DEF Place, Gone, Less
    <3> QED BY <1>5, <1>6, <2>1, <3>1
  <2> QED BY <1>5, <2>2
<1>7. k \in 0 .. n /\ D = 1 .. k BY <1>2, <1>4, <1>5, <1>6, PrefixCount
<1>8. \A i \in k + 1 .. n : t[i] \in Place
  BY <1>4, <1>5, <1>7
<1>9. /\ u \in Seq(Place) /\ Len(u) = n - k
      /\ \A i \in 1 .. n - k : u[i] = t[k + i]
  <2>1. k + 1 \in Int /\ n \in Int BY <1>4, <1>7
  <2>2. /\ SubSeq(t, k + 1, n) \in Seq(Place)
        /\ Len(SubSeq(t, k + 1, n)) = IF k + 1 <= n THEN n - (k + 1) + 1 ELSE 0
        /\ \A i \in 1 .. n - (k + 1) + 1 : SubSeq(t, k + 1, n)[i] = t[k + 1 + i - 1]
    BY <1>8, <2>1, SubSeqProperties
  <2>3. n - (k + 1) + 1 = n - k /\ (IF k + 1 <= n THEN n - (k + 1) + 1 ELSE 0) = n - k
    BY <1>4, <1>7
  <2>4. \A i \in 1 .. n - k : k + 1 + i - 1 = k + i BY <1>4, <1>7
  <2> QED BY <1>1, <2>2, <2>3, <2>4
<1>10. DOMAIN u = 1 .. n - k BY <1>9
<1>11. InOrder(u)
  <2> SUFFICES ASSUME NEW i \in 1 .. n - k, NEW j \in 1 .. n - k, i < j
               PROVE  Less(u[i], u[j])
    BY <1>10 DEF InOrder
  <2>1. k + i \in k + 1 .. n /\ k + j \in k + 1 .. n /\ k + i < k + j BY <1>4, <1>7
  <2>2. k + i \in 1 .. n /\ k + j \in 1 .. n BY <1>4, <1>7
  <2>3. t[k + i] # t[k + j] BY <1>3, <1>8, <2>1, <2>2 DEF Place, Gone
  <2> QED BY <1>3, <1>9, <2>1, <2>2, <2>3
<1>12. ToSet(u) = ToSet(t) \ {Gone}
  <2>1. ASSUME NEW i \in 1 .. n - k PROVE u[i] \in ToSet(t) \ {Gone}
    <3>1. k + i \in k + 1 .. n /\ k + i \in 1 .. n BY <1>4, <1>7
    <3>2. t[k + i] # Gone BY <1>8, <3>1 DEF Place, Gone
    <3> QED BY <1>4, <1>9, <3>1, <3>2 DEF ToSet
  <2>2. ASSUME NEW i \in 1 .. n, t[i] # Gone PROVE t[i] \in ToSet(u)
    <3>1. i \notin 1 .. k BY <1>5, <1>7, <2>2
    <3>2. i - k \in 1 .. n - k /\ k + (i - k) = i BY <1>4, <1>7, <3>1
    <3> QED BY <1>9, <1>10, <3>2 DEF ToSet
  <2>3. \A x \in ToSet(u) : x \in ToSet(t) \ {Gone} BY <1>10, <2>1 DEF ToSet
  <2>4. \A x \in ToSet(t) \ {Gone} : x \in ToSet(u) BY <1>4, <2>2 DEF ToSet
  <2> QED BY <2>3, <2>4
<1> QED BY <1>3, <1>9, <1>11, <1>12 DEF u

\* The list is the valid leaves, in order and each once; and a formula that is
\* #REF! has lost a leaf.
Consistent(f) ==
  /\ f.tree \in Seq(Place \cup {Gone}) /\ f.ref_cells \in Seq(Place)
  /\ f.self_hr \in Results
  /\ ToSet(f.ref_cells) = ToSet(f.tree) \ {Gone}
  /\ InOrder(f.ref_cells)
  /\ f.self_hr = "ReferencesChanged" => HasLost(f)

\* A sorted list of what is in tree, and both moved by To.
MovedTogether(tree, refs, To, moved, list) ==
  /\ tree \in Seq(Place \cup {Gone}) /\ refs \in Seq(Place)
  /\ ToSet(refs) = ToSet(tree) \ {Gone} /\ InOrder(refs)
  /\ To \in [Place \cup {Gone} -> Place \cup {Gone}] /\ To[Gone] = Gone
  /\ \A p, q \in Place : Less(p, q) /\ To[p] # Gone /\ To[q] # Gone => Less(To[p], To[q])
  /\ moved \in Seq(Place \cup {Gone}) /\ Len(moved) = Len(tree)
  /\ \A i \in DOMAIN tree : moved[i] = To[tree[i]]
  /\ list \in Seq(Place \cup {Gone}) /\ Len(list) = Len(refs)
  /\ \A i \in DOMAIN refs : list[i] = To[refs[i]]

\* Leaves and list moved alike agree after, but for what is gone.
LEMMA MovedAlike ==
  ASSUME NEW tree, NEW refs, NEW To, NEW moved, NEW list,
         MovedTogether(tree, refs, To, moved, list)
  PROVE  /\ ToSet(list) \ {Gone} = ToSet(moved) \ {Gone}
         /\ Gone \notin ToSet(list) =>
              list \in Seq(Place) /\ InOrder(list) /\ ToSet(list) = ToSet(moved) \ {Gone}
         /\ DropGone(list) \in Seq(Place) /\ InOrder(DropGone(list))
         /\ ToSet(DropGone(list)) = ToSet(moved) \ {Gone}
<1> USE DEF MovedTogether
<1> DEFINE n == Len(refs)
           m == Len(tree)
<1>1. /\ n \in Nat /\ DOMAIN refs = 1 .. n /\ DOMAIN list = 1 .. n /\ Len(list) = n
      /\ m \in Nat /\ DOMAIN tree = 1 .. m /\ DOMAIN moved = 1 .. m
      /\ \A i \in 1 .. n : refs[i] \in Place /\ list[i] \in Place \cup {Gone}
      /\ \A i \in 1 .. m : tree[i] \in Place \cup {Gone}
  BY ElementsOfSeq
<1>2. /\ \A i \in 1 .. n : list[i] = To[refs[i]]
      /\ \A i \in 1 .. m : moved[i] = To[tree[i]]
  BY <1>1
<1>3. /\ \A x : x \in ToSet(list) <=> \E i \in 1 .. n : list[i] = x
      /\ \A x : x \in ToSet(refs) <=> \E i \in 1 .. n : refs[i] = x
      /\ \A x : x \in ToSet(moved) <=> \E i \in 1 .. m : moved[i] = x
      /\ \A x : x \in ToSet(tree) <=> \E i \in 1 .. m : tree[i] = x
  <2>1. Len(list) = n /\ Len(moved) = m OBVIOUS
  <2>2. \A x : x \in ToSet(refs) <=> \E i \in 1 .. n : refs[i] = x BY MembersOfSeq
  <2>3. \A x : x \in ToSet(tree) <=> \E i \in 1 .. m : tree[i] = x BY MembersOfSeq
  <2> HIDE DEF n, m
  <2>4. \A x : x \in ToSet(list) <=> \E i \in 1 .. n : list[i] = x BY <2>1, MembersOfSeq
  <2>5. \A x : x \in ToSet(moved) <=> \E i \in 1 .. m : moved[i] = x BY <2>1, MembersOfSeq
  <2> QED BY <2>2, <2>3, <2>4, <2>5
<1> HIDE DEF n, m
<1>4. \A x \in ToSet(list) \ {Gone} : x \in ToSet(moved)
  <2> SUFFICES ASSUME NEW i \in 1 .. n PROVE list[i] \in ToSet(moved) BY <1>3
  <2>1. refs[i] \in ToSet(tree) BY <1>3
  <2>2. PICK j \in 1 .. m : tree[j] = refs[i] BY <1>3, <2>1
  <2>3. list[i] = moved[j] BY <1>2, <2>2
  <2> QED BY <1>3, <2>3
<1>5. \A x \in ToSet(moved) \ {Gone} : x \in ToSet(list)
  <2> SUFFICES ASSUME NEW j \in 1 .. m, moved[j] # Gone PROVE moved[j] \in ToSet(list)
    BY <1>3
  <2>1. tree[j] \in ToSet(tree) \ {Gone} BY <1>2, <1>3
  <2>2. PICK i \in 1 .. n : refs[i] = tree[j] BY <1>3, <2>1
  <2>3. list[i] = moved[j] BY <1>2, <2>2
  <2> QED BY <1>3, <2>3
<1>6. ToSet(list) \ {Gone} = ToSet(moved) \ {Gone} BY <1>4, <1>5
<1>7. \A i, j \in 1 .. n : i < j /\ list[i] # Gone /\ list[j] # Gone => Less(list[i], list[j])
  <2> SUFFICES ASSUME NEW i \in 1 .. n, NEW j \in 1 .. n, i < j,
                      list[i] # Gone, list[j] # Gone
               PROVE  Less(list[i], list[j])
    OBVIOUS
  <2>1. refs[i] \in Place /\ refs[j] \in Place /\ Less(refs[i], refs[j])
    BY <1>1 DEF InOrder
  <2> QED BY <1>2, <2>1
<1>8. \A i, j \in 1 .. Len(list) : i # j /\ list[i] = list[j] => list[i] = Gone
  <2> SUFFICES ASSUME NEW i \in 1 .. n, NEW j \in 1 .. n, i < j, list[i] = list[j]
               PROVE  list[i] = Gone
    BY <1>1
  <2>1. list[i] \in Place \cup {Gone} BY <1>1
  <2> QED BY <1>7, <2>1, LessOrders
<1>9. ASSUME Gone \notin ToSet(list)
      PROVE  list \in Seq(Place) /\ InOrder(list) /\ ToSet(list) = ToSet(moved) \ {Gone}
  <2>1. \A i \in 1 .. n : list[i] # Gone BY <1>3, <1>9
  <2>2. \A i \in 1 .. n : list[i] \in Place BY <1>1, <2>1
  <2>3. list \in Seq(Place) BY <1>1, <2>2, SeqOfElements
  <2>4. InOrder(list) BY <1>1, <1>7, <2>1 DEF InOrder
  <2> QED BY <1>6, <1>9, <2>3, <2>4
<1> QED BY <1>6, <1>8, <1>9, GoneIsDropped
-----------------------------------------------------------------------------
(* The handlers.                                                            *)

\* What became of the leaves of f in g: the answer the handlers should give.
EffectOn(f, g) ==
  IF \E i \in DOMAIN f.tree : f.tree[i] # Gone /\ g.tree[i] = Gone THEN "ReferencesChanged"
  ELSE IF g.tree # f.tree THEN "ReferencesRenamedOnly"
  ELSE "NothingChanged"

LeavesInserted(f, axis, before, count) ==
  [i \in DOMAIN f.tree |-> InsertedAt(f.tree[i], axis, before, count)]
LeavesDeleted(f, axis, first, count) ==
  [i \in DOMAIN f.tree |-> DeletedAt(f.tree[i], axis, first, count)]

\* The elements of the two lists, one by one.
LEMMA ListsOfFormula ==
  ASSUME NEW f, Consistent(f)
  PROVE  /\ Len(f.tree) \in Nat /\ DOMAIN f.tree = 1 .. Len(f.tree)
         /\ \A i \in DOMAIN f.tree : f.tree[i] \in Place \cup {Gone}
         /\ Len(f.ref_cells) \in Nat /\ DOMAIN f.ref_cells = 1 .. Len(f.ref_cells)
         /\ \A i \in DOMAIN f.ref_cells : f.ref_cells[i] \in Place /\ f.ref_cells[i] # Gone
         /\ \A i \in DOMAIN f.tree : f.tree[i] # Gone =>
              \E j \in DOMAIN f.ref_cells : f.ref_cells[j] = f.tree[i]
         /\ \A j \in DOMAIN f.ref_cells : \E i \in DOMAIN f.tree : f.tree[i] = f.ref_cells[j]
<1>1. /\ f.tree \in Seq(Place \cup {Gone}) /\ f.ref_cells \in Seq(Place)
      /\ ToSet(f.ref_cells) = ToSet(f.tree) \ {Gone}
  BY DEF Consistent
<1>2. /\ Len(f.tree) \in Nat /\ DOMAIN f.tree = 1 .. Len(f.tree)
      /\ \A i \in DOMAIN f.tree : f.tree[i] \in Place \cup {Gone}
  BY <1>1, ElementsOfSeq
<1>3. /\ Len(f.ref_cells) \in Nat /\ DOMAIN f.ref_cells = 1 .. Len(f.ref_cells)
      /\ \A i \in DOMAIN f.ref_cells : f.ref_cells[i] \in Place
  BY <1>1, ElementsOfSeq
<1>4. \A x : x \in ToSet(f.tree) <=> \E i \in DOMAIN f.tree : f.tree[i] = x
  BY <1>1, <1>2, MembersOfSeq
<1>5. \A x : x \in ToSet(f.ref_cells) <=> \E i \in DOMAIN f.ref_cells : f.ref_cells[i] = x
  BY <1>1, <1>3, MembersOfSeq
<1>6. \A i \in DOMAIN f.ref_cells : f.ref_cells[i] # Gone BY <1>1, <1>5
<1>7. \A i \in DOMAIN f.tree : f.tree[i] # Gone =>
        \E j \in DOMAIN f.ref_cells : f.ref_cells[j] = f.tree[i]
  BY <1>1, <1>4, <1>5
<1>8. \A j \in DOMAIN f.ref_cells : \E i \in DOMAIN f.tree : f.tree[i] = f.ref_cells[j]
  BY <1>1, <1>4, <1>5
<1> QED BY <1>2, <1>3, <1>6, <1>7, <1>8

\* The early returns are taken only when no leaf moves.
LEMMA BeyondMovesNothing ==
  ASSUME NEW f, Consistent(f), NEW axis \in Axes, NEW from \in Nat, NEW count \in Nat,
         \A i \in DOMAIN f.ref_cells : f.ref_cells[i][axis] < from
  PROVE  /\ LeavesInserted(f, axis, from, count) = f.tree
         /\ LeavesDeleted(f, axis, from, count) = f.tree
<1>1. f.tree = [i \in DOMAIN f.tree |-> f.tree[i]] BY DEF Consistent
<1>2. ASSUME NEW i \in DOMAIN f.tree
      PROVE  f.tree[i] \in Place \cup {Gone} /\ f.tree[i][axis] < from
  <2>1. f.tree[i] \in Place \cup {Gone} BY ListsOfFormula
  <2>2. CASE f.tree[i] = Gone
    <3>1. CASE axis = "row" BY <2>2, <3>1 DEF Gone
    <3>2. CASE axis = "col" BY <2>2, <3>2 DEF Gone
    <3> QED BY <2>1, <3>1, <3>2 DEF Axes
  <2>3. CASE f.tree[i] # Gone
    <3>1. PICK j \in DOMAIN f.ref_cells : f.ref_cells[j] = f.tree[i] BY <2>3, ListsOfFormula
    <3> QED BY <2>1, <3>1
  <2> QED BY <2>2, <2>3
<1>3. \A i \in DOMAIN f.tree : InsertedAt(f.tree[i], axis, from, count) = f.tree[i]
  BY <1>2, InsertionKeepsOrder
<1>4. \A i \in DOMAIN f.tree : DeletedAt(f.tree[i], axis, from, count) = f.tree[i]
  BY <1>2, DeletionKeepsOrder
<1> QED BY <1>1, <1>3, <1>4 DEF LeavesInserted, LeavesDeleted

\* Both lists moved by an insertion.
LEMMA RenamedConsistent ==
  ASSUME NEW f, Consistent(f), NEW axis \in Axes, NEW before \in Nat, NEW count \in Nat,
         NEW g, g.tree = LeavesInserted(f, axis, before, count),
         g.ref_cells = [i \in DOMAIN f.ref_cells |->
                          InsertedAt(f.ref_cells[i], axis, before, count)],
         g.self_hr = "ReferencesRenamedOnly"
  PROVE  Consistent(g)
<1> DEFINE To == [p \in Place \cup {Gone} |-> InsertedAt(p, axis, before, count)]
<1>1. /\ f.tree \in Seq(Place \cup {Gone}) /\ f.ref_cells \in Seq(Place)
      /\ ToSet(f.ref_cells) = ToSet(f.tree) \ {Gone} /\ InOrder(f.ref_cells)
  BY DEF Consistent
<1>2. /\ To \in [Place \cup {Gone} -> Place \cup {Gone}] /\ To[Gone] = Gone
      /\ \A p \in Place \cup {Gone} : To[p] = InsertedAt(p, axis, before, count)
      /\ \A p \in Place : To[p] # Gone
      /\ \A p, q \in Place : Less(p, q) => Less(To[p], To[q])
  <2>1. \A p \in Place : p # Gone BY DEF Place, Gone
  <2> QED BY <2>1, InsertionKeepsOrder
<1> HIDE DEF To
<1>3. /\ Len(f.tree) \in Nat /\ DOMAIN f.tree = 1 .. Len(f.tree)
      /\ \A i \in DOMAIN f.tree : f.tree[i] \in Place \cup {Gone}
      /\ Len(f.ref_cells) \in Nat /\ DOMAIN f.ref_cells = 1 .. Len(f.ref_cells)
      /\ \A i \in DOMAIN f.ref_cells : f.ref_cells[i] \in Place
  BY ListsOfFormula
<1>4. /\ g.tree \in Seq(Place \cup {Gone}) /\ Len(g.tree) = Len(f.tree)
      /\ \A i \in DOMAIN f.tree : g.tree[i] = To[f.tree[i]]
  <2>1. g.tree = [i \in 1 .. Len(f.tree) |-> To[f.tree[i]]]
    BY <1>2, <1>3 DEF LeavesInserted
  <2> QED BY <1>2, <1>3, <2>1
<1>5. /\ g.ref_cells \in Seq(Place \cup {Gone}) /\ Len(g.ref_cells) = Len(f.ref_cells)
      /\ \A i \in DOMAIN f.ref_cells : g.ref_cells[i] = To[f.ref_cells[i]]
  <2>1. g.ref_cells = [i \in 1 .. Len(f.ref_cells) |-> To[f.ref_cells[i]]]
    BY <1>2, <1>3
  <2> QED BY <1>2, <1>3, <2>1
<1>6. Gone \notin ToSet(g.ref_cells)
  <2>1. \A i \in 1 .. Len(g.ref_cells) : g.ref_cells[i] # Gone BY <1>2, <1>3, <1>5
  <2> QED BY <1>5, <2>1, MembersOfSeq
<1>7. /\ g.ref_cells \in Seq(Place) /\ InOrder(g.ref_cells)
      /\ ToSet(g.ref_cells) = ToSet(g.tree) \ {Gone}
  <2>1. MovedTogether(f.tree, f.ref_cells, To, g.tree, g.ref_cells)
    BY <1>1, <1>2, <1>4, <1>5 DEF MovedTogether
  <2> QED BY <1>6, <2>1, MovedAlike
<1> QED BY <1>4, <1>7 DEF Consistent, Results

\* Both lists moved by a deletion, and what it answers.
LEMMA DeletedConsistent ==
  ASSUME NEW f, Consistent(f), NEW axis \in Axes, NEW first \in Nat, NEW count \in Nat \ {0},
         \E i \in DOMAIN f.ref_cells : f.ref_cells[i][axis] >= first,
         NEW refs, refs = [i \in DOMAIN f.ref_cells |->
                             DeletedAt(f.ref_cells[i], axis, first, count)]
  PROVE  LET h == Deleted(f, axis, first, count, refs) IN
         /\ Consistent(h.formula)
         /\ h.formula.tree = LeavesDeleted(f, axis, first, count)
         /\ h.result \in Results
         /\ f.self_hr # "ReferencesChanged" => h.result = EffectOn(f, h.formula)
<1> DEFINE To == [p \in Place \cup {Gone} |-> DeletedAt(p, axis, first, count)]
           hits == \E i \in DOMAIN f.ref_cells : Deletes(f.ref_cells[i], axis, first, count)
           changed == f.self_hr = "ReferencesChanged" \/ hits
           hr == IF changed THEN "ReferencesChanged" ELSE "ReferencesRenamedOnly"
           g == [tree |-> LeavesDeleted(f, axis, first, count),
                 ref_cells |-> IF changed THEN DropGone(refs) ELSE refs,
                 self_hr |-> hr]
           h == Deleted(f, axis, first, count, refs)
<1>1. /\ f.tree \in Seq(Place \cup {Gone}) /\ f.ref_cells \in Seq(Place)
      /\ ToSet(f.ref_cells) = ToSet(f.tree) \ {Gone} /\ InOrder(f.ref_cells)
      /\ f.self_hr \in Results /\ (f.self_hr = "ReferencesChanged" => HasLost(f))
  BY DEF Consistent
<1>2. h.formula = g /\ h.result = hr BY DEF Deleted, MoveAst, LeavesDeleted
<1>3. /\ To \in [Place \cup {Gone} -> Place \cup {Gone}] /\ To[Gone] = Gone
      /\ \A p \in Place \cup {Gone} : To[p] = DeletedAt(p, axis, first, count)
      /\ \A p \in Place : To[p] = Gone <=> Deletes(p, axis, first, count)
      /\ \A p, q \in Place : Less(p, q) /\ To[p] # Gone /\ To[q] # Gone => Less(To[p], To[q])
      /\ \A p \in Place : p[axis] >= first => To[p] # p
  <2>1. \A p \in Place : p # Gone BY DEF Place, Gone
  <2> QED BY <2>1, DeletionKeepsOrder
<1>4. /\ Len(f.tree) \in Nat /\ DOMAIN f.tree = 1 .. Len(f.tree)
      /\ \A i \in DOMAIN f.tree : f.tree[i] \in Place \cup {Gone}
      /\ Len(f.ref_cells) \in Nat /\ DOMAIN f.ref_cells = 1 .. Len(f.ref_cells)
      /\ \A i \in DOMAIN f.ref_cells : f.ref_cells[i] \in Place /\ f.ref_cells[i] # Gone
  BY ListsOfFormula
<1>5. /\ \A i \in DOMAIN f.tree : f.tree[i] # Gone =>
           \E j \in DOMAIN f.ref_cells : f.ref_cells[j] = f.tree[i]
      /\ \A j \in DOMAIN f.ref_cells : \E i \in DOMAIN f.tree : f.tree[i] = f.ref_cells[j]
  BY ListsOfFormula
<1>6. /\ g.tree = LeavesDeleted(f, axis, first, count) /\ g.self_hr = hr
      /\ g.ref_cells = IF changed THEN DropGone(refs) ELSE refs
  OBVIOUS
<1>7. changed <=> f.self_hr = "ReferencesChanged" \/ hits OBVIOUS
<1>8. hr = IF changed THEN "ReferencesChanged" ELSE "ReferencesRenamedOnly" OBVIOUS
<1>9. hits <=> \E i \in DOMAIN f.ref_cells : Deletes(f.ref_cells[i], axis, first, count)
  OBVIOUS
<1> HIDE DEF To, g, h, hr, changed, hits
<1>10. /\ g.tree \in Seq(Place \cup {Gone}) /\ Len(g.tree) = Len(f.tree)
       /\ \A i \in DOMAIN f.tree : g.tree[i] = To[f.tree[i]]
  <2>1. g.tree = [i \in 1 .. Len(f.tree) |-> To[f.tree[i]]]
    BY <1>3, <1>4, <1>6 DEF LeavesDeleted
  <2> QED BY <1>3, <1>4, <2>1
<1>11. /\ refs \in Seq(Place \cup {Gone}) /\ Len(refs) = Len(f.ref_cells)
       /\ \A i \in DOMAIN f.ref_cells : refs[i] = To[f.ref_cells[i]]
  <2>1. refs = [i \in 1 .. Len(f.ref_cells) |-> To[f.ref_cells[i]]]
    BY <1>3, <1>4
  <2> QED BY <1>3, <1>4, <2>1
<1>12. MovedTogether(f.tree, f.ref_cells, To, g.tree, refs)
  BY <1>1, <1>3, <1>10, <1>11 DEF MovedTogether
<1>13. /\ Gone \notin ToSet(refs) =>
            refs \in Seq(Place) /\ InOrder(refs) /\ ToSet(refs) = ToSet(g.tree) \ {Gone}
       /\ DropGone(refs) \in Seq(Place) /\ InOrder(DropGone(refs))
       /\ ToSet(DropGone(refs)) = ToSet(g.tree) \ {Gone}
  BY <1>12, MovedAlike
<1>14. Gone \in ToSet(refs) => hits
  <2>1. Gone \in ToSet(refs) <=> \E i \in 1 .. Len(refs) : refs[i] = Gone
    BY <1>11, MembersOfSeq
  <2>2. Gone \in ToSet(refs) => \E i \in DOMAIN f.ref_cells : refs[i] = Gone
    BY <1>4, <1>11, <2>1
  <2> QED BY <1>3, <1>4, <1>9, <1>11, <2>2
<1>15. /\ g.ref_cells \in Seq(Place) /\ InOrder(g.ref_cells)
       /\ ToSet(g.ref_cells) = ToSet(g.tree) \ {Gone}
  BY <1>6, <1>7, <1>13, <1>14
<1>16. hits <=> \E i \in DOMAIN f.tree : f.tree[i] # Gone /\ g.tree[i] = Gone
  <2>1. ASSUME hits PROVE \E i \in DOMAIN f.tree : f.tree[i] # Gone /\ g.tree[i] = Gone
    <3>1. PICK j \in DOMAIN f.ref_cells : Deletes(f.ref_cells[j], axis, first, count)
      BY <1>9, <2>1
    <3>2. PICK i \in DOMAIN f.tree : f.tree[i] = f.ref_cells[j] BY <1>5
    <3> QED BY <1>3, <1>4, <1>10, <3>1, <3>2
  <2>2. ASSUME NEW i \in DOMAIN f.tree, f.tree[i] # Gone, g.tree[i] = Gone PROVE hits
    <3>1. PICK j \in DOMAIN f.ref_cells : f.ref_cells[j] = f.tree[i] BY <1>5, <2>2
    <3> QED BY <1>3, <1>4, <1>9, <1>10, <2>2, <3>1
  <2> QED BY <2>1, <2>2
<1>17. changed => HasLost(g)
  <2>1. DOMAIN g.tree = DOMAIN f.tree BY <1>4, <1>10, ElementsOfSeq
  <2>2. HasLost(f) => HasLost(g) BY <1>3, <1>10, <2>1 DEF HasLost
  <2>3. hits => HasLost(g) BY <1>16, <2>1 DEF HasLost
  <2> QED BY <1>1, <1>7, <2>2, <2>3
<1>18. Consistent(g)
  <2>1. g.self_hr \in Results /\ (g.self_hr = "ReferencesChanged" => HasLost(g))
    BY <1>6, <1>8, <1>17 DEF Results
  <2> QED BY <1>10, <1>15, <2>1 DEF Consistent
<1>19. g.tree # f.tree
  <2>1. PICK j \in DOMAIN f.ref_cells : f.ref_cells[j][axis] >= first OBVIOUS
  <2>2. PICK i \in DOMAIN f.tree : f.tree[i] = f.ref_cells[j] BY <1>5
  <2> QED BY <1>3, <1>4, <1>10, <2>1, <2>2
<1>20. f.self_hr # "ReferencesChanged" => hr = EffectOn(f, g)
  BY <1>7, <1>8, <1>16, <1>19 DEF EffectOn
<1>21. hr \in Results BY <1>8 DEF Results
<1> QED BY <1>2, <1>6, <1>18, <1>20, <1>21 DEF h

\* What a handler owes a formula whose leaves become leaves: it leaves the two
\* lists in agreement, and answers what it did.
MovesWith(f, leaves, h) ==
  /\ Consistent(h.formula) /\ h.formula.tree = leaves
  /\ h.result \in Results
  /\ f.self_hr # "ReferencesChanged" => h.result = EffectOn(f, h.formula)

\* An early return, from a call that moves no leaf.
LEMMA UnaffectedHandled ==
  ASSUME NEW f, Consistent(f), NEW leaves, leaves = f.tree
  PROVE  MovesWith(f, leaves, Unaffected(f))
BY DEF MovesWith, Unaffected, Results, EffectOn

\* An insertion that moves a leaf, by either handler.
LEMMA RenamedHandled ==
  ASSUME NEW f, Consistent(f), NEW axis \in Axes, NEW before \in Nat, NEW count \in Nat \ {0},
         \E i \in DOMAIN f.ref_cells : f.ref_cells[i][axis] >= before,
         NEW refs, refs = [i \in DOMAIN f.ref_cells |->
                             InsertedAt(f.ref_cells[i], axis, before, count)]
  PROVE  LET leaves == LeavesInserted(f, axis, before, count) IN
         MovesWith(f, leaves, Renamed(leaves, refs))
<1> DEFINE leaves == LeavesInserted(f, axis, before, count)
           g == [tree |-> leaves, ref_cells |-> refs, self_hr |-> "ReferencesRenamedOnly"]
<1>1. Renamed(leaves, refs) = [formula |-> g, result |-> "ReferencesRenamedOnly"]
  BY DEF Renamed
<1>2. g.tree = leaves /\ g.ref_cells = refs /\ g.self_hr = "ReferencesRenamedOnly" OBVIOUS
<1> HIDE DEF g
<1>3. Consistent(g) BY <1>2, RenamedConsistent
<1>4. /\ \A i \in DOMAIN f.tree : f.tree[i] \in Place \cup {Gone}
      /\ \A i \in DOMAIN f.ref_cells : f.ref_cells[i] \in Place
      /\ \A j \in DOMAIN f.ref_cells : \E i \in DOMAIN f.tree : f.tree[i] = f.ref_cells[j]
  BY ListsOfFormula
<1>5. \A i \in DOMAIN f.tree : leaves[i] = InsertedAt(f.tree[i], axis, before, count)
  BY DEF LeavesInserted
<1> HIDE DEF leaves
<1>6. \A i \in DOMAIN f.tree : leaves[i] = Gone => f.tree[i] = Gone
  BY <1>4, <1>5, InsertionKeepsOrder
<1>7. leaves # f.tree
  <2>1. PICK j \in DOMAIN f.ref_cells : f.ref_cells[j][axis] >= before OBVIOUS
  <2>2. PICK i \in DOMAIN f.tree : f.tree[i] = f.ref_cells[j] BY <1>4
  <2> QED BY <1>4, <1>5, <2>1, <2>2, InsertionKeepsOrder
<1>8. EffectOn(f, g) = "ReferencesRenamedOnly" BY <1>2, <1>6, <1>7 DEF EffectOn
<1> QED BY <1>1, <1>2, <1>3, <1>8 DEF MovesWith, Results, leaves

\* HandleInsertedRows, of a formula that names a cell.
LEMMA InsertedRowsHandled ==
  ASSUME NEW f, Consistent(f), f.ref_cells # <<>>, NEW before \in Nat, NEW count \in Nat \ {0}
  PROVE  MovesWith(f, LeavesInserted(f, "row", before, count),
                 HandleInsertedRows(f, before, count))
<1> DEFINE refs == [i \in DOMAIN f.ref_cells |->
                      IF i >= LowerBound(f.ref_cells, before)
                      THEN [f.ref_cells[i] EXCEPT !.row = @ + count] ELSE f.ref_cells[i]]
<1>1. f.ref_cells \in Seq(Place) /\ InOrder(f.ref_cells) BY DEF Consistent
<1>2. /\ Len(f.ref_cells) \in DOMAIN f.ref_cells
      /\ Last(f.ref_cells) = f.ref_cells[Len(f.ref_cells)] /\ Last(f.ref_cells) \in Place
      /\ \A i \in DOMAIN f.ref_cells : f.ref_cells[i].row <= Last(f.ref_cells).row
  BY <1>1, LastIsLowest
<1>3. \A i \in DOMAIN f.ref_cells : f.ref_cells[i] \in Place BY ListsOfFormula
<1>4. "row" \in Axes BY DEF Axes
<1>5. CASE BeyondLastRow(f, before)
  <2>1. HandleInsertedRows(f, before, count) = Unaffected(f) BY <1>5 DEF HandleInsertedRows
  <2>2. \A i \in DOMAIN f.ref_cells : f.ref_cells[i].row < before
    BY <1>2, <1>3, <1>5 DEF BeyondLastRow, Place
  <2>3. LeavesInserted(f, "row", before, count) = f.tree BY <1>4, <2>2, BeyondMovesNothing
  <2> QED BY <2>1, <2>3, UnaffectedHandled
<1>6. CASE ~ BeyondLastRow(f, before)
  <2>1. HandleInsertedRows(f, before, count)
          = Renamed(LeavesInserted(f, "row", before, count), refs)
    BY <1>6 DEF HandleInsertedRows, ShiftRows, MoveAst, LeavesInserted
  <2>2. refs = [i \in DOMAIN f.ref_cells |-> InsertedAt(f.ref_cells[i], "row", before, count)]
    <3>1. \A i \in DOMAIN f.ref_cells :
            i >= LowerBound(f.ref_cells, before) <=> f.ref_cells[i].row >= before
      BY <1>1, LowerBoundSplits
    <3> QED BY <3>1 DEF InsertedAt
  <2> HIDE DEF refs
  <2>3. \E i \in DOMAIN f.ref_cells : f.ref_cells[i]["row"] >= before
    BY <1>2, <1>6 DEF BeyondLastRow, Place
  <2> QED BY <1>4, <2>1, <2>2, <2>3, RenamedHandled
<1> QED BY <1>5, <1>6

\* HandleInsertedCols, which tests every element.
LEMMA InsertedColsHandled ==
  ASSUME NEW f, Consistent(f), NEW before \in Nat, NEW count \in Nat \ {0}
  PROVE  MovesWith(f, LeavesInserted(f, "col", before, count),
                 HandleInsertedCols(f, before, count))
<1>1. "col" \in Axes BY DEF Axes
<1>2. \A i \in DOMAIN f.ref_cells : f.ref_cells[i].col \in Nat BY ListsOfFormula DEF Place
<1>3. CASE BeyondLastCol(f, before)
  <2>1. HandleInsertedCols(f, before, count) = Unaffected(f) BY <1>3 DEF HandleInsertedCols
  <2>2. \A i \in DOMAIN f.ref_cells : f.ref_cells[i].col < before
    BY <1>2, <1>3 DEF BeyondLastCol
  <2>3. LeavesInserted(f, "col", before, count) = f.tree BY <1>1, <2>2, BeyondMovesNothing
  <2> QED BY <2>1, <2>3, UnaffectedHandled
<1>4. CASE ~ BeyondLastCol(f, before)
  <2> DEFINE refs == [i \in DOMAIN f.ref_cells |->
                        InsertedAt(f.ref_cells[i], "col", before, count)]
  <2>1. HandleInsertedCols(f, before, count)
          = Renamed(LeavesInserted(f, "col", before, count), refs)
    BY <1>4 DEF HandleInsertedCols, MoveAst, LeavesInserted
  <2>2. \E i \in DOMAIN f.ref_cells : f.ref_cells[i]["col"] >= before
    BY <1>2, <1>4 DEF BeyondLastCol
  <2> QED BY <1>1, <2>1, <2>2, RenamedHandled
<1> QED BY <1>3, <1>4

\* HandleDeletedRows, of any formula.
LEMMA DeletedRowsHandled ==
  ASSUME NEW f, Consistent(f), NEW first \in Nat, NEW count \in Nat \ {0}
  PROVE  MovesWith(f, LeavesDeleted(f, "row", first, count),
                 HandleDeletedRows(f, first, count))
<1> DEFINE refs == [i \in DOMAIN f.ref_cells |->
                      IF i < LowerBound(f.ref_cells, first) THEN f.ref_cells[i]
                      ELSE IF Deletes(f.ref_cells[i], "row", first, count) THEN Gone
                      ELSE [f.ref_cells[i] EXCEPT !.row = @ - count]]
<1>1. f.ref_cells \in Seq(Place) /\ InOrder(f.ref_cells) BY DEF Consistent
<1>2. \A i \in DOMAIN f.ref_cells : f.ref_cells[i] \in Place BY ListsOfFormula
<1>3. "row" \in Axes BY DEF Axes
<1>4. CASE f.ref_cells = <<>> \/ BeyondLastRow(f, first)
  <2>1. HandleDeletedRows(f, first, count) = Unaffected(f) BY <1>4 DEF HandleDeletedRows
  <2>2. \A i \in DOMAIN f.ref_cells : f.ref_cells[i].row < first
    <3>1. CASE f.ref_cells = <<>> BY <3>1
    <3>2. CASE f.ref_cells # <<>>
      BY <1>1, <1>2, <1>4, <3>2, LastIsLowest DEF BeyondLastRow, Place
    <3> QED BY <3>1, <3>2
  <2>3. LeavesDeleted(f, "row", first, count) = f.tree BY <1>3, <2>2, BeyondMovesNothing
  <2> QED BY <2>1, <2>3, UnaffectedHandled
<1>5. CASE f.ref_cells # <<>> /\ ~ BeyondLastRow(f, first)
  <2>1. HandleDeletedRows(f, first, count) = Deleted(f, "row", first, count, refs)
    BY <1>5 DEF HandleDeletedRows
  <2>2. refs = [i \in DOMAIN f.ref_cells |-> DeletedAt(f.ref_cells[i], "row", first, count)]
    <3>1. \A i \in DOMAIN f.ref_cells :
            i >= LowerBound(f.ref_cells, first) <=> f.ref_cells[i].row >= first
      BY <1>1, LowerBoundSplits
    <3>2. LowerBound(f.ref_cells, first) \in Int
      <4>1. IsFiniteSet(DOMAIN f.ref_cells) BY <1>1, ElementsOfSeq, FS_Interval
      <4>2. {i \in DOMAIN f.ref_cells : f.ref_cells[i].row < first}
               \in SUBSET DOMAIN f.ref_cells
        OBVIOUS
      <4> QED BY <4>1, <4>2, FS_Subset, FS_CardinalityType DEF LowerBound
    <3>3. DOMAIN f.ref_cells \subseteq Int BY <1>1, ElementsOfSeq
    <3>4. \A i \in DOMAIN f.ref_cells :
            i < LowerBound(f.ref_cells, first) <=> f.ref_cells[i].row < first
      BY <1>2, <3>1, <3>2, <3>3 DEF Place
    <3>5. ASSUME NEW i \in DOMAIN f.ref_cells
          PROVE  refs[i] = DeletedAt(f.ref_cells[i], "row", first, count)
      BY <1>2, <3>4 DEF Place, DeletedAt, Deletes
    <3> QED BY <3>5
  <2> HIDE DEF refs
  <2>3. \E i \in DOMAIN f.ref_cells : f.ref_cells[i]["row"] >= first
    BY <1>1, <1>5, LastIsLowest DEF BeyondLastRow, Place
  <2> QED BY <1>3, <2>1, <2>2, <2>3, DeletedConsistent DEF MovesWith
<1> QED BY <1>4, <1>5

\* HandleDeletedCols, of any formula.
LEMMA DeletedColsHandled ==
  ASSUME NEW f, Consistent(f), NEW first \in Nat, NEW count \in Nat \ {0}
  PROVE  MovesWith(f, LeavesDeleted(f, "col", first, count),
                 HandleDeletedCols(f, first, count))
<1> DEFINE refs == [i \in DOMAIN f.ref_cells |->
                      IF f.ref_cells[i].col < first THEN f.ref_cells[i]
                      ELSE IF Deletes(f.ref_cells[i], "col", first, count) THEN Gone
                      ELSE [f.ref_cells[i] EXCEPT !.col = @ - count]]
<1>1. "col" \in Axes BY DEF Axes
<1>2. \A i \in DOMAIN f.ref_cells : f.ref_cells[i] \in Place BY ListsOfFormula
<1>3. CASE BeyondLastCol(f, first)
  <2>1. HandleDeletedCols(f, first, count) = Unaffected(f) BY <1>3 DEF HandleDeletedCols
  <2>2. \A i \in DOMAIN f.ref_cells : f.ref_cells[i].col < first
    BY <1>2, <1>3 DEF BeyondLastCol, Place
  <2>3. LeavesDeleted(f, "col", first, count) = f.tree BY <1>1, <2>2, BeyondMovesNothing
  <2> QED BY <2>1, <2>3, UnaffectedHandled
<1>4. CASE ~ BeyondLastCol(f, first)
  <2>1. HandleDeletedCols(f, first, count) = Deleted(f, "col", first, count, refs)
    BY <1>4 DEF HandleDeletedCols
  <2>2. refs = [i \in DOMAIN f.ref_cells |-> DeletedAt(f.ref_cells[i], "col", first, count)]
    <3>1. ASSUME NEW i \in DOMAIN f.ref_cells
          PROVE  refs[i] = DeletedAt(f.ref_cells[i], "col", first, count)
      BY <1>2 DEF Place, DeletedAt, Deletes
    <3> QED BY <3>1
  <2> HIDE DEF refs
  <2>3. \E i \in DOMAIN f.ref_cells : f.ref_cells[i]["col"] >= first
    BY <1>2, <1>4 DEF BeyondLastCol, Place
  <2> QED BY <1>1, <2>1, <2>2, <2>3, DeletedConsistent DEF MovesWith
<1> QED BY <1>3, <1>4

\* A formula whose leaves are all gone, given to an insertion that reads a row
\* past its list: whichever way that goes, no leaf moves.
LEMMA NothingLeftToShift ==
  ASSUME NEW f, Consistent(f), f.ref_cells = <<>>, NEW before \in Nat, NEW count \in Nat
  PROVE  LET leaves == LeavesInserted(f, "row", before, count) IN
         /\ leaves = f.tree
         /\ Consistent(ShiftRows(f, before, count).formula)
         /\ ShiftRows(f, before, count).formula.tree = leaves
         /\ ShiftRows(f, before, count).result \in Results
<1> DEFINE g == ShiftRows(f, before, count).formula
<1>1. "row" \in Axes BY DEF Axes
<1>2. LeavesInserted(f, "row", before, count) = f.tree BY <1>1, BeyondMovesNothing
<1>3. DOMAIN f.ref_cells = {} OBVIOUS
<1>4. /\ g.tree = LeavesInserted(f, "row", before, count)
      /\ g.ref_cells = [i \in DOMAIN f.ref_cells |->
                           InsertedAt(f.ref_cells[i], "row", before, count)]
      /\ g.self_hr = "ReferencesRenamedOnly"
      /\ ShiftRows(f, before, count).result = "ReferencesRenamedOnly"
  BY <1>3 DEF ShiftRows, Renamed, MoveAst, LeavesInserted
<1>5. Consistent(g) BY <1>1, <1>4, RenamedConsistent
<1> QED BY <1>2, <1>4, <1>5 DEF Results

\* ParseImpFormula.
LEMMA ParsedConsistent ==
  ASSUME NEW leaves \in Seq(Place)
  PROVE  Consistent(ParsedFormula(leaves)) /\ ParsedFormula(leaves).tree = leaves
<1> DEFINE S == ToSet(leaves)
           order == SetToSeq(S)
           t == Sorted(order)
           f == ParsedFormula(leaves)
<1>1. f.tree = leaves /\ f.ref_cells = t /\ f.self_hr = "NothingChanged" BY DEF ParsedFormula
<1>2. S \subseteq Place /\ IsFiniteSet(S)
  <2>1. /\ Len(leaves) \in Nat /\ DOMAIN leaves = 1 .. Len(leaves)
        /\ \A i \in 1 .. Len(leaves) : leaves[i] \in Place
    BY ElementsOfSeq
  <2>2. \A x : x \in S <=> \E i \in 1 .. Len(leaves) : leaves[i] = x BY MembersOfSeq
  <2>3. IsFiniteSet(1 .. Len(leaves)) BY <2>1, FS_Interval
  <2> HIDE DEF S
  <2>4. leaves \in Surjection(1 .. Len(leaves), S)
    BY <2>1, <2>2 DEF Surjection
  <2>5. IsFiniteSet(S) BY <2>3, <2>4, FS_Surjection
  <2> QED BY <2>1, <2>2, <2>5
<1>3. /\ order \in Seq(S)
      /\ \A i, j \in 1 .. Len(order) : order[i] = order[j] => i = j
      /\ \A x \in S : \E i \in 1 .. Len(order) : order[i] = x
  BY <1>2, SetHasOrder, OrderOfSet
<1> HIDE DEF f, t, order
<1>4. order \in Seq(Place \cup {Gone}) /\ ToSet(order) = S
  <2>1. \A i \in 1 .. Len(order) : order[i] \in S BY <1>3, ElementsOfSeq
  <2>2. \A x : x \in ToSet(order) <=> \E i \in 1 .. Len(order) : order[i] = x
    BY <1>3, MembersOfSeq
  <2> HIDE DEF S
  <2>3. order \in Seq(Place \cup {Gone}) BY <1>2, <1>3, <2>1, SeqOfElements
  <2>4. \A x : x \in ToSet(order) <=> x \in S BY <1>3, <2>1, <2>2
  <2>5. ToSet(order) = S BY <2>4
  <2> QED BY <2>3, <2>5
<1>5. /\ t \in Seq(Place \cup {Gone}) /\ ToSet(t) = S
      /\ \A i, j \in 1 .. Len(t) : i < j => Less(t[i], t[j]) \/ t[i] = t[j]
      /\ \A i, j \in 1 .. Len(t) : i # j => t[i] # t[j]
  BY <1>3, <1>4, SortedOrders, SMTT(60) DEF t
<1>6. /\ Len(t) \in Nat /\ DOMAIN t = 1 .. Len(t)
      /\ \A x : x \in ToSet(t) <=> \E i \in 1 .. Len(t) : t[i] = x
  BY <1>5, ElementsOfSeq, MembersOfSeq
<1> HIDE DEF S
<1>7. t \in Seq(Place)
  <2>1. \A i \in 1 .. Len(t) : t[i] \in Place BY <1>2, <1>5, <1>6
  <2> QED BY <1>5, <2>1, SeqOfElements
<1>8. InOrder(t)
  <2>1. \A i, j \in 1 .. Len(t) : i < j => i # j BY <1>6
  <2> QED BY <1>5, <1>6, <2>1 DEF InOrder
<1>9. leaves \in Seq(Place \cup {Gone}) BY ElementsOfSeq, SeqOfElements
<1>10. Gone \notin S BY <1>2 DEF Place, Gone
<1>11. ToSet(t) = ToSet(leaves) \ {Gone} BY <1>5, <1>10 DEF S
<1>12. Consistent(f) BY <1>1, <1>7, <1>8, <1>9, <1>11 DEF Consistent, Results
<1> QED BY <1>1, <1>12 DEF f
=============================================================================
