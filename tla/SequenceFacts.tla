--------------------------- MODULE SequenceFacts ---------------------------
(* Facts about numbers, orders of finite sets, sequences and what settles   *)
(* in rounds, which the proofs of the components rest on.                   *)

EXTENDS SequencesExt, FiniteSetTheorems, SequenceTheorems, TLAPS

\* A nonempty set of natural numbers has a least member.
LEMMA LeastNat ==
  ASSUME NEW T \in SUBSET Nat, T # {}
  PROVE  \E n \in T : \A m \in T : n <= m
<1>1. PICK n \in T : \A m \in T : ~ (<<m, n>> \in OpToRel(<, Nat))
  BY NatLessThanWellFounded, WFMin
<1>2. \A m \in T : ~ (m < n) BY <1>1 DEF OpToRel
<1> QED BY <1>2

\* A nonempty set of natural numbers with an upper bound has a greatest member.
LEMMA GreatestNat ==
  ASSUME NEW T \in SUBSET Nat, T # {}, NEW b \in Nat, \A m \in T : m <= b
  PROVE  \E n \in T : \A m \in T : m <= n
<1> DEFINE D == {b - m : m \in T}
<1>1. D \in SUBSET Nat /\ D # {}
  <2>1. \A m \in T : b - m \in Nat OBVIOUS
  <2> QED BY <2>1
<1> HIDE DEF D
<1>2. PICK d \in D : \A e \in D : d <= e BY <1>1, LeastNat
<1>3. PICK n \in T : d = b - n BY DEF D
<1>4. \A m \in T : b - m \in D BY DEF D
<1> QED BY <1>2, <1>3, <1>4

\* What a sequence is made of.
LEMMA ElementsOfSeq ==
  ASSUME NEW S, NEW s \in Seq(S)
  PROVE  Len(s) \in Nat /\ DOMAIN s = 1 .. Len(s) /\ \A i \in 1 .. Len(s) : s[i] \in S
OBVIOUS

LEMMA MembersOfSeq ==
  ASSUME NEW S, NEW s \in Seq(S)
  PROVE  \A x : x \in ToSet(s) <=> \E i \in 1 .. Len(s) : s[i] = x
BY ElementsOfSeq DEF ToSet

\* A sequence whose elements are in T is a sequence over T.
LEMMA SeqOfElements ==
  ASSUME NEW S, NEW s \in Seq(S), NEW T, \A i \in 1 .. Len(s) : s[i] \in T
  PROVE  s \in Seq(T)
<1>1. Len(s) \in Nat /\ s = [i \in 1 .. Len(s) |-> s[i]] OBVIOUS
<1>2. s \in [1 .. Len(s) -> T] BY <1>1
<1> QED BY <1>1, <1>2

\* A subset of 1 .. n that is closed downwards is 1 .. k, and k is its size.
LEMMA PrefixCount ==
  ASSUME NEW n \in Nat, NEW D \in SUBSET (1 .. n),
         \A i \in D : \A j \in 1 .. n : j <= i => j \in D
  PROVE  /\ Cardinality(D) \in 0 .. n
         /\ D = 1 .. Cardinality(D)
<1>1. CASE D = {}
  <2>1. Cardinality(D) = 0 BY <1>1, FS_EmptySet
  <2> QED BY <1>1, <2>1
<1>2. CASE D # {}
  <2>1. D \in SUBSET Nat /\ \A i \in D : i <= n OBVIOUS
  <2>2. PICK k \in D : \A i \in D : i <= k BY <1>2, <2>1, GreatestNat
  <2>3. k \in 1 .. n OBVIOUS
  <2>4. \A i \in D : i \in 1 .. k BY <2>2
  <2>5. \A i \in 1 .. k : i \in D BY <2>3
  <2>6. D = 1 .. k BY <2>4, <2>5
  <2>7. Cardinality(1 .. k) = k BY <2>3, FS_Interval
  <2> QED BY <2>3, <2>6, <2>7
<1> QED BY <1>1, <1>2

\* In a strict total order of 1 .. n, given by what comes before each, how many
\* come before one is its place.
LEMMA RankIsPlace ==
  ASSUME NEW n \in Nat, NEW before \in [1 .. n -> SUBSET (1 .. n)],
         \A i \in 1 .. n : i \notin before[i],
         \A i, j \in 1 .. n : i # j => i \in before[j] \/ j \in before[i],
         \A i, j, k \in 1 .. n : i \in before[j] /\ j \in before[k] => i \in before[k]
  PROVE  /\ \A i \in 1 .. n : Cardinality(before[i]) \in 0 .. n - 1
         /\ \A i, j \in 1 .. n :
              i \in before[j] <=> Cardinality(before[i]) < Cardinality(before[j])
         /\ \A i, j \in 1 .. n : Cardinality(before[i]) = Cardinality(before[j]) => i = j
         /\ \A k \in 1 .. n : \E i \in 1 .. n : Cardinality(before[i]) = k - 1
<1>1. IsFiniteSet(1 .. n) /\ Cardinality(1 .. n) = n BY FS_Interval
<1>2. \A i \in 1 .. n : IsFiniteSet(before[i]) BY <1>1, FS_Subset
<1>3. \A i \in 1 .. n : Cardinality(before[i]) \in Nat BY <1>2, FS_CardinalityType
<1>4. \A i \in 1 .. n : Cardinality(before[i]) \in 0 .. n - 1
  <2> SUFFICES ASSUME NEW i \in 1 .. n PROVE Cardinality(before[i]) \in 0 .. n - 1
    OBVIOUS
  <2>1. before[i] \in SUBSET (1 .. n) /\ before[i] # 1 .. n OBVIOUS
  <2>2. Cardinality(before[i]) <= n /\ Cardinality(before[i]) # n
    BY <1>1, <2>1, FS_Subset
  <2> QED BY <1>3, <2>2
<1>5. ASSUME NEW i \in 1 .. n, NEW j \in 1 .. n, i \in before[j]
      PROVE  Cardinality(before[i]) < Cardinality(before[j])
  <2>1. before[i] \in SUBSET before[j] /\ before[i] # before[j] BY <1>5
  <2>2. IsFiniteSet(before[j]) BY <1>2
  <2>3. /\ Cardinality(before[i]) <= Cardinality(before[j])
        /\ Cardinality(before[i]) # Cardinality(before[j])
    BY <2>1, <2>2, FS_Subset
  <2>4. Cardinality(before[i]) \in Nat /\ Cardinality(before[j]) \in Nat BY <1>3
  <2> QED BY <2>3, <2>4
<1>6. \A i, j \in 1 .. n :
        i \in before[j] <=> Cardinality(before[i]) < Cardinality(before[j])
  <2> SUFFICES ASSUME NEW i \in 1 .. n, NEW j \in 1 .. n,
                      Cardinality(before[i]) < Cardinality(before[j]), i \notin before[j]
               PROVE  FALSE
    BY <1>5
  <2>1. Cardinality(before[i]) \in Nat /\ Cardinality(before[j]) \in Nat BY <1>3
  <2>2. i # j BY <2>1
  <2>3. j \in before[i] BY <2>2
  <2>4. Cardinality(before[j]) < Cardinality(before[i]) BY <1>5, <2>3
  <2> QED BY <2>1, <2>4
<1>7. \A i, j \in 1 .. n : Cardinality(before[i]) = Cardinality(before[j]) => i = j
  <2> SUFFICES ASSUME NEW i \in 1 .. n, NEW j \in 1 .. n,
                      Cardinality(before[i]) = Cardinality(before[j]), i # j
               PROVE  FALSE
    OBVIOUS
  <2>1. Cardinality(before[i]) \in Nat /\ Cardinality(before[j]) \in Nat BY <1>3
  <2>2. i \in before[j] \/ j \in before[i] OBVIOUS
  <2> QED BY <1>5, <2>1, <2>2
<1> DEFINE place == [i \in 1 .. n |-> Cardinality(before[i]) + 1]
<1>8. \A i \in 1 .. n : place[i] = Cardinality(before[i]) + 1 OBVIOUS
<1>9. place \in [1 .. n -> 1 .. n]
  <2>1. \A i \in 1 .. n : Cardinality(before[i]) + 1 \in 1 .. n BY <1>4
  <2> QED BY <2>1
<1>10. \A i, j \in 1 .. n : place[i] = place[j] => i = j
  <2> SUFFICES ASSUME NEW i \in 1 .. n, NEW j \in 1 .. n, place[i] = place[j]
               PROVE  i = j
    OBVIOUS
  <2>1. Cardinality(before[i]) = Cardinality(before[j]) BY <1>3, <1>8
  <2> QED BY <1>7, <2>1
<1> HIDE DEF place
<1>11. place \in Injection(1 .. n, 1 .. n) BY <1>9, <1>10 DEF Injection, IsInjective
<1>12. place \in Surjection(1 .. n, 1 .. n) BY <1>1, <1>11, FS_Injection
<1>13. \A k \in 1 .. n : \E i \in 1 .. n : Cardinality(before[i]) = k - 1
  <2> SUFFICES ASSUME NEW k \in 1 .. n PROVE \E i \in 1 .. n : Cardinality(before[i]) = k - 1
    OBVIOUS
  <2>1. PICK i \in 1 .. n : place[i] = k BY <1>12 DEF Surjection
  <2> QED BY <1>3, <1>8, <2>1, SMTT(60)
<1> QED BY <1>4, <1>6, <1>7, <1>13

\* An order of a finite set lists each of its members once.
LEMMA OrderOfSet ==
  ASSUME NEW S, IsFiniteSet(S), NEW order \in SetToSeqs(S)
  PROVE  /\ order \in Seq(S) /\ Len(order) = Cardinality(S) /\ Cardinality(S) \in Nat
         /\ \A i, j \in 1 .. Len(order) : order[i] = order[j] => i = j
         /\ \A x \in S : \E i \in 1 .. Len(order) : order[i] = x
<1> DEFINE n == Cardinality(S)
<1>1. n \in Nat BY FS_CardinalityType
<1>2. /\ order \in [1 .. n -> S]
      /\ \A i, j \in 1 .. n : i # j => order[i] # order[j]
  BY DEF SetToSeqs
<1>3. order \in Seq(S) /\ Len(order) = n BY <1>1, <1>2
<1> DEFINE R == {order[i] : i \in 1 .. n}
<1>4. order \in Bijection(1 .. n, R)
  BY <1>2 DEF Bijection, Injection, Surjection, IsInjective
<1>5. ExistsBijection(1 .. n, R) BY <1>4 DEF ExistsBijection
<1>6. IsFiniteSet(R) /\ Cardinality(R) = n
  BY <1>1, <1>5, FS_CountingElements, FS_NatBijection
<1>7. R \subseteq S BY <1>2
<1>8. R = S BY <1>6, <1>7, FS_Subset
<1> QED BY <1>1, <1>2, <1>3, <1>8

\* A finite set has an order, and SetToSeq gives one.
LEMMA SetHasOrder ==
  ASSUME NEW S, IsFiniteSet(S)
  PROVE  SetToSeq(S) \in SetToSeqs(S)
<1>1. /\ Cardinality(S) \in Nat
      /\ \E f \in Bijection(1 .. Cardinality(S), S) : TRUE
  BY FS_CardinalityType, FS_NatBijection DEF ExistsBijection
<1>2. \E f \in [1 .. Cardinality(S) -> S] : IsInjective(f)
  BY <1>1 DEF Bijection, Injection, IsInjective
<1>3. SetToSeq(S) \in [1 .. Cardinality(S) -> S] /\ IsInjective(SetToSeq(S))
  BY <1>2 DEF SetToSeq
<1> QED BY <1>3 DEF SetToSeqs, IsInjective

\* What is left of a sequence without its first element.
LEMMA TailElements ==
  ASSUME NEW S, NEW s \in Seq(S), s # <<>>
  PROVE  /\ s[1] \in S /\ Len(s) \in Nat \ {0}
         /\ Tail(s) \in Seq(S) /\ Len(Tail(s)) = Len(s) - 1
         /\ \A i \in 1 .. Len(s) - 1 : Tail(s)[i] = s[i + 1]
OBVIOUS

\* Where the elements of two sequences are when one is put on top of the other.
LEMMA ConcatElements ==
  ASSUME NEW S, NEW s \in Seq(S), NEW t \in Seq(S)
  PROVE  /\ s \o t \in Seq(S) /\ Len(s \o t) = Len(s) + Len(t)
         /\ \A i \in 1 .. Len(s) : (s \o t)[i] = s[i]
         /\ \A i \in 1 .. Len(t) : (s \o t)[Len(s) + i] = t[i]
OBVIOUS

\* new put into s after its first at elements, and where everything is then.
Spliced(s, at, new) == (SubSeq(s, 1, at) \o new) \o SubSeq(s, at + 1, Len(s))

LEMMA SplicedElements ==
  ASSUME NEW S, NEW s \in Seq(S), NEW new \in Seq(S), NEW at \in 0 .. Len(s)
  PROVE  LET t == Spliced(s, at, new) IN
         /\ t \in Seq(S) /\ Len(t) = Len(s) + Len(new)
         /\ \A k \in 1 .. at : t[k] = s[k]
         /\ \A k \in 1 .. Len(new) : t[at + k] = new[k]
         /\ \A k \in at + 1 .. Len(s) : t[k + Len(new)] = s[k]
<1> DEFINE n == Len(s)
           m == Len(new)
           a == SubSeq(s, 1, at)
           c == SubSeq(s, at + 1, n)
           t == (a \o new) \o c
<1>1. n \in Nat /\ m \in Nat /\ \A i \in 1 .. n : s[i] \in S BY ElementsOfSeq
<1>2. Spliced(s, at, new) = t BY DEF Spliced
<1> HIDE DEF n, m
<1>3. at \in 0 .. n BY DEF n
<1>4. /\ a \in Seq(S) /\ Len(a) = at
      /\ \A i \in 1 .. at : a[i] = s[i]
  <2>1. \A i \in 1 .. at : s[i] \in S BY <1>1, <1>3
  <2>2. /\ a \in Seq(S) /\ Len(a) = IF 1 <= at THEN at - 1 + 1 ELSE 0
        /\ \A i \in 1 .. at - 1 + 1 : a[i] = s[1 + i - 1]
    BY <1>3, <2>1, SubSeqProperties
  <2>3. /\ (IF 1 <= at THEN at - 1 + 1 ELSE 0) = at /\ at - 1 + 1 = at
        /\ \A i \in 1 .. at : 1 + i - 1 = i
    BY <1>3
  <2> QED BY <2>2, <2>3
<1>5. /\ c \in Seq(S) /\ Len(c) = n - at
      /\ \A i \in 1 .. n - at : c[i] = s[at + i]
  <2>1. \A i \in at + 1 .. n : s[i] \in S BY <1>1, <1>3
  <2>2. at + 1 \in Int /\ n \in Int BY <1>1, <1>3
  <2>3. /\ c \in Seq(S) /\ Len(c) = IF at + 1 <= n THEN n - (at + 1) + 1 ELSE 0
        /\ \A i \in 1 .. n - (at + 1) + 1 : c[i] = s[at + 1 + i - 1]
    BY <2>1, <2>2, SubSeqProperties
  <2>4. /\ (IF at + 1 <= n THEN n - (at + 1) + 1 ELSE 0) = n - at
        /\ n - (at + 1) + 1 = n - at
        /\ \A i \in 1 .. n - at : at + 1 + i - 1 = at + i
    BY <1>1, <1>3
  <2> QED BY <2>3, <2>4
<1> HIDE DEF a, c
<1>6. /\ a \o new \in Seq(S) /\ Len(a \o new) = at + m
      /\ \A i \in 1 .. at : (a \o new)[i] = s[i]
      /\ \A i \in 1 .. m : (a \o new)[at + i] = new[i]
  <2>1. /\ a \o new \in Seq(S) /\ Len(a \o new) = Len(a) + Len(new)
        /\ \A i \in 1 .. Len(a) : (a \o new)[i] = a[i]
        /\ \A i \in 1 .. Len(new) : (a \o new)[Len(a) + i] = new[i]
    <3>1. a \in Seq(S) /\ new \in Seq(S) BY <1>4
    <3> QED BY <3>1, ConcatElements
  <2> QED BY <1>4, <2>1 DEF m
<1>7. /\ t \in Seq(S) /\ Len(t) = at + m + (n - at)
      /\ \A i \in 1 .. at + m : t[i] = (a \o new)[i]
      /\ \A i \in 1 .. n - at : t[at + m + i] = s[at + i]
  <2>1. /\ t \in Seq(S) /\ Len(t) = Len(a \o new) + Len(c)
        /\ \A i \in 1 .. Len(a \o new) : t[i] = (a \o new)[i]
        /\ \A i \in 1 .. Len(c) : t[Len(a \o new) + i] = c[i]
    <3>1. a \o new \in Seq(S) /\ c \in Seq(S) BY <1>5, <1>6
    <3> QED BY <3>1, ConcatElements
  <2> QED BY <1>5, <1>6, <2>1
<1> HIDE DEF t
<1>8. Len(t) = n + m BY <1>1, <1>3, <1>7
<1>9. \A k \in 1 .. at : t[k] = s[k]
  <2>1. \A k \in 1 .. at : k \in 1 .. at + m BY <1>1, <1>3
  <2> QED BY <1>6, <1>7, <2>1
<1>10. \A k \in 1 .. m : t[at + k] = new[k]
  <2>1. \A k \in 1 .. m : at + k \in 1 .. at + m BY <1>1, <1>3
  <2> QED BY <1>6, <1>7, <2>1
<1>11. ASSUME NEW k \in at + 1 .. n PROVE t[k + m] = s[k]
  <2>1. k - at \in 1 .. n - at /\ at + m + (k - at) = k + m /\ at + (k - at) = k
    BY <1>1, <1>3
  <2> QED BY <1>7, <2>1
<1> QED BY <1>2, <1>7, <1>8, <1>9, <1>10, <1>11 DEF n, m

\* s without its elements after the first from, up to the one numbered to.
Cut(s, from, to) == SubSeq(s, 1, from) \o SubSeq(s, to + 1, Len(s))

LEMMA CutElements ==
  ASSUME NEW S, NEW s \in Seq(S), NEW from \in 0 .. Len(s), NEW to \in Nat, from <= to
  PROVE  LET t == Cut(s, from, to) IN
         /\ t \in Seq(S)
         /\ Len(t) = IF to < Len(s) THEN Len(s) - (to - from) ELSE from
         /\ \A k \in 1 .. from : t[k] = s[k]
         /\ \A k \in to + 1 .. Len(s) : t[k - (to - from)] = s[k]
<1> DEFINE n == Len(s)
           a == SubSeq(s, 1, from)
           c == SubSeq(s, to + 1, n)
           m == IF to < n THEN n - to ELSE 0
           t == a \o c
<1>1. n \in Nat /\ \A i \in 1 .. n : s[i] \in S BY ElementsOfSeq
<1>2. Cut(s, from, to) = t BY DEF Cut
<1> HIDE DEF n
<1>3. from \in 0 .. n BY DEF n
<1>4. m \in Nat /\ (m # 0 => m = n - to) BY <1>1
<1>5. /\ a \in Seq(S) /\ Len(a) = from
      /\ \A i \in 1 .. from : a[i] = s[i]
  <2>1. \A i \in 1 .. from : s[i] \in S BY <1>1, <1>3
  <2>2. /\ a \in Seq(S) /\ Len(a) = IF 1 <= from THEN from - 1 + 1 ELSE 0
        /\ \A i \in 1 .. from - 1 + 1 : a[i] = s[1 + i - 1]
    BY <1>3, <2>1, SubSeqProperties
  <2>3. /\ (IF 1 <= from THEN from - 1 + 1 ELSE 0) = from /\ from - 1 + 1 = from
        /\ \A i \in 1 .. from : 1 + i - 1 = i
    BY <1>3
  <2> QED BY <2>2, <2>3
<1>6. /\ c \in Seq(S) /\ Len(c) = m
      /\ \A i \in 1 .. m : c[i] = s[to + i]
  <2>1. \A i \in to + 1 .. n : s[i] \in S BY <1>1, <1>3
  <2>2. to + 1 \in Int /\ n \in Int BY <1>1
  <2>3. /\ c \in Seq(S) /\ Len(c) = IF to + 1 <= n THEN n - (to + 1) + 1 ELSE 0
        /\ \A i \in 1 .. n - (to + 1) + 1 : c[i] = s[to + 1 + i - 1]
    BY <2>1, <2>2, SubSeqProperties
  <2>4. (IF to + 1 <= n THEN n - (to + 1) + 1 ELSE 0) = m BY <1>1
  <2>5. \A i \in 1 .. m : i \in 1 .. n - (to + 1) + 1 /\ to + 1 + i - 1 = to + i BY <1>1
  <2> QED BY <2>3, <2>4, <2>5
<1> HIDE DEF a, c, m
<1>7. /\ t \in Seq(S) /\ Len(t) = from + m
      /\ \A i \in 1 .. from : t[i] = s[i]
      /\ \A i \in 1 .. m : t[from + i] = s[to + i]
  <2>1. /\ t \in Seq(S) /\ Len(t) = Len(a) + Len(c)
        /\ \A i \in 1 .. Len(a) : t[i] = a[i]
        /\ \A i \in 1 .. Len(c) : t[Len(a) + i] = c[i]
    <3>1. a \in Seq(S) /\ c \in Seq(S) BY <1>5, <1>6
    <3> QED BY <3>1, ConcatElements
  <2> QED BY <1>5, <1>6, <2>1
<1> HIDE DEF t
<1>8. Len(t) = IF to < n THEN n - (to - from) ELSE from BY <1>1, <1>3, <1>7 DEF m
<1>9. ASSUME NEW k \in to + 1 .. n PROVE t[k - (to - from)] = s[k]
  <2>1. m = n - to BY <1>1 DEF m
  <2>2. k - to \in 1 .. m /\ from + (k - to) = k - (to - from) /\ to + (k - to) = k
    BY <1>1, <1>3, <2>1
  <2> QED BY <1>7, <2>2
<1> QED BY <1>2, <1>7, <1>8, <1>9 DEF n

\* Elements put on top of a sequence of which the first is put back.
LEMMA PushedOnto ==
  ASSUME NEW S, NEW s \in Seq(S), s # <<>>, NEW t \in Seq(S)
  PROVE  (t \o <<s[1]>>) \o Tail(s) = t \o s
<1> DEFINE u == (t \o <<s[1]>>) \o Tail(s)
           w == t \o s
<1>1. u \in Seq(S) /\ w \in Seq(S) /\ Len(u) = Len(w)
  BY TailElements
<1>2. \A i \in 1 .. Len(u) : u[i] = w[i] BY TailElements
<1> HIDE DEF u, w
<1>3. u = w BY <1>1, <1>2, SeqEqual
<1> QED BY <1>3 DEF u, w

\* Where p comes up first in s.
FirstIn(s, p) == CHOOSE i \in DOMAIN s : s[i] = p /\ \A j \in 1 .. i - 1 : s[j] # p

\* What is in a sequence comes up first at one place.
LEMMA FirstExists ==
  ASSUME NEW S, NEW s \in Seq(S), NEW p, \E i \in DOMAIN s : s[i] = p
  PROVE  /\ FirstIn(s, p) \in 1 .. Len(s) /\ s[FirstIn(s, p)] = p
         /\ \A j \in 1 .. FirstIn(s, p) - 1 : s[j] # p
<1> DEFINE T == {i \in 1 .. Len(s) : s[i] = p}
<1>1. T \in SUBSET Nat /\ T # {} OBVIOUS
<1>2. PICK n \in T : \A m \in T : n <= m BY <1>1, LeastNat
<1>3. n \in DOMAIN s /\ s[n] = p /\ \A j \in 1 .. n - 1 : s[j] # p BY <1>2
<1>4. \E i \in DOMAIN s : s[i] = p /\ \A j \in 1 .. i - 1 : s[j] # p BY <1>3
<1>5. DOMAIN s = 1 .. Len(s) OBVIOUS
<1> QED BY <1>4, <1>5 DEF FirstIn

LEMMA FirstUnique ==
  ASSUME NEW S, NEW s \in Seq(S), NEW p, NEW i \in 1 .. Len(s), s[i] = p,
         \A j \in 1 .. i - 1 : s[j] # p
  PROVE  FirstIn(s, p) = i
<1>1. \E j \in DOMAIN s : s[j] = p OBVIOUS
<1> QED BY <1>1, FirstExists

\* It is further down by what is put on top, unless that holds it too.
LEMMA FirstPushed ==
  ASSUME NEW S, NEW s \in Seq(S), NEW t \in Seq(S), NEW p,
         \E i \in DOMAIN s : s[i] = p, \A j \in 1 .. Len(t) : t[j] # p
  PROVE  FirstIn(t \o s, p) = Len(t) + FirstIn(s, p)
<1> DEFINE i == Len(t) + FirstIn(s, p)
<1>1. i \in 1 .. Len(t \o s) /\ (t \o s)[i] = p BY FirstExists
<1>2. \A j \in 1 .. i - 1 : (t \o s)[j] # p BY FirstExists
<1> QED BY <1>1, <1>2, FirstUnique, ConcatElements

\* It is further up by one when something else is taken off.
LEMMA FirstPopped ==
  ASSUME NEW S, NEW s \in Seq(S), s # <<>>, NEW p,
         \E i \in DOMAIN s : s[i] = p, s[1] # p
  PROVE  /\ \E i \in DOMAIN Tail(s) : Tail(s)[i] = p
         /\ FirstIn(s, p) > 1 /\ FirstIn(Tail(s), p) = FirstIn(s, p) - 1
<1> DEFINE i == FirstIn(s, p) - 1
<1>1. FirstIn(s, p) \in 1 .. Len(s) /\ FirstIn(s, p) # 1 BY FirstExists
<1>2. i \in 1 .. Len(Tail(s)) /\ Tail(s)[i] = p BY <1>1, FirstExists, TailElements
<1>3. \A j \in 1 .. i - 1 : Tail(s)[j] # p BY <1>1, FirstExists, TailElements
<1>4. FirstIn(Tail(s), p) = i BY <1>2, <1>3, FirstUnique, TailElements
<1> QED BY <1>1, <1>2, <1>4

-----------------------------------------------------------------------------
(* A sequence read beyond its ends, where d is found.                       *)

ElementOr(s, i, d) == IF i \in 1 .. Len(s) THEN s[i] ELSE d
AllAre(s, d) == \A i \in 1 .. Len(s) : s[i] = d

\* Elements like those beyond its ends, put on either side, only move it.
LEMMA PaddedElement ==
  ASSUME NEW S, NEW d \in S, NEW a \in Seq(S), NEW s \in Seq(S), NEW b \in Seq(S),
         AllAre(a, d), AllAre(b, d), NEW i \in Int
  PROVE  ElementOr(a \o s \o b, i, d) = ElementOr(s, i - Len(a), d)
<1> DEFINE l == Len(a)
           n == Len(s)
           m == Len(b)
           u == a \o s
           t == u \o b
<1>1. l \in Nat /\ n \in Nat /\ m \in Nat BY ElementsOfSeq
<1>2. /\ u \in Seq(S) /\ Len(u) = l + n
      /\ \A k \in 1 .. l : u[k] = a[k]
      /\ \A k \in 1 .. n : u[l + k] = s[k]
  BY ConcatElements
<1> HIDE DEF u
<1>3. /\ Len(t) = Len(u) + m
      /\ \A k \in 1 .. Len(u) : t[k] = u[k]
      /\ \A k \in 1 .. m : t[Len(u) + k] = b[k]
  <2>1. u \in Seq(S) BY <1>2
  <2>2. /\ t \in Seq(S) /\ Len(t) = Len(u) + Len(b)
        /\ \A k \in 1 .. Len(u) : t[k] = u[k]
        /\ \A k \in 1 .. Len(b) : t[Len(u) + k] = b[k]
    BY <2>1, ConcatElements
  <2> QED BY <2>2
<1> HIDE DEF t
<1>4. /\ Len(t) = l + n + m
      /\ \A k \in 1 .. l + n : t[k] = u[k]
      /\ \A k \in 1 .. m : t[l + n + k] = d
  BY <1>2, <1>3 DEF AllAre
<1>5. ElementOr(t, i, d) = ElementOr(s, i - l, d)
  <2>1. CASE i \in 1 .. l
    <3>1. t[i] = d BY <1>1, <1>2, <1>4, <2>1 DEF AllAre
    <3>2. i \in 1 .. Len(t) /\ i - l \notin 1 .. n BY <1>1, <1>4, <2>1
    <3> QED BY <3>1, <3>2 DEF ElementOr
  <2>2. CASE i \in l + 1 .. l + n
    <3> DEFINE k == i - l
    <3>1. k \in 1 .. n /\ i = l + k /\ i \in 1 .. l + n /\ i \in 1 .. Len(t)
      BY <1>1, <1>4, <2>2
    <3> HIDE DEF k
    <3>2. t[i] = s[k] BY <1>2, <1>4, <3>1
    <3>3. ElementOr(s, k, d) = s[k] BY <3>1 DEF ElementOr
    <3> QED BY <3>1, <3>2, <3>3 DEF ElementOr, k
  <2>3. CASE i \in l + n + 1 .. l + n + m
    <3> DEFINE k == i - (l + n)
    <3>1. k \in 1 .. m /\ i = l + n + k /\ i \in 1 .. Len(t) /\ i - l \notin 1 .. n
      BY <1>1, <1>4, <2>3
    <3> HIDE DEF k
    <3>2. t[i] = d BY <1>4, <3>1
    <3> QED BY <3>1, <3>2 DEF ElementOr
  <2>4. CASE i < 1 \/ i > l + n + m
    <3>1. i \notin 1 .. Len(t) /\ i - l \notin 1 .. n BY <1>1, <1>4, <2>4
    <3> QED BY <3>1 DEF ElementOr
  <2> QED BY <1>1, <2>1, <2>2, <2>3, <2>4
<1> QED BY <1>5 DEF t, u

\* The same on one side only.
LEMMA PaddedOneSide ==
  ASSUME NEW S, NEW d \in S, NEW a \in Seq(S), NEW s \in Seq(S),
         AllAre(a, d), NEW i \in Int
  PROVE  /\ ElementOr(a \o s, i, d) = ElementOr(s, i - Len(a), d)
         /\ ElementOr(s \o a, i, d) = ElementOr(s, i, d)
<1> DEFINE e == <<>>
<1>1. e \in Seq(S) /\ Len(e) = 0 /\ AllAre(e, d) BY DEF AllAre
<1>2. (a \o s) \o e = a \o s /\ (e \o s) \o a = s \o a
  <2>1. \A u \in Seq(S) : u \o e = u /\ e \o u = u OBVIOUS
  <2>2. a \o s \in Seq(S) BY ConcatElements
  <2> HIDE DEF e
  <2> QED BY <2>1, <2>2
<1> HIDE DEF e
<1>3. ElementOr(a \o s, i, d) = ElementOr(s, i - Len(a), d)
  <2>1. ElementOr((a \o s) \o e, i, d) = ElementOr(s, i - Len(a), d) BY <1>1, PaddedElement, ZenonT(60)
  <2> QED BY <1>2, <2>1
<1>4. ElementOr(s \o a, i, d) = ElementOr(s, i, d)
  <2>1. ElementOr((e \o s) \o a, i, d) = ElementOr(s, i - Len(e), d) BY <1>1, PaddedElement, ZenonT(60)
  <2>2. i - Len(e) = i BY <1>1
  <2> QED BY <1>2, <2>1, <2>2
<1> QED BY <1>3, <1>4

\* Elements like those beyond its ends, put into it, move what comes after.
LEMMA SplicedElement ==
  ASSUME NEW S, NEW d \in S, NEW s \in Seq(S), NEW new \in Seq(S), NEW at \in 0 .. Len(s),
         AllAre(new, d), NEW i \in Int
  PROVE  ElementOr(Spliced(s, at, new), i, d)
           = IF i <= at THEN ElementOr(s, i, d)
             ELSE IF i <= at + Len(new) THEN d ELSE ElementOr(s, i - Len(new), d)
<1> DEFINE n == Len(s)
           m == Len(new)
           t == Spliced(s, at, new)
<1>1. n \in Nat /\ m \in Nat /\ at \in 0 .. n BY ElementsOfSeq
<1>2. /\ Len(t) = n + m
      /\ \A k \in 1 .. at : t[k] = s[k]
      /\ \A k \in 1 .. m : t[at + k] = new[k]
      /\ \A k \in at + 1 .. n : t[k + m] = s[k]
  <2>1. /\ t \in Seq(S) /\ Len(t) = Len(s) + Len(new)
        /\ \A k \in 1 .. at : t[k] = s[k]
        /\ \A k \in 1 .. Len(new) : t[at + k] = new[k]
        /\ \A k \in at + 1 .. Len(s) : t[k + Len(new)] = s[k]
    BY SplicedElements
  <2> QED BY <2>1
<1> HIDE DEF t
<1>3. \A k \in 1 .. m : t[at + k] = d BY <1>2 DEF AllAre
<1>4. CASE i <= at
  <2>1. i \in 1 .. Len(t) <=> i \in 1 .. n BY <1>1, <1>2, <1>4
  <2>2. i \in 1 .. n => t[i] = s[i] BY <1>1, <1>2, <1>4
  <2> QED BY <1>4, <2>1, <2>2 DEF ElementOr, t
<1>5. CASE i > at /\ i <= at + m
  <2>1. i - at \in 1 .. m /\ at + (i - at) = i BY <1>1, <1>5
  <2>2. t[i] = d BY <1>3, <2>1
  <2>3. ~ (i <= at) BY <1>1, <1>5
  <2> QED BY <1>5, <2>2, <2>3 DEF ElementOr, t
<1>6. CASE i > at + m
  <2> DEFINE k == i - m
  <2>1. k \in Int /\ k + m = i /\ k > at /\ ~ (i <= at) /\ ~ (i <= at + m) BY <1>1, <1>6
  <2> HIDE DEF k
  <2>2. i \in 1 .. Len(t) <=> k \in at + 1 .. n BY <1>1, <1>2, <1>6, <2>1
  <2>3. k \in 1 .. n <=> k \in at + 1 .. n BY <1>1, <2>1
  <2>4. k \in at + 1 .. n => t[i] = s[k] BY <1>2, <2>1
  <2>5. ElementOr(t, i, d) = ElementOr(s, k, d) BY <2>2, <2>3, <2>4 DEF ElementOr
  <2> QED BY <2>1, <2>5 DEF k, t
<1> QED BY <1>1, <1>4, <1>5, <1>6 DEF t

\* What is left when some elements have been cut out.
LEMMA CutElement ==
  ASSUME NEW S, NEW d, NEW s \in Seq(S), NEW from \in 0 .. Len(s), NEW to \in Nat, from <= to,
         NEW i \in Int
  PROVE  ElementOr(Cut(s, from, to), i, d)
           = IF i <= from THEN ElementOr(s, i, d) ELSE ElementOr(s, i + (to - from), d)
<1> DEFINE n == Len(s)
           t == Cut(s, from, to)
<1>1. n \in Nat /\ from \in 0 .. n BY ElementsOfSeq
<1>2. /\ Len(t) = IF to < n THEN n - (to - from) ELSE from
      /\ \A k \in 1 .. from : t[k] = s[k]
      /\ \A k \in to + 1 .. n : t[k - (to - from)] = s[k]
  BY CutElements
<1> HIDE DEF t
<1>3. CASE i <= from
  <2>1. i \in 1 .. Len(t) <=> i \in 1 .. n BY <1>1, <1>2, <1>3
  <2>2. i \in 1 .. n => t[i] = s[i] BY <1>1, <1>2, <1>3
  <2> QED BY <1>3, <2>1, <2>2 DEF ElementOr, t
<1>4. CASE i > from
  <2> DEFINE k == i + (to - from)
  <2>1. k \in Int /\ k - (to - from) = i /\ k > to /\ ~ (i <= from) BY <1>1, <1>4
  <2> HIDE DEF k
  <2>2. i \in 1 .. Len(t) <=> k \in to + 1 .. n BY <1>1, <1>2, <1>4, <2>1
  <2>3. k \in 1 .. n <=> k \in to + 1 .. n BY <1>1, <2>1
  <2>4. k \in to + 1 .. n => t[i] = s[k] BY <1>2, <2>1
  <2>5. ElementOr(t, i, d) = ElementOr(s, k, d) BY <2>2, <2>3, <2>4 DEF ElementOr
  <2> QED BY <2>1, <2>5 DEF k, t
<1> QED BY <1>1, <1>3, <1>4 DEF t

-----------------------------------------------------------------------------
(* How often p is in s.                                                     *)

Times(s, p) == Cardinality({i \in DOMAIN s : s[i] = p})

LEMMA TimesType ==
  ASSUME NEW S, NEW s \in Seq(S), NEW p
  PROVE  /\ Times(s, p) \in Nat
         /\ (\A i \in DOMAIN s : s[i] # p) => Times(s, p) = 0
<1> DEFINE I == {i \in DOMAIN s : s[i] = p}
<1>1. IsFiniteSet(1 .. Len(s)) BY FS_Interval
<1>2. I \in SUBSET (1 .. Len(s)) OBVIOUS
<1>3. IsFiniteSet(I) BY <1>1, <1>2, FS_Subset
<1>4. (\A i \in DOMAIN s : s[i] # p) => I = {} OBVIOUS
<1> HIDE DEF I
<1>5. Cardinality(I) \in Nat /\ (I = {} => Cardinality(I) = 0)
  BY <1>3, FS_CardinalityType, FS_EmptySet
<1> QED BY <1>4, <1>5 DEF Times, I

LEMMA TimesOne ==
  ASSUME NEW S, NEW s \in Seq(S), NEW k \in 1 .. Len(s),
         \A i, j \in 1 .. Len(s) : s[i] = s[j] => i = j
  PROVE  Times(s, s[k]) = 1
<1>1. {i \in DOMAIN s : s[i] = s[k]} = {k} OBVIOUS
<1> QED BY <1>1, FS_Singleton DEF Times

LEMMA TimesConcat ==
  ASSUME NEW S, NEW s \in Seq(S), NEW t \in Seq(S), NEW p
  PROVE  Times(s \o t, p) = Times(s, p) + Times(t, p)
<1> DEFINE I == {i \in DOMAIN s : s[i] = p}
           J == {i \in DOMAIN t : t[i] = p}
           K == {i \in DOMAIN (s \o t) : (s \o t)[i] = p}
           L == {Len(s) + j : j \in J}
           f == [j \in J |-> Len(s) + j]
<1>1. /\ Len(s) \in Nat /\ Len(t) \in Nat
      /\ DOMAIN s = 1 .. Len(s) /\ DOMAIN t = 1 .. Len(t)
      /\ DOMAIN (s \o t) = 1 .. Len(s) + Len(t)
  OBVIOUS
<1>2. IsFiniteSet(I) /\ IsFiniteSet(J)
  <2>1. IsFiniteSet(1 .. Len(s)) /\ IsFiniteSet(1 .. Len(t)) BY FS_Interval
  <2>2. I \in SUBSET (1 .. Len(s)) /\ J \in SUBSET (1 .. Len(t)) OBVIOUS
  <2> QED BY <2>1, <2>2, FS_Subset
<1>3. IsFiniteSet(L) /\ Cardinality(L) = Cardinality(J)
  <2>1. f \in Bijection(J, L) BY <1>1 DEF Bijection, Injection, Surjection, IsInjective
  <2>2. ExistsBijection(J, L) BY <2>1 DEF ExistsBijection
  <2> QED BY <1>2, <2>2, FS_Bijection
<1>4. K = I \cup L
  <2>1. ASSUME NEW i \in K PROVE i \in I \cup L
    <3>1. CASE i <= Len(s) BY <1>1, <2>1, <3>1, ConcatElements
    <3>2. CASE i > Len(s)
      <4> DEFINE j == i - Len(s)
      <4>1. j \in DOMAIN t /\ i = Len(s) + j BY <1>1, <3>2
      <4>2. (s \o t)[Len(s) + j] = t[j] BY <1>1, <4>1, ConcatElements
      <4> QED BY <2>1, <4>1, <4>2
    <3> QED BY <1>1, <3>1, <3>2
  <2>2. ASSUME NEW i \in I PROVE i \in K BY <1>1, ConcatElements
  <2>3. ASSUME NEW i \in L PROVE i \in K
    <3>1. PICK j \in J : i = Len(s) + j OBVIOUS
    <3> QED BY <1>1, <3>1, ConcatElements
  <2> QED BY <2>1, <2>2, <2>3
<1>5. I \cap L = {} BY <1>1
<1> HIDE DEF I, J, K, L, f
<1>6. Cardinality(I \cup L) = Cardinality(I) + Cardinality(L) - Cardinality(I \cap L)
  BY <1>2, <1>3, FS_Union
<1>7. Cardinality(I) \in Nat /\ Cardinality(J) \in Nat BY <1>2, FS_CardinalityType
<1>8. Cardinality(I \cap L) = 0 BY <1>5, FS_EmptySet
<1>9. Cardinality(K) = Cardinality(I) + Cardinality(J)
  BY <1>3, <1>4, <1>6, <1>7, <1>8
<1> QED BY <1>9 DEF Times, I, J, K

\* Taking the first element off takes it off once.
LEMMA TimesTail ==
  ASSUME NEW S, NEW s \in Seq(S), s # <<>>, NEW p
  PROVE  Times(Tail(s), p) = Times(s, p) - (IF s[1] = p THEN 1 ELSE 0)
<1>1. s[1] \in S /\ Tail(s) \in Seq(S) BY TailElements
<1>2. s = <<s[1]>> \o Tail(s)
  <2> DEFINE u == <<s[1]>> \o Tail(s)
  <2>1. u \in Seq(S) /\ Len(u) = Len(s) /\ \A i \in 1 .. Len(u) : u[i] = s[i]
    BY TailElements
  <2> HIDE DEF u
  <2>2. u = s BY <2>1, SeqEqual
  <2> QED BY <2>2 DEF u
<1>3. <<s[1]>> \in Seq(S) BY <1>1
<1>4. Times(s, p) = Times(<<s[1]>>, p) + Times(Tail(s), p)
  BY <1>1, <1>2, <1>3, TimesConcat, ZenonT(60)
<1> DEFINE one == <<s[1]>>
<1>5. one \in Seq(S) /\ Len(one) = 1 /\ DOMAIN one = 1 .. 1 /\ one[1] = s[1] BY <1>1
<1>6. Times(s, p) = Times(one, p) + Times(Tail(s), p) BY <1>4
<1> HIDE DEF one
<1>7. CASE s[1] = p
  <2>1. \A i, j \in 1 .. Len(one) : one[i] = one[j] => i = j BY <1>5
  <2>2. Times(one, one[1]) = 1
    <3>1. 1 \in 1 .. Len(one) /\ one \in Seq(S) BY <1>5
    <3> QED BY <2>1, <3>1, TimesOne, Zenon
  <2>3. Times(Tail(s), p) \in Nat BY <1>1, TimesType
  <2> QED BY <1>5, <1>6, <1>7, <2>2, <2>3
<1>8. CASE s[1] # p
  <2>1. \A i \in DOMAIN one : one[i] # p BY <1>5, <1>8
  <2>2. Times(one, p) = 0 BY <1>5, <2>1, TimesType
  <2>3. Times(Tail(s), p) \in Nat BY <1>1, TimesType
  <2> QED BY <1>6, <1>8, <2>2, <2>3
<1> QED BY <1>7, <1>8

-----------------------------------------------------------------------------
(* Rounds: what is computed by repeating one step.                          *)

\* N rounds of F, from A on.
Iterates(h, F, A, N) == h[0] = A /\ \A n \in 0 .. N - 1 : h[n + 1] = F[h[n]]

\* There are such rounds: each is a value of F.
LEMMA IterationExists ==
  ASSUME NEW V, NEW A \in V, NEW F \in [V -> V], NEW N \in Nat
  PROVE  \E h \in [0 .. N -> V] : Iterates(h, F, A, N)
<1> DEFINE T == {n \in Nat : ~ \E h \in [0 .. n -> V] : Iterates(h, F, A, n)}
<1> SUFFICES ASSUME T # {} PROVE FALSE OBVIOUS
<1> HIDE DEF T
<1>1. PICK n \in T : \A m \in T : n <= m BY LeastNat DEF T
<1>2. n \in Nat /\ ~ \E h \in [0 .. n -> V] : Iterates(h, F, A, n) BY <1>1 DEF T
<1>3. CASE n = 0
  <2> DEFINE h == [m \in 0 .. 0 |-> A]
  <2>1. h \in [0 .. 0 -> V] /\ h[0] = A /\ 0 .. 0 - 1 = {} OBVIOUS
  <2>2. Iterates(h, F, A, 0) BY <2>1 DEF Iterates
  <2> QED BY <1>2, <1>3, <2>1, <2>2
<1>4. CASE n # 0
  <2>1. n - 1 \in Nat /\ ~ (n <= n - 1) BY <1>2, <1>4
  <2>2. PICK g \in [0 .. n - 1 -> V] : Iterates(g, F, A, n - 1) BY <1>1, <2>1 DEF T
  <2> DEFINE h == [m \in 0 .. n |-> IF m = n THEN F[g[n - 1]] ELSE g[m]]
  <2>3. \A m \in 0 .. n - 1 : h[m] = g[m] /\ g[m] \in V BY <1>2
  <2>4. h[n] = F[g[n - 1]] /\ h[n] \in V /\ h[n - 1] = g[n - 1] BY <1>2, <2>1, <2>3
  <2>5. \A m \in 0 .. n : h[m] \in V BY <1>2, <2>3, <2>4
  <2>6. h \in [0 .. n -> V] BY <2>5
  <2>7. h[0] = A BY <2>1, <2>2, <2>3 DEF Iterates
  <2> HIDE DEF h
  <2>8. ASSUME NEW m \in 0 .. n - 1 PROVE h[m + 1] = F[h[m]]
    <3>1. CASE m = n - 1 BY <1>2, <2>4, <3>1
    <3>2. CASE m # n - 1
      <4>1. m \in 0 .. (n - 1) - 1 /\ m + 1 \in 0 .. n - 1 BY <1>2, <3>2
      <4>2. g[m + 1] = F[g[m]] BY <2>2, <4>1 DEF Iterates
      <4> QED BY <2>3, <4>1, <4>2
    <3> QED BY <3>1, <3>2
  <2>9. Iterates(h, F, A, n) BY <2>7, <2>8 DEF Iterates
  <2> QED BY <1>2, <2>6, <2>9
<1> QED BY <1>3, <1>4

\* Sets that grow in each of n rounds, within a finite one.
LEMMA RoundsGrow ==
  ASSUME NEW n \in Nat, NEW W, NEW U, IsFiniteSet(U), \A m \in 0 .. n : W[m] \subseteq U,
         \A m \in 0 .. n - 1 : W[m] \subseteq W[m + 1] /\ W[m + 1] # W[m]
  PROVE  n <= Cardinality(U)
<1> DEFINE T == {m \in Nat : m <= n /\ Cardinality(W[m]) < m}
<1>1. \A m \in 0 .. n : IsFiniteSet(W[m]) /\ Cardinality(W[m]) \in Nat
  BY FS_Subset, FS_CardinalityType
<1>2. T = {}
  <2> SUFFICES ASSUME T # {} PROVE FALSE OBVIOUS
  <2>1. PICK m \in T : \A k \in T : m <= k
    <3> HIDE DEF T
    <3> QED BY LeastNat DEF T
  <2>2. m \in 1 .. n /\ m - 1 \in 0 .. n - 1 /\ (m - 1) + 1 = m BY <1>1, <2>1
  <2>3. m - 1 \notin T BY <2>1, <2>2
  <2>4. Cardinality(W[m - 1]) >= m - 1 BY <1>1, <2>2, <2>3
  <2>5. W[m - 1] \subseteq W[m] /\ W[m] # W[m - 1] BY <2>2
  <2>6. Cardinality(W[m - 1]) < Cardinality(W[m]) BY <1>1, <2>2, <2>5, FS_Subset
  <2> QED BY <1>1, <2>1, <2>2, <2>4, <2>6
<1>3. Cardinality(W[n]) >= n BY <1>1, <1>2
<1>4. Cardinality(W[n]) <= Cardinality(U) /\ Cardinality(U) \in Nat BY FS_Subset, FS_CardinalityType
<1> QED BY <1>1, <1>3, <1>4

\* No set of elements of B each of which needs another of the set.
NoTrapIn(B, E) == \A X \in SUBSET B : X # {} => \E x \in X : \A y \in X : <<x, y>> \notin E

\* What a round gives an element depends only on what the round before it gave
\* the elements that it needs.
Local(g, N, B, E) ==
  \A n, m \in 0 .. N : \A x \in B :
    (\A y \in B : <<x, y>> \in E => g[n][y] = g[m][y]) => g[n + 1][x] = g[m + 1][x]

\* Where needs go in no circle, as many rounds as there are elements settle them
\* all: one more changes nothing.
LEMMA RoundsSettle ==
  ASSUME NEW B, IsFiniteSet(B), NEW N \in Nat, Cardinality(B) <= N, NEW E, NoTrapIn(B, E),
         NEW g, Local(g, N, B, E)
  PROVE  \A x \in B : g[N + 1][x] = g[N][x]
<1> DEFINE W == [n \in 0 .. N + 1 |-> {x \in B : \A m \in n .. N + 1 : g[m][x] = g[n][x]}]
<1>1. \A n \in 0 .. N + 1 : W[n] = {x \in B : \A m \in n .. N + 1 : g[m][x] = g[n][x]} OBVIOUS
<1> HIDE DEF W
<1>2. \A n \in 0 .. N + 1 : W[n] \subseteq B BY <1>1
<1> SUFFICES ASSUME NEW z \in B, g[N + 1][z] # g[N][z] PROVE FALSE OBVIOUS
<1>3. ASSUME NEW n \in 0 .. N PROVE z \notin W[n]
  <2>1. N \in n .. N + 1 /\ N + 1 \in n .. N + 1 /\ n \in 0 .. N + 1 OBVIOUS
  <2> QED BY <1>1, <2>1
<1>4. ASSUME NEW n \in 0 .. N PROVE W[n] \subseteq W[n + 1] /\ W[n + 1] # W[n]
  <2>1. n + 1 \in 0 .. N + 1 /\ n \in 0 .. N + 1 OBVIOUS
  <2>2. \A m \in n + 1 .. N + 1 : m \in n .. N + 1 /\ m - 1 \in n .. N /\ m - 1 \in 0 .. N
                                  /\ m - 1 \in n .. N + 1 /\ (m - 1) + 1 = m
    OBVIOUS
  <2>3. W[n] \subseteq W[n + 1]
    <3> SUFFICES ASSUME NEW x \in W[n], NEW m \in n + 1 .. N + 1
                 PROVE  x \in B /\ g[m][x] = g[n + 1][x]
      BY <1>1, <2>1
    <3>1. x \in B /\ g[m][x] = g[n][x] BY <1>1, <2>1, <2>2
    <3>2. n + 1 \in n .. N + 1 OBVIOUS
    <3>3. g[n + 1][x] = g[n][x] BY <1>1, <2>1, <3>2
    <3> QED BY <3>1, <3>3
  <2>4. B \ W[n] \in SUBSET B /\ B \ W[n] # {} BY <1>3
  <2>5. PICK x \in B \ W[n] : \A y \in B \ W[n] : <<x, y>> \notin E BY <2>4 DEF NoTrapIn
  <2>6. x \in W[n + 1]
    <3> SUFFICES ASSUME NEW m \in n + 1 .. N + 1 PROVE g[m][x] = g[n + 1][x] BY <1>1, <2>1
    <3>1. ASSUME NEW y \in B, <<x, y>> \in E PROVE g[m - 1][y] = g[n][y]
      <4>1. y \in W[n] BY <2>5, <3>1
      <4> QED BY <1>1, <2>1, <2>2, <4>1
    <3>2. g[(m - 1) + 1][x] = g[n + 1][x] BY <2>2, <3>1 DEF Local
    <3> QED BY <2>2, <3>2
  <2> QED BY <2>3, <2>5, <2>6
<1>5. N + 1 \in Nat /\ (N + 1) - 1 = N OBVIOUS
<1>6. N + 1 <= Cardinality(B) BY <1>2, <1>4, <1>5, RoundsGrow
<1> QED BY <1>6, FS_CardinalityType

\* The sum of a sequence of numbers is a number: the fold goes down from a set of
\* indices to a smaller one, so that it is settled when all the sets have been.
LEMMA SumIsNat ==
  ASSUME NEW k \in Nat, NEW s \in [1 .. k -> Nat]
  PROVE  FoldSeq(+, 0, s) \in Nat
<1> DEFINE D == 1 .. k
           Pick(t) == CHOOSE x \in t : TRUE
           V == [SUBSET D -> Nat]
           Sum(v) == [t \in SUBSET D |-> IF t = {} THEN 0 ELSE s[Pick(t)] + v[t \ {Pick(t)}]]
           F == [v \in V |-> Sum(v)]
           A == [t \in SUBSET D |-> 0]
           B == SUBSET D
           E == {<<t, t \ {Pick(t)}>> : t \in (SUBSET D) \ {{}}}
           Fix(f) == f = Sum(f)
<1>1. \A t \in (SUBSET D) \ {{}} : Pick(t) \in t /\ Pick(t) \in D /\ t \ {Pick(t)} \in SUBSET D
  OBVIOUS
<1>2. \A t \in SUBSET D : IsFiniteSet(t) /\ Cardinality(t) \in Nat
  <2>1. IsFiniteSet(D) BY FS_Interval
  <2> QED BY <2>1, FS_Subset, FS_CardinalityType
<1> HIDE DEF Pick, D
<1>3. \A x, y : <<x, y>> \in E <=> x \in (SUBSET D) \ {{}} /\ y = x \ {Pick(x)} OBVIOUS
<1>4. NoTrapIn(B, E)
  <2> SUFFICES ASSUME NEW X \in SUBSET B, X # {}
               PROVE  \E x \in X : \A y \in X : <<x, y>> \notin E
    BY DEF NoTrapIn
  <2> DEFINE C == {Cardinality(x) : x \in X}
  <2>1. C \in SUBSET Nat /\ C # {} BY <1>2
  <2> HIDE DEF C
  <2>2. PICK n \in C : \A m \in C : n <= m BY <2>1, LeastNat
  <2>3. PICK x \in X : n = Cardinality(x) BY DEF C
  <2>4. ASSUME NEW y \in X, <<x, y>> \in E PROVE FALSE
    <3>1. x \in (SUBSET D) \ {{}} /\ y = x \ {Pick(x)} BY <1>3, <2>4
    <3>2. Cardinality(y) = Cardinality(x) - 1 /\ Cardinality(x) \in Nat /\ Cardinality(y) \in Nat
      BY <1>1, <1>2, <3>1, FS_RemoveElement
    <3>3. Cardinality(x) <= Cardinality(y) BY <2>2, <2>3 DEF C
    <3> QED BY <3>2, <3>3
  <2> QED BY <2>4
<1>5. IsFiniteSet(B)
  <2>1. IsFiniteSet(D) BY FS_Interval DEF D
  <2> QED BY <2>1, FS_SUBSET
<1>6. PICK N \in Nat : N = Cardinality(B) BY <1>5, FS_CardinalityType
<1>7. ASSUME NEW v \in V, NEW t \in SUBSET D
      PROVE  Sum(v)[t] \in Nat
  <2>1. CASE t = {} BY <2>1
  <2>2. CASE t # {}
    <3>1. Pick(t) \in D /\ t \ {Pick(t)} \in SUBSET D BY <1>1, <2>2
    <3>2. s[Pick(t)] \in Nat /\ v[t \ {Pick(t)}] \in Nat BY <3>1 DEF D
    <3> QED BY <2>2, <3>2
  <2> QED BY <2>1, <2>2
<1>8. F \in [V -> V] /\ A \in V
  <2>1. \A v \in V : Sum(v) \in V BY <1>7
  <2> QED BY <2>1
<1>9. \A v \in V : F[v] = Sum(v) OBVIOUS
<1>10. \E f : Fix(f)
  <2> HIDE DEF F, V, A, E
  <2>1. N + 1 \in Nat OBVIOUS
  <2>2. PICK h \in [0 .. N + 1 -> V] : Iterates(h, F, A, N + 1) BY <1>8, <2>1, IterationExists
  <2>3. \A n \in 0 .. N : n \in 0 .. N + 1 /\ n + 1 \in 0 .. N + 1 OBVIOUS
  <2>4. \A n \in 0 .. N : h[n] \in V /\ h[n + 1] = Sum(h[n])
    <3>1. (N + 1) - 1 = N OBVIOUS
    <3> QED BY <1>9, <2>2, <2>3, <3>1 DEF Iterates
  <2>5. \A n \in 0 .. N : \A t \in B :
          h[n + 1][t] = IF t = {} THEN 0 ELSE s[Pick(t)] + h[n][t \ {Pick(t)}]
    BY <2>4
  <2>6. Local(h, N, B, E)
    <3> SUFFICES ASSUME NEW n \in 0 .. N, NEW m \in 0 .. N, NEW t \in B,
                        \A y \in B : <<t, y>> \in E => h[n][y] = h[m][y]
                 PROVE  h[n + 1][t] = h[m + 1][t]
      BY DEF Local
    <3>1. CASE t = {} BY <2>5, <3>1
    <3>2. CASE t # {}
      <4>1. <<t, t \ {Pick(t)}>> \in E BY <1>3, <3>2
      <4>2. t \ {Pick(t)} \in B BY <1>1, <3>2
      <4>3. h[n][t \ {Pick(t)}] = h[m][t \ {Pick(t)}] BY <4>1, <4>2
      <4>4. /\ h[n + 1][t] = s[Pick(t)] + h[n][t \ {Pick(t)}]
            /\ h[m + 1][t] = s[Pick(t)] + h[m][t \ {Pick(t)}]
        BY <2>5, <3>2
      <4> QED BY <4>3, <4>4
    <3> QED BY <3>1, <3>2
  <2>7. \A t \in B : h[N + 1][t] = h[N][t]
    <3> HIDE DEF B
    <3>1. Cardinality(B) <= N BY <1>6
    <3> QED BY <1>4, <1>5, <2>6, <3>1, RoundsSettle
  <2>8. h[N] \in V /\ h[N + 1] = Sum(h[N]) /\ h[N + 1] \in V
    <3>1. N \in 0 .. N OBVIOUS
    <3> HIDE DEF Sum
    <3> QED BY <2>2, <2>3, <2>4, <3>1
  <2>9. h[N] = Sum(h[N]) BY <2>7, <2>8 DEF V
  <2> QED BY <2>9
<1> DEFINE iter == CHOOSE f : Fix(f)
<1>11. Fix(iter) BY <1>10
<1>12. FoldSeq(+, 0, s) = iter[D]
  <2>1. DOMAIN s = D BY DEF D
  <2> QED BY <2>1 DEF FoldSeq, FoldFunction, FoldFunctionOnSet, MapThenFoldSet, Pick
<1> HIDE DEF iter
<1>13. \A t \in B : iter[t] = IF t = {} THEN 0 ELSE s[Pick(t)] + iter[t \ {Pick(t)}] BY <1>11
<1> DEFINE Z == {t \in B : iter[t] \notin Nat}
<1>14. Z = {}
  <2> SUFFICES ASSUME Z # {} PROVE FALSE OBVIOUS
  <2>1. Z \in SUBSET B OBVIOUS
  <2> HIDE DEF Z, E
  <2>2. PICK t \in Z : \A y \in Z : <<t, y>> \notin E BY <1>4, <2>1 DEF NoTrapIn
  <2>3. t \in B /\ iter[t] \notin Nat BY DEF Z
  <2>4. t # {}
    <3> HIDE DEF B
    <3>1. t = {} => iter[t] = 0 BY <1>13, <2>3
    <3> QED BY <2>3, <3>1
  <2>5. <<t, t \ {Pick(t)}>> \in E /\ t \ {Pick(t)} \in B BY <1>1, <1>3, <2>3, <2>4
  <2>6. iter[t \ {Pick(t)}] \in Nat BY <2>2, <2>5 DEF Z
  <2>7. s[Pick(t)] \in Nat BY <1>1, <2>3, <2>4 DEF D
  <2> QED BY <1>13, <2>3, <2>4, <2>6, <2>7
<1>15. D \in B OBVIOUS
<1> QED BY <1>12, <1>14, <1>15
=============================================================================
