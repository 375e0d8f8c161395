----------------------- MODULE InvalidationWalkProofs -----------------------
(* Proofs about InvalidationWalk, for every acyclic graph over any finite   *)
(* set of positions and every order in which edges are followed.            *)
(*                                                                          *)
(* That the walk is exact: what a dropped cell names is dropped, or was     *)
(* invalid, or is on the stack.  That it takes one turn for each edge: when *)
(* a cell comes up a second time, all it names has come up in between, so   *)
(* that it finds nothing to step into; so a cell is put on the stack at     *)
(* most once by each cell that names it.                                    *)

EXTENDS InvalidationWalk, SequenceFacts

OnStack(p) == \E i \in DOMAIN stack : stack[i] = p

\* The cells the walk has dropped, all of them reached.
Dropped == valid0 \ valid
DroppedIsReached == Dropped \subseteq Reached

\* What a dropped cell names is dealt with or ahead, and the same is true of
\* the start once it is off the stack.
NamedIsAhead ==
  /\ \A q \in Dropped : \A d \in graph[q] \cap valid : OnStack(d)
  /\ OnStack(start) \/ (start \notin valid /\ \A d \in graph[start] \cap valid : OnStack(d))

WalkInv == TypeOK /\ DroppedIsReached /\ NamedIsAhead

-----------------------------------------------------------------------------
(* What a search visits.                                                    *)

\* A search visits its start.
LEMMA ReachStart == ASSUME NEW g, NEW p \in Pos PROVE p \in Reach(g, p)
BY DEF Reach

\* A search visits positions only.
LEMMA ReachPos == ASSUME NEW g, NEW p PROVE Reach(g, p) \subseteq Pos
BY DEF Reach

\* A search that visits a position visits all it has edges to.
LEMMA ReachClosed ==
  ASSUME NEW g \in Graph, NEW p PROVE Closed(g, Reach(g, p))
BY DEF Reach, Closed, Graph

\* A search stays inside every closed set it starts in.
LEMMA ReachLeast ==
  ASSUME NEW g, NEW p, NEW S \in SUBSET Pos, p \in S, Closed(g, S)
  PROVE  Reach(g, p) \subseteq S
BY DEF Reach

-----------------------------------------------------------------------------

Valid0Graph == [q \in Pos |-> graph[q] \cap valid0]

\* What the walk knows of its top.
LEMMA TopFacts ==
  ASSUME TypeOK, stack # <<>>
  PROVE  /\ Reached \subseteq Pos /\ start \in Reached
         /\ \A q \in Reached : graph[q] \cap valid0 \subseteq Reached
         /\ Top \in Reached /\ Top \in Pos
         /\ stack \in Seq(Pos) /\ stack \in Seq(Reached) /\ Len(stack) \in Nat \ {0}
<1>1. graph \in Graph /\ stack \in Seq(Reached) /\ start \in Pos BY DEF TypeOK
<1>2. Valid0Graph \in Graph BY <1>1 DEF Valid0Graph, Graph
<1>3. Reached = Reach(Valid0Graph, start) BY DEF Reached, Valid0Graph
<1>4. Reached \subseteq Pos /\ start \in Reached BY <1>1, <1>3, ReachPos, ReachStart
<1>5. Closed(Valid0Graph, Reached) BY <1>2, <1>3, ReachClosed
<1>6. \A q \in Reached : graph[q] \cap valid0 \subseteq Reached
  BY <1>4, <1>5 DEF Closed, Valid0Graph
<1>7. stack \in Seq(Pos) BY <1>1, <1>4, SeqMonotonic
<1> QED BY <1>1, <1>4, <1>6, <1>7, TailElements DEF Top

\* One turn: an order of the dependents that are valid still, put on top.
LEMMA TurnFacts ==
  ASSUME TypeOK, Turn
  PROVE  \E order \in Seq(Reached) :
           /\ stack' = order \o Tail(stack) /\ valid' = valid \ {Top}
           /\ \A i \in 1 .. Len(order) : order[i] \in graph[Top] \cap valid'
           /\ \A d \in graph[Top] \cap valid' : \E i \in 1 .. Len(order) : order[i] = d
           /\ \A i, j \in 1 .. Len(order) : order[i] = order[j] => i = j
           /\ order \in Seq(Pos)
<1> DEFINE D == {d \in graph[Top] : StepsInto(d, valid')}
<1>1. stack # <<>> /\ valid' = valid \ {Top} BY DEF Turn
<1>2. PICK order \in SetToSeqs(D) : stack' = order \o Popped(stack) BY DEF Turn
<1>3. D = graph[Top] \cap valid' BY DEF StepsInto
<1>4. D \subseteq Reached /\ Reached \subseteq Pos BY <1>1, <1>3, TopFacts DEF TypeOK
<1> HIDE DEF D
<1>5. IsFiniteSet(D) BY <1>4, PosAssumption, FS_Subset
<1>6. /\ order \in Seq(D)
      /\ \A i, j \in 1 .. Len(order) : order[i] = order[j] => i = j
      /\ \A x \in D : \E i \in 1 .. Len(order) : order[i] = x
  BY <1>5, OrderOfSet
<1>7. order \in Seq(Reached) /\ order \in Seq(Pos) BY <1>4, <1>6, SeqMonotonic
<1>8. \A i \in 1 .. Len(order) : order[i] \in D BY <1>6
<1> QED BY <1>1, <1>2, <1>3, <1>6, <1>7, <1>8 DEF Popped

\* Before the first turn nothing is dropped and the start is on the stack.
LEMMA WalkInvInit == Init => WalkInv
<1> SUFFICES ASSUME Init PROVE WalkInv OBVIOUS
<1>1. start \in Pos /\ graph \in Graph /\ valid = valid0 /\ valid0 \subseteq Pos BY DEF Init
<1>2. start \in Reached BY <1>1, ReachStart DEF Reached
<1>3. stack \in Seq(Reached) BY <1>2 DEF Init
<1>4. OnStack(start) BY DEF Init, OnStack
<1>5. turns \in [Pos -> 0 .. MaxTurns] BY MaxTurnsAssumption DEF Init
<1> QED BY <1>1, <1>3, <1>4, <1>5 DEF WalkInv, TypeOK, DroppedIsReached, NamedIsAhead, Dropped

\* A turn drops its top and puts on the stack all that may be stale for it.
LEMMA WalkInvNext == WalkInv /\ [Next]_vars => WalkInv'
<1> SUFFICES ASSUME WalkInv, [Next]_vars PROVE WalkInv' OBVIOUS
<1>1. CASE Turn
  <2>1. TypeOK /\ stack # <<>> /\ graph' = graph /\ start' = start /\ valid0' = valid0
    BY <1>1 DEF Turn, WalkInv
  <2>2. Reached' = Reached BY <2>1 DEF Reached
  <2>3. PICK order \in Seq(Reached) :
           /\ stack' = order \o Tail(stack) /\ valid' = valid \ {Top}
           /\ \A i \in 1 .. Len(order) : order[i] \in graph[Top] \cap valid'
           /\ \A d \in graph[Top] \cap valid' : \E i \in 1 .. Len(order) : order[i] = d
    BY <1>1, <2>1, TurnFacts
  <2>4. Tail(stack) \in Seq(Reached) /\ stack \in Seq(Reached) BY <2>1, TopFacts, TailElements
  <2>5. stack' \in Seq(Reached) /\ DOMAIN stack' = 1 .. Len(order) + Len(stack) - 1
        /\ DOMAIN stack = 1 .. Len(stack) /\ Len(order) \in Nat
        /\ (\A i \in 1 .. Len(order) : stack'[i] = order[i])
        /\ (\A i \in 2 .. Len(stack) : stack'[Len(order) + i - 1] = stack[i])
    <3>1. \A i \in 2 .. Len(stack) : Tail(stack)[i - 1] = stack[i] BY <2>1, <2>4, TailElements
    <3>2. Len(Tail(stack)) = Len(stack) - 1 /\ Len(stack) \in Nat \ {0} BY <2>1, <2>4, TailElements
    <3>3. \A i \in 1 .. Len(stack) - 1 : stack'[Len(order) + i] = Tail(stack)[i]
      BY <2>3, <2>4, <3>2, ConcatElements
    <3>4. \A i \in 2 .. Len(stack) : i - 1 \in 1 .. Len(stack) - 1 /\ Len(order) + (i - 1) = Len(order) + i - 1
      BY <2>4
    <3> QED BY <2>3, <2>4, <3>1, <3>2, <3>3, <3>4, ConcatElements
  <2>6. TypeOK'
    <3>1. turns' \in [Pos -> 0 .. MaxTurns]
      <4>1. Top \in Pos /\ turns \in [Pos -> 0 .. MaxTurns] BY <2>1, TopFacts DEF TypeOK
      <4>2. (IF turns[Top] < MaxTurns THEN turns[Top] + 1 ELSE turns[Top]) \in 0 .. MaxTurns
        BY <4>1, MaxTurnsAssumption
      <4> QED BY <1>1, <4>1, <4>2 DEF Turn
    <3> QED BY <2>1, <2>2, <2>3, <2>5, <3>1 DEF TypeOK
  <2>7. DroppedIsReached'
    BY <2>1, <2>2, <2>3, TopFacts DEF WalkInv, DroppedIsReached, Dropped
  <2>8. \A d : OnStack(d) /\ d # Top => OnStack(d)'
    <3> SUFFICES ASSUME NEW d, OnStack(d), d # Top PROVE OnStack(d)' OBVIOUS
    <3>1. PICK i \in DOMAIN stack : stack[i] = d BY DEF OnStack
    <3>2. i \in 2 .. Len(stack) BY <2>5, <3>1 DEF Top
    <3>3. Len(order) + i - 1 \in DOMAIN stack' BY <2>5, <3>2
    <3> QED BY <2>5, <3>1, <3>2, <3>3 DEF OnStack
  <2>9. \A d \in graph[Top] \cap valid' : OnStack(d)'
    <3> SUFFICES ASSUME NEW d \in graph[Top] \cap valid' PROVE OnStack(d)' OBVIOUS
    <3>1. PICK i \in 1 .. Len(order) : order[i] = d BY <2>3
    <3>2. Len(stack) \in Nat \ {0} BY <2>1, TopFacts
    <3>3. i \in DOMAIN stack' BY <2>5, <3>1, <3>2
    <3> QED BY <2>5, <3>1, <3>3 DEF OnStack
  <2>10. NamedIsAhead'
    <3>1. ASSUME NEW q \in Dropped', NEW d \in graph[q] \cap valid' PROVE OnStack(d)'
      <4>1. CASE q = Top BY <3>1, <4>1, <2>9
      <4>2. CASE q # Top
        <5>1. q \in Dropped /\ d \in valid /\ d # Top BY <2>1, <2>3, <3>1, <4>2 DEF Dropped
        <5> QED BY <3>1, <5>1, <2>8 DEF WalkInv, NamedIsAhead
      <4> QED BY <4>1, <4>2
    <3>2. CASE start = Top BY <2>1, <2>3, <2>9, <3>1, <3>2 DEF NamedIsAhead
    <3>3. CASE start # Top
      <4>1. CASE OnStack(start) BY <2>1, <2>8, <3>1, <3>3, <4>1 DEF NamedIsAhead
      <4>2. CASE ~ OnStack(start)
        <5>1. start \notin valid' BY <4>2, <2>3 DEF WalkInv, NamedIsAhead
        <5>2. \A d \in graph[start] \cap valid' : OnStack(d)'
          BY <4>2, <2>3, <2>8 DEF WalkInv, NamedIsAhead
        <5> QED BY <2>1, <3>1, <5>1, <5>2 DEF NamedIsAhead
      <4> QED BY <4>1, <4>2
    <3> QED BY <3>2, <3>3
  <2> QED BY <2>6, <2>7, <2>10 DEF WalkInv
<1>2. CASE UNCHANGED vars
  <2>1. Reached' = Reached /\ Dropped' = Dropped /\ \A d : OnStack(d)' <=> OnStack(d)
    BY <1>2 DEF vars, Reached, Dropped, OnStack
  <2>2. TypeOK' BY <1>2, <2>1 DEF vars, WalkInv, TypeOK
  <2>3. NamedIsAhead' BY <1>2, <2>1 DEF vars, WalkInv, NamedIsAhead
  <2> QED BY <2>1, <2>2, <2>3 DEF WalkInv, DroppedIsReached
<1> QED BY <1>1, <1>2 DEF Next

\* WalkInv is inductive: it holds before every turn of the loop of
\* InvalidateDependencyGraph.
THEOREM WalkInvariance == Spec => []WalkInv
<1> QED BY WalkInvInit, WalkInvNext, PTL DEF Spec

\* The walk stays among the cells to be reached.
THEOREM TypeCorrect == Spec => []TypeOK
<1>1. WalkInv => TypeOK BY DEF WalkInv
<1> QED BY <1>1, WalkInvariance, PTL

\* InvalidateDependencyGraph drops exactly the caches that can be reached
\* through valid dependents, although it steps only into those still valid.
THEOREM InvalidationIsExact == Spec => []WalkExact
<1>1. ASSUME WalkInv, stack = <<>> PROVE valid = valid0 \ Reached
  <2> DEFINE C == Dropped \cup {start}
  <2>1. TypeOK /\ start \in Pos BY <1>1 DEF WalkInv, TypeOK
  <2>2. \A d : ~ OnStack(d)
    <3>1. stack \in Seq(Pos) /\ Len(stack) = 0 BY <1>1, EmptySeq
    <3>2. DOMAIN stack = {} BY <3>1, LenProperties
    <3> QED BY <3>2 DEF OnStack
  <2>3. start \notin valid /\ \A q \in C : graph[q] \cap valid = {}
    BY <1>1, <2>2 DEF WalkInv, NamedIsAhead
  <2>4. C \in SUBSET Pos /\ Closed(Valid0Graph, C)
    BY <2>1, <2>3 DEF TypeOK, Dropped, Closed, Valid0Graph
  <2>5. Reached \subseteq C
    <3>1. Reached = Reach(Valid0Graph, start) BY DEF Reached, Valid0Graph
    <3> QED BY <2>4, <3>1, ReachLeast
  <2> QED BY <1>1, <2>1, <2>3, <2>5 DEF WalkInv, DroppedIsReached, Dropped, TypeOK
<1>2. WalkInv => WalkExact BY <1>1 DEF WalkExact
<1> QED BY <1>2, WalkInvariance, PTL

-----------------------------------------------------------------------------
(* One turn for each edge.                                                  *)

\* What names p, and has come up.
Namers(p) == {q \in Reached : p \in graph[q] /\ turns[q] > 0}

\* When a cell that has come up comes up again, what it names and was valid has
\* come up before.
RepeatsAreIdle ==
  \A q \in Pos : turns[q] > 0 =>
    /\ q \notin valid
    /\ \A i \in DOMAIN stack : stack[i] = q =>
         \A d \in graph[q] \cap valid : \E j \in DOMAIN stack : j < i /\ stack[j] = d

\* Each cell that names p has put it on the stack once.
CountedByNamers ==
  \A p \in Pos \ {start} : turns[p] + Times(stack, p) <= Cardinality(Namers(p))

\* The start comes up first and never again.
StartComesFirst ==
  \/ stack = <<start>> /\ turns[start] = 0
  \/ ~ OnStack(start) /\ turns[start] <= 1

EdgeInv ==
  /\ TypeOK /\ Acyclic(graph)
  /\ MaxTurns > 0 => RepeatsAreIdle /\ CountedByNamers
  /\ StartComesFirst

\* The cells that name another are finitely many.
LEMMA NamersFinite ==
  ASSUME TypeOK, NEW p PROVE IsFiniteSet(Namers(p)) /\ Cardinality(Namers(p)) \in Nat
<1>1. Reached \subseteq Pos BY ReachPos DEF Reached
<1>2. Namers(p) \in SUBSET Pos BY <1>1 DEF Namers
<1> QED BY <1>2, PosAssumption, FS_Subset, FS_CardinalityType

\* A search that comes to v from another cell does so through one it names.
LEMMA ReachStep ==
  ASSUME NEW g \in Graph, NEW q \in Pos, NEW v \in Reach(g, q), v # q
  PROVE  \E d \in g[q] : v \in Reach(g, d)
<1> SUFFICES ASSUME \A d \in g[q] : v \notin Reach(g, d) PROVE FALSE OBVIOUS
<1> DEFINE C == {q} \cup UNION {Reach(g, d) : d \in g[q]}
<1>1. C \in SUBSET Pos /\ q \in C BY ReachPos
<1>2. Closed(g, C)
  <2>1. g[q] \subseteq Pos BY DEF Graph
  <2>2. \A d \in g[q] : d \in Reach(g, d) BY <2>1, ReachStart
  <2>3. \A d \in g[q] : \A c \in Reach(g, d) : g[c] \subseteq Reach(g, d)
    BY ReachClosed DEF Closed
  <2> QED BY <2>2, <2>3 DEF Closed
<1>3. v \in C BY <1>1, <1>2, ReachLeast
<1> QED BY <1>3

\* Nothing that is reached leads back to the start.
LEMMA NoWayBack ==
  ASSUME TypeOK, Acyclic(graph), NEW v \in Reached PROVE start \notin graph[v]
<1> SUFFICES ASSUME start \in graph[v] PROVE FALSE OBVIOUS
<1> DEFINE B == {q \in Pos : v \in Reach(Valid0Graph, q)}
<1>1. Valid0Graph \in Graph /\ v \in Pos /\ start \in Pos /\ Reached = Reach(Valid0Graph, start)
  BY ReachPos DEF TypeOK, Valid0Graph, Graph, Reached
<1>2. start \in B /\ v \in B BY <1>1, ReachStart
<1>3. ASSUME NEW q \in B PROVE graph[q] \cap B # {}
  <2>1. CASE q = v BY <2>1, <1>2
  <2>2. CASE q # v
    <3>1. PICK d \in Valid0Graph[q] : v \in Reach(Valid0Graph, d) BY <1>1, <2>2, ReachStep
    <3>2. d \in graph[q] /\ d \in Pos BY <1>1, <3>1 DEF Valid0Graph, Graph
    <3> QED BY <3>1, <3>2
  <2> QED BY <2>1, <2>2
<1> QED BY <1>2, <1>3 DEF Acyclic, Trap

\* How often a cell is on the stack after a turn.
LEMMA TimesAfterTurn ==
  ASSUME TypeOK, stack # <<>>, NEW order \in Seq(Pos), stack' = order \o Tail(stack),
         \A i, j \in 1 .. Len(order) : order[i] = order[j] => i = j,
         NEW p \in Pos
  PROVE  /\ Times(stack, p) \in Nat /\ Times(stack', p) \in Nat
         /\ p # Top /\ (\A i \in 1 .. Len(order) : order[i] # p) => Times(stack', p) = Times(stack, p)
         /\ p # Top => Times(stack', p) <= Times(stack, p) + 1
         /\ p = Top /\ (\A i \in 1 .. Len(order) : order[i] # p) => Times(stack', p) = Times(stack, p) - 1
<1>1. stack \in Seq(Pos) /\ Tail(stack) \in Seq(Pos) BY TopFacts, TailElements
<1>2. Times(stack, p) \in Nat /\ Times(Tail(stack), p) \in Nat /\ Times(order, p) \in Nat
  BY <1>1, TimesType
<1>3. Times(stack', p) = Times(order, p) + Times(Tail(stack), p) BY <1>1, TimesConcat, ZenonT(60)
<1>4. Times(Tail(stack), p) = Times(stack, p) - (IF Top = p THEN 1 ELSE 0)
  BY <1>1, TimesTail DEF Top
<1>5. (\A i \in 1 .. Len(order) : order[i] # p) => Times(order, p) = 0 BY TimesType
<1>6. Times(order, p) <= 1
  <2>1. CASE \A i \in 1 .. Len(order) : order[i] # p BY <2>1, <1>5
  <2>2. ASSUME NEW k \in 1 .. Len(order), order[k] = p PROVE Times(order, p) = 1
    BY <2>2, TimesOne
  <2> QED BY <2>1, <2>2
<1> QED BY <1>2, <1>3, <1>4, <1>5, <1>6

\* Before the first turn nothing has been counted.
LEMMA EdgeInvInit == Init => EdgeInv
<1> SUFFICES ASSUME Init PROVE EdgeInv OBVIOUS
<1>1. TypeOK BY WalkInvInit DEF WalkInv
<1>2. \A q \in Pos : turns[q] = 0 BY DEF Init
<1>3. stack = <<start>> /\ start \in Pos /\ Acyclic(graph) BY DEF Init
<1>4. ASSUME NEW p \in Pos \ {start} PROVE turns[p] + Times(stack, p) <= Cardinality(Namers(p))
  <2>1. stack \in Seq(Pos) /\ \A i \in DOMAIN stack : stack[i] # p BY <1>3
  <2>2. Times(stack, p) = 0 BY <2>1, TimesType
  <2>3. Cardinality(Namers(p)) \in Nat BY <1>1, NamersFinite
  <2> QED BY <1>2, <2>2, <2>3
<1> QED BY <1>1, <1>2, <1>3, <1>4 DEF EdgeInv, RepeatsAreIdle, CountedByNamers, StartComesFirst

\* A turn at a cell that was valid puts each dependent on the stack once; at one that
\* was not, it puts none.
LEMMA EdgeInvNext == EdgeInv /\ TypeOK' /\ [Next]_vars => EdgeInv'
<1> SUFFICES ASSUME EdgeInv, TypeOK', [Next]_vars PROVE EdgeInv' OBVIOUS
<1>1. CASE Turn
  <2>1. /\ TypeOK /\ stack # <<>> /\ Acyclic(graph)
        /\ graph' = graph /\ start' = start /\ valid0' = valid0
        /\ turns' = [turns EXCEPT ![Top] = IF @ < MaxTurns THEN @ + 1 ELSE @]
    BY <1>1 DEF Turn, EdgeInv
  <2>2. Reached' = Reached BY <2>1 DEF Reached
  <2>3. PICK order \in Seq(Reached) :
           /\ stack' = order \o Tail(stack) /\ valid' = valid \ {Top}
           /\ \A i \in 1 .. Len(order) : order[i] \in graph[Top] \cap valid'
           /\ \A d \in graph[Top] \cap valid' : \E i \in 1 .. Len(order) : order[i] = d
           /\ \A i, j \in 1 .. Len(order) : order[i] = order[j] => i = j
           /\ order \in Seq(Pos)
    BY <1>1, <2>1, TurnFacts
  <2>4. Top \in Pos /\ Top \in Reached /\ turns \in [Pos -> 0 .. MaxTurns]
        /\ Reached \subseteq Pos /\ start \in Reached /\ Len(stack) \in Nat \ {0}
    BY <2>1, TopFacts DEF TypeOK
  <2>5. /\ \A q \in Pos : q # Top => turns'[q] = turns[q]
        /\ turns[Top] \in Nat /\ turns'[Top] \in turns[Top] .. turns[Top] + 1
        /\ MaxTurns > 0 => turns'[Top] > 0
    BY <2>1, <2>4, MaxTurnsAssumption
  <2>6. /\ DOMAIN stack' = 1 .. Len(order) + Len(stack) - 1
        /\ DOMAIN stack = 1 .. Len(stack) /\ Len(order) \in Nat
        /\ (\A i \in 1 .. Len(order) : stack'[i] = order[i])
        /\ (\A i \in 2 .. Len(stack) : stack'[Len(order) + i - 1] = stack[i])
    <3>0. Tail(stack) \in Seq(Pos) /\ stack \in Seq(Pos) BY <2>1, TopFacts, TailElements
    <3>1. \A i \in 2 .. Len(stack) : Tail(stack)[i - 1] = stack[i]
      BY <2>1, <2>4, <3>0, TailElements
    <3>2. Len(Tail(stack)) = Len(stack) - 1 BY <2>1, <3>0, TailElements
    <3>3. \A i \in 1 .. Len(stack) - 1 : stack'[Len(order) + i] = Tail(stack)[i]
      BY <2>3, <3>0, <3>2, ConcatElements
    <3>4. \A i \in 2 .. Len(stack) : i - 1 \in 1 .. Len(stack) - 1 /\ Len(order) + (i - 1) = Len(order) + i - 1
      BY <2>3, <2>4
    <3> QED BY <2>3, <2>4, <3>0, <3>1, <3>2, <3>3, <3>4, ConcatElements
  <2>7. ASSUME MaxTurns > 0, RepeatsAreIdle PROVE RepeatsAreIdle'
    <3> SUFFICES ASSUME NEW q \in Pos, turns'[q] > 0
                 PROVE  /\ q \notin valid'
                        /\ \A i \in DOMAIN stack' : stack'[i] = q =>
                             \A d \in graph[q] \cap valid' : \E j \in DOMAIN stack' : j < i /\ stack'[j] = d
      BY <2>1 DEF RepeatsAreIdle
    <3>1. q \notin valid' BY <2>3, <2>5, <2>7 DEF RepeatsAreIdle
    <3>2. ASSUME NEW i \in DOMAIN stack', stack'[i] = q, NEW d \in graph[q] \cap valid'
          PROVE  \E j \in DOMAIN stack' : j < i /\ stack'[j] = d
      <4>1. i > Len(order) BY <2>3, <2>6, <3>1, <3>2
      <4>2. CASE q = Top
        <5>1. PICK j \in 1 .. Len(order) : order[j] = d BY <2>3, <3>2, <4>2
        <5>2. j \in DOMAIN stack' /\ j < i /\ stack'[j] = d
          <6>1. j \in DOMAIN stack' BY <2>4, <2>6
          <6>2. j \in Nat /\ i \in Nat /\ j <= Len(order) /\ Len(order) < i BY <2>4, <2>6, <4>1
          <6>3. j < i BY <2>6, <6>2
          <6> QED BY <2>6, <5>1, <6>1, <6>3
        <5> QED BY <5>2
      <4>3. CASE q # Top
        <5> DEFINE k == i - Len(order) + 1
        <5>1. k \in 2 .. Len(stack) /\ i = Len(order) + k - 1 BY <2>4, <2>6, <4>1
        <5>2. stack[k] = q /\ k \in DOMAIN stack BY <2>4, <2>6, <3>2, <5>1, SMTT(60)
        <5>3. turns[q] > 0 /\ d \in graph[q] \cap valid /\ d # Top BY <2>3, <2>5, <3>2, <4>3
        <5>4. PICK j \in DOMAIN stack : j < k /\ stack[j] = d
          BY <2>7, <5>2, <5>3 DEF RepeatsAreIdle
        <5>5. j # 1 BY <5>3, <5>4 DEF Top
        <5>6. j \in 2 .. Len(stack) BY <2>4, <2>6, <5>4, <5>5
        <5>7. Len(order) + j - 1 \in DOMAIN stack' BY <2>4, <2>6, <5>6
        <5>8. Len(order) + j - 1 < i BY <2>4, <2>6, <5>1, <5>4, <5>6
        <5>9. stack'[Len(order) + j - 1] = d BY <2>6, <5>4, <5>6
        <5> QED BY <5>7, <5>8, <5>9
      <4> QED BY <4>2, <4>3
    <3> QED BY <3>1, <3>2
  <2>8. ASSUME MaxTurns > 0, RepeatsAreIdle, CountedByNamers PROVE CountedByNamers'
    <3> SUFFICES ASSUME NEW p \in Pos, p # start
                 PROVE  turns'[p] + Times(stack', p) <= Cardinality(Namers(p)')
      BY <2>1 DEF CountedByNamers, Times
    <3>1. IsFiniteSet(Namers(p)) /\ Cardinality(Namers(p)) \in Nat BY <2>1, NamersFinite
    <3>2. Namers(p)' = IF p \in graph[Top] THEN Namers(p) \cup {Top} ELSE Namers(p)
      BY <2>1, <2>2, <2>4, <2>5, <2>8 DEF Namers
    <3>3. Cardinality(Namers(p) \cup {Top}) =
            IF Top \in Namers(p) THEN Cardinality(Namers(p)) ELSE Cardinality(Namers(p)) + 1
      BY <3>1, FS_AddElement
    <3>4. Cardinality(Namers(p)') \in Nat /\ Cardinality(Namers(p)') >= Cardinality(Namers(p))
      BY <3>1, <3>2, <3>3
    <3>5. /\ Times(stack, p) \in Nat /\ Times(stack', p) \in Nat
          /\ p # Top /\ (\A i \in 1 .. Len(order) : order[i] # p) => Times(stack', p) = Times(stack, p)
          /\ p # Top => Times(stack', p) <= Times(stack, p) + 1
          /\ p = Top /\ (\A i \in 1 .. Len(order) : order[i] # p) => Times(stack', p) = Times(stack, p) - 1
      BY <2>1, <2>3, TimesAfterTurn
    <3>6. turns[p] + Times(stack, p) <= Cardinality(Namers(p)) BY <2>8 DEF CountedByNamers
    <3>7. turns[p] \in Nat /\ turns'[p] \in Nat
      BY <2>4, <2>5
    <3>8. CASE p = Top
      <4>1. \A i \in 1 .. Len(order) : order[i] # p BY <2>3, <3>8
      <4>2. turns'[p] <= turns[p] + 1 BY <2>5, <3>8
      <4> QED BY <3>1, <3>4, <3>5, <3>6, <3>7, <3>8, <4>1, <4>2, SMTT(60)
    <3>9. CASE p # Top /\ \A i \in 1 .. Len(order) : order[i] # p
      <4>1. turns'[p] = turns[p] BY <2>5, <3>9
      <4> QED BY <3>1, <3>4, <3>5, <3>6, <3>7, <3>9, <4>1
    <3>10. ASSUME p # Top, NEW k \in 1 .. Len(order), order[k] = p
           PROVE  turns'[p] + Times(stack', p) <= Cardinality(Namers(p)')
      <4>1. turns'[p] = turns[p] BY <2>5, <3>10
      <4>2. p \in graph[Top] /\ p \in valid BY <2>3, <3>10
      <4>3. ~ (turns[Top] > 0)
        <5> SUFFICES ASSUME turns[Top] > 0 PROVE FALSE OBVIOUS
        <5>1. 1 \in DOMAIN stack /\ stack[1] = Top BY <2>4, <2>6 DEF Top
        <5>2. PICK j \in DOMAIN stack : j < 1 /\ stack[j] = p
          BY <2>4, <2>8, <4>2, <5>1 DEF RepeatsAreIdle
        <5> QED BY <2>6, <5>2
      <4>4. Cardinality(Namers(p)') = Cardinality(Namers(p)) + 1
        BY <3>2, <3>3, <4>2, <4>3 DEF Namers
      <4> QED BY <3>1, <3>5, <3>6, <3>7, <3>10, <4>1, <4>4
    <3> QED BY <3>8, <3>9, <3>10
  <2>9. StartComesFirst'
    <3>1. \A i \in 1 .. Len(order) : order[i] # start
      BY <2>1, <2>3, <2>4, NoWayBack, ZenonT(60)
    <3>2. \A i \in 2 .. Len(stack) : stack[i] # start
      <4>1. CASE stack = <<start>> BY <4>1
      <4>2. CASE ~ OnStack(start) BY <4>2, <2>6 DEF OnStack
      <4> QED BY <4>1, <4>2 DEF EdgeInv, StartComesFirst
    <3>3. ASSUME NEW i \in DOMAIN stack' PROVE stack'[i] # start
      <4>1. CASE i <= Len(order) BY <4>1, <2>6, <3>1
      <4>2. CASE i > Len(order)
        <5> DEFINE k == i - Len(order) + 1
        <5>1. k \in 2 .. Len(stack) /\ i = Len(order) + k - 1 BY <2>4, <2>6, <4>2
        <5> QED BY <2>6, <3>2, <5>1
      <4> QED BY <2>6, <4>1, <4>2
    <3>4. turns'[start] <= 1
      <4>1. CASE stack = <<start>> /\ turns[start] = 0
        <5>1. Top = start BY <4>1 DEF Top
        <5> QED BY <2>5, <4>1, <5>1
      <4>2. CASE ~ OnStack(start) /\ turns[start] <= 1
        <5>1. Top # start
          <6>1. 1 \in DOMAIN stack BY <2>4, <2>6
          <6> QED BY <4>2, <6>1 DEF OnStack, Top
        <5> QED BY <2>4, <2>5, <4>2, <5>1
      <4> QED BY <4>1, <4>2 DEF EdgeInv, StartComesFirst
    <3> QED BY <2>1, <3>3, <3>4 DEF StartComesFirst, OnStack
  <2> QED BY <2>1, <2>7, <2>8, <2>9 DEF EdgeInv
<1>2. CASE UNCHANGED vars
  <2>1. /\ graph' = graph /\ start' = start /\ valid0' = valid0 /\ valid' = valid
        /\ stack' = stack /\ turns' = turns
    BY <1>2 DEF vars
  <2>2. RepeatsAreIdle => RepeatsAreIdle' BY <2>1 DEF RepeatsAreIdle
  <2>3. CountedByNamers => CountedByNamers' BY <2>1 DEF CountedByNamers, Namers, Reached
  <2>4. StartComesFirst' BY <2>1 DEF EdgeInv, StartComesFirst, OnStack
  <2> QED BY <2>1, <2>2, <2>3, <2>4 DEF EdgeInv
<1> QED BY <1>1, <1>2 DEF Next

\* EdgeInv is inductive together with the types: a cell that comes up again finds
\* no valid dependent, and each cell that names another puts it on the stack once.
THEOREM EdgeInvariance == Spec => []EdgeInv
<1> QED BY EdgeInvInit, EdgeInvNext, TypeCorrect, PTL DEF Spec

\* The loop, which keeps no set of the cells it has seen, takes one turn for
\* each edge at most, not one for each path.
THEOREM WalkIsLinear == Spec => []OneTurnPerEdge
<1>1. ASSUME EdgeInv, NEW p \in Pos
      PROVE  turns[p] <= IF p = start THEN 1 ELSE Cardinality({q \in Reached : p \in graph[q]})
  <2> DEFINE N == {q \in Reached : p \in graph[q]}
  <2>1. TypeOK /\ turns[p] \in 0 .. MaxTurns BY <1>1 DEF EdgeInv, TypeOK
  <2>2. N \in SUBSET Pos BY ReachPos DEF Reached
  <2>3. IsFiniteSet(N) /\ Cardinality(N) \in Nat
    BY <2>2, PosAssumption, FS_Subset, FS_CardinalityType
  <2>4. Namers(p) \in SUBSET N BY DEF Namers
  <2>5. Cardinality(Namers(p)) <= Cardinality(N) /\ Cardinality(Namers(p)) \in Nat
    BY <2>1, <2>3, <2>4, FS_Subset, NamersFinite
  <2>6. CASE p = start
    BY <1>1, <2>1, <2>6 DEF EdgeInv, StartComesFirst
  <2>7. CASE p # start /\ MaxTurns > 0
    <3>1. turns[p] + Times(stack, p) <= Cardinality(Namers(p))
      BY <1>1, <2>7 DEF EdgeInv, CountedByNamers
    <3>2. Times(stack, p) \in Nat BY <2>1, TimesType DEF TypeOK
    <3> QED BY <2>1, <2>3, <2>5, <2>7, <3>1, <3>2
  <2>8. CASE p # start /\ ~ (MaxTurns > 0) BY <2>1, <2>3, <2>8, MaxTurnsAssumption
  <2> QED BY <2>6, <2>7, <2>8
<1>2. EdgeInv => OneTurnPerEdge BY <1>1 DEF OneTurnPerEdge
<1> QED BY <1>2, EdgeInvariance, PTL
=============================================================================
