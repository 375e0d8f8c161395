------------------------- MODULE CycleSearchProofs -------------------------
(* Proofs about CycleSearch, for every graph over any finite set of         *)
(* positions and every order in which edges are followed.                   *)
(*                                                                          *)
(* The gray cells are a path because of what lies on the stack above each:  *)
(* only cells it names, down to the next gray one (AboveIsNamed).  A cell   *)
(* may turn black because what it names is black or lies above it           *)
(* (NamedIsAhead), and nothing lies above the top.                          *)

EXTENDS CycleSearch, SequenceFacts

OnStack(p) == \E i \in DOMAIN stack : stack[i] = p
Gray == {p \in Pos : OnPath(color, p)}
Black == {p \in Pos : color[p] = "black"}

\* The search has reached its start, or is about to.
StartMet == color[start] # "white" \/ OnStack(start)

GrayOnStack == Running => \A p \in Gray : OnStack(p)

\* From a gray cell up to the next gray one, the stack holds what it names.
AboveIsNamed ==
  Running => \A p \in Gray, i \in DOMAIN stack :
    i < FirstAt(p) /\ (\A r \in Gray : FirstAt(r) < FirstAt(p) => FirstAt(r) <= i)
      => stack[i] \in graph[p]

\* What a gray cell names is black, or comes up before it does.
NamedIsAhead ==
  Running => \A p \in Gray : \A d \in graph[p] :
    d \in Black \/ \E i \in DOMAIN stack : i < FirstAt(p) /\ stack[i] = d

IInv == TypeOK /\ StartMet /\ GrayOnStack /\ AboveIsNamed /\ NamedIsAhead /\ BlackIsDone /\ AnswerExact

-----------------------------------------------------------------------------
(* What a search visits.                                                    *)

\* A search visits its start.
LEMMA ReachStart == ASSUME NEW g, NEW p \in Pos PROVE p \in Reach(g, p)
BY DEF Reach

\* A search visits positions only.
LEMMA ReachPos == ASSUME NEW g, NEW p PROVE Reach(g, p) \subseteq Pos
BY DEF Reach

\* A search that visits a position visits all it has edges to.
LEMMA ReachClosed ==
  ASSUME NEW g \in Graph, NEW p PROVE Closed(g, Reach(g, p))
BY DEF Reach, Closed, Graph

\* A search stays inside every closed set it starts in.
LEMMA ReachLeast ==
  ASSUME NEW g, NEW p, NEW S \in SUBSET Pos, p \in S, Closed(g, S)
  PROVE  Reach(g, p) \subseteq S
BY DEF Reach

-----------------------------------------------------------------------------

\* Every step but the last keeps to the cells that are reached.
LEMMA TypeInit == Init => TypeOK
<1> SUFFICES ASSUME Init PROVE TypeOK OBVIOUS
<1>1. start \in Pos BY StartsAssumption DEF Init
<1>2. start \in Reach(graph, start) BY <1>1, ReachStart
<1>3. stack \in Seq(Reach(graph, start)) BY <1>2 DEF Init
<1> QED BY <1>3 DEF Init, TypeOK

\* What the search knows of its top.
LEMMA TopFacts ==
  ASSUME TypeOK, stack # <<>>
  PROVE  /\ Top \in Reach(graph, start) /\ Top \in Pos
         /\ Named(Top) \subseteq Reach(graph, start) /\ IsFiniteSet(Named(Top))
         /\ \A p \in Reach(graph, start) : graph[p] \subseteq Reach(graph, start)
         /\ stack \in Seq(Pos) /\ graph \in Graph /\ Len(stack) \in Nat \ {0}
<1>1. graph \in Graph /\ stack \in Seq(Reach(graph, start)) BY DEF TypeOK
<1>2. Reach(graph, start) \subseteq Pos BY ReachPos
<1>3. Closed(graph, Reach(graph, start)) BY <1>1, ReachClosed
<1>4. Top \in Reach(graph, start) BY <1>1, TailElements DEF Top
<1>5. Named(Top) \subseteq Reach(graph, start) BY <1>3, <1>4 DEF Named, Closed
<1>6. IsFiniteSet(Named(Top)) BY <1>2, <1>5, PosAssumption, FS_Subset
<1>7. stack \in Seq(Pos) BY <1>1, <1>2, SeqMonotonic
<1> QED BY <1>1, <1>2, <1>3, <1>4, <1>5, <1>6, <1>7, TailElements DEF Closed

\* To enter a cell puts an order of the cells it names on top of the stack.
LEMMA Entered ==
  ASSUME TypeOK, stack # <<>>, NEW order \in SetToSeqs(Named(Top))
  PROVE  /\ Above(order, Top) \o Popped(stack) = order \o stack
         /\ order \in Seq(Reach(graph, start)) /\ order \in Seq(Pos)
         /\ \A i \in 1 .. Len(order) : order[i] \in Named(Top)
         /\ \A d \in Named(Top) : \E i \in 1 .. Len(order) : order[i] = d
<1>1. order \in Seq(Named(Top)) /\ \A d \in Named(Top) : \E i \in 1 .. Len(order) : order[i] = d
  BY TopFacts, OrderOfSet
<1>2. Named(Top) \subseteq Reach(graph, start) /\ Reach(graph, start) \subseteq Pos
  BY TopFacts, ReachPos
<1>3. order \in Seq(Reach(graph, start)) /\ order \in Seq(Pos)
  BY <1>1, <1>2, SeqMonotonic
<1>4. (order \o <<stack[1]>>) \o Tail(stack) = order \o stack
  BY <1>3, PushedOnto, TopFacts
<1>5. Above(order, Top) \o Popped(stack) = order \o stack BY <1>4 DEF Above, Popped, Top
<1>6. \A i \in 1 .. Len(order) : order[i] \in Named(Top)
  <2> HIDE DEF Named
  <2> QED BY <1>1, ElementsOfSeq
<1> QED BY <1>1, <1>3, <1>5, <1>6

\* The search stays among the cells that its start reaches.
LEMMA TypeNext == TypeOK /\ [Next]_vars => TypeOK'
<1> SUFFICES ASSUME TypeOK, [Next]_vars PROVE TypeOK' OBVIOUS
<1>1. CASE Enter
  <2>1. stack # <<>> /\ graph' = graph /\ start' = start BY <1>1 DEF Enter
  <2>2. color' \in [Pos -> {"white", "gray", "black"}] BY <1>1 DEF Enter, TypeOK
  <2>3. CASE stack' = stack BY <1>1, <2>1, <2>2, <2>3 DEF Enter, TypeOK
  <2>4. ASSUME NEW order \in SetToSeqs(Named(Top)),
               stack' = Above(order, Top) \o Popped(stack)
        PROVE  stack' \in Seq(Reach(graph, start))
    <3>1. stack' = order \o stack /\ order \in Seq(Reach(graph, start))
      BY <2>1, <2>4, Entered
    <3>2. stack \in Seq(Reach(graph, start)) BY DEF TypeOK
    <3> QED BY <3>1, <3>2, ConcatElements
  <2> QED BY <1>1, <2>1, <2>2, <2>3, <2>4 DEF Enter, TypeOK
<1>2. CASE Leave
  BY <1>2, TailElements DEF Leave, TypeOK, Popped
<1>3. CASE Skip
  BY <1>3, TailElements DEF Skip, TypeOK, Popped
<1>4. CASE Return BY <1>4 DEF Return, TypeOK
<1>5. CASE UNCHANGED vars BY <1>5 DEF vars, TypeOK
<1> QED BY <1>1, <1>2, <1>3, <1>4, <1>5 DEF Next

\* What is not gray before the top turns gray, and what the top names if it has
\* no edge back to the path.
LEMMA NoEdgeBack ==
  ASSUME TypeOK, Enter, ~ \E w \in Named(Top) : OnPath(color', w)
  PROVE  \A p \in Gray' : /\ p = Top \/ p \in Gray
                          /\ p \notin Named(Top)
BY TopFacts DEF Enter, TypeOK, Gray, OnPath

\* Where the gray cells are after a turn that does not return.
LEMMA FirstAfterEnter ==
  ASSUME TypeOK, GrayOnStack, Running, stack # <<>>, Top \notin Gray,
         NEW order \in SetToSeqs(Named(Top)), stack' = order \o stack,
         Gray' = Gray \cup {Top}, \A p \in Gray' : p \notin Named(Top)
  PROVE  /\ \A p \in Gray' : OnStack(p)' /\ FirstAt(p)' = Len(order) + FirstAt(p)
         /\ FirstAt(Top) = 1
         /\ \A p \in Gray : FirstAt(p) \in 2 .. Len(stack)
         /\ Len(order) \in Nat /\ Len(stack') = Len(order) + Len(stack)
         /\ DOMAIN stack' = 1 .. Len(stack') /\ DOMAIN stack = 1 .. Len(stack)
<1>1. order \in Seq(Pos) /\ stack \in Seq(Pos) /\ \A i \in 1 .. Len(order) : order[i] \in Named(Top)
  BY Entered, TopFacts
<1>2. \A p \in Gray' : OnStack(p)
  BY TopFacts DEF OnStack, GrayOnStack, Top
<1>3. ASSUME NEW p \in Gray' PROVE OnStack(p)' /\ FirstAt(p)' = Len(order) + FirstAt(p)
  <2>1. \A j \in 1 .. Len(order) : order[j] # p BY <1>1
  <2>2. FirstIn(order \o stack, p) = Len(order) + FirstIn(stack, p)
    BY <1>1, <1>2, <2>1, FirstPushed, ZenonT(60) DEF OnStack
  <2>3. OnStack(p)'
    <3>1. PICK i \in DOMAIN stack : stack[i] = p BY <1>2 DEF OnStack
    <3>2. Len(order) + i \in DOMAIN stack' /\ stack'[Len(order) + i] = p
      BY <1>1, <3>1, ConcatElements
    <3> QED BY <3>2 DEF OnStack
  <2> QED BY <2>2, <2>3 DEF FirstIn, FirstAt
<1>4. FirstAt(Top) = 1
  <2>1. 1 \in 1 .. Len(stack) BY TopFacts
  <2> QED BY <1>1, <2>1, FirstUnique DEF Top, FirstIn, FirstAt
<1>5. ASSUME NEW p \in Gray PROVE FirstAt(p) \in 2 .. Len(stack)
  <2>1. FirstIn(stack, p) \in 1 .. Len(stack) /\ stack[FirstIn(stack, p)] = p
    BY <1>1, <1>2, FirstExists DEF OnStack
  <2>2. FirstIn(stack, p) # 1 BY <2>1 DEF Top
  <2> QED BY <2>1, <2>2 DEF FirstIn, FirstAt
<1> QED BY <1>1, <1>3, <1>4, <1>5, ConcatElements

\* Where a cell is on the stack after its top is gone.
LEMMA FirstAfterPop ==
  ASSUME TypeOK, GrayOnStack, Running, stack # <<>>, stack' = Tail(stack),
         Gray' = Gray \ {Top}
  PROVE  /\ \A p \in Gray' : OnStack(p)' /\ FirstAt(p)' = FirstAt(p) - 1
         /\ \A p \in Gray' : FirstAt(p) \in 2 .. Len(stack)
         /\ Len(stack') = Len(stack) - 1 /\ Len(stack) \in Nat \ {0}
         /\ DOMAIN stack' = 1 .. Len(stack') /\ DOMAIN stack = 1 .. Len(stack)
         /\ \A i \in DOMAIN stack' : stack'[i] = stack[i + 1]
         /\ Top \in Gray => FirstAt(Top) = 1
<1>1. stack \in Seq(Pos) BY TopFacts
<1>2. ASSUME NEW p \in Gray'
      PROVE  /\ OnStack(p)' /\ FirstAt(p)' = FirstAt(p) - 1
             /\ FirstAt(p) \in 2 .. Len(stack)
  <2>1. OnStack(p) /\ p # stack[1] BY <1>2 DEF GrayOnStack, Top
  <2>2. /\ \E i \in DOMAIN Tail(stack) : Tail(stack)[i] = p
        /\ FirstIn(stack, p) > 1 /\ FirstIn(Tail(stack), p) = FirstIn(stack, p) - 1
    BY <1>1, <2>1, FirstPopped DEF OnStack
  <2>3. FirstIn(stack, p) \in 1 .. Len(stack) BY <1>1, <2>1, FirstExists DEF OnStack
  <2>4. FirstAt(p) = FirstIn(stack, p) /\ FirstAt(p)' = FirstIn(Tail(stack), p)
    BY DEF FirstIn, FirstAt
  <2>5. OnStack(p)' BY <2>2 DEF OnStack
  <2> QED BY <1>1, <2>2, <2>3, <2>4, <2>5
<1>3. FirstAt(Top) = 1
  <2>1. 1 \in 1 .. Len(stack) BY TopFacts
  <2> QED BY <1>1, <2>1, FirstUnique DEF Top, FirstIn, FirstAt
<1> QED BY <1>1, <1>2, <1>3, TailElements

-----------------------------------------------------------------------------
(* Each action keeps the invariant.                                         *)

\* A cell is entered and the search goes on.
LEMMA EnterKeeps ==
  ASSUME IInv, Enter, UNCHANGED result
  PROVE  StartMet' /\ GrayOnStack' /\ AboveIsNamed' /\ NamedIsAhead' /\ BlackIsDone' /\ AnswerExact'
<1>1. /\ Running /\ Running' /\ stack # <<>> /\ TypeOK /\ Top \notin Gray
      /\ graph' = graph /\ start' = start
      /\ ~ \E w \in Named(Top) : OnPath(color', w)
  BY DEF Enter, IInv, Gray, OnPath, Running
<1>2. PICK order \in SetToSeqs(Named(Top)) : stack' = order \o stack
  BY <1>1, Entered DEF Enter, Running
<1>3. Gray' = Gray \cup {Top} /\ Black' = Black /\ \A p \in Gray' : p \notin Named(Top)
  <2>1. Top \in Pos BY <1>1, TopFacts
  <2> QED BY <1>1, <2>1, NoEdgeBack DEF Enter, TypeOK, Gray, Black, OnPath
<1>4. /\ order \in Seq(Pos) /\ stack \in Seq(Pos)
      /\ \A i \in 1 .. Len(order) : order[i] \in Named(Top)
      /\ \A d \in Named(Top) : \E i \in 1 .. Len(order) : order[i] = d
  BY <1>1, Entered, TopFacts
<1>5. /\ \A p \in Gray' : OnStack(p)' /\ FirstAt(p)' = Len(order) + FirstAt(p)
      /\ FirstAt(Top) = 1
      /\ \A p \in Gray : FirstAt(p) \in 2 .. Len(stack)
      /\ Len(order) \in Nat /\ Len(stack') = Len(order) + Len(stack)
      /\ DOMAIN stack' = 1 .. Len(stack') /\ DOMAIN stack = 1 .. Len(stack)
  BY <1>1, <1>2, <1>3, FirstAfterEnter DEF IInv
<1>6. /\ \A i \in 1 .. Len(order) : stack'[i] = order[i]
      /\ \A i \in DOMAIN stack : stack'[Len(order) + i] = stack[i]
  BY <1>2, <1>4, ConcatElements
<1>7. StartMet'
  <2>1. CASE color[start] # "white"
    <3>1. start \in Pos /\ color \in [Pos -> {"white", "gray", "black"}]
      BY StartsAssumption, <1>1 DEF TypeOK
    <3>2. color'[start] # "white" BY <2>1, <3>1 DEF Enter
    <3> QED BY <1>1, <3>2 DEF StartMet
  <2>2. CASE OnStack(start)
    <3>1. PICK i \in DOMAIN stack : stack[i] = start BY <2>2 DEF OnStack
    <3>2. Len(order) + i \in DOMAIN stack' BY <1>5
    <3> QED BY <1>1, <1>6, <3>1, <3>2 DEF StartMet, OnStack
  <2> QED BY <2>1, <2>2 DEF IInv, StartMet
<1>8. GrayOnStack' BY <1>5 DEF GrayOnStack
<1>9. AboveIsNamed'
  <2> SUFFICES ASSUME NEW p \in Gray', NEW i \in DOMAIN stack', i < FirstAt(p)',
                      \A r \in Gray' : FirstAt(r)' < FirstAt(p)' => FirstAt(r)' <= i
               PROVE  stack'[i] \in graph[p]
    BY <1>1 DEF AboveIsNamed
  <2>1. CASE p = Top
    <3>1. i \in 1 .. Len(order) BY <2>1, <1>5, <1>3
    <3> QED BY <2>1, <3>1, <1>4, <1>6 DEF Named
  <2>2. CASE p # Top
    <3>1. p \in Gray /\ Top \in Gray' BY <2>2, <1>3
    <3>2. Len(order) + 1 <= i BY <3>1, <1>5
    <3> DEFINE k == i - Len(order)
    <3>3. k \in DOMAIN stack /\ i = Len(order) + k BY <3>2, <1>5
    <3>4. k < FirstAt(p) /\ \A r \in Gray : FirstAt(r) < FirstAt(p) => FirstAt(r) <= k
      BY <3>1, <1>3, <1>5
    <3>5. stack[k] \in graph[p] BY <3>1, <3>3, <3>4, <1>1 DEF IInv, AboveIsNamed
    <3> QED BY <3>3, <3>5, <1>6
  <2> QED BY <2>1, <2>2
<1>10. NamedIsAhead'
  <2> SUFFICES ASSUME NEW p \in Gray', NEW d \in graph[p], d \notin Black
               PROVE  \E i \in DOMAIN stack' : i < FirstAt(p)' /\ stack'[i] = d
    BY <1>1, <1>3 DEF NamedIsAhead
  <2>1. CASE p = Top
    <3>1. PICK i \in 1 .. Len(order) : order[i] = d BY <2>1, <1>4 DEF Named
    <3> QED BY <2>1, <3>1, <1>3, <1>5, <1>6, TopFacts
  <2>2. CASE p # Top
    <3>1. p \in Gray BY <2>2, <1>3
    <3>2. PICK i \in DOMAIN stack : i < FirstAt(p) /\ stack[i] = d
      BY <3>1, <1>1 DEF IInv, NamedIsAhead
    <3>3. Len(order) + i \in DOMAIN stack' /\ Len(order) + i < FirstAt(p)'
      BY <3>1, <3>2, <1>3, <1>5
    <3> QED BY <3>2, <3>3, <1>6
  <2> QED BY <2>1, <2>2
<1>11. BlackIsDone' BY <1>1, <1>3 DEF IInv, BlackIsDone, Black, Closed, Trap
<1>12. AnswerExact' BY <1>1 DEF AnswerExact
<1> QED BY <1>7, <1>8, <1>9, <1>10, <1>11, <1>12

\* A gray cell that a named cell leads back to is one of a cycle: those from
\* it up to the top.
LEMMA EdgeBackIsCycle ==
  ASSUME IInv, Running, NEW v \in Pos, NEW w \in Gray \cup {v}, w \in graph[v],
         stack # <<>>, v = Top, v \notin Gray
  PROVE  Circular(graph, start)
<1> DEFINE S == {v} \cup {q \in Gray : w # v /\ FirstAt(q) <= FirstAt(w)}
<1>1. TypeOK BY DEF IInv
<1>2. \A q \in Gray : OnStack(q) /\ FirstAt(q) \in 2 .. Len(stack) /\ stack[FirstAt(q)] = q
  <2> SUFFICES ASSUME NEW q \in Gray
               PROVE  OnStack(q) /\ FirstAt(q) \in 2 .. Len(stack) /\ stack[FirstAt(q)] = q
    OBVIOUS
  <2>1. OnStack(q) BY DEF IInv, GrayOnStack
  <2>2. FirstIn(stack, q) \in 1 .. Len(stack) /\ stack[FirstIn(stack, q)] = q
    BY <1>1, <2>1, FirstExists, TopFacts DEF OnStack
  <2>3. FirstAt(q) = FirstIn(stack, q) BY DEF FirstIn, FirstAt
  <2> QED BY <2>1, <2>2, <2>3 DEF Top
<1>3. S \subseteq Reach(graph, start)
  <2>1. \A i \in 1 .. Len(stack) : stack[i] \in Reach(graph, start)
    BY <1>1, ElementOfSeq DEF TypeOK
  <2>2. v \in Reach(graph, start) BY <1>1, TopFacts
  <2> QED BY <1>2, <2>1, <2>2
<1>4. ASSUME NEW q \in S PROVE graph[q] \cap S # {}
  <2>1. CASE q = v
    <3>1. w \in S BY <1>2
    <3> QED BY <2>1, <3>1
  <2>2. CASE q # v
    <3> DEFINE F == {FirstAt(r) : r \in {g \in Gray : FirstAt(g) < FirstAt(q)}}
    <3>1. q \in Gray /\ FirstAt(q) <= FirstAt(w) /\ w \in Gray BY <2>2
    <3>2. CASE F = {}
      <4>1. stack[1] \in graph[q]
        BY <1>1, <1>2, <3>1, <3>2, TopFacts DEF IInv, AboveIsNamed
      <4> QED BY <4>1 DEF Top
    <3>3. CASE F # {}
      <4>1. F \in SUBSET Nat BY <1>2
      <4>2. FirstAt(q) \in Nat /\ \A m \in F : m <= FirstAt(q) BY <1>2, <3>1
      <4> HIDE DEF F
      <4>3. PICK n \in F : \A m \in F : m <= n BY <3>3, <4>1, <4>2, GreatestNat
      <4>4. PICK r \in Gray : FirstAt(r) < FirstAt(q) /\ n = FirstAt(r) BY <4>3 DEF F
      <4>5. \A g \in Gray : FirstAt(g) < FirstAt(q) => FirstAt(g) <= FirstAt(r)
        BY <4>3, <4>4 DEF F
      <4>6. stack[FirstAt(r)] \in graph[q]
        BY <1>1, <1>2, <3>1, <4>4, <4>5, TopFacts DEF IInv, AboveIsNamed
      <4>7. r \in S BY <1>2, <2>2, <3>1, <4>4
      <4> QED BY <1>2, <4>4, <4>6, <4>7
    <3> QED BY <3>2, <3>3
  <2> QED BY <2>1, <2>2
<1> QED BY <1>3, <1>4 DEF Circular, Trap

\* A cell is entered that has an edge back to the path: the search returns.
LEMMA FoundKeeps ==
  ASSUME IInv, Enter, \E w \in Named(Top) : OnPath(color', w), result' = "cycle"
  PROVE  StartMet' /\ GrayOnStack' /\ AboveIsNamed' /\ NamedIsAhead' /\ BlackIsDone' /\ AnswerExact'
<1>1. /\ stack # <<>> /\ TypeOK /\ Running /\ Top \notin Gray /\ Top \in Pos
      /\ graph' = graph /\ start' = start /\ stack' = stack
      /\ start \in Pos /\ color \in [Pos -> {"white", "gray", "black"}]
  BY TopFacts, StartsAssumption DEF Enter, IInv, Gray, OnPath, TypeOK
<1>2. ~ Running' BY DEF Running
<1>3. StartMet' BY <1>1 DEF IInv, StartMet, OnStack, Enter
<1>4. BlackIsDone'
  <2>1. Black' = Black BY <1>1 DEF Black, Enter
  <2> QED BY <1>1, <2>1 DEF IInv, BlackIsDone, Black, Closed, Trap
<1>5. AnswerExact'
  <2>1. PICK w \in Named(Top) : OnPath(color', w) OBVIOUS
  <2>2. w \in Pos BY <1>1, TopFacts, ReachPos
  <2>3. w \in Gray \cup {Top} BY <1>1, <2>1, <2>2 DEF Enter, Gray, OnPath
  <2>4. Circular(graph, start) BY <1>1, <2>3, EdgeBackIsCycle DEF Named
  <2> QED BY <1>1, <2>4 DEF AnswerExact
<1> QED BY <1>2, <1>3, <1>4, <1>5 DEF GrayOnStack, AboveIsNamed, NamedIsAhead

\* The stack without its top keeps what is said of gray cells, if the top is
\* black then.
LEMMA PopKeeps ==
  ASSUME IInv, Running, stack # <<>>, stack' = Tail(stack), Gray' = Gray \ {Top},
         Black' = Black \cup {Top}, UNCHANGED <<graph, start, result>>
  PROVE  GrayOnStack' /\ AboveIsNamed' /\ NamedIsAhead' /\ (start # Top => (OnStack(start) => OnStack(start)'))
<1>1. /\ \A p \in Gray' : OnStack(p)' /\ FirstAt(p)' = FirstAt(p) - 1
      /\ \A p \in Gray' : FirstAt(p) \in 2 .. Len(stack)
      /\ Len(stack') = Len(stack) - 1 /\ Len(stack) \in Nat \ {0}
      /\ DOMAIN stack' = 1 .. Len(stack') /\ DOMAIN stack = 1 .. Len(stack)
      /\ \A i \in DOMAIN stack' : stack'[i] = stack[i + 1]
      /\ Top \in Gray => FirstAt(Top) = 1
  BY FirstAfterPop DEF IInv
<1>2. GrayOnStack' BY <1>1 DEF GrayOnStack
<1>3. AboveIsNamed'
  <2> SUFFICES ASSUME NEW p \in Gray', NEW i \in DOMAIN stack', i < FirstAt(p)',
                      \A r \in Gray' : FirstAt(r)' < FirstAt(p)' => FirstAt(r)' <= i
               PROVE  stack'[i] \in graph[p]
    BY DEF AboveIsNamed
  <2>1. p \in Gray /\ i + 1 \in DOMAIN stack /\ i + 1 < FirstAt(p) BY <1>1
  <2>2. \A r \in Gray : FirstAt(r) < FirstAt(p) => FirstAt(r) <= i + 1
    <3> SUFFICES ASSUME NEW r \in Gray, FirstAt(r) < FirstAt(p) PROVE FirstAt(r) <= i + 1 OBVIOUS
    <3>1. CASE r = Top BY <3>1, <1>1
    <3>2. CASE r # Top BY <3>2, <1>1
    <3> QED BY <3>1, <3>2
  <2>3. stack[i + 1] \in graph[p] BY <2>1, <2>2 DEF IInv, AboveIsNamed
  <2> QED BY <2>3, <1>1
<1>4. NamedIsAhead'
  <2> SUFFICES ASSUME NEW p \in Gray', NEW d \in graph[p], d \notin Black'
               PROVE  \E i \in DOMAIN stack' : i < FirstAt(p)' /\ stack'[i] = d
    BY DEF NamedIsAhead
  <2>1. d \notin Black /\ d # Top /\ p \in Gray OBVIOUS
  <2>2. PICK i \in DOMAIN stack : i < FirstAt(p) /\ stack[i] = d
    BY <2>1 DEF IInv, NamedIsAhead
  <2>3. i # 1 BY <2>1, <2>2 DEF Top
  <2>4. i - 1 \in DOMAIN stack' /\ i - 1 < FirstAt(p)' /\ stack'[i - 1] = d
    BY <1>1, <2>2, <2>3
  <2> QED BY <2>4
<1>5. ASSUME start # Top, OnStack(start) PROVE OnStack(start)'
  <2>1. PICK i \in DOMAIN stack : stack[i] = start BY <1>5 DEF OnStack
  <2>2. i # 1 BY <1>5, <2>1 DEF Top
  <2>3. i - 1 \in DOMAIN stack' /\ stack'[i - 1] = start BY <1>1, <2>1, <2>2
  <2> QED BY <2>3 DEF OnStack
<1> QED BY <1>2, <1>3, <1>4, <1>5

\* A cell that turns black is done: what it names is black already.
LEMMA LeaveKeeps ==
  ASSUME IInv, Leave
  PROVE  StartMet' /\ GrayOnStack' /\ AboveIsNamed' /\ NamedIsAhead' /\ BlackIsDone' /\ AnswerExact'
<1>1. /\ stack # <<>> /\ TypeOK /\ Running /\ Running' /\ Top \in Gray /\ Top \notin Black
      /\ graph' = graph /\ start' = start /\ stack' = Tail(stack) /\ result' = result
      /\ start \in Pos /\ color \in [Pos -> {"white", "gray", "black"}] /\ Top \in Pos
  BY TopFacts, StartsAssumption DEF Leave, IInv, Gray, Black, OnPath, TypeOK, Popped, Running
<1>2. Gray' = Gray \ {Top} /\ Black' = Black \cup {Top}
  BY <1>1 DEF Leave, Gray, Black, OnPath
<1>3. GrayOnStack' /\ AboveIsNamed' /\ NamedIsAhead' /\ (start # Top => (OnStack(start) => OnStack(start)'))
  BY <1>1, <1>2, PopKeeps
<1>4. StartMet'
  <2>1. CASE start = Top \/ color[start] # "white" BY <2>1, <1>1 DEF Leave, StartMet
  <2>2. CASE start # Top /\ OnStack(start) BY <2>2, <1>1, <1>3 DEF StartMet
  <2> QED BY <2>1, <2>2 DEF IInv, StartMet
<1>5. graph[Top] \subseteq Black
  <2>1. FirstAt(Top) = 1 BY <1>1, <1>2, FirstAfterPop DEF IInv
  <2>2. DOMAIN stack = 1 .. Len(stack) BY <1>1, TopFacts
  <2> QED BY <1>1, <2>1, <2>2 DEF IInv, NamedIsAhead
<1>6. Closed(graph, Black) /\ \A S \in SUBSET Black : ~ Trap(graph, S)
  BY DEF IInv, BlackIsDone, Black
<1>7. Closed(graph, Black') BY <1>2, <1>5, <1>6 DEF Closed
<1>8. ASSUME NEW S \in SUBSET Black', Trap(graph, S) PROVE FALSE
  <2> DEFINE T == S \ {Top}
  <2>1. \A q \in S : graph[q] \subseteq Black BY <1>2, <1>5, <1>6 DEF Closed
  <2>2. \A q \in S : graph[q] \cap T # {} BY <1>1, <1>8, <2>1 DEF Trap
  <2>3. T # {} BY <1>8, <2>2 DEF Trap
  <2>4. Trap(graph, T) /\ T \in SUBSET Black BY <1>2, <2>2, <2>3 DEF Trap
  <2> QED BY <1>6, <2>4
<1>9. BlackIsDone' BY <1>1, <1>7, <1>8 DEF BlackIsDone, Black, Closed, Trap
<1> QED BY <1>1, <1>3, <1>4, <1>9 DEF AnswerExact

\* A black cell that comes up again changes nothing.
LEMMA SkipKeeps ==
  ASSUME IInv, Skip
  PROVE  StartMet' /\ GrayOnStack' /\ AboveIsNamed' /\ NamedIsAhead' /\ BlackIsDone' /\ AnswerExact'
<1>1. /\ stack # <<>> /\ TypeOK /\ Running /\ Running' /\ Top \notin Gray /\ Top \in Black
      /\ graph' = graph /\ start' = start /\ stack' = Tail(stack) /\ result' = result
      /\ color' = color
  BY TopFacts DEF Skip, IInv, Gray, Black, OnPath, Popped, Running
<1>2. Gray' = Gray \ {Top} /\ Black' = Black \cup {Top} /\ Black' = Black
  BY <1>1 DEF Gray, Black, OnPath
<1>3. GrayOnStack' /\ AboveIsNamed' /\ NamedIsAhead' /\ (start # Top => (OnStack(start) => OnStack(start)'))
  BY <1>1, <1>2, PopKeeps
<1>4. StartMet' BY <1>1, <1>3 DEF IInv, StartMet, Black
<1>5. BlackIsDone' BY <1>1 DEF IInv, BlackIsDone, Closed, Trap
<1> QED BY <1>1, <1>3, <1>4, <1>5 DEF AnswerExact

\* With nothing left on the stack all that can be reached is black.
LEMMA ReturnKeeps ==
  ASSUME IInv, Return
  PROVE  StartMet' /\ GrayOnStack' /\ AboveIsNamed' /\ NamedIsAhead' /\ BlackIsDone' /\ AnswerExact'
<1>1. /\ TypeOK /\ Running /\ ~ Running' /\ stack = <<>> /\ result' = "no cycle"
      /\ graph' = graph /\ start' = start /\ stack' = stack /\ color' = color
      /\ start \in Pos /\ color \in [Pos -> {"white", "gray", "black"}]
  BY StartsAssumption DEF Return, IInv, Running, TypeOK
<1>2. \A p : ~ OnStack(p)
  <2>1. stack \in Seq(Pos) /\ Len(stack) = 0 BY <1>1, EmptySeq
  <2>2. DOMAIN stack = {} BY <2>1, LenProperties
  <2> QED BY <2>2 DEF OnStack
<1>3. start \in Black BY <1>1, <1>2 DEF IInv, StartMet, GrayOnStack, Gray, Black, OnPath
<1>4. Closed(graph, Black) /\ \A S \in SUBSET Black : ~ Trap(graph, S)
  BY DEF IInv, BlackIsDone, Black
<1>5. Reach(graph, start) \subseteq Black
  <2>1. Black \in SUBSET Pos BY DEF Black
  <2> QED BY <1>3, <1>4, <2>1, ReachLeast
<1>6. ~ Circular(graph, start) BY <1>4, <1>5 DEF Circular
<1>7. StartMet' /\ BlackIsDone'
  BY <1>1 DEF IInv, StartMet, OnStack, BlackIsDone, Closed, Trap
<1> QED BY <1>1, <1>6, <1>7 DEF AnswerExact, GrayOnStack, AboveIsNamed, NamedIsAhead

-----------------------------------------------------------------------------

\* Before the first turn only the start is on the stack, and nothing is gray.
LEMMA InitInvariant == Init => IInv
<1> SUFFICES ASSUME Init PROVE IInv OBVIOUS
<1>1. TypeOK BY TypeInit
<1>2. Gray = {} /\ Black = {} /\ Running /\ OnStack(start)
  BY DEF Init, Gray, Black, OnPath, Running, OnStack
<1>3. BlackIsDone BY <1>2 DEF BlackIsDone, Black, Closed, Trap
<1> QED
  BY <1>1, <1>2, <1>3
  DEF IInv, StartMet, GrayOnStack, AboveIsNamed, NamedIsAhead, AnswerExact

\* Each kind of turn keeps the invariant.
LEMMA NextInvariant == IInv /\ [Next]_vars => IInv'
<1> SUFFICES ASSUME IInv, [Next]_vars PROVE IInv' OBVIOUS
<1>1. TypeOK' BY TypeNext DEF IInv
<1>2. CASE Enter
  <2>1. CASE result' = result /\ ~ \E w \in Named(Top) : OnPath(color', w)
    BY <1>1, <1>2, <2>1, EnterKeeps DEF IInv
  <2>2. CASE result' = "cycle" /\ \E w \in Named(Top) : OnPath(color', w)
    BY <1>1, <1>2, <2>2, FoundKeeps DEF IInv
  <2> QED BY <1>2, <2>1, <2>2 DEF Enter
<1>3. CASE Leave BY <1>1, <1>3, LeaveKeeps DEF IInv
<1>4. CASE Skip BY <1>1, <1>4, SkipKeeps DEF IInv
<1>5. CASE Return BY <1>1, <1>5, ReturnKeeps DEF IInv
<1>6. CASE UNCHANGED vars
  <2>1. /\ graph' = graph /\ start' = start /\ color' = color /\ stack' = stack
        /\ Gray' = Gray /\ Black' = Black /\ (Running' <=> Running)
        /\ \A p : (OnStack(p)' <=> OnStack(p)) /\ FirstAt(p)' = FirstAt(p)
    BY <1>6 DEF vars, Gray, Black, OnPath, Running, OnStack, FirstAt
  <2>2. StartMet' /\ GrayOnStack' BY <2>1 DEF IInv, StartMet, GrayOnStack
  <2>3. AboveIsNamed' BY <2>1 DEF IInv, AboveIsNamed
  <2>4. NamedIsAhead' BY <2>1 DEF IInv, NamedIsAhead
  <2>5. BlackIsDone' BY <2>1 DEF IInv, BlackIsDone, Closed, Trap
  <2>6. AnswerExact' BY <1>6, <2>1 DEF vars, IInv, AnswerExact
  <2> QED BY <1>1, <2>2, <2>3, <2>4, <2>5, <2>6 DEF IInv
<1> QED BY <1>2, <1>3, <1>4, <1>5, <1>6 DEF Next

\* The strengthening that is inductive.
THEOREM Invariance == Spec => []IInv
<1> QED BY InitInvariant, NextInvariant, PTL DEF Spec

\* GraphIsCircular answers exactly whether a cycle can be reached from the
\* start, for every graph and whatever the order of the hash sets.
THEOREM SearchIsExact == Spec => []AnswerExact
<1>1. IInv => AnswerExact BY DEF IInv
<1> QED BY <1>1, Invariance, PTL

\* The search stays among the cells that can be reached.
THEOREM TypeCorrect == Spec => []TypeOK
<1>1. IInv => TypeOK BY DEF IInv
<1> QED BY <1>1, Invariance, PTL

\* What GraphIsCircular has coloured black needs no second look.
THEOREM BlackStaysDone == Spec => []BlackIsDone
<1>1. IInv => BlackIsDone BY DEF IInv
<1> QED BY <1>1, Invariance, PTL

\* The gray cells are a path at every turn.
THEOREM GrayStaysPath == Spec => []GrayIsPath
<1>1. ASSUME IInv, Running, NEW p \in Pos, OnPath(color, p)
      PROVE  /\ \E i \in DOMAIN stack : stack[i] = p
             /\ LET Later == {q \in Pos : OnPath(color, q) /\ q # p /\ FirstAt(q) < FirstAt(p)}
                IN  Later # {} => \E q \in Later \cap graph[p] :
                                    \A r \in Later : FirstAt(r) <= FirstAt(q)
  <2> DEFINE Later == {q \in Pos : OnPath(color, q) /\ q # p /\ FirstAt(q) < FirstAt(p)}
             F == {FirstAt(q) : q \in Later}
  <2>1. \A q \in Gray : OnStack(q) BY <1>1 DEF IInv, GrayOnStack
  <2>2. stack \in Seq(Pos) BY <1>1, ReachPos, SeqMonotonic DEF IInv, TypeOK
  <2>3. \A q \in Gray : FirstAt(q) \in 1 .. Len(stack) /\ stack[FirstAt(q)] = q
    <3> SUFFICES ASSUME NEW q \in Gray
                 PROVE  FirstAt(q) \in 1 .. Len(stack) /\ stack[FirstAt(q)] = q
      OBVIOUS
    <3>1. FirstIn(stack, q) \in 1 .. Len(stack) /\ stack[FirstIn(stack, q)] = q
      BY <2>1, <2>2, FirstExists DEF OnStack
    <3> QED BY <3>1 DEF FirstIn, FirstAt
  <2>4. p \in Gray /\ Later \subseteq Gray BY <1>1 DEF Gray
  <2>5. ASSUME Later # {}
        PROVE  \E q \in Later \cap graph[p] : \A r \in Later : FirstAt(r) <= FirstAt(q)
    <3>1. F \in SUBSET Nat /\ F # {} BY <2>3, <2>4, <2>5
    <3>2. FirstAt(p) \in Nat /\ \A m \in F : m <= FirstAt(p) BY <2>3, <2>4
    <3> HIDE DEF F
    <3>3. PICK n \in F : \A m \in F : m <= n BY <3>1, <3>2, GreatestNat
    <3>4. PICK q \in Later : n = FirstAt(q) BY <3>3 DEF F
    <3>5. \A r \in Later : FirstAt(r) <= FirstAt(q) BY <3>3, <3>4 DEF F
    <3>6. \A r \in Gray : FirstAt(r) < FirstAt(p) => FirstAt(r) <= FirstAt(q)
      BY <2>3, <2>4, <3>5 DEF Gray
    <3>7. stack[FirstAt(q)] \in graph[p]
      <4>1. FirstAt(q) \in DOMAIN stack /\ FirstAt(q) < FirstAt(p) BY <2>2, <2>3, <2>4
      <4> QED BY <1>1, <2>4, <3>6, <4>1 DEF IInv, AboveIsNamed
    <3> QED BY <2>3, <2>4, <3>4, <3>5, <3>7
  <2> QED BY <2>1, <2>4, <2>5 DEF OnStack
<1>2. IInv => GrayIsPath BY <1>1 DEF GrayIsPath
<1> QED BY <1>2, Invariance, PTL
=============================================================================
