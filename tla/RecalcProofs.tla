---------------------------- MODULE RecalcProofs ----------------------------
(* Proofs about Recalc, for every set of positions, words and formulas.     *)
(*                                                                          *)
(* The five invariants of Recalc are inductive only together.  Stopping the *)
(* invalidation at an invalid cell is right because CacheCoherent says that *)
(* nothing valid lies behind it; CacheCoherent survives a write because     *)
(* GraphsAgree makes the walk find every dependent; GraphsAgree gives       *)
(* NoCycle from a search of reference_graph; and PointersLive is what makes *)
(* every cell that a read evaluates exist.                                  *)

EXTENDS Recalc, TLAPS

-----------------------------------------------------------------------------
(* Facts about CellGraph.                                                   *)

\* A search visits its start.
LEMMA ReachStart == ASSUME NEW g, NEW p \in Pos PROVE p \in Reach(g, p)
BY DEF Reach

\* A search visits positions only.
LEMMA ReachPos == ASSUME NEW g, NEW p PROVE Reach(g, p) \subseteq Pos
BY DEF Reach

\* A search that visits a position visits all it has edges to.
LEMMA ReachClosed ==
  ASSUME NEW g \in Graph, NEW p PROVE Closed(g, Reach(g, p))
BY DEF Reach, Closed, Graph

\* A search stays inside every closed set it starts in.
LEMMA ReachLeast ==
  ASSUME NEW g, NEW p, NEW S \in SUBSET Pos, p \in S, Closed(g, S)
  PROVE  Reach(g, p) \subseteq S
BY DEF Reach

\* With fewer edges a search visits no more.
LEMMA ReachSubgraph ==
  ASSUME NEW g, NEW h \in Graph, NEW p \in Pos,
         \A q \in Pos : g[q] \subseteq h[q]
  PROVE  Reach(g, p) \subseteq Reach(h, p)
<1>1. Closed(g, Reach(h, p)) BY ReachClosed, ReachPos DEF Closed
<1> QED BY <1>1, ReachStart, ReachPos, ReachLeast

\* Taking edges away makes no cycle.
LEMMA AcyclicSubgraph ==
  ASSUME NEW g, NEW h, Acyclic(h), \A q \in Pos : g[q] \subseteq h[q]
  PROVE  Acyclic(g)
BY DEF Acyclic, Trap

\* Giving p new edges in an acyclic graph makes a cycle exactly when a search
\* started at p can meet one: looking from p alone, as GraphIsCircular does, is
\* enough.
THEOREM SearchFromPSuffices ==
  ASSUME NEW g \in Graph, Acyclic(g), NEW p \in Pos, NEW R \in SUBSET Pos
  PROVE  LET h == [g EXCEPT ![p] = R] IN Circular(h, p) <=> ~ Acyclic(h)
<1> DEFINE h == [g EXCEPT ![p] = R]
<1>1. h \in Graph BY DEF Graph
<1>2. \A q \in Pos : q # p => h[q] = g[q] BY DEF Graph
<1> HIDE DEF h
<1>3. ASSUME Circular(h, p) PROVE ~ Acyclic(h)
  BY <1>3, ReachPos DEF Circular, Acyclic
<1>4. ASSUME ~ Acyclic(h) PROVE Circular(h, p)
  <2>1. PICK S \in SUBSET Pos : Trap(h, S) BY <1>4 DEF Acyclic
  <2> DEFINE T == S \cap Reach(h, p)
  <2>2. T # {}
    <3>1. CASE p \in S BY <3>1, ReachStart
    <3>2. CASE p \notin S
      <4>1. Trap(g, S) BY <2>1, <3>2, <1>2 DEF Trap
      <4> QED BY <4>1 DEF Acyclic
    <3> QED BY <3>1, <3>2
  <2>3. \A q \in T : h[q] \cap T # {}
    <3> SUFFICES ASSUME NEW q \in T PROVE h[q] \cap T # {} OBVIOUS
    <3>1. PICK r \in h[q] : r \in S BY <2>1 DEF Trap
    <3>2. r \in Reach(h, p) BY <1>1, ReachClosed DEF Closed
    <3> QED BY <3>1, <3>2
  <2> QED BY <2>2, <2>3 DEF Circular, Trap
<1> QED BY <1>3, <1>4 DEF h
-----------------------------------------------------------------------------
(* Facts about CellValues.                                                  *)

\* The contents there are.
LEMMA ContentKinds ==
  /\ Absent \in Content /\ ~ IsFormula(Absent)
  /\ \A t \in Text : TextCell(t) \in Content /\ ~ IsFormula(TextCell(t))
                       /\ TextCell(t) # Absent
  /\ \A f \in Formula : f \in Content /\ IsFormula(f) /\ f # Absent
  /\ \A c \in Content : IsFormula(c) => c \in Formula
<1>1. ~ IsFormula(Absent) BY DEF Absent, IsFormula
<1>2. \A t : ~ IsFormula(TextCell(t)) BY DEF TextCell, IsFormula
<1>3. \A t : TextCell(t).kind = "text" BY DEF TextCell
<1>4. Absent.kind = "absent" BY DEF Absent
<1>5. \A f \in Formula : f.kind = "formula" BY DEF Formula, Literal, Reference, Operation
<1>6. \A f \in Formula : IsFormula(f) /\ f # Absent BY <1>4, <1>5 DEF IsFormula
<1>7. \A t : TextCell(t) # Absent BY <1>3, <1>4
<1> QED BY <1>1, <1>2, <1>6, <1>7 DEF Content

\* A cell made for a reference holds a text, and names nothing.
LEMMA BlankIsText == Blank \in Content /\ ~ IsFormula(Blank) /\ Blank # Absent
BY ContentKinds DEF Blank, Text

\* Contents name positions only, and only formulas name any.
LEMMA RefsType ==
  ASSUME NEW c \in Content PROVE Refs(c) \subseteq Pos /\ (~ IsFormula(c) => Refs(c) = {})
<1>1. CASE ~ IsFormula(c) BY <1>1 DEF Refs
<1>2. CASE IsFormula(c)
  <2>1. c \in Formula BY <1>2, ContentKinds
  <2>2. CASE c \in Literal BY <2>2, <1>2 DEF Refs, Literal
  <2>3. CASE c \in Reference BY <2>3, <1>2 DEF Refs, Reference
  <2>4. CASE c \in Operation BY <2>4, <1>2 DEF Refs, Operation
  <2> QED BY <1>2, <2>1, <2>2, <2>3, <2>4 DEF Formula
<1> QED BY <1>1, <1>2

\* A text reads as a value.
LEMMA TextValueType == ASSUME NEW t \in Text PROVE TextValue(t) \in Value
BY ValuesAssumption, MaxNumAssumption DEF Text, Value, TextValue, Num

\* Two numbers give a number or #DIV/0!.
LEMMA ApplyType ==
  ASSUME NEW op, NEW a \in Num, NEW b \in Num PROVE Apply(op, a, b) \in Num \cup Errors
<1>1. CASE op = "add" BY <1>1 DEF Apply, Errors
<1>2. CASE op # "add" /\ b = 0 BY <1>2 DEF Apply, Errors
<1>3. CASE op # "add" /\ b # 0
  <2>1. a \div b \in 0 .. a BY <1>3, MaxNumAssumption DEF Num
  <2> QED BY <1>3, <2>1, MaxNumAssumption DEF Apply, Num
<1> QED BY <1>1, <1>2, <1>3

\* An operation never gives a string.
LEMMA CombineType ==
  ASSUME NEW op, NEW l \in Value, NEW r \in Value PROVE Combine(op, l, r) \in Num \cup Errors
BY ApplyType DEF Combine, Value, Errors

\* A formula whose cells have values has one, and it is never a string.
LEMMA FormulaValueType ==
  ASSUME NEW f \in Formula, NEW val, \A r \in Refs(f) : val[r] \in Value
  PROVE  FormulaValue(f, val) \in Value /\ FormulaValue(f, val) \notin Words
<1>1. IsFormula(f) BY ContentKinds
<1>2. TreeValue(f, val) \in Value
  <2>1. CASE f \in Literal BY <2>1, MaxNumAssumption DEF Literal, TreeValue, Value, Num
  <2>2. CASE f \in Reference
    <3>1. f.op = "cell" /\ f.args[1] \in Refs(f) BY <2>2, <1>1 DEF Reference, Refs
    <3> QED BY <3>1 DEF TreeValue
  <2>3. CASE f \in Operation
    <3>1. f.op \notin {"lit", "cell"} /\ f.args[1] \in Refs(f) /\ f.args[2] \in Refs(f)
      BY <2>3, <1>1 DEF Operation, Refs
    <3>2. Combine(f.op, val[f.args[1]], val[f.args[2]]) \in Value
      BY <3>1, CombineType DEF Value
    <3> QED BY <3>1, <3>2 DEF TreeValue
  <2> QED BY <2>1, <2>2, <2>3 DEF Formula
<1> QED BY <1>2, ValuesAssumption DEF FormulaValue, Value, Errors

\* A formula's value depends on nothing but the values of the cells it names.
LEMMA FormulaValueDepends ==
  ASSUME NEW f \in Formula, NEW v, NEW w, \A r \in Refs(f) : v[r] = w[r]
  PROVE  FormulaValue(f, v) = FormulaValue(f, w)
<1>1. IsFormula(f) BY ContentKinds
<1>2. TreeValue(f, v) = TreeValue(f, w)
  <2>1. CASE f \in Literal BY <2>1 DEF Literal, TreeValue
  <2>2. CASE f \in Reference
    <3>1. f.op = "cell" /\ f.args[1] \in Refs(f) BY <2>2, <1>1 DEF Reference, Refs
    <3> QED BY <3>1 DEF TreeValue
  <2>3. CASE f \in Operation
    <3>1. f.op \notin {"lit", "cell"} /\ f.args[1] \in Refs(f) /\ f.args[2] \in Refs(f)
      BY <2>3, <1>1 DEF Operation, Refs
    <3> QED BY <3>1 DEF TreeValue
  <2> QED BY <2>1, <2>2, <2>3 DEF Formula
<1> QED BY <1>2 DEF FormulaValue

\* The same two facts about any cell.
LEMMA CellValueType ==
  ASSUME NEW c \in Content, NEW val, \A r \in Refs(c) : val[r] \in Value
  PROVE  CellValue(c, val) \in Value /\ (IsFormula(c) => CellValue(c, val) \notin Words)
<1>1. CASE IsFormula(c) BY <1>1, ContentKinds, FormulaValueType DEF CellValue
<1>2. CASE c = Absent
  BY <1>2, ContentKinds, MaxNumAssumption DEF CellValue, Value, Num
<1>3. CASE ~ IsFormula(c) /\ c # Absent
  <2>1. PICK t \in Text : c = TextCell(t) BY <1>3, ContentKinds DEF Content
  <2>2. c.text = t BY <2>1 DEF TextCell
  <2> QED BY <1>3, <2>2, TextValueType DEF CellValue
<1> QED BY <1>1, <1>2, <1>3

\* The value of a cell depends on the values of the cells it names only.
LEMMA CellValueDepends ==
  ASSUME NEW c \in Content, NEW v, NEW w, \A r \in Refs(c) : v[r] = w[r]
  PROVE  CellValue(c, v) = CellValue(c, w)
BY ContentKinds, FormulaValueDepends DEF CellValue

-----------------------------------------------------------------------------
(* The inductive invariant.                                                 *)

IInv == TypeOK /\ GraphsAgree /\ NoCycle /\ PointersLive /\ CacheCoherent

-----------------------------------------------------------------------------
(* What every call can rely on.                                             *)

\* The references of the contents are a graph.
LEMMA ReferencesType ==
  TypeOK => References \in Graph /\ \A q \in Pos : Refs(content[q]) \subseteq Pos
BY RefsType DEF TypeOK, References, Graph

\* A valid cell that names an invalidated one is invalidated.
LEMMA InvalidatedClosed ==
  ASSUME TypeOK, GraphsAgree, NEW p \in Pos
  PROVE  /\ p \in Invalidated(p) /\ Invalidated(p) \subseteq Pos
         /\ \A d \in Pos : \A r \in Refs(content[d]) :
              Valid(d) /\ r \in Invalidated(p) => d \in Invalidated(p)
<1> DEFINE g == [q \in Pos |-> {d \in dependency[q] : Valid(d)}]
<1>1. g \in Graph BY DEF TypeOK, Graph
<1>2. Invalidated(p) = Reach(g, p) BY DEF Invalidated
<1>3. \A d \in Pos : \A r \in Refs(content[d]) : Valid(d) => d \in g[r]
  BY ReferencesType DEF GraphsAgree
<1> HIDE DEF g
<1>4. Closed(g, Reach(g, p)) BY <1>1, ReachClosed
<1> QED BY <1>2, <1>3, <1>4, ReachStart, ReachPos DEF Closed

\* The caches as a write to p finds them when it puts the new contents in place:
\* p has none, no valid cell names p, and the rest are coherent.
WrittenMemo(p) == IF Exists(p) THEN MemoAfterInvalidation(p) ELSE memo

\* Invalidation leaves every valid cache resting on valid caches.
LEMMA WrittenMemoCoherent ==
  ASSUME IInv, NEW p \in Pos
  PROVE  LET m == WrittenMemo(p) IN
         /\ m \in [Pos -> Value \cup {Invalid}]
         /\ m[p] = Invalid
         /\ \A q \in Pos : m[q] # Invalid =>
              /\ m[q] = memo[q] /\ Valid(q) /\ Exists(q) /\ q \notin dangling
              /\ p \notin Refs(content[q])
              /\ \A r \in Refs(content[q]) : m[r] # Invalid
              /\ m[q] = CellValue(content[q], m)
<1> DEFINE m == WrittenMemo(p)
<1>1. m \in [Pos -> Value \cup {Invalid}]
  BY DEF IInv, TypeOK, WrittenMemo, MemoAfterInvalidation
<1>2. m[p] = Invalid
  BY InvalidatedClosed DEF IInv, CacheCoherent, WrittenMemo, MemoAfterInvalidation, Valid
<1>3. ASSUME NEW q \in Pos, m[q] # Invalid
      PROVE  /\ m[q] = memo[q] /\ Valid(q) /\ Exists(q) /\ q \notin dangling
             /\ \A r \in Refs(content[q]) : m[r] # Invalid
             /\ m[q] = CellValue(content[q], m)
  <2>1. m[q] = memo[q] /\ Valid(q) BY <1>3 DEF WrittenMemo, MemoAfterInvalidation, Valid
  <2>2. Exists(q) /\ q \notin dangling BY <2>1 DEF IInv, CacheCoherent
  <2>3. \A r \in Refs(content[q]) : r \in Pos /\ Valid(r)
    BY <2>1, ReferencesType DEF IInv, CacheCoherent
  <2>4. \A r \in Refs(content[q]) : m[r] = memo[r]
    <3>1. CASE Exists(p)
      <4>1. q \notin Invalidated(p) BY <3>1, <1>3 DEF WrittenMemo, MemoAfterInvalidation
      <4>2. \A r \in Refs(content[q]) : r \notin Invalidated(p)
        BY <4>1, <2>1, InvalidatedClosed DEF IInv
      <4> QED BY <3>1, <4>2, <2>3 DEF WrittenMemo, MemoAfterInvalidation
    <3>2. CASE ~ Exists(p) BY <3>2 DEF WrittenMemo
    <3> QED BY <3>1, <3>2
  <2>5. content[q] \in Content BY DEF IInv, TypeOK
  <2>6. memo[q] = CellValue(content[q], memo) BY <2>1 DEF IInv, CacheCoherent
  <2>7. CellValue(content[q], memo) = CellValue(content[q], m)
    BY <2>4, <2>5, CellValueDepends
  <2> QED BY <2>1, <2>2, <2>3, <2>4, <2>6, <2>7 DEF Valid
<1> QED BY <1>1, <1>2, <1>3

-----------------------------------------------------------------------------
(* Each call keeps the invariant.                                           *)

\* The one place where a cell is written.
LEMMA CreateCellKeeps ==
  ASSUME IInv, NEW p \in Pos, NEW c \in Content, c # Absent,
         NEW graph \in {reference, [reference EXCEPT ![p] = @ \cup Refs(c)]},
         NEW cells \in [Pos -> Content],
         \A q \in Pos : cells[q] = content[q] \/ (~ Exists(q) /\ cells[q] = Blank),
         \A r \in Refs(c) : cells[r] # Absent,
         Acyclic([References EXCEPT ![p] = Refs(c)]),
         CreateCell(p, c, graph, cells),
         reply' = Ok
  PROVE  IInv'
<1> USE DEF IInv
<1>1. /\ content' = [cells EXCEPT ![p] = c] /\ content' \in [Pos -> Content]
      /\ content'[p] = c /\ \A q \in Pos : q # p => content'[q] = cells[q]
  BY DEF CreateCell
<1>2. memo' = WrittenMemo(p) BY DEF CreateCell, WrittenMemo
<1>3. dangling' = dangling \ {p} BY DEF CreateCell
<1>4. \A q \in Pos : q # p => Refs(content'[q]) = Refs(content[q])
  BY <1>1, BlankIsText, RefsType, ContentKinds, SMTT(60) DEF Exists
<1>5. References' = [References EXCEPT ![p] = Refs(c)]
  BY <1>1, <1>4 DEF References
<1>6. \A q \in Pos : (Exists(q) \/ cells[q] # Absent) /\ q # p => content'[q] # Absent
  BY <1>1, BlankIsText DEF Exists
<1>7. TypeOK'
  <2>1. memo' \in [Pos -> Value \cup {Invalid}] BY <1>2, WrittenMemoCoherent
  <2>2. reference' \in Graph /\ dependency' \in Graph
    BY RefsType DEF TypeOK, CreateCell, Graph, RemoveDependencies, UpdateReferenceGraph,
       UpdateDependencyGraph
  <2>3. \A q \in Pos : IsFormula(content'[q]) => memo'[q] \notin Words
    <3> SUFFICES ASSUME NEW q \in Pos, IsFormula(content'[q]), memo'[q] # Invalid
                 PROVE  memo'[q] \notin Words
      BY ReplyAssumption DEF Value
    <3>1. q # p /\ Exists(q) /\ memo'[q] = memo[q] BY <1>2, WrittenMemoCoherent
    <3> QED BY <3>1, <1>1 DEF TypeOK
  <2> QED BY <1>1, <1>3, <2>1, <2>2, <2>3 DEF TypeOK
<1>8. GraphsAgree'
  <2>1. reference' = [References EXCEPT ![p] = Refs(c)]
    <3>1. CASE Exists(p)
      BY <3>1, ZenonT(60) DEF CreateCell, UpdateReferenceGraph, GraphsAgree, References
    <3>2. CASE ~ Exists(p)
      <4>1. Refs(content[p]) = {} BY <3>2, ContentKinds, RefsType DEF Exists
      <4>2. reference = References /\ reference \in Graph /\ reference[p] = {}
        BY <4>1 DEF GraphsAgree, References, TypeOK
      <4>3. reference' = [graph EXCEPT ![p] = @ \cup Refs(c)] BY <3>2 DEF CreateCell
      <4>4. CASE graph = reference BY <4>2, <4>3, <4>4, ZenonT(60) DEF Graph
      <4>5. CASE graph = [reference EXCEPT ![p] = @ \cup Refs(c)]
        BY <4>2, <4>3, <4>5, ZenonT(60) DEF Graph
      <4> QED BY <4>4, <4>5
    <3> QED BY <3>1, <3>2
  <2>2. dependency' = [q \in Pos |-> {d \in Pos : q \in Refs(content'[d])}]
    <3>1. dependency' = UpdateDependencyGraph(RemoveDependencies(dependency, p), p, Refs(c))
      <4>1. CASE Exists(p) BY <4>1 DEF CreateCell
      <4>2. CASE ~ Exists(p)
        <5>1. Refs(content[p]) = {} BY <4>2, ContentKinds, RefsType DEF Exists
        <5>2. \A q \in Pos : dependency[q] \ {p} = dependency[q] BY <5>1 DEF GraphsAgree
        <5>3. dependency = RemoveDependencies(dependency, p)
          BY <5>2 DEF RemoveDependencies, GraphsAgree
        <5> QED BY <4>2, <5>3 DEF CreateCell
      <4> QED BY <4>1, <4>2
    <3>2. \A q \in Pos : dependency'[q] = {d \in Pos : q \in Refs(content'[d])}
      BY <3>1, <1>1, <1>4 DEF UpdateDependencyGraph, RemoveDependencies, GraphsAgree
    <3> QED BY <3>1, <3>2 DEF UpdateDependencyGraph
  <2> QED BY <2>1, <2>2, <1>5 DEF GraphsAgree
<1>9. NoCycle' BY <1>5 DEF NoCycle
<1>10. PointersLive'
  <2>1. ASSUME NEW q \in dangling' PROVE IsFormula(content'[q])
    <3>1. q \in Pos /\ q # p /\ IsFormula(content[q]) BY <2>1, <1>3 DEF PointersLive, TypeOK
    <3>2. Exists(q) BY <3>1, ContentKinds DEF Exists
    <3> QED BY <3>1, <3>2, <1>1
  <2>2. ASSUME NEW q \in Pos \ dangling', NEW r \in Refs(content'[q]) PROVE Exists(r)'
    <3>1. r \in Pos BY RefsType, <1>1
    <3>2. CASE r = p BY <3>2, <1>1 DEF Exists
    <3>3. CASE r # p /\ q = p BY <3>1, <3>3, <1>1 DEF Exists
    <3>4. CASE r # p /\ q # p
      <4>1. q \notin dangling /\ r \in Refs(content[q]) BY <3>4, <1>3, <1>4
      <4> QED BY <4>1, <3>1, <3>4, <1>6 DEF PointersLive, Exists
    <3> QED BY <3>2, <3>3, <3>4
  <2> QED BY <2>1, <2>2 DEF PointersLive
<1>11. CacheCoherent'
  <2> SUFFICES ASSUME NEW q \in Pos, memo'[q] # Invalid
               PROVE  /\ content'[q] # Absent /\ q \notin dangling'
                      /\ \A r \in Refs(content'[q]) : memo'[r] # Invalid
                      /\ memo'[q] = CellValue(content'[q], memo')
    BY DEF CacheCoherent, Valid, Exists
  <2>1. q # p /\ Exists(q) BY <1>2, WrittenMemoCoherent
  <2>2. content'[q] = content[q] BY <2>1, <1>1
  <2> QED BY <2>1, <2>2, <1>2, <1>3, WrittenMemoCoherent DEF Exists
<1> QED BY <1>7, <1>8, <1>9, <1>10, <1>11

\* SetCell with a text keeps the invariant.
LEMMA SetTextKeeps ==
  ASSUME IInv, NEW p \in Pos, NEW t \in Texts, SetText(p, t) PROVE IInv'
<1>1. TextCell(t) \in Content /\ TextCell(t) # Absent /\ ~ IsFormula(TextCell(t))
  BY ContentKinds, InputAssumption
<1>2. Refs(TextCell(t)) = {} BY <1>1, RefsType
<1>3. CASE content[p] = TextCell(t)
  <2>1. UNCHANGED <<content, memo, reference, dependency, dangling>> /\ reply' = Ok
    BY <1>3 DEF SetText
  <2> QED
    BY <2>1 DEF IInv, TypeOK, GraphsAgree, References, NoCycle, PointersLive, Exists,
                CacheCoherent, Valid
<1>4. CASE content[p] # TextCell(t)
  <2>1. CreateCell(p, TextCell(t), reference, content) /\ reply' = Ok BY <1>4 DEF SetText
  <2>2. \A q \in Pos : [References EXCEPT ![p] = {}][q] \subseteq References[q]
    BY DEF References
  <2>3. Acyclic([References EXCEPT ![p] = {}])
    BY <2>2, AcyclicSubgraph DEF IInv, NoCycle
  <2>4. content \in [Pos -> Content] BY DEF IInv, TypeOK
  <2> QED BY <1>1, <1>2, <2>1, <2>3, <2>4, CreateCellKeeps
<1> QED BY <1>3, <1>4

\* The search FormulaHasCircularRefs runs decides whether the references stay
\* acyclic.
LEMMA CheckIsExact ==
  ASSUME IInv, NEW p \in Pos, NEW f \in Formula
  PROVE  HasCircularRefs(p, f) <=> ~ Acyclic([References EXCEPT ![p] = Refs(f)])
<1>1. f \in Content /\ Refs(f) \in SUBSET Pos BY ContentKinds, RefsType
<1>2. References \in Graph BY ReferencesType DEF IInv
<1> QED BY <1>1, <1>2, SearchFromPSuffices DEF HasCircularRefs, IInv, GraphsAgree, NoCycle

\* SetCell with a formula, refused or accepted, keeps the invariant.
LEMMA SetFormulaKeeps ==
  ASSUME IInv, NEW p \in Pos, NEW f \in Formulas, NEW asPrinted \in BOOLEAN,
         SetFormula(p, f, asPrinted)
  PROVE  IInv'
<1> USE DEF IInv
<1>1. f \in Formula /\ f \in Content /\ f # Absent /\ Refs(f) \subseteq Pos
  BY InputAssumption, ContentKinds, RefsType
<1>2. CASE HasCircularRefs(p, f)
  <2>1. UNCHANGED <<content, memo, reference, dependency, dangling>> /\ reply' = CircularDependency
    BY <1>2 DEF SetFormula, ReferenceAfterCheck
  <2> QED
    BY <2>1 DEF TypeOK, GraphsAgree, References, NoCycle, PointersLive, Exists,
                CacheCoherent, Valid
<1>3. CASE ~ HasCircularRefs(p, f)
  <2> DEFINE cells == Populated(f)
  <2>1. /\ cells \in [Pos -> Content]
        /\ \A q \in Pos : cells[q] = content[q] \/ (~ Exists(q) /\ cells[q] = Blank)
        /\ \A r \in Refs(f) : cells[r] # Absent
    BY <1>1, BlankIsText DEF Populated, TypeOK, Exists
  <2>2. Acyclic([References EXCEPT ![p] = Refs(f)]) BY <1>1, <1>3, CheckIsExact
  <2>3. ReferenceAfterCheck(p, f) = [reference EXCEPT ![p] = @ \cup Refs(f)]
    BY <1>3 DEF ReferenceAfterCheck
  <2>4. reply' = Ok BY <1>3 DEF SetFormula
  <2> HIDE DEF cells
  <2>5. CASE ~ (content[p] = f /\ asPrinted)
    <3>1. CreateCell(p, f, ReferenceAfterCheck(p, f), cells) BY <1>3, <2>5 DEF SetFormula, cells
    <3> QED BY <3>1, <2>1, <2>2, <2>3, <2>4, <1>1, CreateCellKeeps, ZenonT(60)
  <2>6. CASE content[p] = f /\ asPrinted
    <3>1. content' = cells /\ UNCHANGED <<memo, dependency, dangling>>
      BY <1>3, <2>6 DEF SetFormula, cells
    <3>2. \A q \in Pos : Refs(content'[q]) = Refs(content[q])
      BY <3>1, <2>1, BlankIsText, RefsType, ContentKinds DEF Exists
    <3>3. References' = References BY <3>2 DEF References
    <3>4. reference' = reference
      <4>1. reference \in Graph /\ reference[p] = Refs(f)
        BY <2>6 DEF TypeOK, GraphsAgree, References
      <4>2. reference' = [reference EXCEPT ![p] = @ \cup Refs(f)]
        BY <1>3, <2>3, <2>6 DEF SetFormula
      <4> QED BY <4>1, <4>2 DEF Graph
    <3>5. \A q \in Pos : Exists(q) => content'[q] = content[q] /\ Exists(q)'
      BY <3>1, <2>1 DEF Exists
    <3>6. \A q \in Pos : IsFormula(content'[q]) => content'[q] = content[q]
      BY <3>1, <2>1, BlankIsText
    <3>7. TypeOK' BY <3>1, <3>4, <3>6, <2>1, <2>4 DEF TypeOK
    <3>8. GraphsAgree' BY <3>1, <3>2, <3>3, <3>4 DEF GraphsAgree
    <3>9. NoCycle' BY <3>3 DEF NoCycle
    <3>10. PointersLive'
      <4>1. \A q \in dangling : Exists(q) BY ContentKinds DEF PointersLive, Exists
      <4>2. \A q \in Pos \ dangling : \A r \in Refs(content'[q]) : r \in Pos /\ Exists(r)
        BY <3>2, ReferencesType DEF PointersLive
      <4> QED BY <4>1, <4>2, <3>1, <3>5 DEF PointersLive, TypeOK
    <3>11. CacheCoherent'
      <4> SUFFICES ASSUME NEW q \in Pos, Valid(q)
                   PROVE  /\ content'[q] = content[q] /\ Exists(q)'
                          /\ q \notin dangling
                          /\ \A r \in Refs(content[q]) : Valid(r)
                          /\ memo[q] = CellValue(content[q], memo)
        BY <3>1 DEF CacheCoherent, Valid
      <4> QED BY <3>5 DEF CacheCoherent
    <3> QED BY <3>7, <3>8, <3>9, <3>10, <3>11
  <2> QED BY <2>5, <2>6
<1> QED BY <1>2, <1>3

\* ClearCell keeps the invariant: what it leaves dangling, it also invalidates.
LEMMA ClearCellKeeps == ASSUME IInv, NEW p \in Pos, ClearCell(p) PROVE IInv'
<1> USE DEF IInv
<1>1. CASE ~ Exists(p)
  BY <1>1 DEF ClearCell, TypeOK, GraphsAgree, References, NoCycle, PointersLive, Exists,
              CacheCoherent, Valid
<1>2. CASE Exists(p)
  <2>1. /\ content' = [content EXCEPT ![p] = Absent] /\ content' \in [Pos -> Content]
        /\ \A q \in Pos : q # p => content'[q] = content[q]
        /\ content'[p] = Absent /\ Refs(content'[p]) = {}
    BY <1>2, ContentKinds, RefsType DEF ClearCell, TypeOK
  <2>2. memo' = WrittenMemo(p) BY <1>2 DEF ClearCell, WrittenMemo
  <2>3. dangling' = (dangling \cup {q \in Pos : p \in Refs(content[q])}) \ {p}
    BY <1>2 DEF ClearCell
  <2>4. References' = [References EXCEPT ![p] = {}] BY <2>1 DEF References
  <2>5. TypeOK'
    <3>1. memo' \in [Pos -> Value \cup {Invalid}] BY <2>2, WrittenMemoCoherent
    <3>2. reference' \in Graph /\ dependency' \in Graph
      BY <1>2 DEF TypeOK, ClearCell, Graph, RemoveDependencies, UpdateReferenceGraph
    <3>3. \A q \in Pos : IsFormula(content'[q]) => memo'[q] \notin Words
      <4> SUFFICES ASSUME NEW q \in Pos, IsFormula(content'[q]), memo'[q] # Invalid
                   PROVE  memo'[q] \notin Words
        BY ReplyAssumption DEF Value
      <4>1. q # p /\ memo'[q] = memo[q] BY <2>2, WrittenMemoCoherent
      <4> QED BY <4>1, <2>1 DEF TypeOK
    <3> QED BY <1>2, <2>1, <2>3, <3>1, <3>2, <3>3 DEF TypeOK, ClearCell
  <2>6. GraphsAgree'
    <3>1. reference' = [References EXCEPT ![p] = {}]
      BY <1>2 DEF ClearCell, UpdateReferenceGraph, GraphsAgree
    <3>2. dependency' = [q \in Pos |-> {d \in Pos : q \in Refs(content'[d])}]
      BY <1>2, <2>1 DEF ClearCell, RemoveDependencies, GraphsAgree
    <3> QED BY <3>1, <3>2, <2>4 DEF GraphsAgree
  <2>7. NoCycle'
    <3>1. \A q \in Pos : [References EXCEPT ![p] = {}][q] \subseteq References[q]
      BY DEF References
    <3> QED BY <3>1, <2>4, AcyclicSubgraph DEF NoCycle
  <2>8. PointersLive'
    <3>1. ASSUME NEW q \in dangling' PROVE IsFormula(content'[q])
      <4>1. q \in Pos /\ q # p BY <3>1, <2>3 DEF TypeOK
      <4>2. q \in dangling \/ Refs(content[q]) # {} BY <3>1, <2>3
      <4>3. IsFormula(content[q]) BY <4>1, <4>2, RefsType DEF PointersLive, TypeOK
      <4> QED BY <4>1, <4>3, <2>1
    <3>2. ASSUME NEW q \in Pos \ dangling', NEW r \in Refs(content'[q]) PROVE Exists(r)'
      <4>1. q # p /\ r \in Refs(content[q]) /\ r \in Pos BY <3>2, <2>1, RefsType
      <4>2. q \notin dangling /\ r # p BY <4>1, <3>2, <2>3
      <4> QED BY <4>1, <4>2, <2>1 DEF PointersLive, Exists
    <3> QED BY <3>1, <3>2 DEF PointersLive
  <2>9. CacheCoherent'
    <3> SUFFICES ASSUME NEW q \in Pos, memo'[q] # Invalid
                 PROVE  /\ content'[q] # Absent /\ q \notin dangling'
                        /\ \A r \in Refs(content'[q]) : memo'[r] # Invalid
                        /\ memo'[q] = CellValue(content'[q], memo')
      BY DEF CacheCoherent, Valid, Exists
    <3>1. /\ q # p /\ Exists(q) /\ q \notin dangling /\ p \notin Refs(content[q])
          /\ \A r \in Refs(content[q]) : memo'[r] # Invalid
          /\ memo'[q] = CellValue(content[q], memo')
      BY <2>2, WrittenMemoCoherent
    <3>2. content'[q] = content[q] BY <3>1, <2>1
    <3> QED BY <3>1, <3>2, <2>3 DEF Exists
  <2> QED BY <2>5, <2>6, <2>7, <2>8, <2>9
<1> QED BY <1>1, <1>2

\* The cells that a read of existing cells evaluates, unless it meets a freed
\* one: they exist, have no value yet, and name only each other and valid cells.
AllEvaluated(S) == UNION {Evaluated(p) : p \in S}

\* Where a read's evaluation stays: among invalid cells that exist, and no
\* further than cells whose caches are valid.
LEMMA EvaluatedCells ==
  ASSUME IInv, NEW S \in SUBSET Pos, \A p \in S : Exists(p), ~ ReadsFreed(S)
  PROVE  /\ AllEvaluated(S) \subseteq Pos
         /\ \A p \in S : Valid(p) \/ p \in AllEvaluated(S)
         /\ \A q \in AllEvaluated(S) :
              /\ Exists(q) /\ ~ Valid(q) /\ q \notin dangling
              /\ \A r \in Refs(content[q]) : Valid(r) \/ r \in AllEvaluated(S)
<1> DEFINE g == [q \in Pos |-> {r \in Refs(content[q]) : ~ Valid(r)}]
<1>1. \A q \in Pos : Refs(content[q]) \subseteq Pos BY ReferencesType DEF IInv
<1>2. g \in Graph BY <1>1 DEF Graph
<1>3. \A p \in S : ~ Valid(p) => Evaluated(p) = Reach(g, p) BY DEF Evaluated
<1>4. \A p \in S : Valid(p) => Evaluated(p) = {} BY DEF Evaluated
<1>5. \A q \in Pos : \A r \in Refs(content[q]) : ~ Valid(r) => r \in g[q] OBVIOUS
<1>6. \A q \in Pos : \A r \in g[q] : r \in Pos /\ r \in Refs(content[q]) /\ ~ Valid(r)
  BY <1>1
<1> HIDE DEF g
<1>7. ASSUME NEW p \in S, NEW q \in Evaluated(p)
      PROVE  /\ q \in Pos /\ Exists(q) /\ ~ Valid(q) /\ q \notin dangling
             /\ \A r \in Refs(content[q]) : Valid(r) \/ r \in Evaluated(p)
  <2> DEFINE T == {s \in Reach(g, p) : Exists(s) /\ ~ Valid(s)}
  <2>1. ~ Valid(p) /\ Evaluated(p) = Reach(g, p) BY <1>3, <1>4, <1>7
  <2>2. \A s \in Reach(g, p) : s \notin dangling BY <2>1 DEF ReadsFreed
  <2>3. Closed(g, Reach(g, p)) BY <1>2, ReachClosed
  <2>4. Closed(g, T)
    <3> SUFFICES ASSUME NEW s \in T, NEW r \in g[s] PROVE r \in T BY DEF Closed
    <3>1. r \in Reach(g, p) BY <2>3 DEF Closed
    <3>2. s \in Pos \ dangling BY <2>2, ReachPos
    <3> QED BY <3>1, <3>2, <1>6 DEF IInv, PointersLive
  <2>5. p \in T BY <2>1, ReachStart
  <2>6. T \in SUBSET Pos BY ReachPos
  <2>7. Reach(g, p) \subseteq T BY <2>4, <2>5, <2>6, ReachLeast
  <2>8. q \in T BY <2>1, <2>7
  <2> QED BY <2>1, <2>2, <2>3, <2>6, <2>8, <1>5 DEF Closed
<1>8. \A p \in S : Valid(p) \/ p \in Evaluated(p) BY <1>3, ReachStart
<1> QED BY <1>7, <1>8 DEF AllEvaluated

\* The caches after a read.
LEMMA MemoAfterReadsFacts ==
  ASSUME NEW S \in SUBSET Pos, NEW m \in MemoAfterReads(S), AllEvaluated(S) \subseteq Pos, TypeOK
  PROVE  /\ m \in [Pos -> Value \cup {Invalid}]
         /\ \A q \in AllEvaluated(S) : m[q] \in Value /\ m[q] # Invalid
                                        /\ m[q] = CellValue(content[q], m)
         /\ \A q \in Pos \ AllEvaluated(S) : m[q] = memo[q]
<1> DEFINE E == AllEvaluated(S)
<1>1. PICK v \in [E -> Value] : m = [q \in Pos |-> IF q \in E THEN v[q] ELSE memo[q]]
  BY DEF MemoAfterReads, AllEvaluated
<1>2. \A q \in E : m[q] = CellValue(content[q], m) BY DEF MemoAfterReads, AllEvaluated
<1> QED BY <1>1, <1>2, ReplyAssumption DEF TypeOK

\* A read fills caches and leaves the valid ones as they are.
LEMMA ReadKeepsCaches ==
  ASSUME IInv, NEW S \in SUBSET Pos, \A p \in S : Exists(p), ~ ReadsFreed(S),
         memo' \in MemoAfterReads(S),
         UNCHANGED <<content, reference, dependency, dangling>>
  PROVE  /\ CacheCoherent'
         /\ memo' \in [Pos -> Value \cup {Invalid}]
         /\ \A q \in Pos : IsFormula(content'[q]) => memo'[q] \notin Words
         /\ \A p \in S : memo'[p] \in Value
<1> DEFINE E == AllEvaluated(S)
<1>1. /\ E \subseteq Pos /\ \A p \in S : Valid(p) \/ p \in E
      /\ \A q \in E : /\ Exists(q) /\ ~ Valid(q) /\ q \notin dangling
                      /\ \A r \in Refs(content[q]) : Valid(r) \/ r \in E
  BY EvaluatedCells
<1>2. /\ memo' \in [Pos -> Value \cup {Invalid}]
      /\ \A q \in E : memo'[q] \in Value /\ memo'[q] # Invalid
                      /\ memo'[q] = CellValue(content[q], memo')
      /\ \A q \in Pos \ E : memo'[q] = memo[q]
  BY <1>1, MemoAfterReadsFacts DEF IInv
<1> HIDE DEF E
<1>3. \A q \in Pos : content[q] \in Content /\ Refs(content[q]) \subseteq Pos
  BY ReferencesType DEF IInv, TypeOK
<1>4. \A q \in Pos : Valid(q) => memo'[q] = memo[q] /\ memo'[q] \in Value
  BY <1>1, <1>2 DEF Valid, IInv, TypeOK
<1>5. CacheCoherent'
  <2> SUFFICES ASSUME NEW q \in Pos, memo'[q] # Invalid
               PROVE  /\ content[q] # Absent /\ q \notin dangling
                      /\ \A r \in Refs(content[q]) : memo'[r] # Invalid
                      /\ memo'[q] = CellValue(content[q], memo')
    BY DEF CacheCoherent, Valid, Exists
  <2>1. CASE q \in E BY <2>1, <1>1, <1>2, <1>3, <1>4, ReplyAssumption DEF Exists
  <2>2. CASE q \notin E
    <3>1. Valid(q) BY <2>2, <1>2 DEF Valid
    <3>2. /\ Exists(q) /\ q \notin dangling /\ \A r \in Refs(content[q]) : Valid(r)
          /\ memo[q] = CellValue(content[q], memo)
      BY <3>1 DEF IInv, CacheCoherent
    <3>3. \A r \in Refs(content[q]) : memo'[r] = memo[r] BY <3>2, <1>3, <1>4
    <3>4. CellValue(content[q], memo') = CellValue(content[q], memo)
      BY <3>3, <1>3, CellValueDepends
    <3> QED BY <3>1, <3>2, <3>3, <3>4, <1>4 DEF Valid, Exists
  <2> QED BY <2>1, <2>2
<1>6. ASSUME NEW q \in Pos, IsFormula(content'[q]) PROVE memo'[q] \notin Words
  <2>1. CASE q \in E
    <3>1. \A r \in Refs(content[q]) : memo'[r] \in Value BY <2>1, <1>1, <1>2, <1>3, <1>4
    <3> QED BY <2>1, <3>1, <1>2, <1>3, <1>6, CellValueType
  <2>2. CASE q \notin E BY <2>2, <1>2, <1>6 DEF IInv, TypeOK
  <2> QED BY <2>1, <2>2
<1>7. \A p \in S : memo'[p] \in Value BY <1>1, <1>2, <1>4
<1> QED BY <1>2, <1>5, <1>6, <1>7

\* GetValue keeps the invariant.
LEMMA GetValueKeeps == ASSUME IInv, NEW p \in Pos, GetValue(p) PROVE IInv'
<1> USE DEF IInv
<1>1. UNCHANGED <<content, reference, dependency, dangling>> /\ Exists(p)
  BY DEF GetValue, Read
<1>2. GraphsAgree' /\ NoCycle' /\ PointersLive'
  BY <1>1 DEF GraphsAgree, References, NoCycle, PointersLive, Exists
<1>3. CASE UNCHANGED memo /\ reply' = Undefined
  BY <1>1, <1>2, <1>3 DEF TypeOK, CacheCoherent, Valid, Exists
<1>4. CASE ~ ReadsFreed({p}) /\ memo' \in MemoAfterReads({p}) /\ reply' = memo'[p]
  BY <1>1, <1>2, <1>4, ReadKeepsCaches DEF TypeOK
<1> QED BY <1>3, <1>4 DEF GetValue, Read

\* A formula of the user's own has a value once the cells it names have.
LEMMA StandaloneValueType ==
  ASSUME NEW f \in Formula, NEW m,
         \A r \in Pos : r \in Refs(f) /\ Exists(r) => m[r] \in Value
  PROVE  FormulaValue(f, [q \in Pos |-> IF Exists(q) THEN m[q] ELSE 0]) \in Value
<1> DEFINE w == [q \in Pos |-> IF Exists(q) THEN m[q] ELSE 0]
<1>1. Refs(f) \subseteq Pos BY ContentKinds, RefsType
<1>2. 0 \in Value BY MaxNumAssumption DEF Value, Num
<1>3. \A r \in Refs(f) : w[r] \in Value BY <1>1, <1>2
<1> HIDE DEF w
<1>4. FormulaValue(f, w) \in Value BY <1>3, FormulaValueType
<1> QED BY <1>4 DEF w

\* Evaluating a formula of the user's own keeps the invariant.
LEMMA EvaluateKeeps == ASSUME IInv, NEW f \in Formulas, Evaluate(f) PROVE IInv'
<1> USE DEF IInv
<1> DEFINE S == {r \in Refs(f) : Exists(r)}
<1>1. UNCHANGED <<content, reference, dependency, dangling>> BY DEF Evaluate, Read
<1>2. f \in Formula /\ S \in SUBSET Pos /\ \A r \in S : Exists(r)
  BY InputAssumption, ContentKinds, RefsType
<1>3. GraphsAgree' /\ NoCycle' /\ PointersLive'
  BY <1>1 DEF GraphsAgree, References, NoCycle, PointersLive, Exists
<1>4. CASE UNCHANGED memo /\ reply' = Undefined
  BY <1>1, <1>3, <1>4 DEF TypeOK, CacheCoherent, Valid, Exists
<1>5. CASE /\ ~ ReadsFreed(S) /\ memo' \in MemoAfterReads(S)
           /\ reply' = FormulaValue(f, [q \in Pos |-> IF Exists(q) THEN memo'[q] ELSE 0])
  <2>1. /\ CacheCoherent' /\ memo' \in [Pos -> Value \cup {Invalid}]
        /\ \A q \in Pos : IsFormula(content'[q]) => memo'[q] \notin Words
        /\ \A p \in S : memo'[p] \in Value
    BY <1>1, <1>2, <1>5, ReadKeepsCaches
  <2>2. reply' \in Value BY <1>2, <1>5, <2>1, StandaloneValueType
  <2> QED BY <1>1, <1>3, <2>1, <2>2 DEF TypeOK
<1> QED BY <1>4, <1>5 DEF Evaluate, Read

-----------------------------------------------------------------------------
(* The invariant of the engine.                                             *)

\* The empty sheet satisfies the invariant.
LEMMA InitIInv == Init => IInv
<1> SUFFICES ASSUME Init PROVE IInv OBVIOUS
<1>1. Refs(Absent) = {} /\ Absent \in Content /\ ~ IsFormula(Absent)
  BY ContentKinds, RefsType
<1>2. \A q \in Pos : content[q] = Absent /\ memo[q] = Invalid BY DEF Init
<1>3. TypeOK BY <1>1 DEF Init, TypeOK, Graph
<1>4. References = [q \in Pos |-> {}] BY <1>1, <1>2 DEF References
<1>5. GraphsAgree
  <2>1. \A q \in Pos : {d \in Pos : q \in Refs(content[d])} = {} BY <1>1, <1>2
  <2> QED BY <2>1, <1>4 DEF GraphsAgree, Init
<1>6. NoCycle BY <1>4 DEF NoCycle, Acyclic, Trap
<1>7. PointersLive /\ CacheCoherent
  BY <1>1, <1>2 DEF Init, PointersLive, CacheCoherent, Valid
<1> QED BY <1>3, <1>5, <1>6, <1>7 DEF IInv

\* Every call keeps the invariant.
LEMMA NextIInv == IInv /\ [Next]_vars => IInv'
<1> SUFFICES ASSUME IInv, [Next]_vars PROVE IInv' OBVIOUS
<1>1. ASSUME NEW p \in Pos, NEW t \in Texts, SetText(p, t) PROVE IInv'
  BY <1>1, SetTextKeeps
<1>2. ASSUME NEW p \in Pos, NEW f \in Formulas, NEW asPrinted \in BOOLEAN,
             SetFormula(p, f, asPrinted)
      PROVE  IInv'
  BY <1>2, SetFormulaKeeps
<1>3. ASSUME NEW p \in Pos, ClearCell(p) PROVE IInv' BY <1>3, ClearCellKeeps
<1>4. ASSUME NEW p \in Pos, GetValue(p) PROVE IInv' BY <1>4, GetValueKeeps
<1>5. ASSUME NEW f \in Formulas, Evaluate(f) PROVE IInv' BY <1>5, EvaluateKeeps
<1>6. CASE UNCHANGED vars
  BY <1>6 DEF vars, IInv, TypeOK, GraphsAgree, References, NoCycle, PointersLive, Exists,
              CacheCoherent, Valid
<1> QED BY <1>1, <1>2, <1>3, <1>4, <1>5, <1>6 DEF Next

\* All five invariants hold in every reachable state.
THEOREM Invariance == Spec => []IInv
BY InitIInv, NextIInv, PTL DEF Spec

\* Every variable keeps its type, and no formula ever caches a string.
THEOREM TypeCorrect == Spec => []TypeOK
<1>1. IInv => TypeOK BY DEF IInv
<1> QED BY <1>1, Invariance, PTL

\* reference_graph and dependency_graph are at all times what the formulas say.
THEOREM GraphsAlwaysAgree == Spec => []GraphsAgree
<1>1. IInv => GraphsAgree BY DEF IInv
<1> QED BY <1>1, Invariance, PTL

\* SetCell lets no cycle in.
THEOREM NeverCyclic == Spec => []NoCycle
<1>1. IInv => NoCycle BY DEF IInv
<1> QED BY <1>1, Invariance, PTL

\* A formula's pointers are live unless one of its cells was cleared.
THEOREM PointersStayLive == Spec => []PointersLive
<1>1. IInv => PointersLive BY DEF IInv
<1> QED BY <1>1, Invariance, PTL

\* A valid cache rests on valid caches.
THEOREM CachesStayCoherent == Spec => []CacheCoherent
<1>1. IInv => CacheCoherent BY DEF IInv
<1> QED BY <1>1, Invariance, PTL
-----------------------------------------------------------------------------
(* No stale value.                                                          *)

\* In an acyclic sheet two coherent sets of values agree where both are
\* defined: otherwise the cells where they differ would have one that names
\* none of the others, and its value is fixed by cells where they agree.
LEMMA FreshLemma == IInv => CacheFresh
<1> SUFFICES ASSUME IInv, NEW D \in SUBSET Pos, NEW v \in [D -> Value], Solves(v, D)
             PROVE  \A q \in D : Valid(q) => memo[q] = v[q]
  BY DEF CacheFresh
<1> DEFINE B == {q \in D : Valid(q) /\ memo[q] # v[q]}
<1>1. SUFFICES ASSUME B # {} PROVE FALSE OBVIOUS
<1>2. PICK q \in B : References[q] \cap B = {}
  <2>1. ~ Trap(References, B) BY DEF IInv, NoCycle, Acyclic
  <2> QED BY <2>1, <1>1 DEF Trap
<1>3. /\ q \in Pos /\ content[q] \in Content /\ Refs(content[q]) = References[q]
  BY DEF IInv, TypeOK, References
<1>4. Refs(content[q]) \subseteq D BY <1>3 DEF Solves, Closed
<1>5. \A r \in Refs(content[q]) : Valid(r) BY <1>3 DEF IInv, CacheCoherent
<1>6. \A r \in Refs(content[q]) : memo[r] = v[r] BY <1>2, <1>3, <1>4, <1>5
<1>7. CellValue(content[q], memo) = CellValue(content[q], v)
  BY <1>3, <1>6, CellValueDepends
<1>8. memo[q] = CellValue(content[q], memo) BY <1>3 DEF IInv, CacheCoherent
<1>9. v[q] = CellValue(content[q], v) BY DEF Solves
<1> QED BY <1>7, <1>8, <1>9

\* Whatever is cached is what evaluating the contents from nothing gives.
THEOREM NeverStale == Spec => []CacheFresh
BY FreshLemma, Invariance, PTL
-----------------------------------------------------------------------------
(* Invalidation reaches exactly the dependents.                             *)

\* The valid cells that InvalidateDependencyGraph(p) reaches are those that
\* depend on p, although it steps over the ones already invalid.
LEMMA InvalidatedExact ==
  ASSUME IInv, NEW p \in Pos, NEW q \in Pos, Valid(q)
  PROVE  q \in Invalidated(p) <=> p \in Reach(References, q)
<1> DEFINE g == [s \in Pos |-> {d \in dependency[s] : Valid(d)}]
<1>1. References \in Graph BY ReferencesType DEF IInv
<1>2. \A s \in Pos : References[s] = Refs(content[s]) BY DEF References
<1>3. ASSUME q \in Invalidated(p) PROVE p \in Reach(References, q)
  <2> DEFINE T == {s \in Pos : p \in Reach(References, s)}
  <2>1. \A s \in Pos : \A d \in g[s] : d \in Pos /\ s \in References[d]
    BY <1>2 DEF IInv, GraphsAgree
  <2>2. Closed(g, T)
    <3> SUFFICES ASSUME NEW s \in T, NEW d \in g[s] PROVE d \in T BY DEF Closed
    <3>1. d \in Pos /\ s \in References[d] BY <2>1
    <3>2. s \in Reach(References, d) BY <3>1, <1>1, ReachStart, ReachClosed DEF Closed
    <3>3. Reach(References, s) \subseteq Reach(References, d)
      BY <3>2, <1>1, ReachPos, ReachClosed, ReachLeast
    <3> QED BY <3>1, <3>3
  <2>3. p \in T BY ReachStart
  <2>4. Invalidated(p) = Reach(g, p) BY DEF Invalidated
  <2> HIDE DEF g
  <2>5. Reach(g, p) \subseteq T BY <2>2, <2>3, ReachLeast
  <2> QED BY <1>3, <2>4, <2>5
<1>4. ASSUME q \notin Invalidated(p) PROVE p \notin Reach(References, q)
  <2> DEFINE N == {s \in Pos : Valid(s) /\ s \notin Invalidated(p)}
  <2>1. Closed(References, N)
    <3> SUFFICES ASSUME NEW s \in N, NEW r \in Refs(content[s]) PROVE r \in N
      BY <1>2 DEF Closed
    <3>1. r \in Pos /\ Valid(r) BY ReferencesType DEF IInv, CacheCoherent
    <3>2. r \notin Invalidated(p) BY InvalidatedClosed DEF IInv
    <3> QED BY <3>1, <3>2
  <2>2. Reach(References, q) \subseteq N BY <1>4, <2>1, ReachLeast
  <2>3. p \notin N BY InvalidatedClosed DEF IInv
  <2> QED BY <2>2, <2>3
<1> QED BY <1>3, <1>4

\* What a call may do to the caches.
DropsDependentsOf(p) ==
  \A q \in Pos : Valid(q) =>
    memo'[q] = IF p \in Reach(References, q) THEN Invalid ELSE memo[q]
DropsNothing == \A q \in Pos : Valid(q) => memo'[q] = memo[q]

\* A write drops exactly the caches of the cells that depend on the one written.
LEMMA WriteDropsDependents ==
  ASSUME IInv, NEW p \in Pos, memo' = MemoAfterInvalidation(p)
  PROVE  DropsDependentsOf(p)
BY InvalidatedExact DEF DropsDependentsOf, MemoAfterInvalidation

\* A read drops no cache.
LEMMA ReadDropsNothing ==
  ASSUME IInv, NEW S \in SUBSET Pos, \A p \in S : Exists(p), ~ ReadsFreed(S),
         memo' \in MemoAfterReads(S)
  PROVE  DropsNothing
<1>1. AllEvaluated(S) \subseteq Pos /\ \A q \in AllEvaluated(S) : ~ Valid(q)
  BY EvaluatedCells
<1>2. \A q \in Pos \ AllEvaluated(S) : memo'[q] = memo[q]
  BY <1>1, MemoAfterReadsFacts DEF IInv
<1> QED BY <1>1, <1>2 DEF DropsNothing

\* Every call is of one of the two kinds.
LEMMA StepInvalidatesExactly ==
  ASSUME IInv, Next PROVE DropsNothing \/ \E p \in Pos : DropsDependentsOf(p)
<1>1. UNCHANGED memo => DropsNothing BY DEF DropsNothing
<1>2. \A p \in Pos : memo' = WrittenMemo(p) => DropsNothing \/ DropsDependentsOf(p)
  BY <1>1, WriteDropsDependents DEF WrittenMemo
<1>3. ASSUME NEW p \in Pos, NEW t \in Texts, SetText(p, t)
      PROVE  UNCHANGED memo \/ memo' = WrittenMemo(p)
  BY <1>3 DEF SetText, CreateCell, WrittenMemo
<1>4. ASSUME NEW p \in Pos, NEW f \in Formulas, NEW asPrinted \in BOOLEAN,
             SetFormula(p, f, asPrinted)
      PROVE  UNCHANGED memo \/ memo' = WrittenMemo(p)
  BY <1>4 DEF SetFormula, CreateCell, WrittenMemo
<1>5. ASSUME NEW p \in Pos, ClearCell(p) PROVE UNCHANGED memo \/ memo' = WrittenMemo(p)
  BY <1>5 DEF ClearCell, WrittenMemo
<1>6. ASSUME NEW p \in Pos, GetValue(p) PROVE DropsNothing
  BY <1>1, <1>6, ReadDropsNothing DEF GetValue, Read
<1>7. ASSUME NEW f \in Formulas, Evaluate(f) PROVE DropsNothing
  <2>1. {r \in Refs(f) : Exists(r)} \in SUBSET Pos
    BY InputAssumption, ContentKinds, RefsType
  <2> QED BY <1>1, <1>7, <2>1, ReadDropsNothing DEF Evaluate, Read
<1> QED BY <1>1, <1>2, <1>3, <1>4, <1>5, <1>6, <1>7 DEF Next

\* A call drops the caches of exactly the cells that depend on one cell, or
\* none, and never overwrites a cached value.
THEOREM InvalidatesExactly == Spec => InvalidationExact
<1>1. IInv /\ [Next]_vars =>
        [\/ \A q \in Pos : Valid(q) => memo'[q] = memo[q]
         \/ \E p \in Pos : \A q \in Pos : Valid(q) =>
              memo'[q] = IF p \in Reach(References, q) THEN Invalid ELSE memo[q]]_vars
  BY StepInvalidatesExactly DEF DropsNothing, DropsDependentsOf
<1> QED BY <1>1, Invariance, PTL DEF Spec, InvalidationExact
-----------------------------------------------------------------------------
(* One result of a read.                                                    *)

\* Two ways of filling the caches that a read evaluates are the same.
ReadsUnique ==
  \A S \in SUBSET Pos : (\A p \in S : Exists(p)) /\ ~ ReadsFreed(S) =>
    \A m, n \in MemoAfterReads(S) : m = n

\* Two results of one read would differ somewhere; the cells where they differ
\* would each name another such cell, a cycle.
LEMMA UniqueLemma == IInv => ReadsUnique
<1> SUFFICES ASSUME IInv, NEW S \in SUBSET Pos, \A p \in S : Exists(p), ~ ReadsFreed(S),
                    NEW m \in MemoAfterReads(S), NEW n \in MemoAfterReads(S)
             PROVE  m = n
  BY DEF ReadsUnique
<1> DEFINE E == AllEvaluated(S)
           B == {q \in E : m[q] # n[q]}
<1>1. E \subseteq Pos BY EvaluatedCells
<1>2. /\ m \in [Pos -> Value \cup {Invalid}] /\ n \in [Pos -> Value \cup {Invalid}]
      /\ \A q \in Pos \ E : m[q] = n[q]
      /\ \A q \in E : m[q] = CellValue(content[q], m) /\ n[q] = CellValue(content[q], n)
  BY <1>1, MemoAfterReadsFacts DEF IInv
<1> HIDE DEF E
<1>3. ASSUME B # {} PROVE FALSE
  <2>1. PICK q \in B : References[q] \cap B = {}
    <3>1. ~ Trap(References, B) BY <1>1 DEF IInv, NoCycle, Acyclic
    <3> QED BY <3>1, <1>3 DEF Trap
  <2>2. /\ q \in Pos /\ content[q] \in Content /\ Refs(content[q]) = References[q]
        /\ Refs(content[q]) \subseteq Pos
    BY <1>1, ReferencesType DEF IInv, TypeOK, References
  <2>3. \A r \in Refs(content[q]) : m[r] = n[r] BY <2>1, <2>2, <1>2
  <2>4. CellValue(content[q], m) = CellValue(content[q], n) BY <2>2, <2>3, CellValueDepends
  <2> QED BY <2>4, <1>2
<1>4. \A q \in Pos : m[q] = n[q] BY <1>2, <1>3
<1> QED BY <1>2, <1>4

\* What a read returns does not depend on the order of evaluation.
THEOREM ReadsHaveOneResult == Spec => []ReadsUnique
BY UniqueLemma, Invariance, PTL
-----------------------------------------------------------------------------
(* A read ends.                                                             *)

\* Caches of some cells D that a read evaluates, filled in the way it fills them:
\* D is closed but for valid cells, and each cell of D has its value.
FilledWith(v) == [q \in Pos |-> IF q \in DOMAIN v THEN v[q] ELSE memo[q]]
Filling(D, v) ==
  /\ v \in [D -> Value]
  /\ \A q \in D : /\ \A r \in Refs(content[q]) : Valid(r) \/ r \in D
                  /\ v[q] = CellValue(content[q], FilledWith(v))

\* Two fillings agree where they meet: the cells where they did not would each
\* name another such cell, a cycle.
LEMMA FillingsAgree ==
  ASSUME IInv, NEW C \in SUBSET Pos, NEW D \in SUBSET Pos, \A q \in C \cup D : ~ Valid(q),
         NEW v, NEW w, Filling(C, v), Filling(D, w)
  PROVE  \A q \in C \cap D : v[q] = w[q]
<1> DEFINE B == {q \in C \cap D : v[q] # w[q]}
<1>1. ASSUME B # {} PROVE FALSE
  <2>1. PICK q \in B : References[q] \cap B = {}
    <3>1. ~ Trap(References, B) BY DEF IInv, NoCycle, Acyclic
    <3> QED BY <3>1, <1>1 DEF Trap
  <2>2. /\ q \in Pos /\ content[q] \in Content /\ Refs(content[q]) = References[q]
        /\ Refs(content[q]) \subseteq Pos
    BY ReferencesType DEF IInv, TypeOK, References
  <2>3. DOMAIN v = C /\ DOMAIN w = D BY DEF Filling
  <2>4. \A r \in Refs(content[q]) : FilledWith(v)[r] = FilledWith(w)[r]
    <3> SUFFICES ASSUME NEW r \in Refs(content[q]) PROVE FilledWith(v)[r] = FilledWith(w)[r]
      OBVIOUS
    <3>1. (Valid(r) \/ r \in C) /\ (Valid(r) \/ r \in D) BY DEF Filling
    <3>2. CASE Valid(r) BY <2>2, <2>3, <3>2 DEF FilledWith
    <3>3. CASE ~ Valid(r)
      <4>1. v[r] = w[r] BY <2>1, <2>2, <3>1, <3>3
      <4> QED BY <2>2, <2>3, <3>1, <3>3, <4>1 DEF FilledWith
    <3> QED BY <3>2, <3>3
  <2>5. CellValue(content[q], FilledWith(v)) = CellValue(content[q], FilledWith(w))
    BY <2>2, <2>4, CellValueDepends
  <2> QED BY <2>5 DEF Filling
<1> QED BY <1>1

\* The cells that some filling reaches are filled by one.
Fillable(E) == {q \in E : \E D \in SUBSET E : \E v \in [D -> Value] : q \in D /\ Filling(D, v)}
FillingOf(E) ==
  [q \in Fillable(E) |->
     CHOOSE x : \E D \in SUBSET E : \E v \in [D -> Value] :
       q \in D /\ Filling(D, v) /\ x = v[q]]

\* Together, the fillings of parts of a set are a filling.
LEMMA FillableFilled ==
  ASSUME IInv, NEW E \in SUBSET Pos, \A q \in E : ~ Valid(q)
  PROVE  Filling(Fillable(E), FillingOf(E))
<1> DEFINE F == Fillable(E)
           w == FillingOf(E)
<1>1. ASSUME NEW D \in SUBSET E, NEW v \in [D -> Value], Filling(D, v)
      PROVE  D \subseteq F /\ \A q \in D : w[q] = v[q]
  <2>1. D \subseteq F BY <1>1 DEF Fillable
  <2> SUFFICES ASSUME NEW q \in D PROVE w[q] = v[q] BY <2>1
  <2>2. \E x : \E C \in SUBSET E : \E u \in [C -> Value] :
          q \in C /\ Filling(C, u) /\ x = u[q]
    BY <1>1
  <2>3. \E C \in SUBSET E : \E u \in [C -> Value] :
          q \in C /\ Filling(C, u) /\ w[q] = u[q]
    BY <2>1, <2>2 DEF FillingOf
  <2>4. PICK C \in SUBSET E : \E u \in [C -> Value] :
          q \in C /\ Filling(C, u) /\ w[q] = u[q]
    BY <2>3
  <2>5. PICK u \in [C -> Value] : q \in C /\ Filling(C, u) /\ w[q] = u[q] BY <2>4
  <2>6. C \in SUBSET Pos /\ D \in SUBSET Pos /\ \A r \in C \cup D : ~ Valid(r) OBVIOUS
  <2>7. u[q] = v[q] BY <1>1, <2>5, <2>6, FillingsAgree
  <2> QED BY <2>5, <2>7
<1>2. DOMAIN w = F BY DEF FillingOf
<1>3. ASSUME NEW q \in F
      PROVE  /\ w[q] \in Value /\ \A r \in Refs(content[q]) : Valid(r) \/ r \in F
             /\ w[q] = CellValue(content[q], FilledWith(w))
  <2> PICK D \in SUBSET E : \E v \in [D -> Value] : q \in D /\ Filling(D, v)
    BY DEF Fillable
  <2>1. PICK v \in [D -> Value] : q \in D /\ Filling(D, v) OBVIOUS
  <2>2. D \subseteq F /\ \A r \in D : w[r] = v[r] BY <1>1, <2>1
  <2>3. /\ q \in Pos /\ content[q] \in Content /\ Refs(content[q]) \subseteq Pos
    BY <2>1, ReferencesType DEF IInv, TypeOK
  <2>4. \A r \in Refs(content[q]) : Valid(r) \/ r \in D BY <2>1 DEF Filling
  <2>5. \A r \in Refs(content[q]) : FilledWith(v)[r] = FilledWith(w)[r]
    <3> SUFFICES ASSUME NEW r \in Refs(content[q]) PROVE FilledWith(v)[r] = FilledWith(w)[r]
      OBVIOUS
    <3>1. DOMAIN v = D OBVIOUS
    <3>2. CASE r \in D BY <1>2, <2>2, <2>3, <3>1, <3>2 DEF FilledWith
    <3>3. CASE r \notin D
      <4>1. r \notin F BY <2>4, <3>3 DEF Fillable
      <4> QED BY <1>2, <2>3, <3>1, <3>3, <4>1 DEF FilledWith
    <3> QED BY <3>2, <3>3
  <2> HIDE DEF F, w
  <2>6. CellValue(content[q], FilledWith(v)) = CellValue(content[q], FilledWith(w))
    BY <2>3, <2>5, CellValueDepends
  <2>7. v[q] = CellValue(content[q], FilledWith(v)) BY <2>1 DEF Filling
  <2> QED BY <2>1, <2>2, <2>4, <2>6, <2>7
<1>4. w = [q \in F |-> w[q]] BY DEF FillingOf
<1> HIDE DEF F, w
<1>5. w \in [F -> Value] BY <1>3, <1>4
<1>6. Filling(F, w) BY <1>3, <1>5 DEF Filling
<1> QED BY <1>6 DEF F, w

\* All that a read evaluates can be filled: among the cells that could not there
\* would be one that names none of them, and that one can be filled last.
LEMMA AllFillable ==
  ASSUME IInv, NEW E \in SUBSET Pos, \A q \in E : ~ Valid(q),
         \A q \in E : \A r \in Refs(content[q]) : Valid(r) \/ r \in E
  PROVE  Fillable(E) = E
<1> DEFINE F == Fillable(E)
           w == FillingOf(E)
           B == E \ F
<1>1. F \subseteq E BY DEF Fillable
<1>2. Filling(F, w) BY FillableFilled
<1>3. w \in [F -> Value] BY <1>2 DEF Filling
<1> HIDE DEF F, w
<1>4. ASSUME B # {} PROVE FALSE
  <2>1. PICK q \in B : References[q] \cap B = {}
    <3>1. ~ Trap(References, B) BY DEF IInv, NoCycle, Acyclic
    <3> QED BY <3>1, <1>4 DEF Trap
  <2>2. /\ q \in Pos /\ content[q] \in Content /\ Refs(content[q]) = References[q]
        /\ Refs(content[q]) \subseteq Pos
    BY ReferencesType DEF IInv, TypeOK, References
  <2>3. \A r \in Refs(content[q]) : r \in Pos /\ (Valid(r) \/ r \in F)
    BY <2>1, <2>2
  <2> DEFINE x == CellValue(content[q], FilledWith(w))
             D == F \cup {q}
             v == [r \in D |-> IF r = q THEN x ELSE w[r]]
  <2>4. \A r \in Refs(content[q]) : FilledWith(w)[r] \in Value
    <3> SUFFICES ASSUME NEW r \in Refs(content[q]) PROVE FilledWith(w)[r] \in Value OBVIOUS
    <3>1. DOMAIN w = F /\ FilledWith(w)[r] = IF r \in F THEN w[r] ELSE memo[r]
      BY <1>3, <2>3 DEF FilledWith
    <3>2. CASE r \in F BY <3>1, <3>2, <1>3
    <3>3. CASE r \notin F BY <3>1, <3>3, <2>3 DEF Valid, IInv, TypeOK
    <3> QED BY <3>2, <3>3
  <2>5. x \in Value BY <2>2, <2>4, CellValueType
  <2>6. \A r \in Pos \ {q} : FilledWith(v)[r] = FilledWith(w)[r]
    BY <1>3 DEF FilledWith
  <2>7. \A r \in F : q \notin Refs(content[r]) BY <2>1, <1>1, <1>2 DEF Filling
  <2>8. q \notin Refs(content[q]) BY <2>1, <2>2
  <2>9. v \in [D -> Value] BY <1>3, <2>5
  <2>10. v[q] = x /\ \A r \in F : v[r] = w[r] BY <2>1
  <2> HIDE DEF x, v
  <2>11. ASSUME NEW r \in D
         PROVE  /\ \A s \in Refs(content[r]) : Valid(s) \/ s \in D
                /\ v[r] = CellValue(content[r], FilledWith(v))
    <3>1. r \in Pos /\ content[r] \in Content /\ Refs(content[r]) \subseteq Pos
      BY <1>1, <2>2, ReferencesType DEF IInv, TypeOK
    <3>2. \A s \in Refs(content[r]) : s # q /\ s \in Pos BY <2>7, <2>8, <3>1
    <3>3. \A s \in Refs(content[r]) : FilledWith(v)[s] = FilledWith(w)[s] BY <2>6, <3>2
    <3>4. CellValue(content[r], FilledWith(v)) = CellValue(content[r], FilledWith(w))
      BY <3>1, <3>3, CellValueDepends
    <3>5. CASE r = q BY <3>4, <3>5, <2>3, <2>10 DEF x
    <3>6. CASE r \in F BY <3>4, <3>6, <1>2, <2>10 DEF Filling
    <3> QED BY <3>5, <3>6
  <2>12. Filling(D, v) BY <2>9, <2>11 DEF Filling
  <2>13. D \in SUBSET E /\ q \in D BY <1>1, <2>1
  <2>14. q \in Fillable(E) BY <2>1, <2>9, <2>12, <2>13 DEF Fillable
  <2> QED BY <2>14, <2>1 DEF F
<1> QED BY <1>1, <1>4 DEF F

\* What a read evaluates has values.
LEMMA ReadsExist ==
  ASSUME IInv, NEW S \in SUBSET Pos, \A p \in S : Exists(p), ~ ReadsFreed(S)
  PROVE  MemoAfterReads(S) # {}
<1> DEFINE E == AllEvaluated(S)
           w == FillingOf(E)
           m == FilledWith(w)
<1>1. E \in SUBSET Pos BY EvaluatedCells
<1>2. \A q \in E : ~ Valid(q) /\ \A r \in Refs(content[q]) : Valid(r) \/ r \in E
  BY EvaluatedCells
<1> HIDE DEF E
<1>3. Filling(E, w) BY <1>1, <1>2, FillableFilled, AllFillable
<1> HIDE DEF w
<1>4. w \in [E -> Value] /\ DOMAIN w = E BY <1>3 DEF Filling
<1>5. m = [q \in Pos |-> IF q \in E THEN w[q] ELSE memo[q]] BY <1>4 DEF FilledWith
<1>6. \A q \in E : m[q] = CellValue(content[q], m)
  BY <1>1, <1>3, <1>4 DEF Filling, FilledWith
<1> HIDE DEF m
<1>7. m \in {[q \in Pos |-> IF q \in E THEN v[q] ELSE memo[q]] : v \in [E -> Value]}
  BY <1>4, <1>5
<1>8. m \in {n \in {[q \in Pos |-> IF q \in E THEN v[q] ELSE memo[q]] : v \in [E -> Value]} :
             \A q \in E : n[q] = CellValue(content[q], n)}
  BY <1>6, <1>7
<1>9. E = UNION {Evaluated(p) : p \in S} BY DEF E, AllEvaluated
<1>10. m \in MemoAfterReads(S) BY <1>8, <1>9, SMTT(60) DEF MemoAfterReads
<1> QED BY <1>10

\* A read has at least one result and at most one.
LEMMA DeterminedLemma == IInv /\ ReadsUnique => ReadsDetermined
BY ReadsExist DEF ReadsUnique, ReadsDetermined

\* A read that touches no freed cell has a result, and only one: evaluation ends,
\* whatever caches happen to be filled.
THEOREM ReadsAlwaysDetermined == Spec => []ReadsDetermined
BY DeterminedLemma, UniqueLemma, Invariance, PTL
-----------------------------------------------------------------------------
(* The engine implements SheetSpec.                                         *)

\* Both modules build on the same definitions of values and graphs.
LEMMA SameValues ==
  /\ Promise!Absent = Absent /\ Promise!Blank = Blank
  /\ \A t : Promise!TextCell(t) = TextCell(t)
  /\ Promise!Value = Value
  /\ \A c : Promise!Refs(c) = Refs(c)
  /\ \A f, v : Promise!FormulaValue(f, v) = FormulaValue(f, v)
  /\ \A c, v : Promise!CellValue(c, v) = CellValue(c, v)
<1>1. Promise!Absent = Absent BY DEF Absent, Promise!Absent
<1>2. \A t : Promise!TextCell(t) = TextCell(t) BY DEF TextCell, Promise!TextCell
<1>3. Promise!Blank = Blank BY <1>2 DEF Blank, Promise!Blank
<1>4. Promise!Num = Num /\ Promise!Errors = Errors
  BY DEF Num, Promise!Num, Errors, Promise!Errors
<1>5. Promise!Value = Value BY <1>4 DEF Value, Promise!Value
<1>6. \A c : Promise!IsFormula(c) = IsFormula(c) BY DEF IsFormula, Promise!IsFormula
<1>7. \A c : Promise!Refs(c) = Refs(c) BY <1>6 DEF Refs, Promise!Refs
<1>8. \A op, l, r : Promise!Combine(op, l, r) = Combine(op, l, r)
  BY <1>4 DEF Combine, Promise!Combine, Apply, Promise!Apply
<1>9. \A f, v : Promise!TreeValue(f, v) = TreeValue(f, v)
  BY <1>8 DEF TreeValue, Promise!TreeValue
<1>10. \A f, v : Promise!FormulaValue(f, v) = FormulaValue(f, v)
  BY <1>9 DEF FormulaValue, Promise!FormulaValue
<1>11. \A c, v : Promise!CellValue(c, v) = CellValue(c, v)
  BY <1>1, <1>6, <1>10 DEF CellValue, Promise!CellValue, TextValue, Promise!TextValue
<1> QED BY <1>1, <1>2, <1>3, <1>5, <1>7, <1>10, <1>11

\* Both modules mean the same by a graph, a cycle and a search.
LEMMA SameGraphs ==
  /\ Promise!RefGraph(content) = References
  /\ \A g : Promise!Acyclic(g) = Acyclic(g)
  /\ \A g, S : Promise!Closed(g, S) = Closed(g, S)
  /\ \A g, p : Promise!Reach(g, p) = Reach(g, p)
<1>1. Promise!RefGraph(content) = References BY SameValues DEF Promise!RefGraph, References
<1>2. \A g : Promise!Acyclic(g) = Acyclic(g)
  BY DEF Acyclic, Promise!Acyclic, Trap, Promise!Trap
<1>3. \A g, S : Promise!Closed(g, S) = Closed(g, S) BY DEF Closed, Promise!Closed
<1>4. \A g, p : Promise!Reach(g, p) = Reach(g, p) BY <1>3 DEF Reach, Promise!Reach
<1> QED BY <1>1, <1>2, <1>3, <1>4

\* A read of existing cells that evaluates no formula with a freed pointer
\* depends on none, and one that does evaluate such a formula depends on it.
LEMMA FreedIsSevered ==
  ASSUME IInv, NEW p \in Pos, Exists(p)
  PROVE  ReadsFreed({p}) <=> Promise!Sources(p) \cap dangling # {}
<1> DEFINE g == [q \in Pos |-> {r \in Refs(content[q]) : ~ Valid(r)}]
<1>1. Promise!Sources(p) = Reach(References, p) BY SameGraphs DEF Promise!Sources
<1>2. References \in Graph /\ \A q \in Pos : References[q] = Refs(content[q])
  BY ReferencesType DEF IInv, References
<1>3. ASSUME ReadsFreed({p}) PROVE Reach(References, p) \cap dangling # {}
  <2>1. Evaluated(p) = Reach(g, p) BY <1>3 DEF ReadsFreed, Evaluated
  <2>2. \A q \in Pos : g[q] \subseteq References[q] BY <1>2
  <2> HIDE DEF g
  <2>3. Reach(g, p) \subseteq Reach(References, p) BY <1>2, <2>2, ReachSubgraph
  <2> QED BY <1>3, <2>1, <2>3 DEF ReadsFreed
<1>4. ASSUME ~ ReadsFreed({p}) PROVE Reach(References, p) \cap dangling = {}
  <2> DEFINE T == {q \in Pos : Valid(q) \/ q \in AllEvaluated({p})}
  <2>1. /\ \A q \in AllEvaluated({p}) :
             q \notin dangling /\ \A r \in Refs(content[q]) : Valid(r) \/ r \in AllEvaluated({p})
        /\ Valid(p) \/ p \in AllEvaluated({p})
    BY <1>4, EvaluatedCells
  <2>2. \A q \in Pos : Valid(q) =>
          q \notin dangling /\ \A r \in Refs(content[q]) : Valid(r)
    BY DEF IInv, CacheCoherent
  <2>3. Closed(References, T) BY <1>2, <2>1, <2>2, ReferencesType DEF Closed, IInv
  <2>4. Reach(References, p) \subseteq T BY <2>1, <2>3, ReachLeast
  <2> QED BY <2>1, <2>2, <2>4
<1> QED BY <1>1, <1>3, <1>4

\* SetCell with a text is the abstract SetText.
LEMMA SetTextPromised ==
  ASSUME IInv, NEW p \in Pos, NEW t \in Texts, SetText(p, t) PROVE Promise!SetText(p, t)
<1>1. CASE content[p] = TextCell(t)
  <2>1. UNCHANGED <<content, dangling>> /\ reply' = Ok BY <1>1 DEF SetText
  <2>2. content = [content EXCEPT ![p] = TextCell(t)] BY <1>1 DEF IInv, TypeOK
  <2>3. ~ IsFormula(content[p]) BY <1>1, InputAssumption, ContentKinds
  <2>4. dangling \ {p} = dangling BY <2>3 DEF IInv, PointersLive
  <2> QED BY <2>1, <2>2, <2>4, SameValues DEF Promise!SetText
<1>2. CASE content[p] # TextCell(t)
  BY <1>2, SameValues DEF SetText, CreateCell, Promise!SetText
<1> QED BY <1>1, <1>2

\* SetCell with a formula is the abstract SetFormula: the search refuses exactly
\* what would close a cycle.
LEMMA SetFormulaPromised ==
  ASSUME IInv, NEW p \in Pos, NEW f \in Formulas, NEW asPrinted \in BOOLEAN,
         SetFormula(p, f, asPrinted)
  PROVE  Promise!SetFormula(p, f, asPrinted)
<1>1. f \in Formula /\ Refs(f) \subseteq Pos BY InputAssumption, ContentKinds, RefsType
<1>2. HasCircularRefs(p, f) <=>
        ~ Promise!Acyclic([Promise!RefGraph(content) EXCEPT ![p] = Promise!Refs(f)])
  BY <1>1, CheckIsExact, SameGraphs, SameValues
<1>3. CASE HasCircularRefs(p, f)
  <2>1. reply' = CircularDependency /\ UNCHANGED <<content, dangling>>
    BY <1>3 DEF SetFormula
  <2> QED BY <1>2, <1>3, <2>1 DEF Promise!SetFormula
<1>4. CASE ~ HasCircularRefs(p, f)
  <2> DEFINE after == [q \in Pos |->
                         IF q = p THEN f
                         ELSE IF q \in Refs(f) /\ content[q] = Absent THEN Blank
                         ELSE content[q]]
  <2>1. after = [q \in Pos |->
                   IF q = p THEN f
                   ELSE IF q \in Promise!Refs(f) /\ content[q] = Promise!Absent
                          THEN Promise!Blank
                   ELSE content[q]]
    BY SameValues
  <2>2. reply' = Ok BY <1>4 DEF SetFormula
  <2>3. CASE content[p] = f /\ asPrinted
    <3>1. content' = Populated(f) /\ dangling' = dangling BY <1>4, <2>3 DEF SetFormula
    <3>2. content' = after BY <3>1, <2>3, <1>1, ContentKinds DEF Populated, Exists
    <3> HIDE DEF after
    <3> QED BY <1>2, <1>4, <2>1, <2>2, <2>3, <3>1, <3>2 DEF Promise!SetFormula
  <2>4. CASE ~ (content[p] = f /\ asPrinted)
    <3>1. content' = [Populated(f) EXCEPT ![p] = f] /\ dangling' = dangling \ {p}
      BY <1>4, <2>4 DEF SetFormula, CreateCell
    <3>2. content' = after BY <3>1 DEF Populated, Exists
    <3> HIDE DEF after
    <3> QED BY <1>2, <1>4, <2>1, <2>2, <2>4, <3>1, <3>2 DEF Promise!SetFormula
  <2> QED BY <2>3, <2>4
<1> QED BY <1>3, <1>4

\* ClearCell is the abstract ClearCell.
LEMMA ClearCellPromised ==
  ASSUME IInv, NEW p \in Pos, ClearCell(p) PROVE Promise!ClearCell(p)
<1>1. CASE Exists(p) BY <1>1, SameValues DEF ClearCell, Exists, Promise!ClearCell
<1>2. CASE ~ Exists(p)
  <2>1. content = [content EXCEPT ![p] = Absent] BY <1>2 DEF Exists, IInv, TypeOK
  <2> QED BY <1>2, <2>1, SameValues DEF ClearCell, Exists, Promise!ClearCell
<1> QED BY <1>1, <1>2

\* The valid cells after a read, with the positions that hold no cell, are a set
\* of cells that SheetSpec may read from, and their caches are its values.
Known == {q \in Pos : ~ Exists(q) \/ memo'[q] # Invalid}
KnownValues == [q \in Known |-> IF Exists(q) THEN memo'[q] ELSE 0]

\* After a read that met no freed cell, the cells known so far are closed under
\* references and carry the values the contents determine.
LEMMA KnownSolves ==
  ASSUME IInv, IInv', content' = content
  PROVE  /\ Known \in SUBSET Pos /\ KnownValues \in [Known -> Promise!Value]
         /\ Promise!Solves(KnownValues, Known)
<1>1. \A q \in Pos : /\ content[q] \in Content /\ Refs(content[q]) \subseteq Pos
                     /\ References[q] = Refs(content[q])
  BY ReferencesType DEF IInv, TypeOK, References
<1>2. KnownValues \in [Known -> Value]
  <2>1. 0 \in Value BY MaxNumAssumption DEF Value, Num
  <2> QED BY <2>1 DEF KnownValues, Known, IInv, TypeOK
<1>3. \A q \in Known : Exists(q) =>
        /\ \A r \in Refs(content[q]) : r \in Known /\ Exists(r) /\ memo'[r] # Invalid
        /\ memo'[q] = CellValue(content[q], memo')
  BY <1>1 DEF Known, IInv, CacheCoherent, Valid, Exists
<1>4. \A q \in Known : ~ Exists(q) => Refs(content[q]) = {} /\ CellValue(content[q], KnownValues) = 0
  BY ContentKinds, RefsType DEF Exists, CellValue
<1>5. Closed(References, Known) BY <1>1, <1>3, <1>4 DEF Closed, Known
<1>6. \A q \in Known : KnownValues[q] = CellValue(content[q], KnownValues)
  <2> SUFFICES ASSUME NEW q \in Known PROVE KnownValues[q] = CellValue(content[q], KnownValues)
    OBVIOUS
  <2>1. CASE Exists(q)
    <3>1. \A r \in Refs(content[q]) : KnownValues[r] = memo'[r]
      BY <2>1, <1>3 DEF KnownValues
    <3>2. CellValue(content[q], KnownValues) = CellValue(content[q], memo')
      BY <3>1, <1>1, CellValueDepends DEF Known
    <3> QED BY <2>1, <3>2, <1>3 DEF KnownValues
  <2>2. CASE ~ Exists(q) BY <2>2, <1>4 DEF KnownValues
  <2> QED BY <2>1, <2>2
<1>7. Known \in SUBSET Pos BY DEF Known
<1> QED BY <1>2, <1>5, <1>6, <1>7, SameValues, SameGraphs DEF Promise!Solves

\* A cached read returns what the contents determine.
LEMMA GetValuePromised ==
  ASSUME IInv, IInv', NEW p \in Pos, GetValue(p) PROVE Promise!GetValue(p)
<1>1. Exists(p) /\ UNCHANGED <<content, dangling>> BY DEF GetValue, Read
<1>2. CASE ReadsFreed({p}) /\ reply' = Undefined
  BY <1>1, <1>2, FreedIsSevered, SameValues DEF Promise!GetValue, Exists
<1>3. CASE ~ ReadsFreed({p}) /\ memo' \in MemoAfterReads({p}) /\ reply' = memo'[p]
  <2>1. AllEvaluated({p}) \subseteq Pos /\ (Valid(p) \/ p \in AllEvaluated({p}))
    BY <1>1, <1>3, EvaluatedCells
  <2>2. memo'[p] # Invalid
    <3>1. CASE p \in AllEvaluated({p}) BY <3>1, <2>1, <1>3, MemoAfterReadsFacts DEF IInv
    <3>2. CASE p \notin AllEvaluated({p})
      BY <3>2, <2>1, <1>3, MemoAfterReadsFacts DEF IInv, Valid
    <3> QED BY <3>1, <3>2
  <2>3. p \in Known /\ KnownValues[p] = reply' BY <1>1, <1>3, <2>2 DEF Known, KnownValues
  <2>4. Promise!Sources(p) \cap dangling = {} BY <1>1, <1>3, FreedIsSevered
  <2>5. \E D \in SUBSET Pos : \E v \in [D -> Promise!Value] :
          p \in D /\ Promise!Solves(v, D) /\ reply' = v[p]
    BY <1>1, <2>3, KnownSolves
  <2> QED BY <1>1, <2>4, <2>5, SameValues DEF Promise!GetValue, Exists
<1> QED BY <1>2, <1>3 DEF GetValue, Read

\* So does a formula evaluated on its own.
LEMMA EvaluatePromised ==
  ASSUME IInv, IInv', NEW f \in Formulas, Evaluate(f) PROVE Promise!Evaluate(f)
<1> DEFINE S == {r \in Refs(f) : Exists(r)}
           w == [q \in Pos |-> IF Exists(q) THEN memo'[q] ELSE 0]
<1>1. UNCHANGED <<content, dangling>> BY DEF Evaluate, Read
<1>2. f \in Formula /\ f \in Content /\ Refs(f) \subseteq Pos /\ S \in SUBSET Pos
  BY InputAssumption, ContentKinds, RefsType
<1>3. ReadsFreed(S) <=> \E r \in Refs(f) : Promise!Sources(r) \cap dangling # {}
  <2>1. \A r \in Refs(f) : Exists(r) => (ReadsFreed({r}) <=> Promise!Sources(r) \cap dangling # {})
    BY <1>2, FreedIsSevered
  <2>2. ASSUME NEW r \in Refs(f), ~ Exists(r) PROVE Promise!Sources(r) \cap dangling = {}
    <3>1. References[r] = {} /\ r \notin dangling
      BY <1>2, <2>2, ContentKinds, RefsType DEF References, Exists, IInv, PointersLive
    <3>2. {r} \in SUBSET Pos BY <1>2, <2>2
    <3>3. r \in {r} /\ Closed(References, {r}) BY <3>1 DEF Closed
    <3>4. Reach(References, r) \subseteq {r} BY <3>2, <3>3, ReachLeast
    <3> QED BY <3>1, <3>4, SameGraphs DEF Promise!Sources
  <2>3. ReadsFreed(S) <=> \E r \in S : ReadsFreed({r}) BY DEF ReadsFreed
  <2> QED BY <2>1, <2>2, <2>3
<1>4. CASE ReadsFreed(S) /\ reply' = Undefined
  BY <1>1, <1>3, <1>4, SameValues DEF Promise!Evaluate
<1>5. CASE ~ ReadsFreed(S) /\ memo' \in MemoAfterReads(S) /\ reply' = FormulaValue(f, w)
  <2>1. AllEvaluated(S) \subseteq Pos /\ \A r \in S : Valid(r) \/ r \in AllEvaluated(S)
    BY <1>2, <1>5, EvaluatedCells
  <2>2. \A r \in S : memo'[r] # Invalid
    BY <2>1, <1>2, <1>5, MemoAfterReadsFacts DEF IInv, Valid
  <2>3. \A r \in Refs(f) : r \in Known /\ KnownValues[r] = w[r]
    BY <1>2, <2>2 DEF Known, KnownValues
  <2> HIDE DEF w
  <2>4. FormulaValue(f, KnownValues) = FormulaValue(f, w)
    BY <1>2, <2>3, FormulaValueDepends
  <2>5. \E D \in SUBSET Pos : \E v \in [D -> Promise!Value] :
          Promise!Refs(f) \subseteq D /\ Promise!Solves(v, D)
            /\ reply' = Promise!FormulaValue(f, v)
    <3>1. Known \in SUBSET Pos /\ KnownValues \in [Known -> Promise!Value]
          /\ Promise!Solves(KnownValues, Known)
      BY <1>1, KnownSolves
    <3>2. Promise!Refs(f) \subseteq Known BY <2>3, SameValues
    <3>3. reply' = Promise!FormulaValue(f, KnownValues) BY <1>5, <2>4, SameValues
    <3> QED BY <3>1, <3>2, <3>3
  <2>6. \A r \in Promise!Refs(f) : Promise!Sources(r) \cap dangling = {}
    BY <1>3, <1>5, SameValues
  <2> QED BY <1>1, <2>5, <2>6 DEF Promise!Evaluate
<1> QED BY <1>4, <1>5 DEF Evaluate, Read

\* An empty sheet is an empty abstract sheet.
LEMMA InitPromised == Init => Promise!Init
BY SameValues DEF Init, Promise!Init

\* Every call of the engine is one the abstract sheet allows.
LEMMA NextPromised == IInv /\ IInv' /\ [Next]_vars => [Promise!Next]_(Promise!vars)
<1> SUFFICES ASSUME IInv, IInv', Next PROVE Promise!Next
  BY DEF vars, Promise!vars
<1>1. ASSUME NEW p \in Pos, NEW t \in Texts, SetText(p, t) PROVE Promise!SetText(p, t)
  BY <1>1, SetTextPromised
<1>2. ASSUME NEW p \in Pos, NEW f \in Formulas, NEW asPrinted \in BOOLEAN,
             SetFormula(p, f, asPrinted)
      PROVE  Promise!SetFormula(p, f, asPrinted)
  BY <1>2, SetFormulaPromised
<1>3. ASSUME NEW p \in Pos, ClearCell(p) PROVE Promise!ClearCell(p)
  BY <1>3, ClearCellPromised
<1>4. ASSUME NEW p \in Pos, GetValue(p) PROVE Promise!GetValue(p)
  BY <1>4, GetValuePromised
<1>5. ASSUME NEW f \in Formulas, Evaluate(f) PROVE Promise!Evaluate(f)
  BY <1>5, EvaluatePromised
<1> QED BY <1>1, <1>2, <1>3, <1>4, <1>5 DEF Next, Promise!Next

\* The caches, the graphs and the pointers implement the promise of the sheet:
\* every reply is one SheetSpec allows.
THEOREM EngineKeepsPromise == Spec => KeepsPromise
BY InitPromised, NextPromised, Invariance, PTL DEF Spec, KeepsPromise, Promise!Spec
=============================================================================
