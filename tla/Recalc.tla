------------------------------- MODULE Recalc -------------------------------
(* The recalculation engine of ImpSheet: SetCell, ClearCell, the cached     *)
(* values of the cells, the two graphs that tell which caches a change      *)
(* makes stale, and the pointers formulas keep to the cells they name.      *)
(*                                                                          *)
(* A call runs to its end before the next one starts (the library is        *)
(* single-threaded), so each public call is one action, and the loops and   *)
(* recursions inside it are operators.  Where a cell is stored is left to   *)
(* another module: here a position either holds a cell or does not.         *)

EXTENDS CellValues

CONSTANTS Texts, Formulas,   \* what the user types
          Ok, CircularDependency, Undefined,
          Invalid            \* no cached value: CellState::Invalid

ASSUME InputAssumption == Texts \subseteq Text /\ Formulas \subseteq Formula

ASSUME ReplyAssumption ==
  /\ {Ok, CircularDependency, Undefined} \cap Value = {}
  /\ Ok # CircularDependency /\ Ok # Undefined /\ CircularDependency # Undefined
  /\ Invalid \notin Value

VARIABLES content,    \* the text or formula of each cell
          memo,       \* each cell's state and cached_value in one
          reference,  \* reference_graph
          dependency, \* dependency_graph
          dangling,   \* formulas whose tree points to a cell that was freed
          reply       \* the result of the last call

vars == <<content, memo, reference, dependency, dangling, reply>>

Exists(q) == content[q] # Absent
Valid(q) == memo[q] # Invalid

Init ==
  /\ content = [q \in Pos |-> Absent]
  /\ memo = [q \in Pos |-> Invalid]
  /\ reference = [q \in Pos |-> {}]
  /\ dependency = [q \in Pos |-> {}]
  /\ dangling = {}
  /\ reply = Ok
-----------------------------------------------------------------------------
(* Invalidation.                                                            *)

\* (Faulty: stops after the direct dependents.)
InvalidatedDirectly(p) == {p} \cup dependency[p]

\* (Faulty: walks the references of p, not its dependents.)
InvalidatedReferences(p) == Reach(reference, p)

\* InvalidateDependencyGraph(p) walks the dependents of p, and steps only into
\* those whose cache is valid: a cell already invalid is taken to have been
\* walked before.
Invalidated(p) ==
  Reach([q \in Pos |-> {d \in dependency[q] : Valid(d)}], p)

\* (Faulty: only the cell written is invalidated.)
MemoAfterReset(p) == [memo EXCEPT ![p] = Invalid]

\* ResetCell and ClearCell first invalidate, then forget the edges of p.
MemoAfterInvalidation(p) ==
  [q \in Pos |-> IF q \in Invalidated(p) THEN Invalid ELSE memo[q]]

\* (Faulty: the old edges of p stay.)
KeepDependencies(g, p) == g

RemoveDependencies(g, p) == [q \in Pos |-> g[q] \ {p}]
UpdateReferenceGraph(g, p) == [g EXCEPT ![p] = {}]

\* (Faulty: the new edges of p are forgotten.)
SkipDependencies(g, p, refs) == g

UpdateDependencyGraph(g, p, refs) ==
  [q \in Pos |-> IF q \in refs THEN g[q] \cup {p} ELSE g[q]]
-----------------------------------------------------------------------------
(* SetCell.                                                                 *)

\* (Faulty: only a formula that names its own cell is refused.)
HasSelfRef(p, f) == p \in Refs(f)

\* FormulaHasCircularRefs: the search runs on the graph with only the new
\* references of p, and the graph is left with the old ones put back: alone if
\* the formula is refused, beside the new ones if it is accepted.
HasCircularRefs(p, f) == Circular([reference EXCEPT ![p] = Refs(f)], p)
ReferenceAfterCheck(p, f) ==
  IF HasCircularRefs(p, f) THEN reference
  ELSE [reference EXCEPT ![p] = @ \cup Refs(f)]

\* (Faulty: no cell is made for a reference.)
Unpopulated(f) == content

\* PopulateFormulaPtrs: cells named by the formula that do not exist yet are
\* made, with empty text.
Populated(f) ==
  [q \in Pos |-> IF q \in Refs(f) /\ ~ Exists(q) THEN Blank ELSE content[q]]

\* CreateCell over an existing cell resets it first; a new cell invalidates
\* nothing.  graph is reference_graph as the circularity check leaves it,
\* cells the contents after PopulateFormulaPtrs.
CreateCell(p, c, graph, cells) ==
  LET refs0 == IF Exists(p) THEN UpdateReferenceGraph(graph, p) ELSE graph
      deps0 == IF Exists(p) THEN RemoveDependencies(dependency, p) ELSE dependency
  IN  /\ content' = [cells EXCEPT ![p] = c]
      /\ memo' = IF Exists(p) THEN MemoAfterInvalidation(p) ELSE memo
      /\ reference' = [refs0 EXCEPT ![p] = @ \cup Refs(c)]
      /\ dependency' = UpdateDependencyGraph(deps0, p, Refs(c))
      /\ dangling' = dangling \ {p}

SetText(p, t) ==
  /\ IF content[p] = TextCell(t)
       THEN UNCHANGED <<content, memo, reference, dependency, dangling>>
       ELSE CreateCell(p, TextCell(t), reference, content)
  /\ reply' = Ok

\* asPrinted: whether the text typed is the one GetText prints for f.  If it is
\* and the cell holds f already, CreateCell returns early, after the graph and
\* the missing cells have been brought up to date.
SetFormula(p, f, asPrinted) ==
  \/ /\ HasCircularRefs(p, f)
     /\ reply' = CircularDependency
     /\ reference' = ReferenceAfterCheck(p, f)
     /\ UNCHANGED <<content, memo, dependency, dangling>>
  \/ /\ ~ HasCircularRefs(p, f)
     /\ IF content[p] = f /\ asPrinted
          THEN /\ content' = Populated(f)
               /\ reference' = ReferenceAfterCheck(p, f)
               /\ UNCHANGED <<memo, dependency, dangling>>
          ELSE CreateCell(p, f, ReferenceAfterCheck(p, f), Populated(f))
     /\ reply' = Ok
-----------------------------------------------------------------------------
(* ClearCell.                                                               *)

\* The cell is freed.  The formulas that name it keep their pointers to it.
ClearCell(p) ==
  /\ IF Exists(p)
       THEN /\ content' = [content EXCEPT ![p] = Absent]
            /\ memo' = MemoAfterInvalidation(p)
            /\ dependency' = RemoveDependencies(dependency, p)
            /\ reference' = UpdateReferenceGraph(reference, p)
            /\ dangling' = (dangling \cup {q \in Pos : p \in Refs(content[q])}) \ {p}
       ELSE UNCHANGED <<content, memo, reference, dependency, dangling>>
  /\ reply' = Ok
-----------------------------------------------------------------------------
(* Reads.                                                                   *)

\* The cells that reading p evaluates: p and, from each cell evaluated, the
\* cells it names, stopping at those whose cache is valid.
Evaluated(p) ==
  IF Valid(p) THEN {}
  ELSE Reach([q \in Pos |-> {r \in Refs(content[q]) : ~ Valid(r)}], p)

\* Evaluating a formula that points to a freed cell reads freed memory.
ReadsFreed(S) == \E p \in S : Evaluated(p) \cap dangling # {}

\* Reading the cells of S fills the caches of all that is evaluated, each one
\* from the values of the cells it names.
MemoAfterReads(S) ==
  LET E == UNION {Evaluated(p) : p \in S}
      Filled == {[q \in Pos |-> IF q \in E THEN v[q] ELSE memo[q]] : v \in [E -> Value]}
  IN  {m \in Filled : \A q \in E : m[q] = CellValue(content[q], m)}

Read(S, Result(_)) ==
  /\ \/ /\ ReadsFreed(S)
        /\ reply' = Undefined
        /\ UNCHANGED memo
     \/ /\ ~ ReadsFreed(S)
        /\ memo' \in MemoAfterReads(S)
        /\ reply' = Result(memo')
  /\ UNCHANGED <<content, reference, dependency, dangling>>

\* GetCell(p)->GetValue().
GetValue(p) ==
  /\ Exists(p)
  /\ Read({p}, LAMBDA m : m[p])

\* IFormula::Evaluate on a formula of the user's own: its tree holds no
\* pointers, looks its cells up, and counts a missing one as zero.
Evaluate(f) ==
  Read({r \in Refs(f) : Exists(r)},
       LAMBDA m : FormulaValue(f, [q \in Pos |-> IF Exists(q) THEN m[q] ELSE 0]))
-----------------------------------------------------------------------------
\* No call is described after undefined behaviour.
Next ==
  /\ reply # Undefined
  /\ \/ \E p \in Pos : \/ \E t \in Texts : SetText(p, t)
                       \/ \E f \in Formulas : \E asPrinted \in BOOLEAN :
                            SetFormula(p, f, asPrinted)
                       \/ ClearCell(p)
                       \/ GetValue(p)
     \/ \E f \in Formulas : Evaluate(f)

Spec == Init /\ [][Next]_vars
-----------------------------------------------------------------------------
(* Properties.                                                              *)

\* Every variable has its type; a position without a cell has no value, and a
\* formula never caches a string (ImpFormula::Evaluate turns it into #VALUE!).
TypeOK ==
  /\ content \in [Pos -> Content]
  /\ memo \in [Pos -> Value \cup {Invalid}]
  /\ reference \in Graph
  /\ dependency \in Graph
  /\ dangling \subseteq Pos
  /\ reply \in Value \cup {Ok, CircularDependency, Undefined}
  /\ \A q \in Pos : IsFormula(content[q]) => memo[q] \notin Words

\* The edges the contents say there are.
References == [q \in Pos |-> Refs(content[q])]

\* Both graphs are what the formulas say: reference_graph[q] is what q names,
\* dependency_graph[q] is who names q.  InvalidateDependencyGraph relies on it
\* when it dereferences each dependent without a check.
GraphsAgree ==
  /\ reference = References
  /\ dependency = [q \in Pos |-> {d \in Pos : q \in Refs(content[d])}]

\* No sequence of calls makes the formulas refer to each other in a cycle, which
\* GetValue would follow until the stack ends.
NoCycle == Acyclic(References)

\* Only formulas hold pointers, and one that holds no freed pointer names only
\* cells that exist.
PointersLive ==
  /\ \A q \in dangling : IsFormula(content[q])
  /\ \A q \in Pos \ dangling : \A r \in Refs(content[q]) : Exists(r)

\* A valid cache belongs to a cell, was computed without freed pointers, and
\* agrees with valid caches of the cells it names.  So an invalid cell has no
\* valid dependent: this is what lets invalidation stop at an invalid cell.
CacheCoherent ==
  \A q \in Pos : Valid(q) =>
    /\ Exists(q) /\ q \notin dangling
    /\ \A r \in Refs(content[q]) : Valid(r)
    /\ memo[q] = CellValue(content[q], memo)

\* The values D's contents determine.
Solves(v, D) ==
  /\ Closed(References, D)
  /\ \A q \in D : v[q] \in Value /\ v[q] = CellValue(content[q], v)

\* No stale value: whatever is cached is the value that evaluating the contents
\* from nothing gives, through any number of references.
CacheFresh ==
  \A D \in SUBSET Pos : \A v \in [D -> Value] :
    Solves(v, D) => \A q \in D : Valid(q) => memo[q] = v[q]

\* A read that touches no freed cell has one result: evaluation ends, and does
\* not depend on which caches happen to be filled.
ReadsDetermined ==
  \A p \in Pos :
    Exists(p) /\ ~ ReadsFreed({p}) =>
      \E m \in MemoAfterReads({p}) : MemoAfterReads({p}) = {m}

\* A call either drops no cached value or drops exactly those of the cells that
\* depend on one cell, directly or not; it never replaces one by another.
InvalidationExact ==
  [][\/ \A q \in Pos : Valid(q) => memo'[q] = memo[q]
     \/ \E p \in Pos : \A q \in Pos : Valid(q) =>
          memo'[q] = IF p \in Reach(References, q) THEN Invalid ELSE memo[q]]_vars

\* The engine keeps the promise of the sheet: caches, graphs and pointers
\* never show in a reply, except through a formula with a freed pointer.
Promise == INSTANCE SheetSpec WITH contents <- content, severed <- dangling
KeepsPromise == Promise!Spec

\* What the documentation says: reading never meets a cell that is not there,
\* for an empty cell counts as zero (formula.h:13-14).
ReadsAreDefined == reply # Undefined
=============================================================================
