------------------------------ MODULE ExprText ------------------------------
(* The text of a formula: how FormulaCustomListener builds the tree of a    *)
(* formula from its text, how GetExpression prints the tree again, and what *)
(* tree and text are worth.                                                 *)
(*                                                                          *)
(* The tree keeps no brackets.  ast.cpp puts back those that it takes to be *)
(* needed, going by a node's operator, that of its parent and the side it   *)
(* is on; what is needed is decided by the grammar, in another file.        *)
(*                                                                          *)
(* A text is a sequence of tokens.  Numbers are the field of the integers   *)
(* modulo P, where a/b is exact and the laws of arithmetic by which some    *)
(* brackets go hold; rounding and overflow of doubles are left out.         *)

EXTENDS Integers, SequencesExt

CONSTANTS NumCells,  \* how many cells a formula may name
          P,         \* a prime
          Word,      \* a text that is no number
          ValueError, RefError, DivError,
          CellVals,  \* what a cell may be worth
          MaxNodes   \* bound on the nodes of a tree

\* The cells, in the order a formula names them.
Cells == SubSeq(<<"A1", "B1", "C1", "D1">>, 1, NumCells)

Error == {ValueError, RefError, DivError}

ASSUME ExprAssumption ==
  /\ P \in Nat /\ \A n \in 2 .. P - 1 : P % n # 0
  /\ CellVals \subseteq (0 .. P - 1) \cup Error \cup {Word}
  /\ MaxNodes \in Nat /\ NumCells \in 1 .. 4

Sum == {"+", "-"}
Product == {"*", "/"}
Operator == Sum \cup Product

\* A literal of more than six significant digits, and what is printed of it.
Short == "2"
Long == "1234567"
Rounded == "1.23457e+06"
LiteralValue == [l \in {Short, Long, Rounded} |->
                   IF l = Short THEN 2 ELSE IF l = Long THEN 3 ELSE 4]

VARIABLE st   \* the listener's stack of trees, the top last

Node(sym, kids) == [sym |-> sym, kids |-> kids]
Leaf(sym) == Node(sym, <<>>)
IsLeaf(t) == t.kids = <<>>
IsUnary(t) == Len(t.kids) = 1
IsBinary(t) == Len(t.kids) = 2
-----------------------------------------------------------------------------
(* The listener: one handler for each kind of node the parser has read, the *)
(* children first.  Brackets have none.                                     *)

exitLeaf(s, sym) == Append(s, Leaf(sym))

exitUnaryOp(s, op) == Append(Front(s), Node(op, <<Last(s)>>))

\* (Faulty: the operands in the order they leave the stack.)
exitSwapped(s, op) == Append(Front(Front(s)), Node(op, <<Last(s), Last(Front(s))>>))

exitBinaryOp(s, op) == Append(Front(Front(s)), Node(op, <<Last(Front(s)), Last(s)>>))
-----------------------------------------------------------------------------
(* Printing.                                                                *)

\* (Faulty: a product on the right needs brackets under both operators.)
RightProductAlways(t, place, parent) ==
  /\ IsBinary(t)
  /\ IF t.sym \in Sum
     THEN place = "son" \/ parent \in Product \/ (place = "right" /\ parent = "-")
     ELSE place = "right" /\ parent \in Product

\* (Faulty: a product on the right of "/" is printed bare.)
RightProductNever(t, place, parent) ==
  /\ IsBinary(t)
  /\ t.sym \in Sum
  /\ place = "son" \/ parent \in Product \/ (place = "right" /\ parent = "-")

\* print_as_son, print_as_left_son and print_as_right_son: whether t gets
\* brackets as a child of parent.  Leaves and unary operations never do.
InBrackets(t, place, parent) ==
  /\ IsBinary(t)
  /\ IF t.sym \in Sum
     THEN place = "son" \/ parent \in Product \/ (place = "right" /\ parent = "-")
     ELSE place = "right" /\ parent = "/"

\* os << num prints six significant digits.
PrintLeaf(sym) == IF sym = Long THEN Rounded ELSE sym

RECURSIVE GetExpression(_)
GetExpression(t) ==
  LET AsChild(kid, place) ==
        IF InBrackets(kid, place, t.sym) THEN <<"(">> \o GetExpression(kid) \o <<")">> ELSE GetExpression(kid)
  IN  CASE IsLeaf(t) -> <<PrintLeaf(t.sym)>>
        [] IsUnary(t) -> <<t.sym>> \o AsChild(t.kids[1], "son")
        [] IsBinary(t) -> AsChild(t.kids[1], "left") \o <<t.sym>> \o AsChild(t.kids[2], "right")
-----------------------------------------------------------------------------
(* Parsing.                                                                 *)

Depth(s, i) == Cardinality({j \in 1 .. i : s[j] = "("}) - Cardinality({j \in 1 .. i : s[j] = ")"})

\* The binary operators among ops outside of all brackets: an operator is a
\* unary one at the beginning and after another operator.
Outer(s, ops) ==
  {i \in 2 .. Len(s) : s[i] \in ops /\ Depth(s, i) = 0 /\ s[i - 1] \notin Operator \cup {"("}}

\* Formula.g4, whose alternatives are in the order of their precedence: brackets,
\* unary operators, products, sums; operators of one kind associate to the left.
\* The walk calls the listener for the children of a node and then for the node.
RECURSIVE Walk(_, _)
Walk(s, stack) ==
  LET Split(i) == exitBinaryOp(Walk(SubSeq(s, i + 1, Len(s)), Walk(SubSeq(s, 1, i - 1), stack)), s[i])
  IN  CASE Outer(s, Sum) # {} -> Split(Max(Outer(s, Sum)))
        [] Outer(s, Sum) = {} /\ Outer(s, Product) # {} -> Split(Max(Outer(s, Product)))
        [] Outer(s, Operator) = {} /\ s[1] \in Sum -> exitUnaryOp(Walk(Tail(s), stack), s[1])
        [] Outer(s, Operator) = {} /\ s[1] = "(" -> Walk(SubSeq(s, 2, Len(s) - 1), stack)
        [] OTHER -> exitLeaf(stack, s[1])

\* GetAstRoot.
Parse(s) == Last(Walk(s, <<>>))
-----------------------------------------------------------------------------
(* Evaluation.                                                              *)

\* AddOp, SubOp, MulOp and DivOp.
Arithmetic(op, x, y) ==
  CASE op = "+" -> (x + y) % P
    [] op = "-" -> (x - y) % P
    [] op = "*" -> (x * y) % P
    [] op = "/" /\ y = 0 -> DivError
    [] op = "/" /\ y # 0 -> CHOOSE z \in 0 .. P - 1 : (z * y) % P = x

\* AstUnary::evaluate.
Unary(op, x) ==
  IF x \in Error THEN x ELSE IF x = Word THEN ValueError ELSE IF op = "-" THEN (-x) % P ELSE x

\* AstBinary::evaluate: the left error first.
Binary(op, x, y) ==
  IF x \in Error THEN x
  ELSE IF y \in Error THEN y
  ELSE IF Word \in {x, y} THEN ValueError
  ELSE Arithmetic(op, x, y)

RECURSIVE Evaluate(_, _)
Evaluate(t, val) ==
  CASE IsLeaf(t) /\ t.sym \in DOMAIN LiteralValue -> LiteralValue[t.sym]
    [] IsLeaf(t) /\ t.sym \in DOMAIN val -> val[t.sym]
    [] IsUnary(t) -> Unary(t.sym, Evaluate(t.kids[1], val))
    [] IsBinary(t) -> Binary(t.sym, Evaluate(t.kids[1], val), Evaluate(t.kids[2], val))
-----------------------------------------------------------------------------
RECURSIVE Leaves(_), Size(_)
Leaves(t) == IF IsLeaf(t) THEN <<t.sym>> ELSE FlattenSeq([i \in DOMAIN t.kids |-> Leaves(t.kids[i])])
Size(t) == 1 + FoldSeq(LAMBDA kid, n : n + Size(kid), 0, t.kids)

\* The nodes a tree made of the stack has at least.
Nodes(s) == FoldSeq(LAMBDA t, n : n + Size(t), 0, s) + Len(s) - 1

\* Every formula is read once, with its cells in the order of Cells.
NextCell == Cells[1 + Len(SelectSeq(FlattenSeq([i \in DOMAIN st |-> Leaves(st[i])]),
                                    LAMBDA sym : sym \in ToSet(Cells)))]
CellLeft == Len(SelectSeq(FlattenSeq([i \in DOMAIN st |-> Leaves(st[i])]),
                          LAMBDA sym : sym \in ToSet(Cells))) < Len(Cells)

Init == st = <<>>

Next ==
  /\ \/ CellLeft /\ st' = exitLeaf(st, NextCell)
     \/ \E l \in {Short, Long} : st' = exitLeaf(st, l)
     \/ \E op \in Sum : st # <<>> /\ st' = exitUnaryOp(st, op)
     \/ \E op \in Operator : Len(st) > 1 /\ st' = exitBinaryOp(st, op)
  /\ Nodes(st') <= MaxNodes

Spec == Init /\ [][Next]_st
-----------------------------------------------------------------------------
(* Properties, of the tree built last.                                      *)

Valuations == [ToSet(Cells) -> CellVals]

\* Which of several errors comes out is left open (formula.h:30-33).
SameWorth(t, u) ==
  \A val \in Valuations :
    \/ Evaluate(t, val) = Evaluate(u, val)
    \/ {Evaluate(t, val), Evaluate(u, val)} \subseteq Error

\* Printing is stable: the text a cell shows, typed again, is shown again.
\* CreateCell compares texts to tell whether a formula is new.
PrintStable == st # <<>> => LET s == GetExpression(Last(st)) IN GetExpression(Parse(s)) = s

RECURSIVE Subtrees(_)
Subtrees(t) == {t} \cup UNION {Subtrees(t.kids[i]) : i \in DOMAIN t.kids}

\* A product below one or more unary operators.
RECURSIVE SignedProduct(_)
SignedProduct(t) ==
  IsUnary(t) /\ (SignedProduct(t.kids[1]) \/ (IsBinary(t.kids[1]) /\ t.kids[1].sym \in Product))

DividesBySigned(t) == t.sym = "/" /\ SignedProduct(t.kids[2])

\* The printed text, read again by the grammar, is worth what the tree is,
\* whatever the cells hold, although brackets are left out and the
\* tree that is read may be another.  Two cases are not so: a quotient whose
\* divisor is a product under a sign, and a literal of too many digits.
SameValue ==
  st # <<>> /\ (\A t \in Subtrees(Last(st)) : t.sym # Long /\ ~ DividesBySigned(t))
    => SameWorth(Parse(GetExpression(Last(st))), Last(st))

\* The pairs of brackets of a text.
Brackets(s) ==
  {<<i, j>> \in (1 .. Len(s)) \X (1 .. Len(s)) :
     /\ i < j /\ s[i] = "(" /\ s[j] = ")"
     /\ Depth(s, j) = Depth(s, i) - 1
     /\ \A k \in i .. j - 1 : Depth(s, k) >= Depth(s, i)}

Without(s, pair) == RemoveAt(RemoveAt(s, pair[2]), pair[1])

AfterSign(s, i) == i > 1 /\ s[i - 1] \in Sum /\ (i = 2 \/ s[i - 2] \in Operator \cup {"("})

\* No spare brackets (formula.h:36-37): without any one pair the text is worth
\* something else.  Left out are the brackets after a sign, which main.cpp:191
\* expects although +(a-b) could do without, and formulas with literals, which
\* may happen to be 0 or 1.
NoSpareBrackets ==
  st # <<>> /\ ToSet(Leaves(Last(st))) \subseteq ToSet(Cells) =>
    LET s == GetExpression(Last(st))
    IN  \A pair \in Brackets(s) :
          AfterSign(s, pair[1]) \/ ~ SameWorth(Parse(Without(s, pair)), Parse(s))

\* What formula.h:36-37 says of GetExpression: it describes the formula.
DescribesFormula == st # <<>> => SameWorth(Parse(GetExpression(Last(st))), Last(st))
=============================================================================
