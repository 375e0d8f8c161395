------------------------------ MODULE MCRecalc ------------------------------
(* Recalc on three cells.                                                   *)

EXTENDS Recalc

CONSTANTS a, b, c, word

MCRendered == [w \in Words |-> word]

Op(o, x, y) == [kind |-> "formula", op |-> o, args |-> <<x, y>>]

\* References in every direction, a sum and a quotient, and one of no cell:
\* chains of two references, and two paths that meet again.
ChainFormulas == Literal \cup Reference \cup {Op("div", a, b), Op("add", c, b)}
=============================================================================
