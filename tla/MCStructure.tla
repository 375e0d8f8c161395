----------------------------- MODULE MCStructure -----------------------------
(* Instances of Structure.                                                  *)

EXTENDS Structure

At(r, c) == [row |-> r, col |-> c]

\* Rows and columns that begin at the edge and that do not, and a row between.
Diagonal == {At(0, 0), At(1, 0), At(1, 1), At(2, 1)}
=============================================================================
