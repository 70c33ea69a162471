------------------------------- MODULE RowsMC -------------------------------
(***************************************************************************)
(* An instance of Rows: rows of three characters.                          *)
(***************************************************************************)
EXTENDS Rows, TLC

CONSTANTS a1, a2, b1, b2

MCChunks == (a1 :> 2) @@ (a2 :> 1)
ThreeChunks == [a \in As |-> 3]
=============================================================================
