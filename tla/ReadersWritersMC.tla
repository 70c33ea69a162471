-------------------------- MODULE ReadersWritersMC --------------------------
(***************************************************************************)
(* Small instances of ReadersWriters for TLC.                              *)
(***************************************************************************)
EXTENDS ReadersWriters, TLC

CONSTANTS h1, h2, h3     \* threads, interchangeable

MCNodes == 0..2
OneList == {<<0, 1>>, <<0, 2>>}     \* two pairs kept in the same list
OnePair == {<<0, 1>>}               \* everybody asks for the same path

ThreadSymmetry == Permutations({h1, h2, h3})
=============================================================================
