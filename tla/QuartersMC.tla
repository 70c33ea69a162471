----------------------------- MODULE QuartersMC -----------------------------
(***************************************************************************)
(* An instance of Quarters: matrices of four rows that do not commute, with*)
(* negative numbers (a character is signed), for which every quarter and   *)
(* every operand is different.                                             *)
(***************************************************************************)
EXTENDS Quarters

MCa == [i \in 1..4 |-> [j \in 1..4 |-> 4 * i + j]]
MCb == [i \in 1..4 |-> [j \in 1..4 |-> IF i + 1 = j THEN 1 ELSE IF i = j THEN 2 ELSE IF i > j THEN -i ELSE 0]]
MCInputs == {<<MCa, MCb>>}

\* A wrong second operand and a wrong quarter.
Zeros(rows, columns) == [i \in 1..rows |-> [j \in 1..columns |-> 0]]
MCGarbage == { [mat |-> Zeros(4, 2), size |-> 3], [mat |-> Zeros(2, 2), size |-> 3] }
=============================================================================
