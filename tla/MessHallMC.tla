----------------------------- MODULE MessHallMC -----------------------------
(***************************************************************************)
(* Small instances of MessHall for TLC.                                    *)
(***************************************************************************)
EXTENDS MessHall, TLC

CONSTANTS c1, c2, c3, u1, u2, u3, g1, g2    \* cooks, undergraduates, graduates

Symmetry == Permutations({c1, c2, c3}) \cup Permutations({u1, u2, u3}) \cup Permutations({g1, g2})
=============================================================================
