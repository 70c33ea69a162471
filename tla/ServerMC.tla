------------------------------ MODULE ServerMC ------------------------------
(***************************************************************************)
(* Small instances of Server for TLC.                                      *)
(***************************************************************************)
EXTENDS Server, TLC

CONSTANTS h1, h2, h3, h4, h5,     \* handlers, interchangeable
          c1, c2, c3              \* clients, interchangeable

ThreadSymmetry == Permutations(Handlers) \cup Permutations(Clients)
=============================================================================
