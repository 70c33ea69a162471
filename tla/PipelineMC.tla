----------------------------- MODULE PipelineMC -----------------------------
(***************************************************************************)
(* An instance of Pipeline: lengths with which P1 finds the end of the     *)
(* lines after an even and an odd number of characters, followed by many   *)
(* spaces, by a single one and by none.                                    *)
(***************************************************************************)
EXTENDS Pipeline

MCLength == <<4, 3, 3, 5>>
MCOutside == {"P1", "P2"} \X {"INT", "TERM"}
NoSignal == {}
=============================================================================
