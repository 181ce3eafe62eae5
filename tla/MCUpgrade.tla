----------------------------- MODULE MCUpgrade ------------------------------
(***************************************************************************)
(* A root supervisor over a supervisor with a worker, for TLC.             *)
(***************************************************************************)
EXTENDS Upgrade, TLC

CONSTANTS top, sub, w1

Chain    == (top :> <<sub>>) @@ (sub :> <<w1>>)
Mistaken == {{sub}, {}, {sub, w1}}
=============================================================================
