---------------------------- MODULE MCBehaviours ----------------------------
(***************************************************************************)
(* One call, one timer token and one job, for TLC.                         *)
(***************************************************************************)
EXTENDS Behaviours

CONSTANTS t, q, j
=============================================================================
