------------------------ MODULE MCConcurrentRuntime -------------------------
(***************************************************************************)
(* A few actors for TLC.                                                   *)
(***************************************************************************)
EXTENDS ConcurrentRuntime

CONSTANTS a, b, c
=============================================================================
