--------------------------- MODULE MCLocalRuntime ---------------------------
(***************************************************************************)
(* A few actors of the local runtime for TLC.                              *)
(***************************************************************************)
EXTENDS LocalRuntime

CONSTANTS a1, a2, a3
=============================================================================
