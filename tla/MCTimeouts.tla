----------------------------- MODULE MCTimeouts -----------------------------
(***************************************************************************)
(* A timer token with a call, and a job with a shutdown, for TLC.           *)
(***************************************************************************)
EXTENDS Timeouts

CONSTANTS t, r, j, stop

Together == {{t, r}, {j, stop}}
=============================================================================
