----------------------------- MODULE MCMailbox ------------------------------
(***************************************************************************)
(* A small mailbox for TLC: two user slots and a reserve of one, one       *)
(* pending call, one timer, both kinds of signal-like traffic.             *)
(***************************************************************************)
EXTENDS Mailbox

CONSTANTS r1, t1, none

Env(kind, ref) == [kind |-> kind, ref |-> ref]

MCOffers ==
  {Env("User", none), Env("Request", none), Env("Reply", r1),
   Env("CallTimeout", r1), Env("Timer", t1), Env("Down", none),
   Env("System", "Suspend"), Env("System", "Resume")}

\* Wait for the reply or the timeout of the call; take user mail only.
MCWants ==
  {{Env("Reply", r1), Env("CallTimeout", r1)}, {Env("User", none)}}
=============================================================================
