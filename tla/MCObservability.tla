--------------------------- MODULE MCObservability --------------------------
(***************************************************************************)
(* One traced actor with a host that controls it and one that reads the    *)
(* log, and a parent and a child with an observer and a waiter, for TLC.   *)
(***************************************************************************)
EXTENDS Observability

CONSTANTS root, kid

Family == [x \in {root, kid} |-> IF x = kid THEN root ELSE Nobody]

Together ==
  {{root, "control", "reader", "mail"}, {root, kid, "observer", "exits"},
   {root, kid, "waiter", "mail"}, {root, "waiter", "scheduler", "exits"}}
=============================================================================
