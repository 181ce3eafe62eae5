---------------------------- MODULE MCSupervisor ----------------------------
(***************************************************************************)
(* Small supervisors for TLC.                                              *)
(***************************************************************************)
EXTENDS Supervisor, TLC

CONSTANTS c1, c2, c3

ThreeChildren == <<c1, c2, c3>>

AllPermanent == [x \in Child |-> "Permanent"]
MixedRestart == (c1 :> "Transient") @@ [x \in Child |-> "Permanent"]
Timeouts     == [x \in Child |-> "Timeout"]
MixedShutdown == (c1 :> "BrutalKill") @@ [x \in Child |-> "Timeout"]

OneForOne(n, p)  == [strategy |-> "OneForOne", intensity |-> n, period |-> p]
OneForAll(n, p)  == [strategy |-> "OneForAll", intensity |-> n, period |-> p]
RestForOne(n, p) == [strategy |-> "RestForOne", intensity |-> n, period |-> p]

OneForAll1  == OneForAll(1, 1)
OneForAll3  == OneForAll(3, 1)
RestForOne1 == RestForOne(1, 1)

\* A shorter period, the same one and a longer one.
NewFlags == {OneForAll(0, 0), OneForOne(2, 1), OneForOne(1, 2)}
=============================================================================
