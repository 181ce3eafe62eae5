-------------------------------- MODULE Calls -------------------------------
(***************************************************************************)
(* What a call promises its caller, however often it is answered and by    *)
(* whom.  The first answer ends the call's deadline, also one for which    *)
(* the caller's mailbox had no room: from then on no word comes that the   *)
(* deadline has passed, and that word comes once at most.  An answer that  *)
(* found room is received.  After one that was refused another may come,   *)
(* or nothing at all.  An answer that comes after the deadline is still    *)
(* handed over.  Further answers change nothing.                           *)
(***************************************************************************)
CONSTANT Ref

VARIABLE call

Outcome == {"idle", "open", "timed", "lost", "replied", "answered", "expired",
            "late", "gone"}

Init == call = [r \in Ref |-> "idle"]

Step(r, from, to) ==
  /\ call[r] \in from
  /\ call' = [call EXCEPT ![r] = to]

Ask(r) == Step(r, {"idle"}, "open") \/ Step(r, {"idle"}, "timed")

\* An answer is on its way, and one that was refused.
Reply(r) == Step(r, {"open", "timed", "lost"}, "replied")
Lose(r)  == Step(r, {"open", "timed"}, "lost")

Receive(r) == Step(r, {"replied"}, "answered") \/ Step(r, {"expired"}, "late")

Expire(r) == Step(r, {"timed"}, "expired")

\* The caller exits.
Forget == call' = [r \in Ref |-> "gone"]

Next ==
  \/ \E r \in Ref : Ask(r) \/ Reply(r) \/ Lose(r) \/ Receive(r) \/ Expire(r)
  \/ Forget

\* A call with a deadline ends, and so does one with an answer on its way.
Spec ==
  /\ Init /\ [][Next]_call
  /\ \A r \in Ref :
       WF_call(\/ call[r] = "timed" /\ (Reply(r) \/ Lose(r) \/ Expire(r))
               \/ call[r] = "replied" /\ Receive(r)
               \/ call[r] \in {"timed", "replied"} /\ Forget)
=============================================================================
