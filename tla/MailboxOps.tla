----------------------------- MODULE MailboxOps -----------------------------
(***************************************************************************)
(* The envelopes of lamport and the pure operations of a mailbox: which    *)
(* envelopes may use the slots reserved for the runtime, when a mailbox    *)
(* refuses an envelope, and which queued envelope a receive claims.        *)
(*                                                                         *)
(* A queue is a sequence of entries [seq, kind, ref].  The payload of an   *)
(* envelope is left out; ref is the call reference of a Reply or a         *)
(* CallTimeout, the token of a Timer and the request of a System message.  *)
(* A receive is a relation between a queue and the index it claims, not a  *)
(* function: the code searches with Iterator::position and takes the first *)
(* hit, or nothing.                                                        *)
(***************************************************************************)
EXTENDS Naturals, Sequences, FiniteSets

EnvelopeKind ==
  {"User", "Request", "Reply", "Task", "CallTimeout", "Exit", "Down",
   "Timer", "System"}

\* Everything but application traffic may use the reserved slots.
UsesRuntimeReserve(kind) == kind \notin {"User", "Request"}

IsSystemMessage(env) == env.kind = "System"

CanRunWhileSuspended(env) == env.kind \in {"System", "Exit", "Down"}

BypassesUserSelectiveReceive(env) == env.kind \in {"System", "Exit", "Down"}

\* The limits a mailbox really gets from the ones it was asked for.
EffectiveCapacity(capacity) == IF capacity = 0 THEN 1 ELSE capacity

EffectiveReserve(capacity, reserve) ==
  IF reserve < EffectiveCapacity(capacity)
  THEN reserve
  ELSE EffectiveCapacity(capacity) - 1

\* Faulty: the two branches of the limit are swapped.
IsFullForSwapped(queue, kind, capacity, reserve, unbounded) ==
  /\ capacity # unbounded
  /\ Len(queue) >= IF UsesRuntimeReserve(kind) THEN capacity - reserve
                                               ELSE capacity

\* usize::MAX stands for "unbounded"; reserve is below capacity, so the
\* saturating subtraction of the code is an ordinary one.
IsFullFor(queue, kind, capacity, reserve, unbounded) ==
  /\ capacity # unbounded
  /\ Len(queue) >= IF UsesRuntimeReserve(kind) THEN capacity
                                               ELSE capacity - reserve

(* A search names the positions it accepts; the code scans from the front. *)

SystemMessages(queue) == {i \in DOMAIN queue : IsSystemMessage(queue[i])}

RunnableWhileSuspended(queue) ==
  {i \in DOMAIN queue : CanRunWhileSuspended(queue[i])}

Bypassing(queue) ==
  {i \in DOMAIN queue : BypassesUserSelectiveReceive(queue[i])}

\* Faulty: any hit is taken, not the first one.
FirstMatchAnywhere(matches, i) == i \in matches

\* i is the first of the matching positions.
FirstMatch(matches, i) == i \in matches /\ \A j \in matches : i <= j

AnyMatching(matches) == matches # {}

RemoveEntry(queue, i) ==
  [j \in 1..(Len(queue) - 1) |-> queue[IF j < i THEN j ELSE j + 1]]

\* Faulty: pops from the back of the queue.
TakesNextFromBack(queue, suspended, i) ==
  \/ /\ suspended
     /\ FirstMatch(RunnableWhileSuspended(queue), i)
  \/ /\ ~suspended
     /\ \/ FirstMatch(SystemMessages(queue), i)
        \/ /\ ~AnyMatching(SystemMessages(queue))
           /\ i = Len(queue)
           /\ queue # <<>>

\* What receive_next claims: a suspended actor sees control traffic only;
\* otherwise System messages come before everything else, oldest first.
TakesNext(queue, suspended, i) ==
  \/ /\ suspended
     /\ FirstMatch(RunnableWhileSuspended(queue), i)
  \/ /\ ~suspended
     /\ \/ FirstMatch(SystemMessages(queue), i)
        \/ /\ ~AnyMatching(SystemMessages(queue))
           /\ i = 1
           /\ queue # <<>>

\* What receive_selective and receive_selective_after claim: control traffic
\* first, then the first wanted entry that is not older than the watermark.
\* Watermark 0 is the plain receive_selective: no sequence is below it.
TakesSelective(queue, suspended, watermark, want, i) ==
  LET Wanted ==
        {j \in DOMAIN queue \ Bypassing(queue) :
           /\ queue[j].seq >= watermark
           /\ [kind |-> queue[j].kind, ref |-> queue[j].ref] \in want}
  IN  \/ /\ suspended
         /\ FirstMatch(RunnableWhileSuspended(queue), i)
      \/ /\ ~suspended
         /\ \/ FirstMatch(Bypassing(queue), i)
            \/ /\ ~AnyMatching(Bypassing(queue))
               /\ FirstMatch(Wanted, i)
=============================================================================
