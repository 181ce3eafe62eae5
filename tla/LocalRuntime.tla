---------------------------- MODULE LocalRuntime ----------------------------
(***************************************************************************)
(* The local runtime: every actor in one thread, driven by the host        *)
(* through run_once.                                                       *)
(*                                                                         *)
(* An actor that runs is taken out of the table (take_actor) and put back  *)
(* at the end of its turn.  A forced exit finalizes its target on the spot *)
(* (force_exit, finish_actor): the target's terminate hook runs, then its  *)
(* watchers and peers are told, and each of them may be forced out in turn *)
(* before the call returns.  So there is a stack of actors that are out of *)
(* the table, and "stack" is it, innermost last.  A frame is               *)
(*   init, turn init or a handler runs; reason is effects.exit_reason,     *)
(*   terminate  the terminate hook runs; reason is that of the exit,       *)
(*   telling    watchers and peers are being told.                         *)
(* waits is the linked actor whose shutdown the handler has asked for and  *)
(* whose exit it has to learn of by itself (shutdown_actor).               *)
(*                                                                         *)
(* Actor code makes any runtime calls (MaxCalls altogether, with the       *)
(* host's).  Timers, calls, names and payloads are left out; ids are never *)
(* reused.                                                                 *)
(***************************************************************************)
EXTENDS MailboxOps

CONSTANTS
  Actor,      \* actor ids
  Root,       \* actors the host has spawned
  Trapping,   \* actors spawned with trap_exit
  Reason,     \* exit reasons an actor or the host may choose
  Policy,     \* shutdown policies in use
  Capacity,   \* mailbox capacity; RuntimeReserve of it for runtime mail
  RuntimeReserve,
  Unbounded,  \* usize::MAX
  MaxCalls    \* bound: runtime calls; also monitor references

None == "None"

ASSUME ActorAssumption ==
  /\ Root \subseteq Actor /\ Trapping \subseteq Actor
  /\ IsFiniteSet(Root) /\ None \notin Actor

ASSUME ChoiceAssumption ==
  /\ Reason \subseteq {"Normal", "Shutdown", "Kill", "Error"}
  /\ Policy \subseteq {"BrutalKill", "Timeout", "Infinity"}

ASSUME BoundAssumption ==
  /\ Capacity \in Nat \ {0} /\ RuntimeReserve \in 0..(Capacity - 1)
  /\ Unbounded \in Nat /\ MaxCalls \in Nat

ExitReason == {"Normal", "Shutdown", "Kill", "Error"}
Ref        == 1..MaxCalls

VARIABLES
  place,      \* "unborn", "fresh" or "table" (in the table, init to come or
              \* done), "running" (on the stack), "gone"
  mailbox,    \* ActorState::mailbox
  scheduled,  \* ActorState::scheduled
  suspended,  \* ActorState::suspended
  trap,       \* ActorState::trap_exit
  links,      \* ActorState::links
  monOut,     \* ActorState::monitors_out, as a set of [ref, peer]
  monIn,      \* ActorState::monitors_in
  runQueue,   \* LocalRuntime::run_queue
  stack,      \* the actors out of the table, innermost last
  tracker,    \* LocalRuntime::shutdown_tasks: the policy, or None
  sleeping,   \* actors whose shutdown timer has not elapsed
  channel,    \* the driver channel: ShutdownTimedOut events
  calls,      \* number of runtime calls made
  deaf        \* history: actors passed over while they were out of the table

box      == <<mailbox, scheduled, runQueue>>
bonds    == <<links, monOut, monIn>>
shutdown == <<tracker, sleeping, channel>>
vars     == <<place, box, suspended, trap, bonds, stack, shutdown, calls,
              deaf>>

Exit       == [kind |-> "Exit"]
Down       == [kind |-> "Down"]
User       == [kind |-> "User"]
System(on) == [kind |-> "System", suspend |-> on]

Frame(a, op, reason) ==
  [actor |-> a, op |-> op, reason |-> reason, watchers |-> {}, peers |-> {},
   waits |-> None]

InTable(a) == place[a] \in {"fresh", "table"}
Top        == stack[Len(stack)]
Below      == SubSeq(stack, 1, Len(stack) - 1)

Init ==
  /\ place = [a \in Actor |-> IF a \in Root THEN "fresh" ELSE "unborn"]
  /\ mailbox = [a \in Actor |-> <<>>]
  /\ scheduled = [a \in Actor |-> a \in Root]
  /\ suspended = [a \in Actor |-> FALSE]
  /\ trap = [a \in Actor |-> a \in Trapping]
  /\ links = [a \in Actor |-> {}]
  /\ monOut = [a \in Actor |-> {}]
  /\ monIn = [a \in Actor |-> {}]
  /\ runQueue \in {q \in [1..Cardinality(Root) -> Root] :
                     \A a \in Root : \E i \in DOMAIN q : q[i] = a}
  /\ stack = <<>>
  /\ tracker = [a \in Actor |-> None]
  /\ sleeping = {}
  /\ channel = <<>>
  /\ calls = 0
  /\ deaf = {}
-----------------------------------------------------------------------------
(* Delivery and forced exits.  An operator with a parameter s makes s the  *)
(* stack, or s with one more actor on it.                                  *)

IsFull(to, env) ==
  IsFullFor(mailbox[to], env.kind, Capacity, RuntimeReserve, Unbounded)

\* push_envelope and mark_scheduled; an actor in its terminate hook is not
\* scheduled any more.
Deliver(to, env) ==
  LET marks == ~scheduled[to] /\ (InTable(to) \/ Top.op # "terminate")
  IN  /\ mailbox' = [mailbox EXCEPT ![to] = Append(@, env)]
      /\ scheduled' = [scheduled EXCEPT ![to] = @ \/ marks]
      /\ runQueue' = IF marks THEN Append(runQueue, to) ELSE runQueue

ForceExit(s, to, reason) ==
  /\ stack' = Append(s, Frame(to, "terminate", reason))
  /\ place' = [place EXCEPT ![to] = "running"]
  /\ UNCHANGED box

\* enqueue_runtime_envelope, and the same steps in notify_incoming_monitors.
EnqueueRuntimeEnvelope(s, to, env) ==
  \/ /\ ~IsFull(to, env)
     /\ Deliver(to, env)
     /\ stack' = s
     /\ UNCHANGED place
  \/ /\ IsFull(to, env)
     /\ ForceExit(s, to, "Error")

\* classify_exit_signal, for a signal that comes over a link.
Classify(trapping, reason) ==
  IF reason = "Kill" \/ (~trapping /\ reason # "Normal") THEN "KillNow"
  ELSE IF ~trapping THEN "Ignore" ELSE "Enqueue"

\* An actor that is out of the table is passed over.
PropagateLinkExit(s, to, reason) ==
  LET d == Classify(trap[to], reason)
  IN  \/ /\ InTable(to) /\ d = "KillNow"
         /\ ForceExit(s, to, reason)
      \/ /\ InTable(to) /\ d = "Enqueue"
         /\ EnqueueRuntimeEnvelope(s, to, Exit)
      \/ /\ ~InTable(to) \/ d = "Ignore"
         /\ stack' = s
         /\ UNCHANGED <<place, box>>

\* request_shutdown: the tracker and its timer are replaced; a timeout that
\* has been sent stays in the channel.
RequestShutdown(s, to, policy) ==
  /\ InTable(to)
  /\ tracker' = [tracker EXCEPT ![to] = policy]
  /\ sleeping' = IF policy = "Timeout" THEN sleeping \cup {to}
                                       ELSE sleeping \ {to}
  /\ IF policy = "BrutalKill" THEN ForceExit(s, to, "Kill")
                              ELSE PropagateLinkExit(s, to, "Shutdown")
  /\ UNCHANGED channel
-----------------------------------------------------------------------------
(* What actor code may do, in a turn or in its terminate hook.             *)

Counts == calls < MaxCalls /\ calls' = calls + 1

Runs(a) ==
  /\ stack # <<>> /\ Top.actor = a
  /\ Top.op \in {"init", "turn", "terminate"} /\ Top.waits = None

\* effects.exit_reason; the effects of a terminate hook are dropped.
WithExit(frame, reason) ==
  IF frame.op = "terminate" THEN frame ELSE [frame EXCEPT !.reason = reason]

\* enqueue_self_runtime_envelope
EnqueueSelf(a, frame, env) ==
  \/ /\ ~IsFull(a, env)
     /\ Deliver(a, env)
     /\ stack' = Append(Below, frame)
  \/ /\ IsFull(a, env)
     /\ stack' = Append(Below, WithExit(frame, "Error"))
     /\ UNCHANGED box

Send(a, b) ==
  /\ Runs(a) /\ Counts
  /\ a = b \/ InTable(b)
  /\ ~IsFull(b, User)
  /\ Deliver(b, User)
  /\ UNCHANGED <<place, suspended, trap, bonds, stack, shutdown, deaf>>

Link(a, b) ==
  /\ Runs(a) /\ Counts
  /\ InTable(b) /\ b \notin links[a]
  /\ links' = [links EXCEPT ![a] = @ \cup {b}, ![b] = @ \cup {a}]
  /\ UNCHANGED <<place, box, suspended, trap, monOut, monIn, stack, shutdown,
                 deaf>>

\* Faulty: the other side keeps the link.
UnlinkOneSided(a, b) ==
  /\ Runs(a) /\ Counts
  /\ InTable(b) /\ b \in links[a]
  /\ links' = [links EXCEPT ![a] = @ \ {b}]
  /\ UNCHANGED <<place, box, suspended, trap, monOut, monIn, stack, shutdown,
                 deaf>>

Unlink(a, b) ==
  /\ Runs(a) /\ Counts
  /\ InTable(b) /\ b \in links[a]
  /\ links' = [links EXCEPT ![a] = @ \ {b}, ![b] = @ \ {a}]
  /\ UNCHANGED <<place, box, suspended, trap, monOut, monIn, stack, shutdown,
                 deaf>>

\* An actor that is not in the table is answered for with NoProc, also when
\* it is alive and on the stack.  The reference is the number of the call.
Monitor(a, b) ==
  /\ Runs(a) /\ Counts /\ place[b] # "unborn"
  /\ \/ /\ a = b \/ InTable(b)
        /\ monOut' = [monOut EXCEPT ![a] =
                        @ \cup {[ref |-> calls', peer |-> b]}]
        /\ monIn' = [monIn EXCEPT ![b] =
                       @ \cup {[ref |-> calls', peer |-> a]}]
        /\ UNCHANGED <<box, stack>>
     \/ /\ a # b /\ ~InTable(b)
        /\ EnqueueSelf(a, Top, Down)
        /\ UNCHANGED <<monOut, monIn>>
  /\ UNCHANGED <<place, suspended, trap, links, shutdown, deaf>>

Demonitor(a) ==
  /\ Runs(a) /\ Counts
  /\ \E m \in monOut[a] :
       /\ monOut' = [monOut EXCEPT ![a] = @ \ {m}]
       /\ monIn' = IF m.peer = a \/ InTable(m.peer)
                   THEN [monIn EXCEPT ![m.peer] =
                           @ \ {[ref |-> m.ref, peer |-> a]}]
                   ELSE monIn
  /\ UNCHANGED <<place, box, suspended, trap, links, stack, shutdown,
                 deaf>>

SetTrapExit(a) ==
  /\ Runs(a) /\ Counts
  /\ trap' = [trap EXCEPT ![a] = ~@]
  /\ UNCHANGED <<place, box, suspended, bonds, stack, shutdown, deaf>>

\* A new actor is queued before anything can be sent to it.
InsertActor(b) ==
  /\ place[b] = "unborn"
  /\ place' = [place EXCEPT ![b] = "fresh"]
  /\ scheduled' = [scheduled EXCEPT ![b] = TRUE]
  /\ runQueue' = Append(runQueue, b)

\* spawn_inner, linked to the parent or not.
Spawn(a, b) ==
  /\ Runs(a) /\ Counts
  /\ InsertActor(b)
  /\ \/ links' = [links EXCEPT ![a] = @ \cup {b}, ![b] = {a}]
     \/ UNCHANGED links
  /\ UNCHANGED <<mailbox, suspended, trap, monOut, monIn, stack, shutdown,
                 deaf>>

ExitSelf(a, reason) ==
  /\ Runs(a) /\ Counts
  /\ stack' = Append(Below, WithExit(Top, reason))
  /\ UNCHANGED <<place, box, suspended, trap, bonds, shutdown, deaf>>

\* shutdown_actor: what it sets off happens before it returns.
ShutdownActor(a, b, policy) ==
  LET waiting == IF b \in links[a] THEN [Top EXCEPT !.waits = b] ELSE Top
  IN  /\ Runs(a) /\ Counts
      /\ RequestShutdown(Append(Below, waiting), b, policy)
      /\ UNCHANGED <<suspended, trap, bonds, deaf>>

\* Faulty: the caller never hears of the exit it has caused.
ShutdownReturnsSilent(a) ==
  /\ stack # <<>> /\ Top.actor = a /\ Top.waits # None
  /\ stack' = Append(Below, [Top EXCEPT !.waits = None])
  /\ UNCHANGED <<place, box, suspended, trap, bonds, shutdown, calls,
                 deaf>>

\* The running actor takes an exit signal itself; frame is its frame then.  The
\* only reason it is called with is Shutdown, which nobody ignores.
HandleCurrentExitSignal(a, frame, reason) ==
  LET d == Classify(trap[a], reason)
  IN  \/ /\ d = "KillNow"
         /\ stack' = Append(Below, WithExit(frame, reason))
         /\ UNCHANGED box
      \/ /\ d = "Enqueue"
         /\ EnqueueSelf(a, frame, Exit)

\* Back in shutdown_actor: when the linked target is gone, the caller, who was
\* out of the table, takes the exit signal itself.
ShutdownReturns(a) ==
  LET b    == Top.waits
      back == [Top EXCEPT !.waits = None]
  IN  /\ stack # <<>> /\ Top.actor = a /\ b # None
      /\ \/ /\ InTable(b)
            /\ stack' = Append(Below, back)
            /\ UNCHANGED <<box, links>>
         \/ /\ ~InTable(b)
            /\ links' = [links EXCEPT ![a] = @ \ {b}]
            /\ HandleCurrentExitSignal(a, back, "Shutdown")
      /\ UNCHANGED <<place, suspended, trap, monOut, monIn, shutdown, calls,
                     deaf>>
-----------------------------------------------------------------------------
(* run_once and drive_actor.                                               *)

\* Faulty: the event is taken from the channel and dropped.
IngestEventDropped ==
  /\ stack = <<>> /\ channel # <<>>
  /\ channel' = Tail(channel)
  /\ UNCHANGED <<place, box, suspended, trap, bonds, stack, tracker, sleeping,
                 calls, deaf>>

\* ingest_event of a ShutdownTimedOut.
IngestEvent ==
  LET b == Head(channel)
  IN  /\ stack = <<>> /\ channel # <<>>
      /\ channel' = Tail(channel)
      /\ \/ /\ tracker[b] # None /\ InTable(b)
            /\ ForceExit(<<>>, b, "Kill")
         \/ /\ tracker[b] = None \/ ~InTable(b)
            /\ UNCHANGED <<place, box, stack>>
      /\ UNCHANGED <<suspended, trap, bonds, tracker, sleeping, calls,
                     deaf>>

\* Faulty: the flag stays, and the actor is never queued again.
UnscheduledNot(a) == scheduled

\* The flag of an actor that is taken for a turn, or parked.
Unscheduled(a) == [scheduled EXCEPT ![a] = FALSE]

\* A turn of the actor at the head of the queue: init, the handler of the
\* envelope it selects (Suspend and Resume have taken effect by then), or
\* nothing, and it is parked.  An id that is no longer in the table is
\* skipped.  The channel has been drained first.
RunOnce ==
  LET a == Head(runQueue)
  IN  /\ stack = <<>> /\ channel = <<>> /\ runQueue # <<>>
      /\ runQueue' = Tail(runQueue)
      /\ \/ /\ ~InTable(a)
            /\ UNCHANGED <<place, mailbox, scheduled, suspended, stack>>
         \/ /\ place[a] = "fresh"
            /\ place' = [place EXCEPT ![a] = "running"]
            /\ stack' = <<Frame(a, "init", None)>>
            /\ scheduled' = Unscheduled(a)
            /\ UNCHANGED <<mailbox, suspended>>
         \/ \E i \in DOMAIN mailbox[a] :
              LET env == mailbox[a][i]
              IN  /\ place[a] = "table"
                  /\ TakesNext(mailbox[a], suspended[a], i)
                  /\ mailbox' = [mailbox EXCEPT ![a] = RemoveEntry(@, i)]
                  /\ suspended' = [suspended EXCEPT ![a] =
                       IF env.kind = "System" THEN env.suspend ELSE @]
                  /\ place' = [place EXCEPT ![a] = "running"]
                  /\ stack' = <<Frame(a, "turn", None)>>
                  /\ scheduled' = Unscheduled(a)
         \/ /\ place[a] = "table"
            /\ \A i \in DOMAIN mailbox[a] :
                 ~TakesNext(mailbox[a], suspended[a], i)
            /\ scheduled' = Unscheduled(a)
            /\ UNCHANGED <<place, mailbox, suspended, stack>>
      /\ UNCHANGED <<trap, bonds, shutdown, calls, deaf>>

\* return_actor: back into the table, queued when there is mail.
TurnReturns(a) ==
  LET mail == mailbox[a] # <<>>
  IN  /\ Runs(a) /\ Top.op # "terminate" /\ Top.reason = None
      /\ stack' = Below
      /\ place' = [place EXCEPT ![a] = "table"]
      /\ scheduled' = [scheduled EXCEPT ![a] = mail]
      /\ runQueue' = IF mail /\ ~scheduled[a] THEN Append(runQueue, a)
                                              ELSE runQueue
      /\ UNCHANGED <<mailbox, suspended, trap, bonds, shutdown, calls,
                     deaf>>

\* An exit was asked for, the handler returned Stop, init returned an error,
\* or one of them panicked.  An exit asked for takes precedence over Stop, an
\* error of init and a panic over both.
TurnStops(a) ==
  /\ Runs(a) /\ Top.op # "terminate"
  /\ \E r \in Reason \cup {"Error", Top.reason} :
       /\ r # None
       /\ Top.op = "turn" /\ Top.reason # None => r \in {Top.reason, "Error"}
       /\ stack' = Append(Below, Frame(a, "terminate", r))
  /\ UNCHANGED <<place, box, suspended, trap, bonds, shutdown, calls,
                 deaf>>
-----------------------------------------------------------------------------
(* finish_actor, after the terminate hook.  The actor itself is out of     *)
(* reach from here on.                                                     *)

\* remove_outgoing_monitors: the actors in the table that a monitored forget
\* it; a's own monitors go with it.
WithoutMonitorsOf(a) ==
  [b \in Actor |->
     IF b = a THEN {}
     ELSE IF InTable(b)
          THEN {m \in monIn[b] : [ref |-> m.ref, peer |-> b] \notin monOut[a]}
          ELSE monIn[b]]

\* Peers of an actor that was shut down see Shutdown where it was killed.
ShutdownLinkReason(a, final) ==
  IF final = "Kill" /\ tracker[a] # None THEN "Shutdown" ELSE final

\* The hook returned or panicked.  What there is to tell is fixed now; the
\* actors that were monitored forget the monitors first.
TerminateReturns(a) ==
  /\ Runs(a) /\ Top.op = "terminate"
  /\ \E final \in {Top.reason, "Error"} :
       stack' = Append(Below,
         [Frame(a, "telling", ShutdownLinkReason(a, final)) EXCEPT
            !.watchers = {m \in monIn[a] : m.peer # a},
            !.peers = links[a]])
  /\ links' = [links EXCEPT ![a] = {}]
  /\ monOut' = [monOut EXCEPT ![a] = {}]
  /\ monIn' = WithoutMonitorsOf(a)
  /\ mailbox' = [mailbox EXCEPT ![a] = <<>>]
  /\ suspended' = [suspended EXCEPT ![a] = FALSE]
  /\ UNCHANGED <<place, scheduled, runQueue, trap, shutdown, calls,
                 deaf>>

Tells(a) == stack # <<>> /\ Top.actor = a /\ Top.op = "telling"

\* The actors out of the table, other than one that waits for a's exit.
Busy(a, waiting) ==
  {stack[i].actor : i \in {j \in DOMAIN stack :
                             waiting => stack[j].waits # a}}

\* notify_incoming_monitors, for one watcher, in the order of references.
TellWatcher(a) ==
  /\ Tells(a)
  /\ \E m \in Top.watchers : (\A n \in Top.watchers : m.ref <= n.ref) /\
       LET told == Append(Below, [Top EXCEPT !.watchers = @ \ {m}])
       IN  \/ /\ InTable(m.peer)
              /\ monOut' = [monOut EXCEPT ![m.peer] =
                              @ \ {[ref |-> m.ref, peer |-> a]}]
              /\ EnqueueRuntimeEnvelope(told, m.peer, Down)
              /\ UNCHANGED deaf
           \/ /\ ~InTable(m.peer)
              /\ deaf' = deaf \cup ({m.peer} \cap Busy(a, FALSE))
              /\ stack' = told
              /\ UNCHANGED <<place, box, monOut>>
  /\ UNCHANGED <<suspended, trap, links, monIn, shutdown, calls>>

\* detach_links_and_propagate, for one peer; the order of ids is left open.
TellPeer(a) ==
  /\ Tells(a) /\ Top.watchers = {}
  /\ \E b \in Top.peers :
       /\ links' = IF InTable(b) THEN [links EXCEPT ![b] = @ \ {a}] ELSE links
       /\ PropagateLinkExit(Append(Below, [Top EXCEPT !.peers = @ \ {b}]), b,
                            Top.reason)
       /\ deaf' = deaf \cup ({b} \cap Busy(a, TRUE))
  /\ UNCHANGED <<suspended, trap, monOut, monIn, shutdown, calls>>

\* Everybody has been told; the caller of finish_actor goes on.
Finished(a) ==
  /\ Tells(a) /\ Top.watchers = {} /\ Top.peers = {}
  /\ stack' = Below
  /\ place' = [place EXCEPT ![a] = "gone"]
  /\ scheduled' = [scheduled EXCEPT ![a] = FALSE]
  /\ tracker' = [tracker EXCEPT ![a] = None]
  /\ sleeping' = sleeping \ {a}
  /\ UNCHANGED <<mailbox, runQueue, suspended, trap, bonds, channel, calls,
                 deaf>>
-----------------------------------------------------------------------------
(* The host, between two calls of run_once, and time.                      *)

HostSends(b, env) ==
  /\ stack = <<>> /\ Counts
  /\ InTable(b) /\ ~IsFull(b, env)
  /\ Deliver(b, env)
  /\ UNCHANGED <<place, suspended, trap, bonds, stack, shutdown, deaf>>

\* exit_actor
HostExits(b, reason) ==
  /\ stack = <<>> /\ Counts /\ InTable(b)
  /\ ForceExit(<<>>, b, reason)
  /\ UNCHANGED <<suspended, trap, bonds, shutdown, deaf>>

HostShutsDown(b, policy) ==
  /\ stack = <<>> /\ Counts
  /\ RequestShutdown(<<>>, b, policy)
  /\ UNCHANGED <<suspended, trap, bonds, deaf>>

\* The task of spawn_shutdown_timer sends its event.
Elapse(b) ==
  /\ b \in sleeping
  /\ sleeping' = sleeping \ {b}
  /\ channel' = Append(channel, b)
  /\ UNCHANGED <<place, box, suspended, trap, bonds, stack, tracker, calls,
                 deaf>>

Host ==
  \E b \in Actor :
    \/ \E env \in {User, System(TRUE), System(FALSE)} : HostSends(b, env)
    \/ \E reason \in Reason : HostExits(b, reason)
    \/ \E policy \in Policy : HostShutsDown(b, policy)

UserCode ==
  \E a, b \in Actor :
    \/ Send(a, b) \/ Link(a, b) \/ Unlink(a, b) \/ Monitor(a, b)
    \/ Demonitor(a) \/ SetTrapExit(a) \/ Spawn(a, b)
    \/ \E reason \in Reason : ExitSelf(a, reason)
    \/ \E policy \in Policy : ShutdownActor(a, b, policy)

\* A turn or a hook that runs comes to its end.
Unwinds ==
  \E a \in Actor :
    \/ ShutdownReturns(a)
    \/ TurnReturns(a) \/ TurnStops(a)
    \/ TerminateReturns(a) \/ TellWatcher(a) \/ TellPeer(a) \/ Finished(a)

Next ==
  \/ Host \/ UserCode \/ Unwinds
  \/ IngestEvent \/ RunOnce
  \/ \E b \in Actor : Elapse(b)

Spec == Init /\ [][Next]_vars

\* The host calls run_once again and again (run_until_idle, block_on_next),
\* handlers and hooks return, and time passes.
FairSpec ==
  /\ Spec
  /\ WF_vars(Unwinds) /\ WF_vars(IngestEvent) /\ WF_vars(RunOnce)
  /\ \A b \in Actor : WF_vars(Elapse(b))
-----------------------------------------------------------------------------
(* Properties.                                                             *)

MonitorEntry == [ref : Ref, peer : Actor]

\* Types; an actor runs exactly while it has one frame on the stack, and only
\* the bottom frame may be a turn: whoever is finalized inside it is
\* terminating (take_actor, finish_actor).
TypeOK ==
  /\ place \in [Actor -> {"unborn", "fresh", "table", "running", "gone"}]
  /\ mailbox \in [Actor -> Seq({Exit, Down, User, System(TRUE),
                                System(FALSE)})]
  /\ scheduled \in [Actor -> BOOLEAN] /\ suspended \in [Actor -> BOOLEAN]
  /\ trap \in [Actor -> BOOLEAN] /\ links \in [Actor -> SUBSET Actor]
  /\ monOut \in [Actor -> SUBSET MonitorEntry]
  /\ monIn \in [Actor -> SUBSET MonitorEntry]
  /\ runQueue \in Seq(Actor) /\ channel \in Seq(Actor)
  /\ tracker \in [Actor -> Policy \cup {None}] /\ sleeping \subseteq Actor
  /\ calls \in 0..MaxCalls /\ deaf \subseteq Actor
  /\ \A a \in Actor :
       place[a] = "running" <=> \E i \in DOMAIN stack : stack[i].actor = a
  /\ \A i, j \in DOMAIN stack :
       /\ stack[i].actor = stack[j].actor => i = j
       /\ stack[i].op \in {"init", "turn"} => i = 1

\* The run queue has every actor with something to do: one that is to be
\* initialized, and one with an envelope take_next_envelope would give it.
\* Flag and queue agree (mark_scheduled, park_actor, return_actor).
NoLostTurn ==
  \A a \in Actor :
    InTable(a) =>
      /\ \/ place[a] = "fresh"
         \/ \E i \in DOMAIN mailbox[a] :
              TakesNext(mailbox[a], suspended[a], i)
         => scheduled[a]
      /\ scheduled[a] => \E i \in DOMAIN runQueue : runQueue[i] = a

\* Links and monitors have two sides, in two records, and between actors in
\* the table both or neither exist, whatever exits and calls came before.
BondsPaired ==
  \A a, b \in Actor :
    InTable(a) /\ InTable(b) =>
      /\ b \in links[a] <=> a \in links[b]
      /\ \A r \in Ref : [ref |-> r, peer |-> b] \in monOut[a]
                          <=> [ref |-> r, peer |-> a] \in monIn[b]

\* An actor that has not been passed over while it was out of the table has
\* learned of every exit of an actor it was linked to or watched: no entry for
\* it is left.  shutdown_actor makes up for the exit it has caused itself.
ExitsHeard ==
  \A a, b \in Actor :
    InTable(a) /\ a \notin deaf /\ place[b] = "gone" =>
      b \notin links[a] /\ \A m \in monOut[a] : m.peer # b

\* A shutdown with a timeout ends: the actor goes, or a later request takes
\* the place of this one (request_shutdown, ingest_event).
ShutdownCompletes ==
  \A b \in Actor : tracker[b] = "Timeout" ~> tracker[b] # "Timeout"

\* "every watcher receives one down envelope": a live watcher has no monitor
\* left on an actor that is gone.
EveryWatcherHears ==
  \A a \in Actor :
    InTable(a) => \A m \in monOut[a] : place[m.peer] # "gone"
=============================================================================
