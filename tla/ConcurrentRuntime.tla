-------------------------- MODULE ConcurrentRuntime -------------------------
(***************************************************************************)
(* The concurrent runtime: one task per actor over one locked table of     *)
(* actor records.  Modelled are the worker loop (run_actor_task), parking  *)
(* and waking it through the actor's Notify, forced exits, links and       *)
(* monitors, and the finalization of an actor that exits.                  *)
(*                                                                         *)
(* The unit of atomicity is one acquisition of the runtime lock: a call    *)
(* that locks twice is two steps.  A runtime call that a task is in the    *)
(* middle of is call[a], its next step:                                    *)
(*   signal   propagate_link_exit has still to look at the target,         *)
(*   enqueue  an envelope has still to be pushed,                          *)
(*   force    a forced exit has still to be set,                           *)
(*   notify   the target has still to be notified.                         *)
(* Actor code is arbitrary: in a turn, and in its terminate hook, an actor *)
(* makes any runtime calls in any order (bounded by MaxCalls altogether).  *)
(* Ids are never reused (slots carry generations), so an actor lives once. *)
(* Suspension, timers, calls and managed shutdowns are left out here.      *)
(***************************************************************************)
EXTENDS MailboxOps

CONSTANTS
  Actor,      \* actor ids
  Root,       \* actors the host has spawned
  Trapping,   \* actors spawned with trap_exit
  Reason,     \* exit reasons an actor may choose
  Capacity,   \* mailbox capacity; RuntimeReserve of it for runtime mail
  RuntimeReserve,
  Unbounded,  \* usize::MAX
  MaxCalls    \* bound: runtime calls made by actor code; also monitor refs

ASSUME ActorAssumption == Root \subseteq Actor /\ Trapping \subseteq Actor

ASSUME ReasonAssumption ==
  Reason \subseteq {"Normal", "Shutdown", "Kill", "Error"}

ASSUME CapacityAssumption ==
  /\ Capacity \in Nat \ {0} /\ RuntimeReserve \in 0..(Capacity - 1)
  /\ Unbounded \in Nat /\ MaxCalls \in Nat

ExitReason == {"Normal", "Shutdown", "Kill", "Error", "NoProc"}
None       == "None"
NoCall     == [step |-> "none"]
Ref        == 1..MaxCalls

VARIABLES
  pc,       \* where the task of an actor is
  present,  \* the actor has a record in RuntimeState::actors
  status,   \* ActorRecord::status
  mailbox,  \* ActorRecord::mailbox
  permit,   \* the permit of ActorRecord::notify
  forced,   \* ActorRecord::forced_exit
  trap,     \* ActorRecord::trap_exit
  links,    \* ActorRecord::links
  monOut,   \* ActorRecord::monitors_out, as a set of [ref, peer]
  monIn,    \* ActorRecord::monitors_in
  call,     \* the runtime call a task is in
  exit,     \* effects.exit_reason of a turn, then the reason of the exit
  fin,      \* what the finalization of an actor has still to do
  calls,    \* number of runtime calls made
  \* history
  downs,    \* Down envelopes sent for a monitor reference
  orphans   \* <<child, parent>>: links spawned to a parent already gone

record == <<present, status, mailbox, forced, trap, links, monOut, monIn>>
vars   == <<pc, record, permit, call, exit, fin, calls, downs, orphans>>

Nothing == [mons |-> {}, watchers |-> {}, peers |-> {}]

Init ==
  /\ pc = [a \in Actor |-> IF a \in Root THEN "spawned" ELSE "unborn"]
  /\ present = [a \in Actor |-> a \in Root]
  /\ status = [a \in Actor |-> "Starting"]
  /\ mailbox = [a \in Actor |-> <<>>]
  /\ permit = [a \in Actor |-> a \in Root]
  /\ forced = [a \in Actor |-> None]
  /\ trap = [a \in Actor |-> a \in Trapping]
  /\ links = [a \in Actor |-> {}]
  /\ monOut = [a \in Actor |-> {}]
  /\ monIn = [a \in Actor |-> {}]
  /\ call = [a \in Actor |-> NoCall]
  /\ exit = [a \in Actor |-> None]
  /\ fin = [a \in Actor |-> Nothing]
  /\ calls = 0
  /\ downs = [r \in Ref |-> 0]
  /\ orphans = {}
-----------------------------------------------------------------------------
(* The steps of a runtime call.                                            *)

Exit(from, reason) == [kind |-> "Exit", from |-> from, reason |-> reason]
Down(from, ref)    == [kind |-> "Down", from |-> from, ref |-> ref]
User(from)         == [kind |-> "User", from |-> from]

Signal(to, env)  == [step |-> "signal",  to |-> to, env |-> env]
Enqueue(to, env) == [step |-> "enqueue", to |-> to, env |-> env]
EnqueueSelf(a, env) == [step |-> "self", to |-> a,  env |-> env]
ForceOut(to, reason) == [step |-> "force",  to |-> to, reason |-> reason]
Notify(to)       == [step |-> "notify",  to |-> to]

\* Faulty: an actor that traps exits survives a Kill.
ClassifyTrapsKill(trapping, reason) ==
  IF ~trapping /\ reason # "Normal" THEN "KillNow"
  ELSE IF ~trapping THEN "Ignore" ELSE "Enqueue"

\* classify_exit_signal, for a signal that comes over a link.
Classify(trapping, reason) ==
  IF reason = "Kill" \/ (~trapping /\ reason # "Normal") THEN "KillNow"
  ELSE IF ~trapping THEN "Ignore" ELSE "Enqueue"

CallSignal(a) ==
  LET to == call[a].to
      d  == Classify(trap[to], call[a].env.reason)
  IN  /\ call[a].step = "signal"
      /\ call' = [call EXCEPT ![a] =
           IF ~present[to] \/ d = "Ignore" THEN NoCall
           ELSE IF d = "KillNow" THEN ForceOut(to, @.env.reason)
           ELSE Enqueue(to, @.env)]
      /\ UNCHANGED <<pc, record, permit, exit, fin, calls, downs, orphans>>

IsFull(to, env) ==
  IsFullFor(mailbox[to], env.kind, Capacity, RuntimeReserve, Unbounded)

Push(to, env) ==
  /\ mailbox' = [mailbox EXCEPT ![to] = Append(@, env)]
  /\ status' = [status EXCEPT ![to] = IF @ = "Waiting" THEN "Runnable" ELSE @]

\* push_envelope; when the mailbox is full, user mail is refused and runtime
\* mail forces the target out.
CallEnqueue(a) ==
  LET to  == call[a].to
      env == call[a].env
  IN  /\ call[a].step = "enqueue"
      /\ \/ /\ ~present[to]
            /\ call' = [call EXCEPT ![a] = NoCall]
            /\ UNCHANGED <<status, mailbox>>
         \/ /\ present[to] /\ IsFull(to, env)
            /\ call' = [call EXCEPT ![a] =
                 IF env.kind = "User" THEN NoCall ELSE ForceOut(to, "Error")]
            /\ UNCHANGED <<status, mailbox>>
         \/ /\ present[to] /\ ~IsFull(to, env)
            /\ Push(to, env)
            /\ call' = [call EXCEPT ![a] = Notify(to)]
      /\ UNCHANGED <<pc, present, permit, forced, trap, links, monOut, monIn,
                     exit, fin, calls, downs, orphans>>

\* enqueue_self_runtime_envelope: a full mailbox ends the turn; in terminate,
\* whose effects are dropped, it goes unnoticed.
CallEnqueueSelf(a) ==
  /\ call[a].step = "self"
  /\ \/ /\ IsFull(a, call[a].env)
        /\ exit' = IF pc[a] = "turn" THEN [exit EXCEPT ![a] = "Error"] ELSE exit
        /\ call' = [call EXCEPT ![a] = NoCall]
        /\ UNCHANGED <<status, mailbox>>
     \/ /\ ~IsFull(a, call[a].env)
        /\ Push(a, call[a].env)
        /\ call' = [call EXCEPT ![a] = Notify(a)]
        /\ UNCHANGED exit
  /\ UNCHANGED <<pc, present, permit, forced, trap, links, monOut, monIn, fin,
                 calls, downs, orphans>>

\* request_force_exit; a later reason replaces an earlier one.
CallForce(a) ==
  LET to == call[a].to
  IN  /\ call[a].step = "force"
      /\ IF present[to]
         THEN /\ forced' = [forced EXCEPT ![to] = call[a].reason]
              /\ status' = [status EXCEPT ![to] = "Exiting"]
              /\ call' = [call EXCEPT ![a] = Notify(to)]
         ELSE /\ call' = [call EXCEPT ![a] = NoCall]
              /\ UNCHANGED <<forced, status>>
      /\ UNCHANGED <<pc, present, mailbox, permit, trap, links, monOut, monIn,
                     exit, fin, calls, downs, orphans>>

\* notify_one, after the lock has been released.
CallNotify(a) ==
  /\ call[a].step = "notify"
  /\ permit' = [permit EXCEPT ![call[a].to] = TRUE]
  /\ call' = [call EXCEPT ![a] = NoCall]
  /\ UNCHANGED <<pc, record, exit, fin, calls, downs, orphans>>

Call(a) ==
  \/ CallSignal(a) \/ CallEnqueue(a) \/ CallEnqueueSelf(a)
  \/ CallForce(a) \/ CallNotify(a)
-----------------------------------------------------------------------------
(* What actor code may do, in a turn or in its terminate hook.             *)

Runs(a) ==
  /\ pc[a] \in {"turn", "exiting"}
  /\ call[a] = NoCall
  /\ calls < MaxCalls
  /\ calls' = calls + 1

Link(a, b) ==
  /\ Runs(a) /\ a # b /\ present[b] /\ b \notin links[a]
  /\ links' = [links EXCEPT ![a] = @ \cup {b}, ![b] = @ \cup {a}]
  /\ UNCHANGED <<pc, present, status, mailbox, permit, forced, trap, monOut,
                 monIn, call, exit, fin, downs, orphans>>

\* Faulty: the other side keeps the link.
UnlinkOneSided(a, b) ==
  /\ Runs(a) /\ a # b /\ present[b] /\ b \in links[a]
  /\ links' = [links EXCEPT ![a] = @ \ {b}]
  /\ UNCHANGED <<pc, present, status, mailbox, permit, forced, trap, monOut,
                 monIn, call, exit, fin, downs, orphans>>

Unlink(a, b) ==
  /\ Runs(a) /\ a # b /\ present[b] /\ b \in links[a]
  /\ links' = [links EXCEPT ![a] = @ \ {b}, ![b] = @ \ {a}]
  /\ UNCHANGED <<pc, present, status, mailbox, permit, forced, trap, monOut,
                 monIn, call, exit, fin, downs, orphans>>

\* A monitor of an absent actor is answered at once; one of oneself is noted
\* twice in the same record.  The reference is the number of the call.
Monitor(a, b) ==
  /\ Runs(a) /\ pc[b] # "unborn"
  /\ \/ /\ present[b]
        /\ monOut' = [monOut EXCEPT ![a] =
                        @ \cup {[ref |-> calls', peer |-> b]}]
        /\ monIn' = [monIn EXCEPT ![b] =
                       @ \cup {[ref |-> calls', peer |-> a]}]
        /\ UNCHANGED <<call, downs, orphans>>
     \/ /\ ~present[b]
        /\ call' = [call EXCEPT ![a] = EnqueueSelf(a, Down(b, calls'))]
        /\ downs' = [downs EXCEPT ![calls'] = @ + 1]
        /\ UNCHANGED <<monOut, monIn>>
  /\ UNCHANGED <<pc, present, status, mailbox, permit, forced, trap, links,
                 exit, fin, orphans>>

Demonitor(a) ==
  /\ Runs(a)
  /\ \E m \in monOut[a] :
       /\ monOut' = [monOut EXCEPT ![a] = @ \ {m}]
       /\ monIn' = IF present[m.peer]
                   THEN [monIn EXCEPT ![m.peer] =
                           @ \ {[ref |-> m.ref, peer |-> a]}]
                   ELSE monIn
  /\ UNCHANGED <<pc, present, status, mailbox, permit, forced, trap, links,
                 call, exit, fin, downs, orphans>>

SetTrapExit(a) ==
  /\ Runs(a)
  /\ trap' = [trap EXCEPT ![a] = ~@]
  /\ UNCHANGED <<pc, present, status, mailbox, permit, forced, links, monOut,
                 monIn, call, exit, fin, downs, orphans>>

Send(a, b) ==
  /\ Runs(a) /\ pc[b] # "unborn"
  /\ call' = [call EXCEPT ![a] = Enqueue(b, User(a))]
  /\ UNCHANGED <<pc, record, permit, exit, fin, downs, orphans>>

\* The child has the link to its parent whether or not the parent has a record
\* to put the other side in.
LinkToParent(b, p) ==
  /\ links' = [links EXCEPT ![b] = {p},
                            ![p] = IF present[p] THEN @ \cup {b} ELSE @]
  /\ orphans' = IF present[p] THEN orphans ELSE orphans \cup {<<b, p>>}

\* The record, linked to the parent or not, then the task and its first
\* notification.  The parent is the spawner unless the options name another.
SpawnActor(a, b) ==
  /\ pc[b] = "unborn"
  /\ present' = [present EXCEPT ![b] = TRUE]
  /\ pc' = [pc EXCEPT ![b] = "spawned"]
  /\ call' = [call EXCEPT ![a] = Notify(b)]
  /\ \/ \E p \in Actor : pc[p] # "unborn" /\ LinkToParent(b, p)
     \/ UNCHANGED <<links, orphans>>

\* spawn_inner.
Spawn(a, b) ==
  /\ Runs(a) /\ SpawnActor(a, b)
  /\ UNCHANGED <<status, mailbox, permit, forced, trap, monOut, monIn, exit,
                 fin, downs>>

\* exit(): takes effect at the end of the turn; in terminate it is ignored.
ExitSelf(a, reason) ==
  /\ Runs(a) /\ pc[a] = "turn"
  /\ exit' = [exit EXCEPT ![a] = reason]
  /\ UNCHANGED <<pc, record, permit, call, fin, downs, orphans>>
-----------------------------------------------------------------------------
(* The task of an actor: run_actor_task.                                   *)

\* The task starts with init, a turn of its own.
TaskStarts(a) ==
  /\ pc[a] = "spawned"
  /\ pc' = [pc EXCEPT ![a] = "turn"]
  /\ status' = [status EXCEPT ![a] = "Running"]
  /\ UNCHANGED <<present, mailbox, permit, forced, trap, links, monOut, monIn,
                 call, exit, fin, calls, downs, orphans>>

\* The top of the loop: a forced exit is taken before anything else.
LoopTop(a) ==
  /\ pc[a] = "loop"
  /\ \/ /\ forced[a] # None
        /\ exit' = [exit EXCEPT ![a] = forced[a]]
        /\ forced' = [forced EXCEPT ![a] = None]
        /\ status' = [status EXCEPT ![a] = "Exiting"]
        /\ pc' = [pc EXCEPT ![a] = "exiting"]
     \/ /\ forced[a] = None
        /\ pc' = [pc EXCEPT ![a] = "select"]
        /\ UNCHANGED <<exit, forced, status>>
  /\ UNCHANGED <<present, mailbox, permit, trap, links, monOut, monIn, call,
                 fin, calls, downs, orphans>>

\* select_envelope with receive_next (a selective actor leaves more queued).
Select(a) ==
  /\ pc[a] = "select"
  /\ \/ \E i \in DOMAIN mailbox[a] :
          /\ TakesNext(mailbox[a], FALSE, i)
          /\ mailbox' = [mailbox EXCEPT ![a] = RemoveEntry(@, i)]
          /\ pc' = [pc EXCEPT ![a] = "got"]
     \/ /\ mailbox[a] = <<>>
        /\ pc' = [pc EXCEPT ![a] = "park"]
        /\ UNCHANGED mailbox
  /\ UNCHANGED <<present, status, permit, forced, trap, links, monOut, monIn,
                 call, exit, fin, calls, downs, orphans>>

\* select_envelope, which an actor may write itself, panics, or asks for an
\* exit and selects nothing.
SelectStops(a) ==
  /\ pc[a] = "select"
  /\ exit' \in {[exit EXCEPT ![a] = r] : r \in Reason \cup {"Error"}}
  /\ pc' = [pc EXCEPT ![a] = "exiting"]
  /\ status' = [status EXCEPT ![a] = "Exiting"]
  /\ UNCHANGED <<present, mailbox, permit, forced, trap, links, monOut, monIn,
                 call, fin, calls, downs, orphans>>

\* Faulty: an old permit is dropped before the task goes to sleep.
ParkDrained(a) ==
  /\ pc[a] = "park"
  /\ pc' = [pc EXCEPT ![a] = "asleep"]
  /\ status' = [status EXCEPT ![a] = "Waiting"]
  /\ permit' = [permit EXCEPT ![a] = FALSE]
  /\ UNCHANGED <<present, mailbox, forced, trap, links, monOut, monIn, call,
                 exit, fin, calls, downs, orphans>>

\* Nothing to do: Waiting, under a lock of its own, then notified().await.
Park(a) ==
  /\ pc[a] = "park"
  /\ pc' = [pc EXCEPT ![a] = "asleep"]
  /\ status' = [status EXCEPT ![a] = "Waiting"]
  /\ UNCHANGED <<present, mailbox, permit, forced, trap, links, monOut, monIn,
                 call, exit, fin, calls, downs, orphans>>

Wake(a) ==
  /\ pc[a] = "asleep" /\ permit[a]
  /\ permit' = [permit EXCEPT ![a] = FALSE]
  /\ pc' = [pc EXCEPT ![a] = "loop"]
  /\ UNCHANGED <<record, call, exit, fin, calls, downs, orphans>>

\* The envelope is in hand: Running, and the handler is called.
TurnStarts(a) ==
  /\ pc[a] = "got"
  /\ pc' = [pc EXCEPT ![a] = "turn"]
  /\ status' = [status EXCEPT ![a] = "Running"]
  /\ UNCHANGED <<present, mailbox, permit, forced, trap, links, monOut, monIn,
                 call, exit, fin, calls, downs, orphans>>

\* The turn, or init, is over without an exit; Waiting or Runnable even when
\* a forced exit has arrived meanwhile.
TurnEnds(a) ==
  /\ pc[a] = "turn" /\ call[a] = NoCall /\ exit[a] = None
  /\ pc' = [pc EXCEPT ![a] = "loop"]
  /\ status' = [status EXCEPT ![a] =
                  IF mailbox[a] = <<>> THEN "Waiting" ELSE "Runnable"]
  /\ UNCHANGED <<present, mailbox, permit, forced, trap, links, monOut, monIn,
                 call, exit, fin, calls, downs, orphans>>

\* The turn asked for an exit, returned Stop, panicked, or init failed:
\* finish_actor_task.
TurnStops(a) ==
  /\ pc[a] = "turn" /\ call[a] = NoCall
  /\ exit' \in {[exit EXCEPT ![a] = r] :
                  r \in IF exit[a] = None THEN Reason ELSE {exit[a], "Error"}}
  /\ pc' = [pc EXCEPT ![a] = "exiting"]
  /\ status' = [status EXCEPT ![a] = "Exiting"]
  /\ UNCHANGED <<present, mailbox, permit, forced, trap, links, monOut, monIn,
                 call, fin, calls, downs, orphans>>
-----------------------------------------------------------------------------
(* finalize_actor: the record goes, then peers and watchers are told, each *)
(* under a lock of its own.                                                *)

\* Faulty: the watchers are dropped with the record.
FinalizeUnwatched(a) ==
  /\ pc[a] = "exiting" /\ call[a] = NoCall
  /\ \/ UNCHANGED exit
     \/ exit' = [exit EXCEPT ![a] = "Error"]      \* terminate panicked
  /\ pc' = [pc EXCEPT ![a] = "final"]
  /\ present' = [present EXCEPT ![a] = FALSE]
  /\ fin' = [fin EXCEPT ![a] =
       [mons     |-> {m \in monOut[a] : m.peer # a},
        watchers |-> {},
        peers    |-> links[a]]]
  /\ links' = [links EXCEPT ![a] = {}]
  /\ monOut' = [monOut EXCEPT ![a] = {}]
  /\ monIn' = [monIn EXCEPT ![a] = {}]
  /\ mailbox' = [mailbox EXCEPT ![a] = <<>>]
  /\ status' = [status EXCEPT ![a] = "Dead"]
  /\ UNCHANGED <<permit, forced, trap, call, calls, downs, orphans>>

Finalize(a) ==
  /\ pc[a] = "exiting" /\ call[a] = NoCall
  /\ \/ UNCHANGED exit
     \/ exit' = [exit EXCEPT ![a] = "Error"]      \* terminate panicked
  /\ pc' = [pc EXCEPT ![a] = "final"]
  /\ present' = [present EXCEPT ![a] = FALSE]
  /\ fin' = [fin EXCEPT ![a] =
       [mons     |-> {m \in monOut[a] : m.peer # a},
        watchers |-> {m \in monIn[a] : m.peer # a},
        peers    |-> links[a]]]
  /\ links' = [links EXCEPT ![a] = {}]
  /\ monOut' = [monOut EXCEPT ![a] = {}]
  /\ monIn' = [monIn EXCEPT ![a] = {}]
  /\ mailbox' = [mailbox EXCEPT ![a] = <<>>]
  /\ status' = [status EXCEPT ![a] = "Dead"]
  /\ UNCHANGED <<permit, forced, trap, call, calls, downs, orphans>>

\* The actor's own monitors are withdrawn from their targets.
FinalizeMonitoring(a) ==
  /\ pc[a] = "final" /\ call[a] = NoCall
  /\ \E m \in fin[a].mons :
       /\ fin' = [fin EXCEPT ![a].mons = @ \ {m}]
       /\ monIn' = IF present[m.peer]
                   THEN [monIn EXCEPT ![m.peer] =
                           @ \ {[ref |-> m.ref, peer |-> a]}]
                   ELSE monIn
  /\ UNCHANGED <<pc, present, status, mailbox, permit, forced, trap, links,
                 monOut, call, exit, calls, downs, orphans>>

\* Faulty: the watcher stays on the list.
FinalizeWatcherAgain(a) ==
  /\ pc[a] = "final" /\ call[a] = NoCall /\ fin[a].mons = {}
  /\ \E m \in fin[a].watchers :
       /\ UNCHANGED fin
       /\ monOut' = IF present[m.peer]
                    THEN [monOut EXCEPT ![m.peer] =
                            @ \ {[ref |-> m.ref, peer |-> a]}]
                    ELSE monOut
       /\ call' = [call EXCEPT ![a] = Enqueue(m.peer, Down(a, m.ref))]
       /\ downs' = [downs EXCEPT ![m.ref] = @ + 1]
  /\ UNCHANGED <<pc, present, status, mailbox, permit, forced, trap, links,
                 monIn, exit, calls, orphans>>

\* A watcher's entry is removed and its Down is on the way.
FinalizeWatcher(a) ==
  /\ pc[a] = "final" /\ call[a] = NoCall /\ fin[a].mons = {}
  /\ \E m \in fin[a].watchers :
       /\ fin' = [fin EXCEPT ![a].watchers = @ \ {m}]
       /\ monOut' = IF present[m.peer]
                    THEN [monOut EXCEPT ![m.peer] =
                            @ \ {[ref |-> m.ref, peer |-> a]}]
                    ELSE monOut
       /\ call' = [call EXCEPT ![a] = Enqueue(m.peer, Down(a, m.ref))]
       /\ downs' = [downs EXCEPT ![m.ref] = @ + 1]
  /\ UNCHANGED <<pc, present, status, mailbox, permit, forced, trap, links,
                 monIn, exit, calls, orphans>>

\* A peer's link is removed and the exit signal is on the way.
FinalizeLink(a) ==
  /\ pc[a] = "final" /\ call[a] = NoCall
  /\ fin[a].mons = {} /\ fin[a].watchers = {}
  /\ \E b \in fin[a].peers :
       /\ fin' = [fin EXCEPT ![a].peers = @ \ {b}]
       /\ links' = IF present[b] THEN [links EXCEPT ![b] = @ \ {a}] ELSE links
       /\ call' = [call EXCEPT ![a] = Signal(b, Exit(a, exit[a]))]
  /\ UNCHANGED <<pc, present, status, mailbox, permit, forced, trap, monOut,
                 monIn, exit, calls, downs, orphans>>

TaskEnds(a) ==
  /\ pc[a] = "final" /\ call[a] = NoCall /\ fin[a] = Nothing
  /\ pc' = [pc EXCEPT ![a] = "done"]
  /\ UNCHANGED <<record, permit, call, exit, fin, calls, downs, orphans>>
-----------------------------------------------------------------------------
Task(a) ==
  \/ Call(a)
  \/ TaskStarts(a) \/ LoopTop(a) \/ Select(a) \/ SelectStops(a)
  \/ Park(a) \/ Wake(a)
  \/ TurnStarts(a) \/ TurnEnds(a) \/ TurnStops(a)
  \/ Finalize(a) \/ FinalizeMonitoring(a) \/ FinalizeWatcher(a)
  \/ FinalizeLink(a) \/ TaskEnds(a)

UserCall(a) ==
  \/ \E b \in Actor : \/ Link(a, b) \/ Unlink(a, b) \/ Monitor(a, b)
                      \/ Send(a, b) \/ Spawn(a, b)
  \/ Demonitor(a) \/ SetTrapExit(a)
  \/ \E r \in Reason : ExitSelf(a, r)

Next == \E a \in Actor : Task(a) \/ UserCall(a)

Spec == Init /\ [][Next]_vars

\* Tokio polls every task that can go on, and handlers return.
FairSpec == Spec /\ \A a \in Actor : WF_vars(Task(a))
-----------------------------------------------------------------------------
PC == {"unborn", "spawned", "loop", "select", "park", "asleep", "got", "turn",
       "exiting", "final", "done"}

Envelope ==
  [kind : {"Exit"}, from : Actor, reason : ExitReason]
    \cup [kind : {"Down"}, from : Actor, ref : Ref]
    \cup [kind : {"User"}, from : Actor]

RuntimeCall ==
  {NoCall}
    \cup [step : {"signal"}, to : Actor,
          env : [kind : {"Exit"}, from : Actor, reason : ExitReason]]
    \cup [step : {"enqueue", "self"}, to : Actor, env : Envelope]
    \cup [step : {"force"}, to : Actor, reason : ExitReason]
    \cup [step : {"notify"}, to : Actor]

Monitors == SUBSET [ref : Ref, peer : Actor]

\* Every variable keeps its type.
TypeOK ==
  /\ pc \in [Actor -> PC]
  /\ present \in [Actor -> BOOLEAN]
  /\ status \in [Actor -> {"Starting", "Runnable", "Running", "Waiting",
                           "Exiting", "Dead"}]
  /\ mailbox \in [Actor -> Seq(Envelope)]
  /\ permit \in [Actor -> BOOLEAN]
  /\ forced \in [Actor -> ExitReason \cup {None}]
  /\ trap \in [Actor -> BOOLEAN]
  /\ links \in [Actor -> SUBSET Actor]
  /\ monOut \in [Actor -> Monitors]
  /\ monIn \in [Actor -> Monitors]
  /\ call \in [Actor -> RuntimeCall]
  /\ exit \in [Actor -> ExitReason \cup {None}]
  /\ fin \in [Actor -> [mons : Monitors, watchers : Monitors,
                        peers : SUBSET Actor]]
  /\ calls \in 0..MaxCalls
  /\ downs \in [Ref -> Nat]
  /\ orphans \subseteq Actor \X Actor

\* No wakeup is lost: a task that sleeps without a permit has an empty mailbox
\* and no forced exit, or somebody is about to notify it.  The lock is taken
\* three times between looking for mail and sleeping, and mail and forced
\* exits arrive in all the gaps (run_actor_task, notify_one).
NoLostWakeup ==
  \A a \in Actor :
    (pc[a] = "asleep" /\ ~permit[a])
      => \/ mailbox[a] = <<>> /\ forced[a] = None
         \/ \E b \in Actor : call[b] = Notify(a)

LinksPaired ==
  \A a \in Actor : present[a] => \A b \in links[a] :
    IF present[b] THEN a \in links[b]
                  ELSE a \in fin[b].peers \/ <<a, b>> \in orphans

MonitorsPaired ==
  \A a \in Actor : present[a] =>
    /\ \A m \in monOut[a] :
         [ref |-> m.ref, peer |-> a]
           \in IF present[m.peer] THEN monIn[m.peer] ELSE fin[m.peer].watchers
    /\ \A m \in monIn[a] :
         [ref |-> m.ref, peer |-> a]
           \in IF present[m.peer] THEN monOut[m.peer] ELSE fin[m.peer].mons

\* A link or a monitor is kept on both sides, or the exit that breaks it is
\* being propagated: nobody stays bound to an actor whose exit it will not
\* see, and no monitor outlives its owner, although finalize_actor takes a
\* lock for every peer.  Excepted are the links of insert_actor_record to a
\* parent that had exited before the spawn.
BondsPaired == LinksPaired /\ MonitorsPaired

\* SPEC 10.1: "if `link_to_parent` is enabled, a bidirectional link is
\* created".
\* A link to an actor that is gone is about to be broken by its exit.
SpawnLinksBoth ==
  \A a \in Actor : present[a] => \A b \in links[a] :
    IF present[b] THEN a \in links[b] ELSE a \in fin[b].peers

\* SPEC 12.2: every watcher receives one down envelope.  However demonitors,
\* exits of both sides and monitors of absent actors interleave, no reference
\* is answered twice.
DownOnce == \A r \in Ref : downs[r] <= 1

\* A monitor whose target has exited is answered unless the watcher goes too.
WatchersHear ==
  \A a, b \in Actor : \A r \in Ref :
    (present[a] /\ ~present[b] /\ [ref |-> r, peer |-> b] \in monOut[a])
      ~> (downs[r] = 1 \/ ~present[a])

\* SPEC 12.1: the exit of a linked actor reaches a peer that does not trap
\* exits, a Kill every peer, wherever the peer's task is.
LinkedGo ==
  \A a, b \in Actor :
    (/\ b \in fin[a].peers
     /\ exit[a] = "Kill" \/ (exit[a] # "Normal" /\ ~trap[b]))
      ~> (~present[b] \/ (trap[b] /\ exit[a] # "Kill"))

\* Mail is always taken out of the mailbox.
MailTaken == \A a \in Actor : mailbox[a] # <<>> ~> mailbox[a] = <<>>

\* is_idle_state, what wait_for_idle waits for.
IsIdleState ==
  \A a \in Actor : present[a] => mailbox[a] = <<>> /\ status[a] = "Waiting"

\* wait_for_idle: "Waits until all live actors are parked with empty
\* mailboxes."  None of them has an envelope in hand or an exit to carry out.
IdleMeansParked ==
  IsIdleState => \A a \in Actor :
    present[a] => pc[a] \notin {"got", "turn", "exiting"} /\ forced[a] = None
=============================================================================
