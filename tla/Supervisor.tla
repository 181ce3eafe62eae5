----------------------------- MODULE Supervisor -----------------------------
(***************************************************************************)
(* The supervisor actor (SupervisorActor over its SupervisorActorState)    *)
(* and the children it starts, as the concurrent runtime runs them.        *)
(*                                                                         *)
(* A turn of the supervisor calls the runtime several times: it asks for   *)
(* the shutdown of a child, spawns one, records it.  The runtime lock is   *)
(* released between these calls, so children run and die in between.  A    *)
(* turn is therefore a chain of steps, and "todo" is where the turn is;    *)
(* while it is Nothing the supervisor waits for mail.  "plan" is the       *)
(* restart or shutdown in progress (SupervisorActorState::action).         *)
(*                                                                         *)
(* A child is an actor instance.  Its work is left out; what matters is    *)
(* when it exits, with what reason, that its record disappears before the  *)
(* exit signal reaches the supervisor (finalize_actor), and how it reacts  *)
(* to a shutdown request.  The user's on_child_exit is the one every       *)
(* supervisor of the repository has: restart_scope when should_restart.    *)
(***************************************************************************)
EXTENDS Naturals, Sequences, FiniteSets, SequencesExt

CONSTANTS
  Child,           \* child ids
  Order,           \* the ids in declared order
  RestartPolicy,   \* [Child -> Restart]
  ShutdownPolicy,  \* [Child -> Shutdown]
  Traps,           \* children that trap exits
  Flags,           \* flags a code change may choose
  InitialFlags,    \* the flags the supervisor starts with
  CrashReasons,    \* reasons a child may exit with on its own
  MaxActors,       \* bound: child instances ever spawned
  MaxCrashes,      \* bound: exits of children nobody asked for
  MaxStartFailures,\* bound: child starts that fail
  MaxRequests,     \* bound: shutdowns, code changes and foreign exits
  MaxTime          \* bound: clock

Restart  == {"Permanent", "Transient", "Temporary"}
Strategy == {"OneForOne", "OneForAll", "RestForOne"}
Shutdown == {"BrutalKill", "Timeout", "Infinity"}

\* The period is the length of the restart window, in ticks of the clock.
SupervisorFlags == [strategy : Strategy, intensity : Nat, period : Nat]

Reason   == {"Normal", "Shutdown", "Kill", "Error"}
Instance == 1..MaxActors
None     == 0
Foreign  == MaxActors + 1   \* a linked actor that is not a child

ASSUME OrderAssumption ==
  /\ Order \in Seq(Child) /\ Order # <<>>
  /\ ToSet(Order) = Child
  /\ \A i, j \in DOMAIN Order : Order[i] = Order[j] => i = j

ASSUME SpecsAssumption ==
  /\ RestartPolicy \in [Child -> Restart]
  /\ ShutdownPolicy \in [Child -> Shutdown]
  /\ Traps \subseteq Child
  /\ Flags \subseteq SupervisorFlags
  /\ InitialFlags \in SupervisorFlags
  /\ CrashReasons \subseteq Reason

ASSUME BoundsAssumption ==
  /\ MaxActors \in Nat /\ MaxCrashes \in Nat
  /\ MaxStartFailures \in Nat /\ MaxRequests \in Nat /\ MaxTime \in Nat

VARIABLES
  phase,     \* "starting", "up" or "stopped"
  final,     \* reason the supervisor stopped with
  forced,    \* a Kill signal has reached the supervisor (forced_exit)
  flags,     \* SupervisorActorState::flags
  running,   \* SupervisorActorState::running; by_actor is its inverse
  metadata,  \* SupervisorRuntimeState::running, kept by the runtime
  plan,      \* SupervisorActorState::action
  todo,      \* what the current turn does next
  mailbox,   \* exit signals queued for the supervisor
  restarts,  \* RestartIntensity::restarts
  now,       \* the clock
  status,    \* per instance: what the child is doing
  childOf,   \* per instance: the child id it was spawned for
  seen,      \* per instance: the exit reason its links see
  accepted,  \* history: times of the restarts that were allowed
  horizon,   \* history: the latest time the restart window has begun at
  budget     \* exits, start failures and requests still to come

turn     == <<plan, todo>>
actors   == <<status, childOf, seen>>
vars     == <<phase, final, forced, flags, running, metadata, turn, mailbox,
              restarts, now, horizon, actors, accepted, budget>>

Nothing == [op |-> "nothing"]

\* SupervisorActorState::action is None; a plan is a RestartPlan or a
\* ShutdownPlan, and during init the children still to be started.
NoPlan  == [kind |-> "None"]

Live == {"alive", "stopping", "notified", "killed"}
IsLive(a) == a \in Instance /\ status[a] \in Live

Spawned == {a \in Instance : status[a] # "unborn"}

Init ==
  /\ phase = "starting"
  /\ final = "Normal"
  /\ forced = FALSE
  /\ flags = InitialFlags
  /\ running = [c \in Child |-> None]
  /\ metadata = [c \in Child |-> None]
  /\ plan = [kind |-> "Init", start |-> Order]
  /\ todo = [op |-> "start"]
  /\ mailbox = <<>>
  /\ restarts = <<>>
  /\ now = 0
  /\ status = [a \in Instance |-> "unborn"]
  /\ childOf = [a \in Instance |-> Order[1]]
  /\ seen = [a \in Instance |-> "Normal"]
  /\ accepted = <<>>
  /\ horizon = 0
  /\ budget = [crashes  |-> MaxCrashes,
               failures |-> MaxStartFailures,
               requests |-> MaxRequests]
-----------------------------------------------------------------------------
(* Pure parts: restart decision, scope, intensity, plans.                  *)

ShouldRestart(child, reason) ==
  \/ RestartPolicy[child] = "Permanent"
  \/ RestartPolicy[child] = "Transient" /\ reason \notin {"Normal", "Shutdown"}

\* Order is injective, so its inverse is the position of a child.
Position(child) == CHOOSE i \in DOMAIN Order : Order[i] = child

\* restart_scope, in declared order.
RestartScope(strategy, failed) ==
  CASE strategy = "OneForOne"  -> <<failed>>
    [] strategy = "OneForAll"  -> Order
    [] strategy = "RestForOne" -> SubSeq(Order, Position(failed), Len(Order))

\* filter_map: the entries of s that are in T, in their order.  A function, as
\* the provers do not know SelectSeq.
Kept(s, T) ==
  LET kept[i \in 0..Len(s)] ==
        IF i = 0 THEN <<>>
        ELSE IF s[i] \in T THEN Append(kept[i - 1], s[i]) ELSE kept[i - 1]
  IN  kept[Len(s)]

\* Faulty: in declared order.
RunningForward(run, ids) == Kept(Order, {c \in ids : run[c] # None})

\* The running children among ids, last declared first.
RunningReverse(run, ids) == Kept(Reverse(Order), {c \in ids : run[c] # None})

\* prune: the oldest restarts go until one is inside the window.
Pruned(period) ==
  LET inside == {i \in DOMAIN restarts :
                   restarts[i] <= now /\ now - restarts[i] <= period}
  IN  IF inside = {} THEN <<>>
                     ELSE SubSeq(restarts, Min(inside), Len(restarts))

\* complete_shutdown and complete_child: cross a child off a plan.
Crossed(p, child) ==
  IF p.active = <<child>> THEN [p EXCEPT !.active = <<>>]
                          ELSE [p EXCEPT !.queue = RemoveFirst(@, child)]

\* forget_child_actor.
Forgotten(child) == [running EXCEPT ![child] = None]

\* The runtime's own list of the running children: set_running, clear_running.
SetRunning(child, a) == [metadata EXCEPT ![child] = a]

ClearRunning(child, a) ==
  IF metadata[child] = a THEN [metadata EXCEPT ![child] = None] ELSE metadata

Expects(p, child) == p.active = <<child>> \/ child \in ToSet(p.queue)
-----------------------------------------------------------------------------
(* Ends of a handler.  Each sets plan, todo, phase and final; run is the   *)
(* running map after the step.                                             *)

Continue(p, t) ==
  /\ plan' = p
  /\ todo' = t
  /\ UNCHANGED <<phase, final>>

Stop(reason) ==
  /\ phase' = "stopped"
  /\ final' = reason
  /\ plan' = NoPlan
  /\ todo' = Nothing

\* next_child: the head of the queue becomes the active shutdown.
ShutdownNext(p) ==
  IF p.queue = <<>>
  THEN Stop(p.reason)
  ELSE Continue([p EXCEPT !.active = <<Head(p.queue)>>, !.queue = Tail(@)],
                [op |-> "shutdown", child |-> Head(p.queue)])

BeginShutdown(run, reason) ==
  ShutdownNext([kind |-> "Shutdown", active |-> <<>>,
                queue |-> RunningReverse(run, Child), reason |-> reason])

\* next_shutdown, or finish_restart when nothing is left to shut down.
RestartNext(p) ==
  IF p.queue = <<>>
  THEN Continue([p EXCEPT !.active = <<>>], [op |-> "start"])
  ELSE Continue([p EXCEPT !.active = <<Head(p.queue)>>, !.queue = Tail(@)],
                [op |-> "shutdown", child |-> Head(p.queue)])

\* Faulty: an exit counts only when it is the awaited one.
AdvanceRestartActiveOnly(p, child, run) ==
  IF p.active = <<child>> THEN RestartNext(Crossed(p, child))
                          ELSE Continue(p, Nothing)

AdvanceRestart(p, child, run) ==
  IF Expects(p, child) THEN RestartNext(Crossed(p, child))
                       ELSE BeginShutdown(run, "Error")

AdvanceShutdown(p, child) == ShutdownNext(Crossed(p, child))

\* record_supervisor_restart: every restart enters the window, the refused
\* one too; metrics.restarts counts the allowed ones.
RecordRestart(allowed) ==
  /\ restarts' = Append(Pruned(flags.period), now)
  /\ accepted' = IF allowed THEN Append(accepted, now) ELSE accepted

RestartOf(scope, run) ==
  [kind |-> "Restart", active |-> <<>>,
   queue |-> RunningReverse(run, ToSet(scope)), start |-> scope]

BeginRestart(scope, run) ==
  LET allowed == Len(Pruned(flags.period)) + 1 <= flags.intensity
  IN  /\ RecordRestart(allowed)
      /\ IF allowed THEN RestartNext(RestartOf(scope, run))
                    ELSE BeginShutdown(run, "Error")
-----------------------------------------------------------------------------
(* Turns of the supervisor.                                                *)

\* Between two turns.  A forced exit that is set after the worker loop has
\* looked for one lets a last turn through.
Idle == phase = "up" /\ todo = Nothing

\* An exit signal of a tracked child: forget it, then advance the plan or ask
\* on_child_exit.
HandleChildExit ==
  /\ Idle /\ mailbox # <<>>
  /\ \E c \in Child :
       LET signal == Head(mailbox)
           run    == Forgotten(c)
       IN  /\ running[c] = signal.from
           /\ running' = run
           /\ metadata' = ClearRunning(c, signal.from)
           /\ \/ /\ plan.kind = "Shutdown"
                 /\ AdvanceShutdown(plan, c)
                 /\ UNCHANGED <<restarts, accepted>>
              \/ /\ plan.kind = "Restart"
                 /\ AdvanceRestart(plan, c, run)
                 /\ UNCHANGED <<restarts, accepted>>
              \/ /\ plan.kind = "None"
                 /\ ShouldRestart(c, signal.reason)
                 /\ BeginRestart(RestartScope(flags.strategy, c), run)
              \/ /\ plan.kind = "None"
                 /\ ~ShouldRestart(c, signal.reason)
                 /\ Continue(NoPlan, Nothing)
                 /\ UNCHANGED <<restarts, accepted>>
  /\ mailbox' = Tail(mailbox)
  /\ UNCHANGED <<forced, flags, now, horizon, actors, budget>>

\* An exit signal of anybody else: ignored while shutting down, otherwise it
\* takes the subtree down.
HandleExternalExit ==
  /\ Idle /\ mailbox # <<>>
  /\ \A c \in Child : running[c] # Head(mailbox).from
  /\ IF plan.kind = "Shutdown" THEN Continue(plan, Nothing)
                               ELSE BeginShutdown(running, Head(mailbox).reason)
  /\ mailbox' = Tail(mailbox)
  /\ UNCHANGED <<forced, flags, running, metadata, restarts, now, horizon,
                 actors, accepted, budget>>

\* A System Shutdown message, at any time: System mail is received first.
HandleShutdown ==
  /\ Idle /\ budget.requests > 0
  /\ budget' = [budget EXCEPT !.requests = @ - 1]
  /\ BeginShutdown(running, "Shutdown")
  /\ UNCHANGED <<forced, flags, running, metadata, mailbox, restarts, now,
                 horizon, actors, accepted>>

\* When the restart window began, or the latest time it ever began at.
WindowBegins(time, period) ==
  IF horizon + period < time THEN time - period ELSE horizon

\* Faulty: the new flags begin with an empty window.
ReconfigureForgets(new) ==
  /\ flags' = new
  /\ restarts' = <<>>
  /\ horizon' = WindowBegins(now, new.period)

\* reconfigure: the ids and their order stay (validate_reconfigure), the flags
\* are new, the window is kept, and pruned with the new period
\* (RestartIntensity::reconfigure).
Reconfigure(new) ==
  /\ flags' = new
  /\ restarts' = Pruned(new.period)
  /\ horizon' = WindowBegins(now, new.period)

\* A System CodeChange message: refused while a plan is in progress.
HandleCodeChange ==
  /\ Idle /\ budget.requests > 0
  /\ budget' = [budget EXCEPT !.requests = @ - 1]
  /\ plan.kind = "None"
  /\ \E new \in Flags : Reconfigure(new)
  /\ UNCHANGED <<phase, final, forced, running, metadata, turn, mailbox, now,
                 actors, accepted>>

\* The worker loop takes a forced exit before it looks at the mailbox.
ForcedExit ==
  /\ Idle /\ forced
  /\ Stop("Kill")
  /\ UNCHANGED <<forced, flags, running, metadata, mailbox, restarts, now,
                 horizon, actors, accepted, budget>>

\* shutdown_actor on a live child: BrutalKill forces it out, a graceful
\* request forces out a child that does not trap exits and reaches the
\* mailbox of one that does.
Requested(child) ==
  IF ShutdownPolicy[child] = "BrutalKill" \/ child \notin Traps
  THEN "killed" ELSE "stopping"

\* Faulty: the child is forgotten as soon as it has been asked.
RequestShutdownForgets ==
  /\ todo.op = "shutdown"
  /\ IsLive(running[todo.child])
  /\ status' = [status EXCEPT ![running[todo.child]] =
                  IF @ = "killed" THEN @ ELSE Requested(todo.child)]
  /\ running' = [running EXCEPT ![todo.child] = None]
  /\ Continue(plan, Nothing)
  /\ UNCHANGED <<forced, flags, metadata, mailbox, restarts, now, horizon,
                 childOf, seen, accepted, budget>>

RequestShutdown ==
  /\ todo.op = "shutdown"
  /\ IsLive(running[todo.child])
  /\ status' = [status EXCEPT ![running[todo.child]] =
                  IF @ = "killed" THEN @ ELSE Requested(todo.child)]
  /\ Continue(plan, Nothing)
  /\ UNCHANGED <<forced, flags, running, metadata, mailbox, restarts, now,
                 horizon, childOf, seen, accepted, budget>>

\* Faulty: a shutdown waits for the exit signal of a child that is gone.
RequestShutdownNoProcWaits ==
  /\ todo.op = "shutdown"
  /\ ~IsLive(running[todo.child])
  /\ running' = Forgotten(todo.child)
  /\ LET p == [plan EXCEPT !.active = <<>>]
     IN  IF plan.kind = "Shutdown"
         THEN Continue(p, Nothing)
         ELSE AdvanceRestart(p, todo.child, running')
  /\ UNCHANGED <<forced, flags, metadata, mailbox, restarts, now, horizon,
                 actors, accepted, budget>>

\* The child is gone already (NoProc): forget it and go on at once.  Only the
\* shutdown plan accepts that a child it no longer lists has gone.
RequestShutdownNoProc ==
  /\ todo.op = "shutdown"
  /\ ~IsLive(running[todo.child])
  /\ running' = Forgotten(todo.child)
  /\ LET p == [plan EXCEPT !.active = <<>>]
     IN  IF plan.kind = "Shutdown"
         THEN AdvanceShutdown(p, todo.child)
         ELSE AdvanceRestart(p, todo.child, running')
  /\ UNCHANGED <<forced, flags, metadata, mailbox, restarts, now, horizon,
                 actors, accepted, budget>>

\* Faulty: without the AlreadyStarted check.
SpawnChildAnyway ==
  LET c == Head(plan.start)
      a == Cardinality(Spawned) + 1
  IN  /\ todo.op = "start"
      /\ a \in Instance
      /\ status' = [status EXCEPT ![a] = "alive"]
      /\ childOf' = [childOf EXCEPT ![a] = c]
      /\ metadata' = SetRunning(c, a)
      /\ Continue(plan, [op |-> "remember", actor |-> a])
      /\ UNCHANGED <<forced, flags, running, mailbox, restarts, now, horizon,
                     seen, accepted, budget>>

\* start_child, first half: the child is spawned and linked, the runtime's
\* metadata names it, and it may run.
SpawnChild ==
  LET c == Head(plan.start)
      a == Cardinality(Spawned) + 1
  IN  /\ todo.op = "start"
      /\ running[c] = None
      /\ a \in Instance
      /\ status' = [status EXCEPT ![a] = "alive"]
      /\ childOf' = [childOf EXCEPT ![a] = c]
      /\ metadata' = SetRunning(c, a)
      /\ Continue(plan, [op |-> "remember", actor |-> a])
      /\ UNCHANGED <<forced, flags, running, mailbox, restarts, now, horizon,
                     seen, accepted, budget>>

\* start_child, second half: remember_child, and once more the metadata, with
\* which a child that has died in between comes back into it.
RememberChild ==
  LET c    == Head(plan.start)
      rest == [plan EXCEPT !.start = Tail(@)]
  IN  /\ todo.op = "remember"
      /\ running' = [running EXCEPT ![c] = todo.actor]
      /\ metadata' = SetRunning(c, todo.actor)
      /\ final' = final
      /\ IF rest.start = <<>>
         THEN plan' = NoPlan /\ todo' = Nothing /\ phase' = "up"
         ELSE plan' = rest /\ todo' = [op |-> "start"] /\ phase' = phase
      /\ UNCHANGED <<forced, flags, mailbox, restarts, now, horizon, actors,
                     accepted, budget>>

\* abort_startup: BrutalKill for every child that was started.
AbortStartup ==
  [a \in Instance |-> IF IsLive(a) /\ running[childOf[a]] = a THEN "killed"
                                                              ELSE status[a]]

\* start_child fails: the child is still tracked as running, or the start
\* routine rejects.  During init every started child is killed and init
\* fails; during a restart the supervisor shuts down.
StartFails ==
  /\ todo.op = "start"
  /\ \/ /\ running[Head(plan.start)] # None
        /\ UNCHANGED budget
     \/ /\ running[Head(plan.start)] = None
        /\ budget.failures > 0
        /\ budget' = [budget EXCEPT !.failures = @ - 1]
  /\ \/ /\ plan.kind = "Init"
        /\ status' = AbortStartup
        /\ Stop("Error")
     \/ /\ plan.kind = "Restart"
        /\ BeginShutdown(running, "Error")
        /\ UNCHANGED status
  /\ UNCHANGED <<forced, flags, running, metadata, mailbox, restarts, now,
                 horizon, childOf, seen, accepted>>
-----------------------------------------------------------------------------
(* The children and the rest of the world.                                 *)

\* finalize_actor, under the lock: the record is gone, the runtime's
\* metadata is cleared, the signal to the supervisor is still to be sent.
Finalize(a, reason) ==
  /\ status' = [status EXCEPT ![a] = "dead"]
  /\ seen' = [seen EXCEPT ![a] = reason]
  /\ metadata' = IF phase # "stopped" THEN ClearRunning(childOf[a], a)
                                      ELSE metadata
  /\ UNCHANGED <<phase, final, forced, flags, running, turn, mailbox,
                 restarts, now, horizon, childOf, accepted>>

\* A child that nobody asked to stop exits.
ChildCrashes(a) ==
  /\ status[a] = "alive" /\ budget.crashes > 0
  /\ budget' = [budget EXCEPT !.crashes = @ - 1]
  /\ \E reason \in CrashReasons : Finalize(a, reason)

\* A child that was asked or told to stop exits: with Shutdown (a Kill of a
\* managed shutdown is seen as Shutdown), or with what its last turn said.
ChildStops(a) ==
  /\ status[a] \in {"stopping", "notified", "killed"}
  /\ \E reason \in {"Shutdown", "Normal", "Error"} : Finalize(a, reason)
  /\ UNCHANGED budget

\* The shutdown timeout of a child that traps exits: Kill.
ShutdownTimesOut(a) ==
  /\ status[a] = "stopping"
  /\ ShutdownPolicy[childOf[a]] = "Timeout"
  /\ status' = [status EXCEPT ![a] = "killed"]
  /\ UNCHANGED <<phase, final, forced, flags, running, metadata, turn,
                 mailbox, restarts, now, horizon, childOf, seen, accepted,
                 budget>>

\* propagate_link_exit to the supervisor, which traps exits: a Kill forces it
\* out, anything else is queued; nothing happens when it is gone.
ExitArrives(a) ==
  /\ status[a] = "dead"
  /\ status' = [status EXCEPT ![a] = "gone"]
  /\ forced' = (forced \/ (seen[a] = "Kill" /\ phase # "stopped"))
  /\ mailbox' = IF seen[a] = "Kill" \/ phase = "stopped" THEN mailbox
                ELSE Append(mailbox, [from |-> a, reason |-> seen[a]])
  /\ UNCHANGED <<phase, final, flags, running, metadata, turn, restarts, now,
                 horizon, childOf, seen, accepted, budget>>

\* A linked actor that is not a child exits.
ForeignExit ==
  /\ phase # "stopped" /\ budget.requests > 0
  /\ budget' = [budget EXCEPT !.requests = @ - 1]
  /\ \E reason \in {"Normal", "Error"} :
       mailbox' = Append(mailbox, [from |-> Foreign, reason |-> reason])
  /\ UNCHANGED <<phase, final, forced, flags, running, metadata, turn,
                 restarts, now, horizon, actors, accepted>>

\* The exit of the supervisor reaches a child that is still linked to it.
SupervisorExitReaches(a) ==
  /\ phase = "stopped" /\ status[a] = "alive"
  /\ ~(final = "Normal" /\ childOf[a] \notin Traps)
  /\ status' = [status EXCEPT ![a] =
       IF final = "Kill" \/ childOf[a] \notin Traps THEN "killed"
                                                    ELSE "notified"]
  /\ UNCHANGED <<phase, final, forced, flags, running, metadata, turn,
                 mailbox, restarts, now, horizon, childOf, seen, accepted,
                 budget>>

Tick ==
  /\ now < MaxTime
  /\ now' = now + 1
  /\ horizon' = WindowBegins(now', flags.period)
  /\ UNCHANGED <<phase, final, forced, flags, running, metadata, turn,
                 mailbox, restarts, actors, accepted, budget>>

\* supervisor_snapshot, asked for at any time: counting the active restarts
\* prunes the window.
Snapshot ==
  /\ phase # "stopped"
  /\ restarts' = Pruned(flags.period)
  /\ UNCHANGED <<phase, final, forced, flags, running, metadata, turn,
                 mailbox, now, horizon, actors, accepted, budget>>

Turn ==
  \/ HandleChildExit \/ HandleExternalExit \/ HandleShutdown
  \/ HandleCodeChange \/ ForcedExit \/ RequestShutdown
  \/ RequestShutdownNoProc \/ SpawnChild \/ RememberChild \/ StartFails

Next ==
  \/ Turn
  \/ \E a \in Instance : \/ ChildCrashes(a) \/ ChildStops(a)
                         \/ ShutdownTimesOut(a) \/ ExitArrives(a)
                         \/ SupervisorExitReaches(a)
  \/ ForeignExit \/ Snapshot
  \/ Tick

Spec == Init /\ [][Next]_vars

\* The supervisor's task keeps running its turns; forced exits, timeouts and
\* exit signals are carried out by tasks of the runtime.  No fairness for
\* requests, crashes, the clock, or a child that may ignore a request.
Fairness ==
  /\ WF_vars(\/ HandleChildExit \/ HandleExternalExit \/ ForcedExit
             \/ RequestShutdown \/ RequestShutdownNoProc
             \/ SpawnChild \/ RememberChild \/ StartFails)
  /\ \A a \in Instance :
       /\ WF_vars(status[a] = "killed" /\ ChildStops(a))
       /\ WF_vars(ShutdownTimesOut(a))
       /\ WF_vars(ExitArrives(a))
       /\ WF_vars(SupervisorExitReaches(a))

FairSpec == Spec /\ Fairness
-----------------------------------------------------------------------------
ShutdownPlan ==
  [kind : {"Shutdown"}, active : {<<>>} \cup {<<c>> : c \in Child},
   queue : Seq(Child), reason : Reason]
RestartPlan ==
  [kind : {"Restart"}, active : {<<>>} \cup {<<c>> : c \in Child},
   queue : Seq(Child), start : Seq(Child)]
StartPlan == [kind : {"Init"}, start : Seq(Child)]

\* Every variable keeps its type, and todo and plan fit together.
TypeOK ==
  /\ phase \in {"starting", "up", "stopped"}
  /\ final \in Reason
  /\ forced \in BOOLEAN
  /\ flags \in SupervisorFlags
  /\ running \in [Child -> Instance \cup {None}]
  /\ metadata \in [Child -> Instance \cup {None}]
  /\ plan \in {NoPlan} \cup ShutdownPlan \cup RestartPlan \cup StartPlan
  /\ todo \in {Nothing, [op |-> "start"]}
               \cup [op : {"shutdown"}, child : Child]
               \cup [op : {"remember"}, actor : Instance]
  /\ todo.op = "shutdown" => plan.kind \in {"Shutdown", "Restart"}
  /\ todo.op \in {"start", "remember"}
       => plan.kind \in {"Init", "Restart"} /\ plan.start # <<>>
  /\ mailbox \in Seq([from : Instance \cup {Foreign}, reason : Reason])
  /\ restarts \in Seq(Nat)
  /\ now \in Nat
  /\ status \in [Instance -> Live \cup {"unborn", "dead", "gone"}]
  /\ childOf \in [Instance -> Child]
  /\ seen \in [Instance -> Reason]
  /\ accepted \in Seq(Nat)
  /\ horizon \in Nat

\* At rest: nothing is under way, not even the supervisor's own forced exit.
AtRest ==
  /\ phase = "up" /\ ~forced /\ todo = Nothing /\ plan = NoPlan /\ mailbox = <<>>
  /\ \A a \in Instance : status[a] # "dead"

\* No child runs that the supervisor does not know of: whatever exits,
\* restarts and NoProc answers do to "running", a live instance is the one
\* tracked for its child, or is being recorded by the current turn; and at
\* rest the runtime's own child table, the one of its snapshots, agrees.
NoOrphans ==
  /\ phase # "stopped" => \A a \in Instance :
       IsLive(a) => \/ running[childOf[a]] = a
                    \/ todo = [op |-> "remember", actor |-> a]
  /\ AtRest => metadata = running

\* Two instances of one child never run at the same time, not even when a
\* restart plan runs on while an old instance is still shutting down
\* (start_child's AlreadyStarted).
OneInstancePerChild ==
  \A a, b \in Instance :
    IsLive(a) /\ IsLive(b) /\ childOf[a] = childOf[b] => a = b

\* Shutdown requests go out in reverse declared order: when a child is about
\* to be asked, no child declared after it is still running unasked.
ReverseOrder ==
  todo.op = "shutdown" => \A d \in Child :
    (Position(d) > Position(todo.child) /\ running[d] # None)
      => status[running[d]] # "alive"

\* A restart that is allowed is within the intensity of the flags in force:
\* counting it, no more restarts than that have been allowed since the restart
\* window began, whatever refused restarts, prunings by snapshots and changes
\* of the intensity or the period came before.  A shorter period forgets
\* restarts for good: after a change to a longer one the window does not begin
\* earlier than it had before (RestartIntensity::prune and reconfigure).
IntensityRespected ==
  [][accepted' # accepted =>
       Cardinality({i \in DOMAIN accepted' : accepted'[i] >= horizon})
         <= flags.intensity]_vars

\* A shutdown, once begun, ends: no order of child exits, NoProc answers and
\* late signals leaves the supervisor waiting (children obey or time out), and
\* when the supervisor is gone, for whatever reason, its whole subtree goes.
ShutdownEnds ==
  /\ plan.kind = "Shutdown" ~> phase = "stopped"
  /\ phase = "stopped" ~> \A a \in Instance : ~IsLive(a)

\* A permanent child does not stay down under a supervisor that stays up.
PermanentComesBack ==
  \A c \in Child : RestartPolicy[c] = "Permanent" =>
    ((phase = "up" /\ running[c] = None)
       ~> (phase = "stopped" \/ running[c] # None))

\* SPEC 17.8, step 4: the supervisor stops when all children are gone.
StopsAfterChildren ==
  [][plan.kind = "Shutdown" /\ phase' = "stopped" /\ final' # "Kill"
       => \A a \in Instance : ~IsLive(a)]_vars
=============================================================================
