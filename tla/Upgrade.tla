------------------------------ MODULE Upgrade -------------------------------
(***************************************************************************)
(* The control plane: what one host thread asks of the actors of a         *)
(* supervisor tree.  It suspends and resumes an actor, inspects and        *)
(* replaces its state, changes its code, and upgrades a whole tree: walk   *)
(* the tree, suspend it, wait until it is quiet, change the code of the    *)
(* leaves before that of their parents, resume it.                         *)
(*                                                                         *)
(* Both runtimes have the transaction.  In the concurrent one the actors   *)
(* run on their own, a turn is several steps (take an envelope, mark the   *)
(* actor Running, handle, mark it Waiting), and the host waits with a      *)
(* timeout.  In the local one an actor runs when the host's call drives    *)
(* it, and a turn is one step.                                             *)
(*                                                                         *)
(* Left out: wakeups (ConcurrentRuntime), the restart of a child (the new  *)
(* actor is none of a transaction in progress), the run queue's order.     *)
(***************************************************************************)
EXTENDS MailboxOps

CONSTANTS
  Actor,
  Super,          \* the actors that run a supervisor
  Kids,           \* per supervisor: its child specs in order
  Root,           \* the supervisor whose tree is upgraded
  MarkedChoices,  \* the possible sets of actors whose spec says is_supervisor
  Runtimes,       \* the runtimes considered: "local", "concurrent"
  Called,         \* bound: the actors the host calls one by one
  Target,         \* the version an upgrade asks for; actors start at 0
  Capacity, RuntimeReserve, Unbounded,
  MaxSends,       \* bound: host calls other than an upgrade
  MaxUpgrades,    \* bound: upgrades
  MaxMail,        \* bound: user messages
  MaxStops        \* bound: turns that stop their actor

\* A child is an actor that its supervisor has spawned, so it has no other.
ASSUME TreeAssumption ==
  /\ Super \subseteq Actor /\ Root \in Super /\ Called \subseteq Actor
  /\ Kids \in [Super -> Seq(Actor)]
  /\ \A s \in Super : \A i \in DOMAIN Kids[s] : Kids[s][i] # Root
  /\ \A s, t \in Super : \A i \in DOMAIN Kids[s], j \in DOMAIN Kids[t] :
       Kids[s][i] = Kids[t][j] => s = t /\ i = j

VARIABLES
  rt,       \* the runtime
  marked,   \* actors whose child spec has is_supervisor
  act,      \* per actor: its record and its state
  running,  \* per supervisor: the children its metadata has as running
  host,     \* the host thread
  mail, stops, sends, upgrades, \* spent of the bounds
  changed   \* history: actors that the current upgrade's CodeChange changed

bounds == <<mail, stops, sends, upgrades>>
vars   == <<rt, marked, act, running, host, bounds, changed>>

Nothing == [kind |-> "none"]
User    == [kind |-> "User"]
Exit(a) == [kind |-> "Exit", from |-> a]

\* A System message; n numbers the requests that carry a reply channel, tx the
\* upgrade it belongs to.
System(msg, version, n, tx) ==
  [kind |-> "System", msg |-> msg, version |-> version, n |-> n, tx |-> tx]

NoPlan == [suspendOrder |-> <<>>, upgradeOrder |-> <<>>,
           resumeTargets |-> <<>>]

HostIdle ==
  [pc |-> "idle", todo |-> <<>>, plan |-> NoPlan, i |-> 0, n |-> 0,
   reply |-> "none", tx |-> 0, failed |-> "no", suspended |-> {},
   upgraded |-> {}, refused |-> {}]

NewActor ==
  [live |-> TRUE, at |-> "parked", status |-> "Waiting", suspended |-> FALSE,
   mailbox |-> <<>>, hand |-> Nothing, forced |-> FALSE, version |-> 0,
   schema |-> 0]

ToSetOf(s) == {s[i] : i \in DOMAIN s}

Init ==
  /\ rt \in Runtimes
  /\ marked \in MarkedChoices
  /\ act = [a \in Actor |-> NewActor]
  /\ running = [s \in Super |-> ToSetOf(Kids[s])]
  /\ host = HostIdle
  /\ mail = 0 /\ stops = 0 /\ sends = 0 /\ upgrades = 0
  /\ changed = {}
-----------------------------------------------------------------------------
(* Mailboxes and turns, as functions of the actors' records.               *)

Refuses(acts, a, env) ==
  \/ ~acts[a].live
  \/ IsFullFor(acts[a].mailbox, env.kind, Capacity, RuntimeReserve, Unbounded)

Pushed(acts, a, env) ==
  [acts EXCEPT ![a].mailbox = Append(@, env),
               ![a].status = IF @ = "Waiting" THEN "Runnable" ELSE @]

\* Faulty: a suspended actor is handed user mail.
TakeableIgnoringSuspension(a) ==
  {i \in DOMAIN act[a].mailbox : TakesNext(act[a].mailbox, FALSE, i)}

\* take_next_envelope: the position it takes, if any.
Takeable(a) ==
  {i \in DOMAIN act[a].mailbox :
     TakesNext(act[a].mailbox, act[a].suspended, i)}

\* apply_system_message_effects.
Affected(suspended, env) ==
  CASE env.kind = "System" /\ env.msg = "Suspend" -> TRUE
    [] env.kind = "System" /\ env.msg = "Resume"  -> FALSE
    [] OTHER -> suspended

\* Faulty: replaces the state whatever version it was taken at.
AcceptsAnySnapshot(a, env) == TRUE

\* validate_snapshot_version.
AcceptsSnapshot(a, env) == act[a].version = env.version

\* What handle_reserved_system_message makes of the actor when it is willing,
\* and the answer that leaves on the reply channel.
WillingOutcome(a, env) ==
  CASE env.msg = "CodeChange" ->
         [version |-> env.version, schema |-> env.version, reply |-> "ok"]
    [] env.msg = "ReplaceState" /\ AcceptsSnapshot(a, env) ->
         [version |-> act[a].version, schema |-> env.version, reply |-> "ok"]
    [] env.msg = "ReplaceState" /\ ~AcceptsSnapshot(a, env) ->
         [version |-> act[a].version, schema |-> act[a].schema,
          reply |-> "err"]
    [] OTHER ->
         [version |-> act[a].version, schema |-> act[a].schema,
          reply |-> "ok"]

\* The hooks of an actor that does not have them, or whose hook refuses.
\* code_change to the version an actor has already is accepted by the default
\* hook, and changes nothing.
UnwillingOutcome(r) ==
  [version |-> r.version, schema |-> r.schema, reply |-> "err"]

\* The reply channel of a request whose caller still waits.
Answered(env, answer) ==
  IF env.kind = "System" /\ env.n # 0 /\ env.n = host.n
       /\ host.pc = "await" /\ host.reply = "none"
  THEN [host EXCEPT !.reply = answer]
  ELSE host

\* A code change of the upgrade in progress, or of the last one.
OfThisUpgrade(env) ==
  env.kind = "System" /\ env.msg = "CodeChange" /\ env.tx = upgrades

\* The actor after a turn that does not stop it.
TurnOver(r) ==
  [r EXCEPT !.at = "loop", !.hand = Nothing,
            !.status = IF r.mailbox = <<>> THEN "Waiting" ELSE "Runnable"]

\* finalize_actor: the record goes with its mailbox, the parent is sent an
\* Exit and is forced out itself if its mailbox refuses it.
Gone(acts, a) ==
  LET dead == [acts EXCEPT ![a] = [@ EXCEPT !.live = FALSE, !.at = "dead",
                                            !.status = "Dead",
                                            !.mailbox = <<>>,
                                            !.hand = Nothing]]
      parents == {s \in Super : a \in running[s] /\ acts[s].live}
  IN  [b \in Actor |->
         IF b \notin parents THEN dead[b]
         ELSE IF Refuses(dead, b, Exit(a)) THEN [dead[b] EXCEPT !.forced = TRUE]
         ELSE Pushed(dead, b, Exit(a))[b]]

\* A supervisor that stops takes its children along (module Supervisor).
Orphaned(acts, a) ==
  [b \in Actor |-> IF a \in Super /\ b \in running[a] /\ acts[b].live
                   THEN [acts[b] EXCEPT !.forced = TRUE] ELSE acts[b]]

\* The channel of a request closes with the mailbox or the turn it was in.
Dropped(a) ==
  LET held == ToSetOf(act[a].mailbox) \cup {act[a].hand}
  IN  IF \E env \in held : Answered(env, "closed") # host
      THEN [host EXCEPT !.reply = "closed"] ELSE host

\* Handling an envelope in record r, without stopping: an Exit clears the
\* child in the supervisor's metadata, a request is answered, willingly or not.
Handle(a, r, env) ==
  /\ running' = IF env.kind = "Exit" /\ a \in Super
                THEN [running EXCEPT ![a] = @ \ {env.from}] ELSE running
  /\ \E willing \in IF env.kind = "System" /\ env.n # 0 THEN BOOLEAN
                                                        ELSE {TRUE} :
       LET out == IF env.kind # "System" \/ ~willing
                  THEN UnwillingOutcome(r) ELSE WillingOutcome(a, env)
       IN  /\ act' = [act EXCEPT ![a] =
                        [TurnOver(r) EXCEPT !.version = out.version,
                                            !.schema = out.schema]]
           /\ host' = Answered(env, out.reply)
           /\ changed' = IF OfThisUpgrade(env) /\ out.reply = "ok"
                         THEN changed \cup {a} ELSE changed

\* The record once position i of its mailbox is taken.
Taken(a, i) ==
  [act[a] EXCEPT !.mailbox = RemoveEntry(@, i), !.hand = act[a].mailbox[i]]
-----------------------------------------------------------------------------
(* Turns in the concurrent runtime: run_actor_task.                        *)

Awake(a) == rt = "concurrent" /\ act[a].at \in {"loop", "parked"}

\* select_envelope: the envelope leaves the mailbox, the status stays.
Take(a) ==
  /\ Awake(a) /\ ~act[a].forced
  /\ \E i \in Takeable(a) :
       act' = [act EXCEPT ![a] = [Taken(a, i) EXCEPT !.at = "taken"]]
  /\ UNCHANGED <<rt, marked, running, host, bounds, changed>>

TakeNone(a) ==
  /\ rt = "concurrent" /\ act[a].at = "loop" /\ ~act[a].forced
  /\ Takeable(a) = {}
  /\ act' = [act EXCEPT ![a].at = "parking"]
  /\ UNCHANGED <<rt, marked, running, host, bounds, changed>>

\* The status becomes Waiting whatever has arrived since.
Park(a) ==
  /\ act[a].at = "parking"
  /\ act' = [act EXCEPT ![a].at = "parked", ![a].status = "Waiting"]
  /\ UNCHANGED <<rt, marked, running, host, bounds, changed>>

Begin(a) ==
  /\ act[a].at = "taken"
  /\ act' = [act EXCEPT ![a].at = "running", ![a].status = "Running",
                        ![a].suspended = Affected(@, act[a].hand)]
  /\ UNCHANGED <<rt, marked, running, host, bounds, changed>>

FinishTurn(a) ==
  /\ act[a].at = "running"
  /\ Handle(a, act[a], act[a].hand)
  /\ UNCHANGED <<rt, marked, bounds>>

\* The turn panics or stops: finish_actor_task.
StopTurn(a) ==
  /\ act[a].at = "running" /\ stops < MaxStops
  /\ act' = Orphaned([act EXCEPT ![a].at = "exiting", ![a].hand = Nothing,
                                 ![a].status = "Exiting"], a)
  /\ host' = Answered(act[a].hand, "closed")
  /\ stops' = stops + 1
  /\ UNCHANGED <<rt, marked, running, mail, sends, upgrades, changed>>

TakeForcedExit(a) ==
  /\ Awake(a) /\ act[a].forced
  /\ act' = Orphaned([act EXCEPT ![a].at = "exiting",
                                 ![a].status = "Exiting"], a)
  /\ UNCHANGED <<rt, marked, running, host, bounds, changed>>

Finalize(a) ==
  /\ act[a].at = "exiting"
  /\ act' = Gone(act, a)
  /\ host' = Dropped(a)
  /\ UNCHANGED <<rt, marked, running, bounds, changed>>

Turn(a) ==
  \/ Take(a) \/ TakeNone(a) \/ Park(a) \/ Begin(a) \/ FinishTurn(a)
  \/ TakeForcedExit(a) \/ Finalize(a)
-----------------------------------------------------------------------------
(* Turns in the local runtime: run_once, while a call of the host drives.  *)

Driving == rt = "local" /\ host.pc \in {"quiesce", "await", "drain", "drive"}

LocalTurn(a) ==
  /\ Driving /\ act[a].live /\ ~act[a].forced
  /\ \E i \in Takeable(a) :
       LET env == act[a].mailbox[i]
       IN  Handle(a, [Taken(a, i) EXCEPT
                        !.suspended = Affected(act[a].suspended, env)], env)
  /\ UNCHANGED <<rt, marked, bounds>>

LocalStop(a) ==
  /\ Driving /\ act[a].live /\ ~act[a].forced /\ stops < MaxStops
  /\ Takeable(a) # {}
  /\ act' = Gone(Orphaned(act, a), a)
  /\ host' = Dropped(a)
  /\ stops' = stops + 1
  /\ UNCHANGED <<rt, marked, running, mail, sends, upgrades, changed>>

LocalForcedExit(a) ==
  /\ Driving /\ act[a].live /\ act[a].forced
  /\ act' = Gone(Orphaned(act, a), a)
  /\ host' = Dropped(a)
  /\ UNCHANGED <<rt, marked, running, bounds, changed>>

\* run_once finds nothing to do.
NoProgress ==
  Driving /\ \A a \in Actor : act[a].live => ~act[a].forced /\ Takeable(a) = {}

UserMail(a) ==
  /\ mail < MaxMail
  /\ rt = "local" => Driving \/ host.pc = "idle"
  /\ ~Refuses(act, a, User)
  /\ mail' = mail + 1
  /\ act' = Pushed(act, a, User)
  /\ UNCHANGED <<rt, marked, running, host, stops, sends, upgrades, changed>>
-----------------------------------------------------------------------------
(* Single calls of the host.                                               *)

MayCall == host.pc = "idle" /\ sends < MaxSends

\* suspend_actor and resume_actor: sent, and not waited for.
SendControl(a, msg) ==
  /\ MayCall
  /\ act' = IF Refuses(act, a, System(msg, 0, 0, 0)) THEN act
            ELSE Pushed(act, a, System(msg, 0, 0, 0))
  /\ sends' = sends + 1
  /\ UNCHANGED <<rt, marked, running, host, mail, stops, upgrades, changed>>

\* get_state, replace_state and code_change_actor: a reply channel travels
\* with the message; a refused send is an error at once.
Request(a, msg, version) ==
  /\ MayCall
  /\ LET env == System(msg, version, host.n + 1, 0)
     IN  \/ /\ Refuses(act, a, env)
            /\ UNCHANGED <<act, host>>
         \/ /\ ~Refuses(act, a, env)
            /\ act' = Pushed(act, a, env)
            /\ host' = [host EXCEPT !.pc = "await", !.n = @ + 1,
                                    !.reply = "none"]
  /\ sends' = sends + 1
  /\ UNCHANGED <<rt, marked, running, mail, stops, upgrades, changed>>

Suspend(a)      == SendControl(a, "Suspend")
Resume(a)       == SendControl(a, "Resume")
GetState(a)     == Request(a, "GetState", 0)
ReplaceState(a) == Request(a, "ReplaceState", 0)
CodeChange(a)   == Request(a, "CodeChange", Target)

RunUntilIdle ==
  /\ rt = "local" /\ MayCall
  /\ host' = [host EXCEPT !.pc = "drive"]
  /\ sends' = sends + 1
  /\ UNCHANGED <<rt, marked, act, running, mail, stops, upgrades, changed>>

RanUntilIdle ==
  /\ host.pc = "drive" /\ NoProgress
  /\ host' = [host EXCEPT !.pc = "idle"]
  /\ UNCHANGED <<rt, marked, act, running, bounds, changed>>

\* Faulty: the error is returned and the tree stays suspended.
ChangeFailedAtOnce == [host EXCEPT !.pc = "returned", !.failed = "change"]

\* The code change of a transaction failed: the tree is resumed, then the
\* error is returned.
ChangeFailed ==
  [host EXCEPT !.pc = "resume", !.failed = "change",
               !.i = Len(host.plan.resumeTargets)]

\* wait_for_control_reply of the concurrent runtime, at its deadline too.
AwaitReply ==
  /\ rt = "concurrent" /\ host.pc = "await"
  /\ host' = IF host.tx = 0 THEN [host EXCEPT !.pc = "idle"]
             ELSE IF host.reply = "ok"
             THEN [host EXCEPT !.pc = "change", !.i = @ + 1,
                     !.upgraded = @ \cup {host.plan.upgradeOrder[host.i]}]
             ELSE ChangeFailed
  /\ UNCHANGED <<rt, marked, act, running, bounds, changed>>

\* wait_for_control_reply of the local one: runs actors until the answer is
\* there or nothing is left to run.
LocalAwaitReply ==
  /\ rt = "local" /\ host.pc = "await"
  /\ host.reply # "none" \/ NoProgress
  /\ host' = IF host.tx = 0 THEN [host EXCEPT !.pc = "idle"]
             ELSE IF host.reply = "ok"
             THEN [host EXCEPT !.pc = "change", !.i = @ + 1,
                     !.upgraded = @ \cup {host.plan.upgradeOrder[host.i]}]
             ELSE ChangeFailed
  /\ UNCHANGED <<rt, marked, act, running, bounds, changed>>
-----------------------------------------------------------------------------
(* The upgrade of a tree.                                                  *)

LiveSupervisor(a) == a \in Super /\ act[a].live

Visit(a) == [op |-> "visit", actor |-> a]
Leave(a) == [op |-> "leave", actor |-> a]
Skip(a)  == [op |-> "skip", actor |-> a]

\* The children in a supervisor's snapshot, in order; those that have no actor
\* at that moment are passed over.
Listed(s) ==
  [j \in DOMAIN Kids[s] |-> IF Kids[s][j] \in running[s] THEN Visit(Kids[s][j])
                                                        ELSE Skip(Kids[s][j])]

Return(why) == [host EXCEPT !.pc = "returned", !.failed = why]

\* plan_local_upgrade: an empty plan and the root to visit, or an error.
PlanLocalUpgrade(tx) ==
  IF LiveSupervisor(Root)
  THEN [HostIdle EXCEPT !.pc = "plan", !.tx = tx, !.n = host.n,
                        !.todo = <<Visit(Root)>>]
  ELSE [Return("plan") EXCEPT !.tx = tx]

StartUpgrade ==
  /\ host.pc = "idle" /\ upgrades < MaxUpgrades
  /\ upgrades' = upgrades + 1
  /\ changed' = {}
  /\ host' = PlanLocalUpgrade(upgrades')
  /\ UNCHANGED <<rt, marked, act, running, mail, stops, sends>>

\* An actor joins the plan: it is resumed in the end unless it is suspended
\* already.
Joined(plan, a) ==
  [plan EXCEPT !.suspendOrder = Append(@, a),
               !.resumeTargets = IF act[a].suspended THEN @ ELSE Append(@, a)]

\* One without children below it joins the upgrade order with that.
JoinedLeaf(plan, a) == [Joined(plan, a) EXCEPT !.upgradeOrder = Append(@, a)]

\* Faulty: a supervisor is changed before its children.
CollectParentFirst ==
  LET item == Head(host.todo)
      a    == item.actor
      rest == Tail(host.todo)
  IN  IF item.op = "skip"
      THEN [host EXCEPT !.todo = rest]
      ELSE IF act[a].live
      THEN [host EXCEPT
              !.plan = JoinedLeaf(@, a),
              !.todo = IF a \in Super THEN Listed(a) \o rest ELSE rest]
      ELSE Return("plan")

\* collect_local_upgrade_tree, one actor at a time: a supervisor is entered
\* before its children and joins the upgrade order after them; a vanished
\* child and one whose spec does not say what it is end the planning.
Collect ==
  LET item == Head(host.todo)
      a    == item.actor
      rest == Tail(host.todo)
  IN  IF item.op = "leave"
      THEN [host EXCEPT !.plan.upgradeOrder = Append(@, a), !.todo = rest]
      ELSE IF item.op = "skip"
      THEN [host EXCEPT !.todo = rest]
      ELSE IF ~act[a].live \/ (a # Root /\ (a \in marked) # (a \in Super))
      THEN Return("plan")
      ELSE IF a \in Super
      THEN [host EXCEPT !.plan = Joined(@, a),
                        !.todo = Listed(a) \o <<Leave(a)>> \o rest]
      ELSE [host EXCEPT !.plan = JoinedLeaf(@, a), !.todo = rest]

PlanUpgrade ==
  /\ host.pc = "plan"
  /\ host' = IF host.todo = <<>> THEN [host EXCEPT !.pc = "suspend", !.i = 1]
                                 ELSE Collect
  /\ UNCHANGED <<rt, marked, act, running, bounds, changed>>

\* A Suspend that is refused ends the transaction there: its error names the
\* actors suspended before.
SuspendNext ==
  /\ host.pc = "suspend"
  /\ LET targets == host.plan.resumeTargets
         env     == System("Suspend", 0, 0, 0)
     IN  \/ /\ host.i > Len(targets)
            /\ host' = [host EXCEPT !.pc = "quiesce"]
            /\ UNCHANGED act
         \/ /\ host.i <= Len(targets) /\ Refuses(act, targets[host.i], env)
            /\ host' = Return("suspend")
            /\ UNCHANGED act
         \/ /\ host.i <= Len(targets) /\ ~Refuses(act, targets[host.i], env)
            /\ act' = Pushed(act, targets[host.i], env)
            /\ host' = [host EXCEPT !.i = @ + 1,
                                    !.suspended = @ \cup {targets[host.i]}]
  /\ UNCHANGED <<rt, marked, running, bounds, changed>>

\* An actor that exited while the tree was quiet, a refused send.
ChangeNext ==
  /\ host.pc = "change"
  /\ LET order == host.plan.upgradeOrder
         env   == System("CodeChange", Target, host.n + 1, host.tx)
     IN  \/ /\ host.i > Len(order)
            /\ host' = [host EXCEPT !.pc = "resume",
                                    !.i = Len(host.plan.resumeTargets)]
            /\ UNCHANGED act
         \/ /\ host.i <= Len(order) /\ Refuses(act, order[host.i], env)
            /\ host' = ChangeFailed
            /\ UNCHANGED act
         \/ /\ host.i <= Len(order) /\ ~Refuses(act, order[host.i], env)
            /\ act' = Pushed(act, order[host.i], env)
            /\ host' = [host EXCEPT !.pc = "await", !.n = @ + 1,
                                    !.reply = "none"]
  /\ UNCHANGED <<rt, marked, running, bounds, changed>>

\* The error a failed resume adds to what there was to report.
Worst(why) == IF host.failed = "no" THEN why ELSE host.failed

\* resume_upgrade_targets: last to first; a refused Resume ends it.
ResumeNext ==
  /\ host.pc = "resume"
  /\ LET targets == host.plan.resumeTargets
         env     == System("Resume", 0, 0, 0)
     IN  \/ /\ host.i = 0
            /\ host' = [host EXCEPT !.pc = "drain"]
            /\ UNCHANGED act
         \/ /\ host.i > 0 /\ ~act[targets[host.i]].live
            /\ host' = [host EXCEPT !.i = @ - 1]
            /\ UNCHANGED act
         \/ /\ host.i > 0 /\ act[targets[host.i]].live
            /\ Refuses(act, targets[host.i], env)
            /\ host' = [Return(Worst("resume")) EXCEPT
                          !.refused = {targets[j] : j \in 1..host.i}]
            /\ UNCHANGED act
         \/ /\ host.i > 0 /\ ~Refuses(act, targets[host.i], env)
            /\ act' = Pushed(act, targets[host.i], env)
            /\ host' = [host EXCEPT !.i = @ - 1]
  /\ UNCHANGED <<rt, marked, running, bounds, changed>>

ReturnToCaller ==
  /\ host.pc = "returned"
  /\ host' = [HostIdle EXCEPT !.n = host.n]
  /\ UNCHANGED <<rt, marked, act, running, bounds, changed>>
-----------------------------------------------------------------------------
(* How the transaction waits.                                              *)

\* wait_for_upgrade_quiescence.
QuietActors ==
  {a \in Actor : /\ act[a].suspended /\ act[a].status = "Waiting"
                 /\ ~AnyMatching(RunnableWhileSuspended(act[a].mailbox))}

\* What resume_upgrade_targets waits for.
IdleActors ==
  {a \in Actor : /\ ~act[a].suspended /\ act[a].mailbox = <<>>
                 /\ act[a].status \in {"Waiting", "Dead"}}

\* wait_for_upgrade_stage: the actors it is stuck at.  Actors without a
\* record are passed over; one that is Exiting is an error at once, the
\* others when the deadline has passed.
StuckAt(targets, ready) ==
  {a \in ToSetOf(targets) :
     act[a].live /\ (act[a].status \in {"Exiting", "Dead"} \/ a \notin ready)}

\* The error of a tree that does not get quiet names no actor as suspended.
Quiesce ==
  /\ host.pc = "quiesce"
  /\ host' = IF StuckAt(host.plan.suspendOrder, QuietActors) = {}
             THEN [host EXCEPT !.pc = "change", !.i = 1]
             ELSE [Return("quiesce") EXCEPT !.suspended = {}]
  /\ UNCHANGED <<rt, marked, act, running, bounds, changed>>

Drain ==
  /\ host.pc = "drain"
  /\ host' = IF StuckAt(host.plan.resumeTargets, IdleActors) = {}
             THEN Return(host.failed)
             ELSE Return(Worst("resume"))
  /\ UNCHANGED <<rt, marked, act, running, bounds, changed>>

\* The local runtime runs the actors until none has anything to do.
LocalQuiesce ==
  /\ host.pc = "quiesce" /\ NoProgress
  /\ host' = [host EXCEPT !.pc = "change", !.i = 1]
  /\ UNCHANGED <<rt, marked, act, running, bounds, changed>>

LocalDrain ==
  /\ host.pc = "drain" /\ NoProgress
  /\ host' = Return(host.failed)
  /\ UNCHANGED <<rt, marked, act, running, bounds, changed>>

\* upgrade_supervisor_tree of the concurrent runtime, and what it waits for.
UpgradeTree ==
  /\ rt = "concurrent"
  /\ \/ StartUpgrade \/ PlanUpgrade \/ SuspendNext \/ Quiesce
     \/ ChangeNext \/ ResumeNext \/ Drain

\* The local runtime's planning takes the same walk.
LocalPlanUpgrade == PlanUpgrade

LocalUpgradeTree ==
  /\ rt = "local"
  /\ \/ StartUpgrade \/ LocalPlanUpgrade \/ SuspendNext \/ LocalQuiesce
     \/ ChangeNext \/ ResumeNext \/ LocalDrain
-----------------------------------------------------------------------------
Next ==
  \/ \E a \in Actor : Turn(a) \/ StopTurn(a)
  \/ \E a \in Actor : LocalTurn(a) \/ LocalStop(a) \/ LocalForcedExit(a)
  \/ \E a \in Actor : UserMail(a)
  \/ \E a \in Called : \/ Suspend(a) \/ Resume(a) \/ GetState(a)
                        \/ ReplaceState(a) \/ CodeChange(a)
  \/ RunUntilIdle \/ RanUntilIdle
  \/ AwaitReply \/ LocalAwaitReply
  \/ UpgradeTree \/ LocalUpgradeTree \/ ReturnToCaller

Spec == Init /\ [][Next]_vars
-----------------------------------------------------------------------------
Envelopes ==
  {User} \cup {Exit(a) : a \in Actor}
    \cup [kind : {"System"}, msg : {"Suspend", "Resume", "GetState",
                                    "ReplaceState", "CodeChange"},
          version : {0, Target}, n : 0..host.n, tx : 0..upgrades]

\* Every variable keeps its type, a plan names each actor once, and an actor
\* that is neither in a turn nor exiting holds no envelope.
TypeOK ==
  /\ \A a \in Actor :
       LET r == act[a]
       IN  /\ r.live \in BOOLEAN /\ r.suspended \in BOOLEAN
           /\ r.forced \in BOOLEAN
           /\ r.at \in {"loop", "parking", "parked", "taken", "running",
                        "exiting", "dead"}
           /\ r.status \in {"Waiting", "Runnable", "Running", "Exiting",
                            "Dead"}
           /\ r.version \in {0, Target} /\ r.schema \in {0, Target}
           /\ \A i \in DOMAIN r.mailbox : r.mailbox[i] \in Envelopes
           /\ r.hand \in Envelopes <=> r.at \in {"taken", "running"}
           /\ Len(r.mailbox) <= Capacity
  /\ running \in [Super -> SUBSET Actor]
  /\ host.pc \in {"idle", "drive", "await", "plan", "suspend", "quiesce",
                  "change", "resume", "drain", "returned"}
  /\ \A s \in {host.plan.suspendOrder, host.plan.upgradeOrder,
               host.plan.resumeTargets} :
       ToSetOf(s) \subseteq Actor /\ Cardinality(ToSetOf(s)) = Len(s)

Planned == ToSetOf(host.plan.upgradeOrder)

\* A supervisor's code is changed by an upgrade only when that of all its
\* planned children has been: "upgrades leaves before parents".  Replies lost
\* to the deadline, exits in between and late code changes do not alter it.
LeavesFirst ==
  host.tx # 0 =>
    \A s \in Super \cap changed :
      ToSetOf(Kids[s]) \cap Planned \subseteq changed

\* While an upgrade changes code, no actor it has suspended holds or handles
\* user mail, although the status it waits for is set apart from the taking
\* of an envelope.
QuietWhileChanging ==
  (host.tx # 0 /\ host.pc \in {"change", "await"}) =>
    \A a \in ToSetOf(host.plan.resumeTargets) : act[a].hand.kind # "User"

\* Whether the actor is suspended once it has taken the mail it has.
WillBeSuspended(a) ==
  LET queue == (IF act[a].at = "taken" THEN <<act[a].hand>> ELSE <<>>)
                 \o act[a].mailbox
      turns == {i \in DOMAIN queue : /\ queue[i].kind = "System"
                                     /\ queue[i].msg \in {"Suspend", "Resume"}}
  IN  IF turns = {} THEN act[a].suspended
      ELSE \E i \in turns : /\ \A j \in turns : j <= i
                            /\ queue[i].msg = "Suspend"

\* What an upgrade reports is true: the actors it names as upgraded have been
\* changed, all of them if it reports success; and when it reports success, or
\* a code change that failed, the live actors it had suspended are resumed,
\* except for those that a refused Resume kept it from.
ReportIsTrue ==
  (host.pc = "returned" /\ host.tx # 0) =>
    /\ host.upgraded \subseteq changed
    /\ host.failed = "no" => Planned \subseteq changed
    /\ host.failed \in {"no", "change"} =>
         \A a \in ToSetOf(host.plan.resumeTargets) \ host.refused :
           act[a].live => ~WillBeSuspended(a)

\* The state of an actor always has the schema of its version: a snapshot
\* that was taken before a code change and is written back after it, however
\* late, is turned down.
SchemaMatches == \A a \in Actor : act[a].schema = act[a].version

\* LocalUpgradeError.suspended: "The runtime attempts to resume these actors
\* before returning the error."  The live actors an error names as suspended
\* are resumed, unless the Resume is refused.
FailureResumes ==
  (host.pc = "returned" /\ host.failed # "no") =>
    \A a \in host.suspended \ host.refused :
      act[a].live => ~WillBeSuspended(a)

\* LocalUpgradeError.suspended: "Actors newly suspended by this transaction
\* before it failed."  An upgrade that fails while it suspends the tree, or
\* waits for it to get quiet, names the live actors it leaves suspended.
LeftSuspendedIsNamed ==
  (host.pc = "returned" /\ host.failed \in {"suspend", "quiesce"}) =>
    \A i \in DOMAIN host.plan.resumeTargets :
      LET a == host.plan.resumeTargets[i]
      IN  i < host.i /\ act[a].live /\ WillBeSuspended(a)
            => a \in host.suspended
=============================================================================
