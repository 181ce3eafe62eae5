# Lamport: a TLA+ model of the actor runtime

Lamport is an actor runtime in the style of Erlang/OTP: isolated actors with
mailboxes, links, monitors, exit signals, timers, calls with timeouts, a name
registry, and supervisors that restart their children. It has two runtimes with
the same semantics (`docs/src/SPEC.md`): a single-threaded one (`runtime.rs`)
and one that runs every actor as a Tokio task over one locked table
(`concurrent.rs`). This directory models the parts where the order of events
matters, checks them with TLC on small instances, and proves the safety
properties for every size with TLAPS.

Source paths below are relative to `src/src/`; "SPEC" is `src/docs/src/SPEC.md`.

## 1. Inventory

| Component | State | Operations | What makes it correct |
|---|---|---|---|
| Mailbox (`mailbox.rs`, `envelope.rs`) | a queue of sequenced entries, capacity, reserve, sequence counter | push, plain and selective receive, withdrawal, watermark | arrival order per class, the reserve holds, a watermark covers the reply |
| Ids, table, registry (`internal/id.rs`, `registry.rs`, table in `concurrent.rs`) | free slots, generations, live records, two name maps | allocate, release, spawn, register, unregister, finalize | an id names one actor for ever; names resolve to live actors; no slot has two uses |
| Concurrent runtime (`concurrent.rs`, `concurrent/worker.rs`, `concurrent/lifecycle.rs`) | one record and one task per actor | send, link, monitor, exit, spawn; worker loop; finalization | no wakeup lost, exits reach peers and watchers once |
| Timers, call timeouts, blocking jobs (both runtimes) | a handle per token or reference, sleeping tasks; in the local runtime a channel of driver events | arm, cancel, fire, reply, report | fires at most once per arming, not after a reply, not lost |
| Supervisor (`supervisor.rs`, `supervisor/`) | running children, restart window, plan in progress | start, child exit, restart, shutdown, code change | every live child tracked, restarts bounded, shutdowns end |
| Managed shutdown (`concurrent.rs`, `internal/shutdown.rs`) | a tracker per actor being shut down | request, time out, complete | escalates to Kill exactly once |
| Local runtime (`runtime.rs`, `runtime/`) | table, run queue, driver channel | the same operations in one thread | agrees with the concurrent runtime |
| Control (`control.rs`) | suspension, state version | suspend, resume, get and replace state, upgrade a tree | suspended actors run only control traffic; leaves change before parents; the report is true |
| Behaviours (`behaviour/`) | typed server and state machine callbacks | call, cast, info | after an answer no word that the call's time is over, and neither heard twice; an accepted answer is heard |
| Observability (`observability/`, `snapshot.rs`, `lifecycle.rs`) | event log, counters | snapshots, cursors, exporters | a cursor misses no event it could see |
| Application, traits (`scheduler.rs`, `application.rs`, `actor.rs`, `context.rs`, `types/`) | none of their own | | |

**How they interact.** An actor's handler runs in its task without the lock and
calls the runtime through `ConcurrentContext`. Each call takes the lock of
`RuntimeState`, once or several times, changes records of other actors, and
wakes their tasks through a `Notify` after the lock is released. Timers are
further tasks that come back through the same lock. A supervisor is an actor:
it learns of a child's end from an `Exit` envelope in its mailbox, and everything
it does to a child is a runtime call. A host controls actors with system
messages that carry a reply channel, and waits for the answer with a timeout.

**What is hard.** Everything that takes the lock more than once: parking
(look for mail, mark as waiting, sleep), forced exits, finalization (the record
goes first, then monitors, watchers and peers are told one lock at a time),
arming and firing of timers, a supervisor's turn, an upgrade, an introspection.
Between two acquisitions any
other task may run, and the target of the next step may be gone. The full list
of hazards, with lines, is in `PROJECT.json`.

## 2. Modules

| Module | Role |
|---|---|
| `MailboxOps` | pure operators on a queue of envelopes: classes, admission, which entry a receive takes; shared by the modules below |
| `Mailbox` | one mailbox and its owner's receives, calls and suspensions |
| `Directory` | slot allocator, actor table, registry |
| `ConcurrentRuntime` | tasks, parking, exits, links, monitors, finalization, one step per lock |
| `Timeouts` | timers, call timeouts, jobs and managed shutdown of one actor of the concurrent runtime, one step per lock |
| `Supervisor` | one supervisor and the instances of its children |
| `LocalRuntime` | the single-threaded runtime: run queue, turns, nested exits, managed shutdown |
| `LocalWaits` | timers, receive and call timeouts and jobs of one actor of the local runtime, with the driver channel |
| `Behaviours` | `LocalWaits` composed with a `gen_server` or `gen_statem` that the actor calls |
| `Calls` | what a call promises its caller, however often it is answered; `Behaviours` is shown to implement it |
| `Upgrade` | control requests and the upgrade of a supervisor tree, in both runtimes |
| `Observability` | event log, traces, introspection and `wait_for_idle` beside the tasks of the concurrent runtime |
| `StoresProofs` | theorems about `Mailbox` and `Directory`, the two stores of the runtimes |
| `ConcurrentRuntimeProofs`, `TimeoutsProofs`, `LocalRuntimeProofs`, `SupervisorProofs`, `UpgradeProofs`, `BehavioursProofs`, `ObservabilityProofs` | theorems about the module of that name |
| `MC*` | instances for TLC |

### Mailbox

`queue` is `Mailbox::queue`, an entry carries its sequence number, kind and
reference; payloads are left out. `TryPush` is admission (`is_full_for`) and
push. `ReceiveNext` and `ReceiveSelective` take the entry `take_next_envelope`
and `take_selective_envelope` would: system messages first, then, when not
suspended, signals and what the caller wants, from a watermark on.
`ApplySystemMessageEffects` is Suspend and Resume. `Ask` notes a call with the
watermark read before the request leaves. `Withdraw` is the removal of a queued
timer or timeout. `FirstMatch` is a relation between a queue and an index
rather than a search. `taken`, `selective` and `calls` are history. Capacity 0
and a reserve as large as the capacity are corrected as `with_limits` does.

### Directory

A spawn takes a slot first and may then be refused, because the table is full or
the name is taken; the code does not give such a slot back, and `leaked` says so.
`byActor` and `byName` are the two maps of the registry. Final snapshots are the
set `completed`.

### ConcurrentRuntime

`pc[a]` is the place in `run_actor_task`: `loop` (forced exit?), `select` (mail?),
`park` (mark as waiting), `asleep` (`notified().await`), `got`, `turn`,
`exiting` (terminate hook), `final`, `done`. `call[a]` is the next step of the runtime
call the task is in: look at the target, enqueue, force, notify. In a turn, and
in its terminate hook, an actor makes any calls, altogether
`MaxCalls`. `Finalize` removes the record and puts into `fin[a]` what is still
to be told to monitored actors, watchers and peers; one of them is told per
step. `permit` is the one permit of Tokio's `Notify`. A spawn links the child
with the parent its options name (`LinkToParent`): the spawner unless the caller
has set another, which may be exiting or gone. A parent without a record gets no
entry, the child does; `orphans` notes these links, and `BondsPaired` excepts
them.

Left out here: suspension (in `Mailbox` and `Upgrade`), timers and managed
shutdown (in `Timeouts`), host calls and events (in `Observability`), yielding
after the turn budget, and runtime calls made from `select_envelope`. Ids are never reused, which `Directory` justifies.

### Timeouts

One actor, its tokens and references. Arming is three steps (cancel the old
one, spawn the task, store the handle), firing two (take the handle, enqueue),
a reply two (cancel the timeout, push). A task cancelled while asleep is
aborted; one that is awake and waits for the lock is not. A blocking job is a
task that reports with one envelope, or panics and never does. A managed
shutdown is a tracker (`policy`, and a task under the key `Stop` when the policy
is a timeout); a second request replaces it, and a task that was awake by then
is `overtaken`: it finds the new tracker and kills the actor under it
(`fire_shutdown_timeout`).

### Supervisor

`todo` is where the supervisor's turn is (`shutdown` a child, `start` one,
`remember` it), `plan` the restart or shutdown in progress
(`SupervisorActorState::action`), `running` its table and `metadata` the
runtime's copy. A child is an instance that is alive, asked to stop, killed,
dead (record gone, signal under way) or gone. A shutdown request for a dead
instance is answered `NoProc`. `on_child_exit` is user code; it is modelled as
every supervisor in the repository writes it, `restart_scope` when
`should_restart`. A code change replaces the flags, strategy, intensity and
period; child specifications stay. `Snapshot` is what `supervisor_snapshot` does
to the supervisor: counting the active restarts prunes the window. `horizon` is
history, the latest time the window has begun at; a change to a longer period
does not move it back, since what was pruned is forgotten. The supervisor's
mailbox is unbounded.
`AtRest`, the states in which the runtime's child table has to agree, leaves out
a supervisor that a Kill has reached (`forced`): a child that exits with Kill
forces its supervisor out instead of leaving an exit signal, so nothing will
correct the table any more.

### LocalRuntime

The host calls `run_once`; everything else happens inside it, or in another call
of the host. An actor that runs is taken out of the table, and so is one that is
forced out, which is finalized on the spot: its terminate hook runs and makes
runtime calls, then its watchers and peers are told and may be forced out inside
that. `stack` has the actors out of the table, innermost last; a frame is `init`,
`turn`, `terminate` or `telling`, with what is left to tell. `waits` marks a
frame inside `shutdown_actor`, which gives the caller the exit signal it could
not get in the table. `tracker`, `sleeping` and `channel` are the shutdown
trackers, their timers and the events they have sent. Other actors do not move
while one runs: a step of `RunOnce` or `Host` needs an empty stack.

Left out: timers, calls and blocking tasks (in `LocalWaits`), control requests
with replies and upgrades (in `Upgrade`), names, calls made from
`select_envelope`. The host has spawned the roots.

### LocalWaits, Behaviours, Calls

`LocalWaits` is one actor of the local runtime and what it waits for. A sleep or a
job runs on a thread of the pool (`state`) and sends an event to the channel
(`events`); `run_once` empties the channel before it gives a turn, and `Ingest`
lets an event through only if `table` still has a handle for its key. While the
actor has its turn it is out of the actor table, so its own `cancel_timer` does
not reach its mailbox (`CancelOwn`). `ReceiveWithTimeout` is
`receive_selective_with_timeout`: whatever it claims, other than the firing,
cancels the timeout. `robbed` notes the timeouts that a control message took
this way, which the actor's `handle` never sees.

`Behaviours` adds the server: `server.inbox`, the phase of a `gen_statem`, the
tokens it was handed. A `ReplyToken` is `Copy`: whoever has seen it may reply, as
often as it likes. `ServerBegin` gives the server its turn, with the envelope
`Claimed`; `ReplyInCallback` is `ctx.reply` with any token the behaviour has, in
any callback and any number of times; `HandleCall` (whose outcome may be a reply
too), `HandleUser`, `HandleRuntimeInfo`, `RejectPayload` (a payload of the wrong
type) and the control hooks end the turn with any outcome the callback's type
allows. `ReplyElsewhere` is a reply by anybody else: the terminate hook, the
host, or an actor the token was passed to. A reply cancels the caller's timeout
and is pushed or refused (`AcceptReply`); nothing records that the call was
answered before. Replies are numbered (`Answer`), and `replies` has, as history,
which of them were accepted. A turn of the server is several steps, so that the
pool may report in between.

`Calls` has one variable, the state of each call as its caller sees it: asked
with or without a deadline; an answer on its way; answered; lost, when every
answer so far has met a full mailbox; expired; answered late; or gone with the
caller. Its `Next` allows no expiry after an answer, not even after a lost one,
no second expiry, and no way back from an answer that was accepted; after a lost
one another may come. Its fairness says that a call with a deadline
ends (which being lost does) and that an accepted answer is received. The
refinement mapping is `CallSeen`, computed from what the caller has received,
from what is queued, and from the replies given. `Calls` allows the loss because
the code does (see Disagreements).

### Upgrade

`act[a]` is an actor's record and its place in the worker loop; `version` is
what `state_version` returns and `schema` the shape its state really has. The
host makes one control call at a time (`Suspend`, `Resume`, `GetState`,
`ReplaceState`, `CodeChange`) and waits for the reply, or gives up
(`wait_for_control_reply`); a request given up stays in the mailbox and is
carried out when its turn comes. `StartUpgrade`, `PlanUpgrade`, `SuspendNext`, `Quiesce`,
`ChangeNext`, `ResumeNext`, `Drain` and `ReturnToCaller` are the steps of
`upgrade_supervisor_tree`; the plan is made actor by actor, from snapshots taken
under separate locks (`collect_local_upgrade_tree`), and `marked` is the set of
actors whose child specification claims to be a supervisor, rightly or not. The
recursion is the stack `host.todo` of actors to visit, supervisors to leave, and
children to skip because they have no live actor. `host.suspended` is the list
of that name in the transaction and in its error. The
`Local...` actions are the same transaction in the local runtime, where actors
run only inside the host's call. `host.refused` has the actors whose Resume was
refused. Left out: restarts of children during the upgrade (a new instance is
not part of the plan).

### Observability

The worker loop of `ConcurrentRuntime` again, coarser, with what the host sees of it: `log`
(sequence numbers are positions), trace options read, written and recorded
under separate locks in the order of `Plan`, `reader` (a cursor, which
searches the log for its place as `events_since` does), `observer` (an introspection: live actors, completed actors, run queues, one lock each)
and `waiter` (`wait_for_idle`; `idle_cv` is notified after the lock is
released). The host may also call `Scheduler::wake` and `park`. `Uses` says
which of the host's threads are at work together. Left out: Down, Restart and
Shutdown events, exporters.

## 3. Runs

| Run | Module, configuration | Distinct states |
|---|---|---|
| `mailbox` | `MCMailbox`, `MCMailbox.cfg` | 91 thousand |
| `directory` | `MCDirectory`, `MCDirectory.cfg` | 928 |
| `runtime_pair` | `MCConcurrentRuntime`, `MCRuntimePair.cfg` | 4.3 million |
| `runtime_live` | `MCConcurrentRuntime`, `MCRuntimeLive.cfg` | 138 thousand |
| `timeouts` | `MCTimeouts`, `MCTimeouts.cfg` | 78 thousand |
| `supervisor_all` | `MCSupervisor`, `MCSupervisorAll.cfg` | 546 thousand |
| `supervisor_rest` | `MCSupervisor`, `MCSupervisorRest.cfg` | 12.6 million |
| `local` | `MCLocalRuntime`, `MCLocalRuntime.cfg` | 206 thousand |
| `upgrade` | `MCUpgrade`, `MCUpgrade.cfg` | 3.9 million |
| `behaviours` | `MCBehaviours`, `MCBehaviours.cfg` | 1.2 million |
| `observability` | `MCObservability`, `MCObservability.cfg` | 973 thousand |
| `upgrade_failure` | `MCUpgrade`, `MCUpgradeFailure.cfg` | violation |

Where a module has a `TypeOK` that is not in its configuration, it may be
added to it.

**mailbox.** Three slots, one of them reserve; eight kinds of envelope; one
call; four pushes. Shows that application mail
never takes the reserve, a receive from a call's watermark cannot miss its
reply, control traffic keeps arrival order, and other mail does as long as
nobody receives selectively. Four entries are enough for every pair of classes
to overtake each other around a third entry.

**directory.** Two live actors at most, five spawns, two names: every slot can be
reused, and spawns are refused for room and for their names.

**runtime_pair.** One actor at the start, another it spawns, which traps exits, and
a third that either may spawn; three calls, mailboxes of two slots, one of
them reserve. The parent named by a spawn is the spawner, the other actor or
none, and may be in its loop, in a turn, exiting, telling its peers or gone by
then. `NoLostWakeup`, `BondsPaired` and `DownOnce` in every interleaving. Two calls
after the spawn are enough for two actors to monitor each other, for unlink and
link around an exit, for a child of a parent that is gone, and, with the links of
the spawns, for a mailbox to overflow in the middle of a finalization. The exit
reason is Error, which is trapped or forces out; Kill is in `runtime_live`.

**runtime_live.** Two actors, two calls, fair tasks: watchers hear of an exit,
linked peers go (which needs forced exits to be carried out), mail is taken.

**timeouts.** A timer and a call together, and a job with a managed shutdown
together; three tasks, two shutdown requests, one user message, a mailbox of two
slots without reserve, so that it can be full. Three tasks allow a timer to
be scheduled, replaced and scheduled again, or a shutdown timeout to be replaced
while awake. `FiringsBacked`, `SettledStaysSilent` and
`ReplacedTimeoutWasAwake`; under fair tasks `ArmedIsSettled`.

**supervisor_all.** OneForAll, three children (one transient, two trapping),
two crashes (with Normal, Kill or Error), one failed start, one external request. Two crashes are enough for
one to fall into the handling of the other. Safety: `NoOrphans` (with the
runtime's metadata once the supervisor is at rest), `OneInstancePerChild`,
`ReverseOrder`. Liveness: `ShutdownEnds` (the subtree goes with the supervisor,
too), `PermanentComesBack`.

**supervisor_rest.** RestForOne with a clock of three instants, a brutally
killed child, and two code changes among OneForAll (no restart, period 0),
OneForOne (2 restarts, period 1) and OneForOne (1 restart, period 2) in the middle
of a window, with snapshots at any time: `IntensityRespected`. Two changes are
enough for a period to be shortened, which forgets restarts, and lengthened again.

**local.** Two actors and a third that may be spawned, one of them trapping, the
host, three calls altogether; BrutalKill and Timeout; mailboxes of one slot, so
that Down and Exit overflow and force out the actor they are for, inside the
exit that caused them. Turns that fail and hooks that panic cost no call, so
three calls are enough for a chain of two links or monitors and an exit that
runs through it. `NoLostTurn`, `BondsPaired`, `ExitsHeard`; `ShutdownCompletes`
under fairness. `ExitsHeard` speaks of actors that were not
passed over while out of the table (`deaf`); what happens to the others is
under Disagreements.

**upgrade.** A root supervisor, a supervisor below it and its worker, in each of
the two runtimes; child specifications that mark the right actors as
supervisors, none, or the worker as well; one upgrade, one control call of
the host before or after it, one user message, one turn that stops its actor,
mailboxes of two slots with a reserve of one. Each stage can fail by a refusal,
by an exit and by a timeout. `LeavesFirst`, `QuietWhileChanging`,
`ReportIsTrue`, `SchemaMatches`. One upgrade is enough: a second one starts from
the states the first may leave, which the host's calls reach as well.

**behaviours.** A `gen_statem` (its outcomes include those of a `gen_server`, and
the adapters do the same), two phases, one call (with or without a
timeout), one token that serves as a timer and as a receive timeout, one job, two
sleeps, one message of each other kind, one reply by a token beside the outcome of
`handle_call`, mailboxes of two slots without reserve. Two sleeps are enough for a
timer to be replaced, or for a call timeout beside a timer. Two replies are
enough for one after an accepted one, one after a refused one, and one in each
order with the timeout. `WaitIsBounded`, `JobsHeardOnce`, `HeardOnce` (which
follows single replies, where the mapping of the refinement sees one call), and the
refinement `CallsKeepPromise`, safety and liveness.

**observability.** A parent and its child, two messages, two control requests. The
host's threads are used in the combinations that share state: control with a reader,
an observer with exits, a waiter with mail, a waiter with `park`, `wake` and exits.
`CursorReadsOnce`, `TraceIsTrue`, `ObservedAll`, and `IdleWaitEnds` under fairness.
Two requests are enough for tracing to be turned on and off, or for a state to be replaced
while traced.

**upgrade_failure.** The instance of `upgrade` in the local runtime with two
control calls of the host and no turn that stops its actor, so that a mailbox can
be full when its Suspend comes; see Disagreements.

Deadlock checking is off in all runs: all actors may exit, the bounded
environment may be used up, and a quiet system is not an error. That nothing
waits for ever is what the liveness properties are for.

**Fairness.** `runtime_live`: weak fairness of each task's own steps
(Tokio polls every task that can go on, and handlers return); never of what user
code chooses to do. `timeouts`: the owner finishes a call it is in, sleeps end,
timer tasks run, a begun reply is pushed, a forced exit is carried out; nobody
has to reply or receive. `supervisor_all`: the supervisor's turns go on, a
child that was killed stops, one that ignores a shutdown request runs into its
timeout, signals arrive; a child need not obey on its own. The run uses
finite timeouts only: a child with `Infinity` may hold a shutdown up for ever,
which is what the policy means. `local`: the host keeps calling `run_once`,
handlers and hooks return, and sleeps end; what actors and host call is free.
`behaviours`: the host keeps driving the runtime, sleeps end, events are taken
in, and an actor with mail takes it (in a wait state, what it waits for); no
server has to answer and no job has to end. `observability`: tasks that can go on
are polled, and a woken waiter gets the lock; nothing is assumed of the host.

### Disagreements between code and documentation

One run expects a violation.

* `upgrade_failure`: the error of `upgrade_supervisor_tree` names the actors
  the transaction has suspended, and its documentation says that "The runtime
  attempts to resume these actors before returning the error." (`control.rs:217`).
  When a Suspend is refused (`runtime.rs:975`, `concurrent.rs:1915`) both
  runtimes return at once, and the actors named stay suspended.
  Of the other failures, a code change that fails resumes the tree first, as the
  text says (`ReportIsTrue`); a failed planning has suspended nobody; a refused
  Resume leaves those before it in the tree suspended (`host.refused`); and for
  one that waits for quiescence see `MCUpgradeQuiescence.cfg`.

Five further configurations reproduce a violation in the same way; run them
with the module named.

* `MCUpgradeQuiescence.cfg` (`MCUpgrade`): when the tree does not get quiet before
  the deadline, or an actor of it is exiting, the concurrent runtime returns
  without resuming (`concurrent.rs:1929`), with an error whose list of "Actors
  newly suspended by this transaction before it failed" (`control.rs:215`) is empty
  (`concurrent.rs:2375`, 2405): the tree stays suspended and nobody is told. The
  local runtime does not check that the tree is quiet.
* `MCRuntimeParent.cfg` (`MCConcurrentRuntime`): "if `link_to_parent` is enabled, a
  bidirectional link is created" (SPEC 10.1). With `SpawnOptions::parent` naming
  an actor that has exited, the child gets a link that has no other side
  (`concurrent.rs:311`), and no exit signal ever ends it.
* `MCRuntimeIdle.cfg` (`MCConcurrentRuntime`): `wait_for_idle` promises that all live actors are parked
  (`concurrent.rs:2423`). A turn that ends with an empty mailbox writes Waiting
  over the Exiting a forced exit has set meanwhile, and idle is reported with
  an exit still to come. In the same way the Waiting written before the task sleeps
  replaces a Runnable, and once the task has taken the envelope idle is
  reported with the envelope in its hand.
* `MCSupervisorStop.cfg` (`MCSupervisor`): in a shutdown, the exit of a child that is still queued
  makes the plan move on past the child being shut down; the supervisor stops
  before it (SPEC 17.8, "When all children are gone").
* `MCLocalDown.cfg` (`MCLocalRuntime`): in the local runtime an actor that shuts down another it monitors
  never gets the Down, because it is out of the table while its monitor is
  answered; the entry stays in `monitors_out` (SPEC 12.2).

Two properties are stated in the modules of the `behaviours` run and fail when added to
`MCBehaviours.cfg`:

* `TimedCallsEnd`: "the runtime delivers `Envelope::CallTimeout` with the same
  reference if no reply arrives before the deadline" (`context.rs:230`). A
  reply cancels the timeout and is then refused by a full mailbox
  (`runtime.rs:1515`; `concurrent.rs:385` is the same): neither arrives, unless
  somebody replies again.
* `CancelWithdraws`: "If the timer already fired but its mailbox envelope has
  not been observed yet, the runtime withdraws that queued timer envelope."
  (`context.rs:321`). In the local runtime the owner is out of the table while
  it runs, and the queued envelope stays (`runtime.rs:1862`).

The same models exhibit the following, for which no run is kept. Each is a state
or a short behaviour of the module named.

* `Timeouts`: a call timeout whose task wakes before its handle is stored finds
  no handle and returns; `CallTimeout` never comes (`context.rs:231`).
* `Timeouts`: a reply that is enqueued before `ask` has armed the timeout does
  not cancel it, and the caller gets a reply and a `CallTimeout` (SPEC 15.1).
* `Timeouts`: the task of a replaced timer that is already awake takes the
  handle of its replacement and fires early (SPEC 15.2).
* `Timeouts`: a timer cancelled between the two locks of its firing is enqueued
  after the cancel (`context.rs:322`).
* `Timeouts`: a reply refused by a full mailbox has already cancelled the
  timeout; the caller keeps neither (SPEC 12.3).
* `Supervisor`: a child found dead (NoProc) while being shut down for a restart is
  treated as an unexpected exit, because `request_restart_shutdown` has cleared
  `active_shutdown`; two crashes within the intensity stop the supervisor
  (SPEC 17.10).
* `Timeouts`: a shutdown timeout that was awake when a second request replaced its
  tracker kills the actor under the new policy, `Infinity` ("wait
  indefinitely", SPEC 5.4) included.
* `Supervisor`: a change to a longer period does not bring back the restarts that
  the shorter one has forgotten, and a mere `supervisor_snapshot` in between is
  enough to forget them: more restarts are then allowed within the period in force
  than its intensity (SPEC 17.5). `IntensityRespected` therefore counts from `horizon`.
* `Supervisor`: the cause of `MCSupervisorStop.cfg` also lets a restart start
  replacements while an old child runs (SPEC 17.7, step 6).

## 4. Proofs

The constants are arbitrary: actors, roots, trees, tokens, references, jobs,
names, reasons, capacities, and the bounds. A proof uses the assumptions its
module states, and TLC evaluates them on every run: limits are naturals, with
the reserve below the capacity (`with_limits`); sets of names that must differ
are disjoint; the roots of the local runtime are finitely many and `None` is no
actor; a supervisor has a child (without one it has nothing to do), and no child
id twice, which `new` does not check but `spec`, `running` and `by_actor` take for granted;
in a supervisor tree an actor has one parent, at one place of its child list,
and the root has none.

An invariant a run checks is hardly ever inductive; the paragraphs say what it
takes.

**StoresProofs, Mailbox.** `TypeCorrect` is inductive as it stands. `DeliveryOrder` proves
`DeliveryInv`, from which `ControlFifo` and `WatermarkSound` follow. None of its
parts is inductive alone: that a delivered entry is the oldest of its class
needs the sequences to be sorted; that a pushed entry is younger than what was
taken needs the history bounded by the counter; a queued reply stays above its
watermark because replies belong to calls already made and the counter only
grows. The argument about a receive is in `NextDoesNotOvertake` and
`SelectiveDoesNotOvertake` (the entry taken is the first of its class), about
the queue after a removal in `RemoveEntryProperties` and `RemovalSources`.
`ReserveHolds` counts: a push of application mail is admitted only below
capacity - reserve entries in all, a removal never adds application mail.
`RefusalMeansReserveFull` follows by subtraction. `OrdinaryFifo` is the order of
the mail that is not control traffic, until a selective receive is made.

**StoresProofs, Directory.** `DirectoryInv` is `DirectoryTypeOK`, `IdsNameOneActor`, `NamesAgree` and
`SlotsAccounted` together, and none of the last three is inductive without the others: that
a spawn's id is new needs the slot to be free of live actors (`SlotsAccounted`)
and the generation to be above every dead one's (`IdsNameOneActor`); that the
registry forgets an exiting actor needs one name per actor. One lemma per
action. `CapacityKept` adds `CountInv` (the live set is finite and counted) to it,
with the cardinality facts of `FiniteSetTheorems`.

**ConcurrentRuntimeProofs.** `WakeInv` extends `NoLostWakeup` to the places before
the sleep: a task past its look at the mailbox has an empty one, or a wakeup
pending (a permit, or a notification some caller still owes it).
`BondsKept` needs `Lifecycle` (an actor without a record has no bonds) and the
entries that a finalization has yet to carry to the other side, and `OrphansBorn`:
the parent of an excepted link has been born and will not be again, so that no
later actor takes its place. `DownsOnce`
needs that a monitor reference is held by one actor, and unanswered while it is.

**TimeoutsProofs.** `BackedInv` balances what was armed against what has fired
and what is still asleep or due. For `SettledSilent` a settled call must have no
handle, no task and no envelope, which `OnceInv` gives: at most one timeout per
call. `ReplacedWasAwake` is an action property: a task that is still asleep is the tracker's.

**LocalRuntimeProofs.** The stack of actors out of the table may be of any depth.
`Shape` says what it looks like, and three lemmas cover its changes (set, push,
pop). `TurnInv` adds to `NoLostTurn` the flag of an actor on the stack, which
`return_actor` relies on. `BondInv` says which entries may be one-sided while
exits are told inside one another; `WaitInv` says whom a frame inside
`shutdown_actor` waits for. `BondsKept` and `ExitsTold` follow from them.

**SupervisorProofs.** `RecordInv` (the tables name instances of the right child),
`MailInv`, `TrackedInv` and `HearInv` (the exit of a tracked instance is on its
way) carry `OneInstancePerChild`; `TablesInv` says what reconciles the runtime's table
with the supervisor's, for the second part of `NoOrphans`. The proof showed that
part false when children exit with Kill, which the run now includes; see
`AtRest` above.
For `ReverseOrder`, `QueueInv` says of the child being asked and the queue behind it that
they descend, and that a child that runs and was not asked is in there or was declared before
them all: true of a whole shutdown, of a restart scope (`ScopeRunning`), and of either when
a child is crossed off. What a selection keeps, and where, is `KeptSelects`;
its induction is by least counterexample (`LeastOf`).
For `IntensityRespected`, `WindowInv` gives every allowed restart since `horizon`
an entry of its own in the window, and says that the window in force begins at
`horizon` or before; a pruning, with the old period or a new one, removes only what
lies before the horizon it leaves. The entries of refused restarts make the window
longer, so the bound on its length is more than the property asks.

**UpgradeProofs.** A step changes several records at once, but each in one of a
few ways (`Motion`), and what is stated of a record is proved once per motion. An
accepted Suspend stays ahead of everything that could undo it, in the mailbox, in hand or in
force (`SuspendInv`, `QuietInv`), which is `TreeIsQuiet`; `ResumeInv` is its
counterpart. `NumberInv` numbers requests, so that the reply the host awaits is of the actor it asked
(`DoneInv`, `ReportTrue`). For `ChildrenFirst`, `WalkInv` describes the stack of
the walk over a tree of any size: what is below an open supervisor is visited
or above it, so that the upgrade order has children first (`KidsFirst`).

**BehavioursProofs.** A step is a motion of one call (asked, answered once more,
taken, fired) while all others at most lose their request with a server
that stops, or it is the end of the caller. `CallInv` says where a call's
timeout and its replies may be: the timeout armed, queued or heard of, never two of
them; none armed or queued once there was a reply, accepted or refused; every accepted
reply, by its number, queued or heard. `CallsRefined`
maps each motion to a step of `Calls` or to none: the safety half of
`CallsKeepPromise`, for any number of calls and of replies to each. `JobInv` is its like for jobs.
That a receive finds an entry needs a least position, from `WFMin` of
`WellFoundedInduction`.

**ObservabilityProofs.** `TypeOK` carries more than types: the log is numbered by its
positions, and what a task is in the middle of fits where it is (`Left` lists what
may remain of a control request). With `LogGrows` (a step adds at the end, lifecycle
events or one event of the task that acts) each property has a part of its own.
`ReaderInv` keeps the cursor between where it was opened and the end of the log; that
`partition_point` finds the cursor's place is `BeforeCursor`. `ObserverInv` says of a
half-done introspection that whoever it found is live in its list or completed by now;
the order of the two reads matters here. `TraceIsTrue` needs three: `TraceInv` says where a task may
have options set without a mark in force (after the write of TraceOn, before that
of TraceOff); `RequestInv`, that the host awaits the request it numbered last, so
that an answer it hears is to that one; `AnswerInv`, that the turn of that request
has recorded its event once only the answer is left, for which a turn that saw the actor
traced when it began must still find it so when it reads the options: nobody but
the task of the actor writes them.

**Only model-checked.** All liveness, and with it the fairness half of
`CallsKeepPromise`: liveness under fairness is outside what TLAPS 1.4.5 can do.
Every safety property of the passing runs is stated by a theorem.

## 5. Not modelled

* The turn budget (`yield_now` after `actor_turn_budget` turns) and the
  scheduler threads: they decide who runs, which the models leave open anyway.
* Names, managed shutdown and supervisors are modelled once where both runtimes
  share the code or do the same; the local registry calls are those of
  `Directory`.
* Down, Restart and Shutdown events of the log, and with them the order in
  which `fire_shutdown_timeout` records TimedOut (`concurrent.rs:678`), after
  its first lock.
* Restarts of children in the middle of an upgrade.
* Exporters (`observability/prometheus.rs`, `observability/tracing.rs`),
  formatting of errors and crash reports, utilization: text and arithmetic on
  values that nothing reads back.
* Application boot (`application.rs`): spawns the root supervisor with the options
  given. Traits and plain types without behaviour.
* User callbacks: what a handler, a hook or a behaviour decides is a free choice
  in every module. A caller that replies to a call of its own is left out: it is
  out of the table while it runs, so its reply is refused, and a timeout that is
  queued already stays.

## 6. Plan

Done: all modules of section 2; the refinement of `Calls`; the theorems of
section 4, which cover every safety property of the runs.

Models, later: an abstract specification of links and monitors in which an exit
is one step, with `ConcurrentRuntime` shown to implement it; restarts inside an
upgrade; the lifecycle events that are left out.
