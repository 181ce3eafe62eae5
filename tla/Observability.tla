---------------------------- MODULE Observability ---------------------------
(***************************************************************************)
(* What the host of a concurrent runtime sees of it: the event log and its *)
(* cursors, the traces of an actor, the snapshots and counts of            *)
(* introspection, and wait_for_idle.  The host's threads run beside the    *)
(* tasks of the actors, and every read and every record is a step under    *)
(* the runtime lock: turning a trace on or off, tracing a state that was   *)
(* replaced, and an introspection are several such steps.                  *)
(*                                                                         *)
(* A task that sleeps wakes when it has mail or a forced exit              *)
(* (ConcurrentRuntime shows that no wakeup is lost).  Links, monitors and  *)
(* managed shutdowns, whose events are logged alike, are left out here.    *)
(***************************************************************************)
EXTENDS MailboxOps

CONSTANTS
  Actor,       \* actor ids
  Parent,      \* the parent of an actor, or Nobody
  Nobody,
  Uses,        \* bound: the actors and host threads that are used together
  MaxMail,     \* bound: user messages sent
  MaxRequests  \* bound: control requests of the host

ASSUME ParentAssumption ==
  /\ Nobody \notin Actor
  /\ Parent \in [Actor -> Actor \cup {Nobody}]

ASSUME BoundAssumption == MaxMail \in Nat /\ MaxRequests \in Nat

Options == {"none", "depth", "all"}   \* TraceOptions: all traces receives, too
Request == {"TraceOff", "GetState", "ReplaceState"}
NoTurn  == [op |-> "none"]

VARIABLES
  pc, present, status, mailbox, forced,
  options,    \* ActorRecord::trace_options
  turn,       \* the turn a task is in: its message and what is left of it
  completed,  \* RuntimeState::completed
  log,        \* RuntimeState::event_log
  used, mail, requests,
  host,       \* the control request of the host, and its answer; traced and
              \* since are history: was the actor traced, where was the log
  reader,     \* a reader of the log: its cursor, what it has read
  observer,   \* an introspection in progress
  waiter      \* a call of wait_for_idle

actors == <<pc, present, status, mailbox, forced, options, turn, completed>>
bounds == <<used, mail, requests>>
vars   == <<actors, log, bounds, host, reader, observer, waiter>>

Init ==
  /\ pc = [a \in Actor |-> "unborn"]
  /\ present = [a \in Actor |-> FALSE]
  /\ status = [a \in Actor |-> "Starting"]
  /\ mailbox = [a \in Actor |-> <<>>]
  /\ forced = [a \in Actor |-> FALSE]
  /\ options = [a \in Actor |-> "none"]
  /\ turn = [a \in Actor |-> NoTurn]
  /\ completed = {}
  /\ log = <<>>
  /\ used \in Uses
  /\ mail = 0 /\ requests = 0
  /\ host = [step |-> "away"]
  /\ reader = [step |-> "away"]
  /\ observer = [step |-> "away"]
  /\ waiter = "away"

Live == {a \in Actor : present[a]}

\* A RuntimeEvent; the kinds are those of lifecycle events, crash reports and
\* trace events.
RuntimeEvent(seq, event) ==
  [seq |-> seq, kind |-> event.kind, actor |-> event.actor]

LifecycleEvent(kind, a) == [kind |-> kind, actor |-> a]
CrashReport(a)          == [kind |-> "Crash", actor |-> a]
TraceEvent(kind, a)     == [kind |-> kind, actor |-> a]

\* record_runtime_event: the sequence numbers of the log are its positions,
\* and next_event_sequence is the one after the last.
Recorded(events) ==
  log \o [i \in DOMAIN events |-> RuntimeEvent(Len(log) + i, events[i])]

\* idle_cv.notify_all.
Notified == IF waiter = "waiting" THEN "check" ELSE waiter
-----------------------------------------------------------------------------
(* The task of an actor.                                                   *)

Goes(a, from, to) == pc[a] = from /\ pc' = [pc EXCEPT ![a] = to]

\* spawn_actor: a record, a Spawn event, a task.
Spawn(a) ==
  /\ a \in used /\ Goes(a, "unborn", "spawned")
  /\ present' = [present EXCEPT ![a] = TRUE]
  /\ log' = Recorded(<<LifecycleEvent("Spawn", a)>>)
  /\ waiter' = Notified
  /\ UNCHANGED <<status, mailbox, forced, options, turn, completed, bounds,
                 host, reader, observer>>

\* run_init.
InitStarts(a) ==
  /\ Goes(a, "spawned", "turn")
  /\ status' = [status EXCEPT ![a] = "Running"]
  /\ turn' = [turn EXCEPT ![a] = [op |-> "Init", todo |-> <<>>]]
  /\ UNCHANGED <<present, mailbox, forced, options, completed, log, bounds,
                 host, reader, observer, waiter>>

\* The top of the loop.
LoopTop(a) ==
  /\ Goes(a, "loop", IF forced[a] THEN "exiting" ELSE "select")
  /\ status' = IF forced[a] THEN [status EXCEPT ![a] = "Exiting"] ELSE status
  /\ forced' = [forced EXCEPT ![a] = FALSE]
  /\ waiter' = IF forced[a] THEN Notified ELSE waiter
  /\ UNCHANGED <<present, mailbox, options, turn, completed, log, bounds,
                 host, reader, observer>>

Select(a) ==
  /\ \/ \E i \in DOMAIN mailbox[a] :
          /\ TakesNext(mailbox[a], FALSE, i)
          /\ mailbox' = [mailbox EXCEPT ![a] = RemoveEntry(@, i)]
          /\ turn' = [turn EXCEPT ![a] = mailbox[a][i]]
          /\ Goes(a, "select", "got")
     \/ /\ mailbox[a] = <<>>
        /\ Goes(a, "select", "park")
        /\ UNCHANGED <<mailbox, turn>>
  /\ UNCHANGED <<present, status, forced, options, completed, log, bounds,
                 host, reader, observer, waiter>>

Park(a) ==
  /\ Goes(a, "park", "parked")
  /\ status' = [status EXCEPT ![a] = "Waiting"]
  /\ UNCHANGED <<present, mailbox, forced, options, turn, completed, log,
                 bounds, host, reader, observer, waiter>>

\* Faulty: nobody is told.
NotifyIdleNobody(a) ==
  /\ \/ Goes(a, "parked", "asleep")
     \/ Goes(a, "ended", "loop")
     \/ Goes(a, "final", "done")
  /\ UNCHANGED <<present, status, mailbox, forced, options, turn, completed,
                 log, bounds, host, reader, observer, waiter>>

\* idle_cv.notify_all, after the lock is released: when the task goes to
\* sleep, after a turn, and at the end of finalize_actor.
NotifyIdle(a) ==
  /\ \/ Goes(a, "parked", "asleep")
     \/ Goes(a, "ended", "loop")
     \/ Goes(a, "final", "done")
  /\ waiter' = Notified
  /\ UNCHANGED <<present, status, mailbox, forced, options, turn, completed,
                 log, bounds, host, reader, observer>>

Wake(a) ==
  /\ Goes(a, "asleep", "loop")
  /\ mailbox[a] # <<>> \/ forced[a]
  /\ UNCHANGED <<present, status, mailbox, forced, options, turn, completed,
                 log, bounds, host, reader, observer, waiter>>

\* The trace options of the record, as the turn starts.
TurnStarts(a) ==
  /\ Goes(a, "got", IF options[a] = "all" THEN "received" ELSE "handle")
  /\ status' = [status EXCEPT ![a] = "Running"]
  /\ UNCHANGED <<present, mailbox, forced, options, turn, completed, log,
                 bounds, host, reader, observer, waiter>>

\* maybe_trace_receive.
TraceReceived(a) ==
  /\ Goes(a, "received", "handle")
  /\ log' = Recorded(<<TraceEvent("Received", a)>>)
  /\ UNCHANGED <<present, status, mailbox, forced, options, turn, completed,
                 bounds, host, reader, observer, waiter>>

\* Faulty: the answer goes out before the event is recorded.
PlanAnswersFirst(op) ==
  CASE op = "TraceOn"      -> <<"set", "answer", "record">>
    [] op = "TraceOff"     -> <<"read", "answer", "record", "set">>
    [] op = "GetState"     -> <<"answer", "read", "record">>
    [] op = "ReplaceState" -> <<"answer", "read", "record">>
    [] OTHER               -> <<>>

\* handle_reserved_system_message: what is done for a control request, and
\* in which order.  "set" writes the trace options of the record, "read" reads
\* them.  (CodeChange is traced like ReplaceState.)
Plan(op) ==
  CASE op = "TraceOn"      -> <<"set", "record", "answer">>
    [] op = "TraceOff"     -> <<"read", "record", "set", "answer">>
    [] op = "GetState"     -> <<"answer", "read", "record">>
    [] op = "ReplaceState" -> <<"read", "record", "answer">>
    [] OTHER               -> <<>>

\* The handler is called.  A state may refuse to be inspected or replaced,
\* which is answered and not traced.
HandleStarts(a) ==
  LET op == turn[a].op
  IN  /\ Goes(a, "handle", "turn")
      /\ \E ok \in IF op \in {"GetState", "ReplaceState"} THEN BOOLEAN
                                                          ELSE {TRUE} :
           turn' = [turn EXCEPT ![a] =
             [op |-> op, ok |-> ok, request |-> turn[a].request,
              traced |-> options[a] # "none", wanted |-> turn[a].wanted,
              options |-> turn[a].wanted,
              todo |-> IF ok THEN Plan(op) ELSE <<"answer">>]]
      /\ UNCHANGED <<present, status, mailbox, forced, options, completed, log,
                     bounds, host, reader, observer, waiter>>

\* What is left to do of a control request; of a send, it is the receiver.
Doing(a, step) ==
  /\ pc[a] = "turn" /\ turn[a].op # "Sending"
  /\ turn[a].todo # <<>> /\ Head(turn[a].todo) = step

\* actor_trace_options.
ReadOptions(a) ==
  /\ Doing(a, "read")
  /\ turn' = [turn EXCEPT ![a].options = options[a], ![a].todo = Tail(@)]
  /\ UNCHANGED <<pc, present, status, mailbox, forced, options, completed, log,
                 bounds, host, reader, observer, waiter>>

\* update_trace_options.
SetOptions(a) ==
  /\ Doing(a, "set")
  /\ turn' = [turn EXCEPT ![a].todo = Tail(@)]
  /\ options' = [options EXCEPT ![a] = turn[a].wanted]
  /\ UNCHANGED <<pc, present, status, mailbox, forced, completed, log, bounds,
                 host, reader, observer, waiter>>

EventOf(op) ==
  CASE op = "TraceOn"      -> "TraceEnabled"
    [] op = "TraceOff"     -> "TraceDisabled"
    [] op = "GetState"     -> "StateInspected"
    [] op = "ReplaceState" -> "StateReplaced"

\* record_trace_for_actor, and the events of TraceOn and TraceOff.
RecordTrace(a) ==
  /\ Doing(a, "record")
  /\ turn' = [turn EXCEPT ![a].todo = Tail(@)]
  /\ log' = IF turn[a].op = "TraceOn" \/ turn[a].options # "none"
            THEN Recorded(<<TraceEvent(EventOf(turn[a].op), a)>>) ELSE log
  /\ UNCHANGED <<pc, present, status, mailbox, forced, options, completed,
                 bounds, host, reader, observer, waiter>>

\* The host waits for the answer, or has given up; then an inspection is not
\* traced.
Answer(a) ==
  LET heard == host.step = "waiting" /\ host.request = turn[a].request
  IN  /\ Doing(a, "answer")
      /\ host' = IF heard
                 THEN [host EXCEPT !.step = IF turn[a].ok THEN "ok" ELSE "error",
                                   !.traced = turn[a].traced]
                 ELSE host
      /\ turn' = [turn EXCEPT ![a].todo = IF heard THEN Tail(@) ELSE <<>>]
      /\ UNCHANGED <<pc, present, status, mailbox, forced, options, completed,
                     log, bounds, reader, observer, waiter>>

\* A handler sends: maybe_trace_send, under one lock; then the push.
HandlerSends(a, b) ==
  /\ pc[a] = "turn" /\ turn[a].op = "User" /\ mail < MaxMail /\ present[b]
  /\ mail' = mail + 1
  /\ log' = IF options[a] = "all" THEN Recorded(<<TraceEvent("Sent", a)>>)
                               ELSE log
  /\ turn' = [turn EXCEPT ![a].op = "Sending", ![a].todo = <<b>>]
  /\ UNCHANGED <<pc, present, status, mailbox, forced, options, completed,
                 used, requests, host, reader, observer, waiter>>

\* push_envelope.
Pushed(a, env) ==
  /\ mailbox' = [mailbox EXCEPT ![a] = Append(@, env)]
  /\ status' = [status EXCEPT ![a] = IF @ = "Waiting" THEN "Runnable" ELSE @]
  /\ waiter' = Notified

Message(op, wanted) ==
  [kind |-> IF op = "User" THEN "User" ELSE "System", op |-> op,
   wanted |-> wanted, request |-> requests']

HandlerPushes(a) ==
  LET b == Head(turn[a].todo)
  IN  /\ pc[a] = "turn" /\ turn[a].op = "Sending"
      /\ turn' = [turn EXCEPT ![a].op = "User", ![a].todo = <<>>]
      /\ UNCHANGED requests
      /\ IF present[b] THEN Pushed(b, Message("User", "none"))
                       ELSE UNCHANGED <<mailbox, status, waiter>>
      /\ UNCHANGED <<pc, present, forced, options, completed, log, used, mail,
                     host, reader, observer>>

TurnEnds(a) ==
  /\ Goes(a, "turn", "ended") /\ turn[a].todo = <<>>
  /\ status' = [status EXCEPT ![a] =
                  IF mailbox[a] = <<>> THEN "Waiting" ELSE "Runnable"]
  /\ turn' = [turn EXCEPT ![a] = NoTurn]
  /\ UNCHANGED <<present, mailbox, forced, options, completed, log, bounds,
                 host, reader, observer, waiter>>

\* A handler stops or panics, init fails.
TurnStops(a) ==
  /\ Goes(a, "turn", "exiting") /\ turn[a].op \in {"User", "Init"}
  /\ status' = [status EXCEPT ![a] = "Exiting"]
  /\ UNCHANGED <<present, mailbox, forced, options, turn, completed, log,
                 bounds, host, reader, observer, waiter>>

\* finalize_actor: from the table to the completed, with an Exit event and,
\* for an abnormal reason, a crash report.
Finalize(a) ==
  /\ Goes(a, "exiting", "final")
  /\ present' = [present EXCEPT ![a] = FALSE]
  /\ completed' = completed \cup {a}
  /\ status' = [status EXCEPT ![a] = "Dead"]
  /\ mailbox' = [mailbox EXCEPT ![a] = <<>>]
  /\ turn' = [turn EXCEPT ![a] = NoTurn]
  /\ \E abnormal \in BOOLEAN :
       log' = Recorded(<<LifecycleEvent("Exit", a)>>
                         \o IF abnormal THEN <<CrashReport(a)>> ELSE <<>>)
  /\ UNCHANGED <<forced, options, bounds, host, reader, observer, waiter>>

Task(a) ==
  \/ InitStarts(a) \/ LoopTop(a) \/ Select(a) \/ Park(a) \/ NotifyIdle(a)
  \/ Wake(a) \/ TurnStarts(a) \/ TraceReceived(a) \/ HandleStarts(a)
  \/ ReadOptions(a) \/ SetOptions(a) \/ RecordTrace(a) \/ Answer(a)
  \/ HandlerPushes(a) \/ TurnEnds(a) \/ Finalize(a)
-----------------------------------------------------------------------------
(* The host: mail, exits and control requests.                             *)

SendUser(a) ==
  /\ "mail" \in used /\ mail < MaxMail /\ present[a]
  /\ mail' = mail + 1
  /\ UNCHANGED requests
  /\ Pushed(a, Message("User", "none"))
  /\ UNCHANGED <<pc, present, forced, options, turn, completed, log, used,
                 host, reader, observer>>

\* exit_actor.
ExitActor(a) ==
  /\ "exits" \in used /\ present[a] /\ ~forced[a]
  /\ forced' = [forced EXCEPT ![a] = TRUE]
  /\ status' = [status EXCEPT ![a] = "Exiting"]
  /\ waiter' = Notified
  /\ UNCHANGED <<pc, present, mailbox, options, turn, completed, log, bounds,
                 host, reader, observer>>

\* Scheduler::enqueue and wake: notify_one, whatever there is to do.  A task
\* that is not asleep keeps the permit until it would sleep.
WakeActor(a) ==
  /\ "scheduler" \in used /\ present[a]
  /\ Goes(a, "asleep", "loop")
  /\ UNCHANGED <<present, status, mailbox, forced, options, turn, completed,
                 log, bounds, host, reader, observer, waiter>>

\* Scheduler::park, of an actor with an empty mailbox, whatever it is doing.
ParkActor(a) ==
  /\ "scheduler" \in used /\ present[a] /\ mailbox[a] = <<>>
  /\ status' = [status EXCEPT ![a] = "Waiting"]
  /\ waiter' = Notified
  /\ UNCHANGED <<pc, present, mailbox, forced, options, turn, completed, log,
                 bounds, host, reader, observer>>

\* trace_actor, untrace_actor, get_state and replace_state, one at a time.
Control(a, op, wanted) ==
  /\ "control" \in used /\ requests < MaxRequests /\ present[a]
  /\ host.step # "waiting"
  /\ requests' = requests + 1
  /\ Pushed(a, Message(op, wanted))
  /\ host' = [step |-> "waiting", request |-> requests', op |-> op,
              actor |-> a, since |-> Len(log), traced |-> FALSE]
  /\ UNCHANGED <<pc, present, forced, options, turn, completed, log, used,
                 mail, reader, observer>>

\* wait_for_control_reply: the timeout, or the request died with the actor.
ControlGivesUp ==
  /\ host.step = "waiting"
  /\ host' = [host EXCEPT !.step = "given_up"]
  /\ UNCHANGED <<actors, log, bounds, reader, observer, waiter>>
-----------------------------------------------------------------------------
(* The host: reading the log.                                              *)

\* event_cursor, or EventCursor::from_start.
OpenCursor ==
  /\ "reader" \in used /\ reader.step = "away"
  /\ \E next \in {0, Len(log) + 1} :
       reader' = [step |-> "open", opened |-> next, next |-> next,
                  read |-> <<>>]
  /\ UNCHANGED <<actors, log, bounds, host, observer, waiter>>

\* Faulty: the cursor stays on the event it has returned last.
AdvancedToTail(next, pending) ==
  IF pending = <<>> THEN next ELSE pending[Len(pending)].seq

\* One past the tail of what is returned.
Advanced(next, pending) ==
  IF pending = <<>> THEN next ELSE pending[Len(pending)].seq + 1

\* partition_point: how many events are numbered below next.
Before(next) == Cardinality({i \in DOMAIN log : log[i].seq < next})

\* events_since.
EventsSince ==
  LET pending == SubSeq(log, Before(reader.next) + 1, Len(log))
  IN  /\ reader.step = "open" /\ pending # <<>>
      /\ reader' = [reader EXCEPT !.next = Advanced(@, pending),
                                  !.read = @ \o pending]
      /\ UNCHANGED <<actors, log, bounds, host, observer, waiter>>
-----------------------------------------------------------------------------
(* The host: introspection, a step per lock.                               *)

Known == Live \cup completed

\* Faulty: the order of the two reads is swapped.
ObservationCompletedFirst == <<"completed", "live", "queues">>

\* introspection and metrics_snapshot: actor_snapshots, then
\* completed_actor_count, then run_queue_snapshots.
Observation == <<"live", "completed", "queues">>

Observing(step) ==
  /\ observer.step = "busy" /\ observer.todo # <<>>
  /\ Head(observer.todo) = step

\* What an introspection gathers: the actors, from which the tree is built,
\* and the counts of its metrics.  known is history.
RuntimeIntrospection ==
  [step |-> "busy", todo |-> Observation, known |-> Known,
   live |-> {}, completed |-> 0, queued |-> 0]

Introspect ==
  /\ "observer" \in used /\ observer.step = "away"
  /\ observer' = RuntimeIntrospection
  /\ UNCHANGED <<actors, log, bounds, host, reader, waiter>>

ObserveLive ==
  /\ Observing("live")
  /\ observer' = [observer EXCEPT !.todo = Tail(@), !.live = Live]
  /\ UNCHANGED <<actors, log, bounds, host, reader, waiter>>

ObserveCompleted ==
  /\ Observing("completed")
  /\ observer' = [observer EXCEPT !.todo = Tail(@),
                                  !.completed = Cardinality(completed)]
  /\ UNCHANGED <<actors, log, bounds, host, reader, waiter>>

\* run_queue_snapshots: runnable and waiting actors.
ObserveQueues ==
  /\ Observing("queues")
  /\ observer' = [observer EXCEPT
       !.todo = Tail(@),
       !.queued = Cardinality({a \in Live : status[a] # "Exiting"})]
  /\ UNCHANGED <<actors, log, bounds, host, reader, waiter>>

\* build_actor_tree: an actor without a live parent is a root.
Roots(live) == {a \in live : Parent[a] \notin live}

Children(live, a) == {b \in live : Parent[b] = a}
-----------------------------------------------------------------------------
(* The host: wait_for_idle.                                                *)

IsIdleState ==
  \A a \in Live : mailbox[a] = <<>> /\ status[a] = "Waiting"

WaitForIdle ==
  /\ "waiter" \in used /\ waiter = "away"
  /\ waiter' = "check"
  /\ UNCHANGED <<actors, log, bounds, host, reader, observer>>

\* Under the lock, which the wait on idle_cv gives up.
WaiterChecks ==
  /\ waiter = "check"
  /\ waiter' = IF IsIdleState THEN "back" ELSE "waiting"
  /\ UNCHANGED <<actors, log, bounds, host, reader, observer>>
-----------------------------------------------------------------------------
HostThread ==
  \/ ControlGivesUp \/ OpenCursor \/ EventsSince
  \/ Introspect \/ ObserveLive \/ ObserveCompleted \/ ObserveQueues
  \/ WaitForIdle \/ WaiterChecks

Next ==
  \/ \E a \in Actor :
       \/ Spawn(a) \/ Task(a) \/ TurnStops(a)
       \/ SendUser(a) \/ ExitActor(a) \/ WakeActor(a) \/ ParkActor(a)
       \/ \E b \in Actor : HandlerSends(a, b)
       \/ \E op \in Request : Control(a, op, "none")
       \/ \E o \in Options : Control(a, "TraceOn", o)
  \/ HostThread

Spec == Init /\ [][Next]_vars

\* Tasks that can go on are polled, and a woken waiter gets the lock.
FairSpec ==
  Spec /\ \A a \in Actor : WF_vars(Task(a)) /\ WF_vars(WaiterChecks)
-----------------------------------------------------------------------------
\* SPEC 19.4: whenever the cursor was taken and however the reads fall among
\* the appends of the tasks, the reader gets the events from its cursor on,
\* each once and in their order, none left out.
CursorReadsOnce ==
  reader.step = "open" =>
    reader.read = SubSeq(log, IF reader.opened = 0 THEN 1 ELSE reader.opened,
                         reader.next - 1)

IsTrace(e) ==
  e.kind \in {"Received", "Sent", "StateInspected", "StateReplaced",
              "TraceDisabled"}

\* The trace of an actor can be believed.  Its events stand between a
\* TraceEnabled and the next TraceDisabled, although the options are read,
\* written and recorded under separate locks; and a host that has its answer
\* to TraceOn, to TraceOff of a traced actor or to ReplaceState of one finds
\* the event in the log already.
TraceIsTrue ==
  /\ \A i \in DOMAIN log : IsTrace(log[i]) =>
       \E j \in 1..(i - 1) :
         /\ log[j] = [seq |-> j, kind |-> "TraceEnabled",
                      actor |-> log[i].actor]
         /\ \A k \in (j + 1)..(i - 1) :
              ~(log[k].kind = "TraceDisabled" /\ log[k].actor = log[i].actor)
  /\ (host.step = "ok" /\ host.op # "GetState"
        /\ (host.op = "TraceOn" \/ host.traced)) =>
       \E i \in (host.since + 1)..Len(log) :
         log[i].kind = EventOf(host.op) /\ log[i].actor = host.actor

\* An introspection is no snapshot of one moment, but it leaves nobody out: an
\* actor that was there when it began is counted, as live or as completed
\* (perhaps as both), and each live one has one place in the tree, below its
\* parent or, once that is gone, as a root.
ObservedAll ==
  (observer.step = "busy" /\ observer.todo = <<>>) =>
    /\ Cardinality(observer.live) + observer.completed
         >= Cardinality(observer.known)
    /\ observer.queued <= Cardinality(Known)
    /\ \A a \in observer.live :
         IF a \in Roots(observer.live)
         THEN \A b \in observer.live : a \notin Children(observer.live, b)
         ELSE Cardinality({b \in observer.live :
                             a \in Children(observer.live, b)}) = 1

\* wait_for_idle without a timeout returns once the runtime stays idle: each
\* way into the idle state is followed by a notification of idle_cv.
IdleWaitEnds == <>[]IsIdleState => <>[](waiter \notin {"check", "waiting"})
=============================================================================
