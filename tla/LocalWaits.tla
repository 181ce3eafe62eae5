----------------------------- MODULE LocalWaits -----------------------------
(***************************************************************************)
(* What an actor of the local runtime waits for: timers, the timeouts of   *)
(* its calls and of its receives, and blocking jobs.                       *)
(*                                                                         *)
(* The runtime is driven by one thread, but every sleep and every job runs *)
(* on a thread of the pool and reports through a channel of driver events. *)
(* run_once empties the channel before it runs an actor, and an event      *)
(* counts only if the table still has a handle for its key.  While an      *)
(* actor is in its turn its entry is not in the actor table, so what a     *)
(* call of its own would do to its mailbox is not done.                    *)
(*                                                                         *)
(* This module has the actor's side and the driver; who it calls comes     *)
(* from a module that extends it (Behaviours).                             *)
(***************************************************************************)
EXTENDS MailboxOps

CONSTANTS
  Token,      \* timer tokens
  Ref,        \* references of the calls it makes, each used once
  Job,        \* its blocking jobs
  Capacity, RuntimeReserve, Unbounded,
  MaxTasks,   \* bound: sleeps ever started
  MaxMail     \* bound: other mail for the actor

ASSUME WaitAssumption ==
  /\ Token \cap Ref = {} /\ Job \cap (Token \cup Ref) = {}
  /\ Capacity \in Nat \ {0} /\ RuntimeReserve \in 0..(Capacity - 1)
  /\ Unbounded \in Nat /\ MaxTasks \in Nat /\ MaxMail \in Nat

Key  == Token \cup Ref
Task == 1..MaxTasks
Free == 0
NoWait == [kind |-> "none"]

VARIABLES
  present,  \* the actor lives
  turn,     \* whose turn it is: "none", "own", "other"; an actor that has its
            \* turn has claimed the one envelope of it
  mailbox,
  table,    \* timer_tasks and call_timeout_tasks: the task of a key, or Free
  state,    \* per task: what it is doing
  key,      \* per task: the key it sleeps for
  events,   \* the channel of driver events
  job,      \* per job: how far it is
  wait,     \* the receive timeout of the wait state the actor is in
  mail,     \* other mail sent
  \* history
  robbed,   \* receive timeouts that a message for the runtime has cost
  heard     \* what the actor has received of calls and jobs, in order

tasks  == <<table, state, key, events, job>>
waiter == <<present, turn, mailbox, tasks, wait, mail, robbed, heard>>

Env(kind, ref) == [seq |-> 0, kind |-> kind, ref |-> ref, nth |-> 0]

\* The n-th reply given to call r: replies differ in what they say.
Answer(r, n) == [seq |-> 0, kind |-> "Reply", ref |-> r, nth |-> n]

\* The driver event of a key's sleep.
KindOf(k) == IF k \in Token THEN "Timer" ELSE "CallTimeout"

\* The actor is in its init, which has the context of a turn.
InitWaits ==
  /\ present = TRUE /\ turn = "own"
  /\ mailbox = <<>>
  /\ table = [k \in Key |-> Free]
  /\ state = [n \in Task |-> "unborn"]
  /\ key = [n \in Task |-> CHOOSE k \in Key : TRUE]
  /\ events = <<>>
  /\ job = [j \in Job |-> "none"]
  /\ wait = NoWait
  /\ mail = 0
  /\ robbed = {}
  /\ heard = <<>>

IsFull(kind) == IsFullFor(mailbox, kind, Capacity, RuntimeReserve, Unbounded)

\* The task of key k, if it sleeps, is aborted; one that has sent its event
\* is past that.
Aborted(k) ==
  [n \in Task |-> IF n = table[k] /\ state[n] = "sleeping" THEN "aborted"
                                                           ELSE state[n]]

\* Faulty: the first envelope about k is withdrawn, whatever it says.
WithdrawnAnything(k) ==
  LET queued == {i \in DOMAIN mailbox : mailbox[i].ref = k}
  IN  IF ~AnyMatching(queued) THEN mailbox
      ELSE RemoveEntry(mailbox, CHOOSE i \in queued : FirstMatch(queued, i))

\* The mailbox without the first queued envelope of key k.
Withdrawn(k) ==
  LET queued == {i \in DOMAIN mailbox : mailbox[i] = Env(KindOf(k), k)}
  IN  IF ~AnyMatching(queued) THEN mailbox
      ELSE RemoveEntry(mailbox, CHOOSE i \in queued : FirstMatch(queued, i))

\* cancel_actor_timer and cancel_call_timeout, called in the actor's own turn:
\* its entry is out of the table, the mailbox is not reached.
CancelOwn(k) ==
  /\ table' = [table EXCEPT ![k] = Free]
  /\ state' = Aborted(k)
-----------------------------------------------------------------------------
(* The actor's turns.                                                      *)

\* run_once: the channel is empty, the actor is taken out of the table.
MayRun == present /\ turn = "none" /\ events = <<>>

\* The runtime answers this one itself; the actor's handle is not called.
IsReserved(env) == env.kind = "System"

\* What the actor remembers of an envelope it is handed.
Recorded(env) ==
  IF env.kind \in {"Reply", "CallTimeout", "Task"} THEN Append(heard, env)
                                                   ELSE heard

\* drive_actor with receive_next as select_envelope.
ReceiveNext ==
  /\ MayRun /\ wait = NoWait
  /\ \E i \in DOMAIN mailbox :
       /\ TakesNext(mailbox, FALSE, i)
       /\ mailbox' = RemoveEntry(mailbox, i)
       /\ turn' = IF IsReserved(mailbox[i]) THEN "none" ELSE "own"
       /\ heard' = Recorded(mailbox[i])
  /\ UNCHANGED <<present, tasks, wait, mail, robbed>>

\* receive_selective_with_timeout: anything but the timeout's own firing
\* cancels the timeout.
GivesUpTimeout(env) == env # Env("Timer", wait.token)

\* take_selective_envelope: the end of a call or the timeout's firing, unless
\* control traffic is queued.
TakesWanted(i) ==
  TakesSelective(mailbox, FALSE, 0,
    {[kind |-> "Timer", ref |-> wait.token]} \cup
      [kind : {"Reply", "CallTimeout"}, ref : Ref], i)

\* drive_actor of an actor in a wait state: it wants the end of a call, or its
\* timeout; control traffic comes first, wanted or not.  An envelope that
\* its handle sees ends the wait state.
ReceiveWithTimeout ==
  /\ MayRun /\ wait # NoWait
  /\ \E i \in DOMAIN mailbox :
       LET env == mailbox[i]
       IN  /\ TakesWanted(i)
           /\ mailbox' = RemoveEntry(mailbox, i)
           /\ IF GivesUpTimeout(env) THEN CancelOwn(wait.token)
                                     ELSE UNCHANGED <<table, state>>
           /\ turn' = IF IsReserved(env) THEN "none" ELSE "own"
           /\ heard' = Recorded(env)
           /\ wait' = IF IsReserved(env) THEN wait ELSE NoWait
           /\ robbed' = IF IsReserved(env) THEN robbed \cup {wait.token}
                                           ELSE robbed
  /\ UNCHANGED <<present, key, events, job, mail>>

\* The first task that was never started, for key k: spawn_timer and
\* spawn_call_timeout.
Spawn(k, before) ==
  \E n \in Task :
    /\ state[n] = "unborn" /\ \A m \in Task : m < n => state[m] # "unborn"
    /\ state' = [before EXCEPT ![n] = "sleeping"]
    /\ key' = [key EXCEPT ![n] = k]
    /\ table' = [table EXCEPT ![k] = n]

ScheduleAfter(t) ==
  /\ turn = "own"
  /\ Spawn(t, Aborted(t))
  /\ UNCHANGED <<present, turn, mailbox, events, job, wait, mail, robbed,
                 heard>>

\* arm_receive_timeout: a fresh token, and the actor is in a wait state.
ArmReceiveTimeout(t) ==
  /\ turn = "own" /\ wait = NoWait
  /\ \A n \in Task : state[n] # "unborn" => key[n] # t
  /\ Spawn(t, state)
  /\ wait' = [kind |-> "wait", token |-> t]
  /\ UNCHANGED <<present, turn, mailbox, events, job, mail, robbed, heard>>

\* cancel_timer; cancelling the receive timeout ends the wait state.
CancelTimer(t) ==
  /\ turn = "own"
  /\ CancelOwn(t)
  /\ wait' = IF wait # NoWait /\ wait.token = t THEN NoWait ELSE wait
  /\ UNCHANGED <<present, turn, mailbox, key, events, job, mail, robbed,
                 heard>>

\* ask, once its request has been accepted.
ArmCall(r, timed) ==
  /\ turn = "own"
  /\ IF timed THEN Spawn(r, Aborted(r)) ELSE UNCHANGED <<table, state, key>>
  /\ UNCHANGED <<present, turn, mailbox, events, job, wait, mail, robbed,
                 heard>>

\* spawn_blocking_io and spawn_blocking_cpu.
SpawnBlocking(j) ==
  /\ turn = "own" /\ job[j] = "none"
  /\ job' = [job EXCEPT ![j] = "working"]
  /\ UNCHANGED <<present, turn, mailbox, table, state, key, events, wait,
                 mail, robbed, heard>>

EndTurn ==
  /\ turn = "own"
  /\ turn' = "none"
  /\ UNCHANGED <<present, mailbox, tasks, wait, mail, robbed, heard>>

\* cancel_all_timers, and cancel_all_call_timeouts after it.
TimersAborted(before) ==
  [n \in Task |->
     IF before[n] = "sleeping" /\ key[n] \in Token /\ table[key[n]] = n
     THEN "aborted" ELSE before[n]]

CallTimeoutsAborted(before) ==
  [n \in Task |->
     IF before[n] = "sleeping" /\ key[n] \in Ref /\ table[key[n]] = n
     THEN "aborted" ELSE before[n]]

AllAborted == CallTimeoutsAborted(TimersAborted(state))

\* The record goes with its mailbox and its handles: finish_actor, finalize.
Leave ==
  /\ present' = FALSE /\ turn' = "none"
  /\ mailbox' = <<>>
  /\ state' = AllAborted
  /\ table' = [k \in Key |-> Free]
  /\ wait' = NoWait

Exit ==
  /\ turn = "own"
  /\ Leave
  /\ UNCHANGED <<key, events, job, mail, robbed, heard>>
-----------------------------------------------------------------------------
(* The pool, on threads of its own.                                        *)

Elapse(n) ==
  /\ state[n] = "sleeping"
  /\ state' = [state EXCEPT ![n] = "sent"]
  /\ events' = Append(events, Env(KindOf(key[n]), key[n]))
  /\ UNCHANGED <<present, turn, mailbox, table, key, job, wait, mail,
                 robbed, heard>>

JobDone(j) ==
  /\ job[j] = "working"
  /\ job' = [job EXCEPT ![j] = "done"]
  /\ events' = Append(events, Env("Task", j))
  /\ UNCHANGED <<present, turn, mailbox, table, state, key, wait, mail,
                 robbed, heard>>

\* A job that panics takes its event with it.
JobPanics(j) ==
  /\ job[j] = "working"
  /\ job' = [job EXCEPT ![j] = "panicked"]
  /\ UNCHANGED <<present, turn, mailbox, table, state, key, events, wait,
                 mail, robbed, heard>>
-----------------------------------------------------------------------------
(* The driver, between two turns.                                          *)

\* Faulty: a mailbox that is full loses the envelope.
DeliveredIfRoom(env) ==
  /\ mailbox' = IF present /\ ~IsFull(env.kind) THEN Append(mailbox, env)
                                                 ELSE mailbox
  /\ UNCHANGED <<present, turn, state, wait>>

\* enqueue_runtime_envelope: a mailbox that is full costs the actor its life.
Delivered(env) ==
  \/ /\ present /\ ~IsFull(env.kind)
     /\ mailbox' = Append(mailbox, env)
     /\ UNCHANGED <<present, turn, state, wait>>
  \/ /\ present /\ IsFull(env.kind)
     /\ Leave
  \/ /\ ~present
     /\ UNCHANGED <<present, turn, mailbox, state, wait>>

Uncounted == UNCHANGED <<present, turn, mailbox, table, state, wait>>

\* Faulty: an event is delivered whether or not its key still has a handle.
IngestUnchecked(env) ==
  \/ /\ present /\ ~IsFull(env.kind)
     /\ mailbox' = Append(mailbox, env)
     /\ UNCHANGED <<present, turn, table, state, wait>>
  \/ /\ present /\ IsFull(env.kind)
     /\ Leave
  \/ /\ ~present
     /\ Uncounted

\* ingest_event: the key's handle, whoever's it is, is taken; none, no event.
Ingest(env) ==
  IF env.kind = "Task"
  THEN /\ Delivered(env)
       /\ table' = IF present' THEN table ELSE [k \in Key |-> Free]
  ELSE IF table[env.ref] = Free THEN Uncounted
  ELSE /\ Delivered(env)
       /\ table' = IF present' THEN [table EXCEPT ![env.ref] = Free]
                               ELSE [k \in Key |-> Free]

\* drain_external_events.
DrainEvents ==
  /\ turn = "none" /\ events # <<>>
  /\ events' = Tail(events)
  /\ Ingest(Head(events))
  /\ UNCHANGED <<key, job, mail, robbed, heard>>

\* push_envelope of a reply, once the call's timeout is gone.
RefusesReply(r) ==
  IsFullFor(Withdrawn(r), "Reply", Capacity, RuntimeReserve, Unbounded)

\* Faulty: a reply cancels all that the actor has armed.
AcceptReplyCancelsAll(r, n) ==
  /\ table' = [k \in Key |-> Free]
  /\ state' = AllAborted
  /\ mailbox' = IF IsFull("Reply") THEN mailbox
                                   ELSE Append(mailbox, Answer(r, n))
  /\ UNCHANGED <<present, key, events, job, wait, mail, robbed, heard>>

\* enqueue_actor_envelope of a Reply, while the actor is in the table: the
\* call's timeout goes, with its queued envelope, and then the reply is pushed;
\* the replier is told when it is refused.  Whether the call was answered
\* before is nowhere recorded.
AcceptReply(r, n) ==
  /\ table' = [table EXCEPT ![r] = Free]
  /\ state' = Aborted(r)
  /\ mailbox' = IF RefusesReply(r) THEN Withdrawn(r)
                                   ELSE Append(Withdrawn(r), Answer(r, n))
  /\ UNCHANGED <<present, key, events, job, wait, mail, robbed, heard>>

\* Other mail: of a user, or a request that the runtime answers.
OtherMail(kind) ==
  /\ turn = "none" /\ mail < MaxMail /\ present /\ ~IsFull(kind)
  /\ mail' = mail + 1
  /\ mailbox' = Append(mailbox, Env(kind, "host"))
  /\ UNCHANGED <<present, turn, tasks, wait, robbed, heard>>
-----------------------------------------------------------------------------
Turns ==
  \/ ReceiveNext \/ ReceiveWithTimeout \/ EndTurn \/ Exit
  \/ \E t \in Token : \/ ScheduleAfter(t) \/ CancelTimer(t)
                       \/ ArmReceiveTimeout(t)
  \/ \E j \in Job : SpawnBlocking(j)

Pool ==
  \/ \E n \in Task : Elapse(n)
  \/ \E j \in Job : JobDone(j) \/ JobPanics(j)

Waits ==
  Turns \/ Pool \/ DrainEvents \/ OtherMail("User") \/ OtherMail("System")
-----------------------------------------------------------------------------
\* Whether the firing of token t is still to come.
Coming(t) ==
  \/ table[t] # Free
  \/ \E i \in DOMAIN mailbox : mailbox[i] = Env("Timer", t)

\* An actor in a wait state has its timeout to come, however the firing, its
\* event, the channel and other mail interleave.  Only a request that the
\* runtime answers itself takes it away: it counts as the envelope that has
\* won, cancels the timeout, and the actor's handle never learns of it.
WaitIsBounded ==
  (present /\ wait # NoWait) => Coming(wait.token) \/ wait.token \in robbed

\* A job that is done is heard of once: its completion is in the channel, in
\* the mailbox, or was received, and in one of them only.
JobsHeardOnce ==
  \A j \in Job :
    LET times(s) == Cardinality({i \in DOMAIN s : s[i] = Env("Task", j)})
    IN  times(events) + times(mailbox) + times(heard)
          <= (IF job[j] = "done" THEN 1 ELSE 0)
        /\ (present /\ job[j] = "done" =>
              times(events) + times(mailbox) + times(heard) = 1)

\* "If the timer already fired but its mailbox envelope has not been observed
\* yet, the runtime withdraws that queued timer envelope."
CancelWithdraws ==
  [][\A t \in Token : CancelTimer(t) =>
       \A i \in DOMAIN mailbox' : mailbox'[i] # Env("Timer", t)]_waiter
=============================================================================
