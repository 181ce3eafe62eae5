------------------------------ MODULE Timeouts ------------------------------
(***************************************************************************)
(* Timers and call timeouts of one actor of the concurrent runtime.  Both  *)
(* work alike: arming cancels what the key had, spawns a task that sleeps, *)
(* and then notes the task's handle in the actor's table; the task, when   *)
(* it wakes, takes the handle out of the table and then enqueues the Timer *)
(* or CallTimeout envelope; cancelling takes the handle out, aborts the    *)
(* task and withdraws a queued envelope.  Each of these is a step under    *)
(* the runtime lock, and the owner, the sleeping tasks and the actors that *)
(* reply interleave between them.                                          *)
(*                                                                         *)
(* Two relatives are here too.  A blocking job reports with an envelope    *)
(* and has no handle in a table.  A managed shutdown has a tracker, with a *)
(* task if its policy is a timeout; a second request replaces the tracker; *)
(* the task, when it wakes, looks for a tracker and kills the actor.       *)
(*                                                                         *)
(* abort() stops a task that sleeps.  A task that has woken and waits for  *)
(* the lock ("due") or for the second lock ("firing") is not stopped.      *)
(***************************************************************************)
EXTENDS MailboxOps

CONSTANTS
  Token,      \* timer tokens, chosen by the actor and used again
  Ref,        \* references of the calls it makes, each used once
  Job,        \* its blocking jobs
  Stop,       \* the key of its shutdown timeout
  Uses,       \* bound: the sets of keys that are used together
  Capacity, RuntimeReserve, Unbounded,
  MaxTasks,   \* bound: tasks ever spawned
  MaxMail,    \* bound: user messages sent to the actor
  MaxRequests \* bound: shutdown requests

ASSUME KeyAssumption ==
  /\ Token \cap Ref = {} /\ Job \cap (Token \cup Ref) = {}
  /\ Stop \notin Token \cup Ref \cup Job

ASSUME BoundsAssumption ==
  /\ Capacity \in Nat \ {0} /\ RuntimeReserve \in 0..(Capacity - 1)
  /\ Unbounded \in Nat /\ MaxTasks \in Nat /\ MaxMail \in Nat

Key  == Token \cup Ref \cup Job \cup {Stop}
Task == 1..MaxTasks
Idle == [op |-> "idle"]
Free == 0

VARIABLES
  present,  \* the actor has a record
  forced,   \* its forced_exit is set
  owner,    \* where the actor's own call is
  mailbox,
  table,    \* timer_tasks and call_timeout_tasks: the task of a key, or Free
  state,    \* per task: what it is doing
  key,      \* per task: the key it was spawned for
  reply,    \* per reference: how far the call has come
  mail,     \* user messages sent
  policy,   \* the policy of the shutdown tracker, or "none"
  signals,  \* shutdown requests that have yet to send their signal
  used,     \* the keys that are used
  \* history
  armed,    \* per key: how often it was armed
  fired,    \* per key: how many envelopes were enqueued for it
  settled   \* references whose timeout a reply has met at rest, and cancelled

record  == <<present, forced, mailbox>>
tasks   == <<table, state, key>>
others  == <<mail, policy, signals, used>>
history == <<armed, fired, settled>>
vars    == <<record, owner, tasks, reply, others, history>>

Init ==
  /\ present = TRUE
  /\ forced = FALSE
  /\ owner = Idle
  /\ mailbox = <<>>
  /\ table = [k \in Key |-> Free]
  /\ state = [n \in Task |-> "unborn"]
  /\ key = [n \in Task |-> CHOOSE k \in Key : TRUE]
  /\ reply = [r \in Ref |-> "none"]
  /\ mail = 0
  /\ policy = "none" /\ signals = <<>>
  /\ used \in Uses
  /\ armed = [k \in Key |-> 0]
  /\ fired = [k \in Key |-> 0]
  /\ settled = {}

Envelope(k) == [kind |-> CASE k \in Token -> "Timer"
                           [] k \in Ref   -> "CallTimeout"
                           [] OTHER       -> "Task",
                ref  |-> k]

IsFull(kind) == IsFullFor(mailbox, kind, Capacity, RuntimeReserve, Unbounded)

\* Faulty: dropping a handle leaves its task asleep.
AbortedNever(k) ==
  [n \in Task |-> IF n = table[k] /\ state[n] = "due" THEN "overtaken"
                                                      ELSE state[n]]

\* The tasks once the handle of key k is taken out and aborted: one that
\* sleeps is gone, one that has woken goes on, overtaken.
Aborted(k) ==
  [n \in Task |-> IF n # table[k] THEN state[n]
                  ELSE CASE state[n] = "sleeping" -> "aborted"
                         [] state[n] = "due"      -> "overtaken"
                         [] OTHER                 -> state[n]]

\* Faulty: the queued envelope stays.
CancelKeepsMail(k) ==
  /\ table' = [table EXCEPT ![k] = Free]
  /\ state' = Aborted(k)
  /\ UNCHANGED mailbox

\* cancel_actor_timer and cancel_call_timeout.
Cancel(k) ==
  LET Same == {i \in DOMAIN mailbox : mailbox[i] = Envelope(k)}
  IN  /\ table' = [table EXCEPT ![k] = Free]
      /\ state' = Aborted(k)
      /\ IF AnyMatching(Same)
         THEN \E i \in Same : FirstMatch(Same, i)
                                /\ mailbox' = RemoveEntry(mailbox, i)
         ELSE UNCHANGED mailbox
-----------------------------------------------------------------------------
(* The owner, in its turns.                                                *)

OwnerRuns == present /\ owner = Idle

\* The bound on tasks.
TasksLeft == \E n \in Task : state[n] = "unborn"

\* A task n is started for key k, with the others as in before.
Spawned(n, k, before) ==
  /\ state[n] = "unborn" /\ \A m \in Task : m < n => state[m] # "unborn"
  /\ state' = [before EXCEPT ![n] = "sleeping"]
  /\ key' = [key EXCEPT ![n] = k]

ScheduleAfter(t) ==
  /\ OwnerRuns /\ TasksLeft /\ t \in used
  /\ owner' = [op |-> "cancel", key |-> t]
  /\ UNCHANGED <<record, tasks, reply, others, armed, fired, settled>>

\* ask: the request leaves before the timeout is armed.
Ask(r) ==
  /\ OwnerRuns /\ TasksLeft /\ r \in used /\ reply[r] = "none"
  /\ reply' = [reply EXCEPT ![r] = "asked"]
  /\ owner' = [op |-> "cancel", key |-> r]
  /\ UNCHANGED <<record, tasks, others, history>>

\* spawn_timer and spawn_call_timeout: cancel, spawn, note the handle.
ArmCancel ==
  /\ owner.op = "cancel"
  /\ Cancel(owner.key)
  /\ owner' = [owner EXCEPT !.op = "spawn"]
  /\ UNCHANGED <<present, forced, key, reply, others, history>>

ArmSpawn ==
  /\ owner.op = "spawn"
  /\ \E n \in Task :
       /\ Spawned(n, owner.key, state)
       /\ owner' = [op |-> "insert", key |-> owner.key, task |-> n]
  /\ UNCHANGED <<record, table, reply, others, history>>

ArmInsert ==
  /\ owner.op = "insert"
  /\ table' = [table EXCEPT ![owner.key] = owner.task]
  /\ armed' = [armed EXCEPT ![owner.key] = @ + 1]
  /\ owner' = Idle
  /\ UNCHANGED <<record, state, key, reply, others, fired, settled>>

CancelTimer(t) ==
  /\ OwnerRuns /\ t \in used
  /\ Cancel(t)
  /\ UNCHANGED <<present, forced, owner, key, reply, others, armed, fired,
                 settled>>

\* spawn_blocking_io and spawn_blocking_cpu: a job has no handle.
SpawnBlocking(j) ==
  /\ OwnerRuns /\ j \in used /\ armed[j] = 0
  /\ \E n \in Task : Spawned(n, j, state)
  /\ armed' = [armed EXCEPT ![j] = 1]
  /\ UNCHANGED <<record, owner, table, reply, others, fired, settled>>

Receive ==
  /\ OwnerRuns /\ mailbox # <<>>
  /\ mailbox' = Tail(mailbox)
  /\ UNCHANGED <<present, forced, owner, tasks, reply, others, history>>

\* The actor exits, forced or not: finalize_actor aborts its tasks.
Finalize ==
  /\ OwnerRuns
  /\ present' = FALSE
  /\ mailbox' = <<>>
  /\ state' = [n \in Task |->
       IF state[n] = "sleeping" /\ table[key[n]] = n THEN "aborted"
                                                     ELSE state[n]]
  /\ table' = [k \in Key |-> Free]
  /\ policy' = "none"
  /\ UNCHANGED <<forced, owner, key, reply, mail, signals, used, history>>
-----------------------------------------------------------------------------
(* The tasks: sleep or work, then fire_timer, fire_call_timeout,           *)
(* fire_shutdown_timeout or the report of a job.                           *)

Elapse(n) ==
  /\ state[n] = "sleeping"
  /\ state' = [state EXCEPT ![n] = "due"]
  /\ UNCHANGED <<record, owner, table, key, reply, others, history>>

\* A job that panics reports nothing.
JobPanics(n) ==
  /\ state[n] = "sleeping" /\ key[n] \in Job
  /\ state' = [state EXCEPT ![n] = "done"]
  /\ UNCHANGED <<record, owner, table, key, reply, others, history>>

\* Whether a task that has woken has something to do: a job always has, a
\* shutdown timeout if there is a tracker, the others if their key has a
\* handle, whoever's it is.
MayFire(n) ==
  CASE key[n] \in Job -> TRUE
    [] key[n] = Stop  -> policy # "none"
    [] OTHER          -> table[key[n]] # Free

\* Faulty: the handle is looked at and left where it is.
FireTakeKeeps(n) ==
  /\ state[n] \in {"due", "overtaken"}
  /\ state' = [state EXCEPT ![n] = IF MayFire(n) THEN "firing" ELSE "done"]
  /\ UNCHANGED <<record, owner, table, key, reply, others, history>>

\* Under the first lock: the handle of a timer or a call is taken, the
\* tracker of a shutdown stays.
FireTake(n) ==
  /\ state[n] \in {"due", "overtaken"}
  /\ state' = [state EXCEPT ![n] = IF MayFire(n) THEN "firing" ELSE "done"]
  /\ table' = IF key[n] = Stop THEN table ELSE [table EXCEPT ![key[n]] = Free]
  /\ UNCHANGED <<record, owner, key, reply, others, history>>

\* Faulty: a full mailbox swallows the envelope.
FireEnqueueDrops(n) ==
  /\ state[n] = "firing" /\ key[n] # Stop
  /\ state' = [state EXCEPT ![n] = "done"]
  /\ IF present /\ ~IsFull(Envelope(key[n]).kind)
     THEN /\ mailbox' = Append(mailbox, Envelope(key[n]))
          /\ fired' = [fired EXCEPT ![key[n]] = @ + 1]
     ELSE UNCHANGED <<mailbox, fired>>
  /\ UNCHANGED <<present, forced, owner, table, key, reply, others, armed,
                 settled>>

\* Under the second: enqueue_runtime_envelope, or out with the actor.
FireEnqueue(n) ==
  /\ state[n] = "firing" /\ key[n] # Stop
  /\ state' = [state EXCEPT ![n] = "done"]
  /\ \/ /\ present /\ ~IsFull(Envelope(key[n]).kind)
        /\ mailbox' = Append(mailbox, Envelope(key[n]))
        /\ fired' = [fired EXCEPT ![key[n]] = @ + 1]
        /\ UNCHANGED forced
     \/ /\ present /\ IsFull(Envelope(key[n]).kind)
        /\ forced' = TRUE
        /\ UNCHANGED <<mailbox, fired>>
     \/ /\ ~present
        /\ UNCHANGED <<forced, mailbox, fired>>
  /\ UNCHANGED <<present, owner, table, key, reply, others, armed, settled>>

\* A shutdown that has timed out: request_force_exit with Kill.
FireKill(n) ==
  /\ state[n] = "firing" /\ key[n] = Stop
  /\ state' = [state EXCEPT ![n] = "done"]
  /\ forced' = (forced \/ present)
  /\ UNCHANGED <<present, mailbox, owner, table, key, reply, others, history>>
-----------------------------------------------------------------------------
(* A managed shutdown, asked for by other actors.                          *)

\* request_shutdown, under the lock: the tracker and its task are replaced.
RequestShutdown(p) ==
  /\ present /\ Stop \in used /\ armed[Stop] < MaxRequests
  /\ policy' = p
  /\ signals' = Append(signals, p)
  /\ armed' = [armed EXCEPT ![Stop] = @ + 1]
  /\ IF p = "Timeout"
     THEN \E n \in Task :
            /\ Spawned(n, Stop, Aborted(Stop))
            /\ table' = [table EXCEPT ![Stop] = n]
     ELSE /\ state' = Aborted(Stop)
          /\ table' = [table EXCEPT ![Stop] = Free]
          /\ UNCHANGED key
  /\ UNCHANGED <<record, owner, reply, mail, used, fired, settled>>

\* Then: a kill, or the exit signal of the requester, which the actor traps
\* or goes by.
SendSignal(i) ==
  /\ signals' = RemoveEntry(signals, i)
  /\ \/ /\ signals[i] # "BrutalKill" /\ present /\ ~IsFull("Exit")
        /\ mailbox' = Append(mailbox, [kind |-> "Exit", ref |-> Stop])
        /\ UNCHANGED forced
     \/ /\ forced' = (forced \/ present)
        /\ UNCHANGED mailbox
  /\ UNCHANGED <<present, owner, tasks, reply, mail, policy, used, history>>
-----------------------------------------------------------------------------
(* The others: replies and user mail.                                      *)

\* The timeout of a call is neither being armed nor being delivered.
AtRest(r) ==
  /\ owner = Idle \/ owner.key # r
  /\ \A n \in Task : key[n] = r => state[n] # "firing"

\* enqueue_actor_envelope of a Reply, first lock: the timeout is cancelled.
ReplyCancel(r) ==
  /\ reply[r] = "asked"
  /\ reply' = [reply EXCEPT ![r] = "cancelled"]
  /\ IF present THEN Cancel(r) ELSE UNCHANGED <<table, state, mailbox>>
  /\ settled' = IF AtRest(r) THEN settled \cup {r} ELSE settled
  /\ UNCHANGED <<present, forced, owner, key, others, armed, fired>>

\* Second lock: the push.  The replier is told when it is refused.
ReplyPush(r) ==
  /\ reply[r] = "cancelled"
  /\ \/ /\ present /\ ~IsFull("Reply")
        /\ mailbox' = Append(mailbox, [kind |-> "Reply", ref |-> r])
        /\ reply' = [reply EXCEPT ![r] = "replied"]
     \/ /\ present /\ IsFull("Reply")
        /\ reply' = [reply EXCEPT ![r] = "refused"]
        /\ UNCHANGED mailbox
     \/ /\ ~present
        /\ reply' = [reply EXCEPT ![r] = "noproc"]
        /\ UNCHANGED mailbox
  /\ UNCHANGED <<present, forced, owner, tasks, others, armed, fired, settled>>

UserMail ==
  /\ mail < MaxMail /\ present /\ ~IsFull("User")
  /\ mail' = mail + 1
  /\ mailbox' = Append(mailbox, [kind |-> "User", ref |-> mail'])
  /\ UNCHANGED <<present, forced, owner, tasks, reply, policy, signals, used,
                 history>>
-----------------------------------------------------------------------------
Arming == ArmCancel \/ ArmSpawn \/ ArmInsert

Firing(n) == Elapse(n) \/ FireTake(n) \/ FireEnqueue(n) \/ FireKill(n)

Shutdown == {"BrutalKill", "Timeout", "Infinity"}

Next ==
  \/ \E t \in Token : ScheduleAfter(t) \/ CancelTimer(t)
  \/ \E r \in Ref : Ask(r) \/ ReplyCancel(r) \/ ReplyPush(r)
  \/ Arming
  \/ Receive
  \/ Finalize
  \/ \E n \in Task : Firing(n) \/ JobPanics(n)
  \/ \E j \in Job : SpawnBlocking(j)
  \/ \E p \in Shutdown : RequestShutdown(p)
  \/ \E i \in DOMAIN signals : SendSignal(i)
  \/ UserMail

Spec == Init /\ [][Next]_vars

\* The owner finishes a call it is in, time passes, the runtime's tasks run.
\* Nobody has to reply, and the owner need not exit.
FairSpec ==
  /\ Spec
  /\ WF_vars(Arming)
  /\ \A n \in Task : WF_vars(Firing(n))
  /\ \A r \in Ref : WF_vars(ReplyPush(r))
  /\ WF_vars(forced /\ Finalize)
-----------------------------------------------------------------------------
\* Every variable keeps its type, and the owner's call and the table name
\* tasks of the right key.
TypeOK ==
  /\ present \in BOOLEAN /\ forced \in BOOLEAN
  /\ owner \in {Idle} \cup [op : {"cancel", "spawn"}, key : Key]
                      \cup [op : {"insert"}, key : Key, task : Task]
  /\ \A i \in DOMAIN mailbox : mailbox[i].kind \in EnvelopeKind
  /\ table \in [Key -> Task \cup {Free}]
  /\ state \in [Task -> {"unborn", "sleeping", "due", "overtaken", "firing",
                         "done", "aborted"}]
  /\ key \in [Task -> Key]
  /\ reply \in [Ref -> {"none", "asked", "cancelled", "replied", "refused",
                        "noproc"}]
  /\ mail \in 0..MaxMail
  /\ policy \in Shutdown \cup {"none"}
  /\ table[Stop] # Free => policy = "Timeout"
  /\ armed \in [Key -> Nat] /\ fired \in [Key -> Nat]
  /\ settled \subseteq Ref
  /\ \A k \in Key : table[k] # Free => key[table[k]] = k

Pending(k) == Cardinality({n \in Task : key[n] = k /\ state[n] = "firing"})

\* No timer fires more often than it was armed, however schedules, cancels
\* and wakeups of replaced tasks interleave: a wakeup that is let through has
\* used up a handle of its key.
FiringsBacked ==
  \A k \in Token \cup Ref : fired[k] + Pending(k) + (IF table[k] = Free THEN 0 ELSE 1)
                   <= armed[k]

\* A reply that meets a timeout at rest silences it for good: whether the task
\* still sleeps, has woken and waits for the lock, or has its envelope queued,
\* the caller never sees a CallTimeout afterwards (cancel_call_timeout).
SettledStaysSilent ==
  \A r \in settled :
    /\ \A i \in DOMAIN mailbox : mailbox[i] # Envelope(r)
    /\ \A n \in Task : key[n] = r => state[n] # "firing"

\* A shutdown timeout that a later request has replaced kills the actor only
\* if it was awake already when it was replaced (it had woken and waited for
\* the lock): abort() stops every other one.  Such a late one cuts short even
\* a request to wait without limit.
ReplacedTimeoutWasAwake ==
  [][\A n \in Task :
       (key[n] = Stop /\ state[n] # "firing" /\ state'[n] = "firing"
          /\ table[Stop] # n)
         => state[n] = "overtaken"]_vars

\* An armed timeout comes to its end.  No handle stays in the table of a task
\* that still sleeps or is waking: it fires, is cancelled or replaced, or the
\* actor goes.  And a task that has taken its handle delivers: its envelope is
\* enqueued, or the actor does not survive (SPEC 12.3).
ArmedIsSettled ==
  /\ \A k \in Key : \A n \in Task :
       (table[k] = n /\ state[n] \in {"sleeping", "due"}) ~> table[k] # n
  /\ \A n \in Task : \A i \in 0..MaxTasks :
       (state[n] = "firing" /\ fired[key[n]] = i)
         ~> (fired[key[n]] > i \/ ~present)
=============================================================================
