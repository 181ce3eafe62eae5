--------------------------- MODULE TimeoutsProofs ---------------------------
(***************************************************************************)
(* Proofs about timers, call timeouts and shutdown timeouts for every set  *)
(* of tokens, calls and jobs, every capacity and every number of tasks.    *)
(***************************************************************************)
EXTENDS Timeouts, SequenceTheorems, FiniteSetTheorems, TLAPS

(* Queues: whether an entry is queued, and whether at most once.           *)

Holds(q, e)  == \E i \in DOMAIN q : q[i] = e
Single(q, e) == \A i, j \in DOMAIN q : q[i] = e /\ q[j] = e => i = j

\* VecDeque::remove of the only copy of an entry leaves none.
LEMMA RemoveFacts ==
  ASSUME NEW S, NEW q \in Seq(S), NEW i \in DOMAIN q, NEW e
  PROVE  /\ RemoveEntry(q, i) \in Seq(S)
         /\ Holds(RemoveEntry(q, i), e) => Holds(q, e)
         /\ Single(q, e) => Single(RemoveEntry(q, i), e)
         /\ Single(q, e) /\ q[i] = e => ~Holds(RemoveEntry(q, i), e)
<1> DEFINE r == RemoveEntry(q, i)
           src(j) == IF j < i THEN j ELSE j + 1
<1>1. /\ Len(q) \in Nat /\ DOMAIN q = 1..Len(q)
      /\ \A k \in 1..Len(q) : q[k] \in S
  BY LenProperties, ElementOfSeq
<1>2. /\ Len(q) - 1 \in Nat
      /\ \A j \in 1..(Len(q) - 1) : src(j) \in 1..Len(q) /\ src(j) # i
      /\ \A j, k \in 1..(Len(q) - 1) : src(j) = src(k) => j = k
  BY <1>1
<1>3. /\ r \in [1..(Len(q) - 1) -> S]
      /\ DOMAIN r = 1..(Len(q) - 1)
      /\ \A j \in 1..(Len(q) - 1) : r[j] = q[src(j)]
  BY <1>1, <1>2 DEF RemoveEntry
<1>4. r \in Seq(S)
  BY <1>2, <1>3, IsASeq DEF RemoveEntry
<1> HIDE DEF r, src
<1>5. Holds(r, e) => Holds(q, e)
  BY <1>1, <1>2, <1>3 DEF Holds
<1>6. Single(q, e) => Single(r, e)
  BY <1>1, <1>2, <1>3 DEF Single
<1>7. Single(q, e) /\ q[i] = e => ~Holds(r, e)
  BY <1>1, <1>2, <1>3 DEF Single, Holds
<1> QED
  BY <1>4, <1>5, <1>6, <1>7 DEF r

LEMMA AppendFacts ==
  ASSUME NEW S, NEW q \in Seq(S), NEW x \in S, NEW e
  PROVE  /\ Append(q, x) \in Seq(S)
         /\ x # e => (Holds(Append(q, x), e) => Holds(q, e))
         /\ Single(q, e) /\ (x # e \/ ~Holds(q, e)) => Single(Append(q, x), e)
<1>1. /\ Len(q) \in Nat /\ DOMAIN q = 1..Len(q)
      /\ Append(q, x) \in Seq(S)
      /\ DOMAIN Append(q, x) = 1..(Len(q) + 1)
      /\ \A k \in 1..Len(q) : Append(q, x)[k] = q[k]
      /\ Append(q, x)[Len(q) + 1] = x
  BY LenProperties, AppendProperties
<1>2. \A k \in 1..(Len(q) + 1) : k \in 1..Len(q) \/ k = Len(q) + 1
  BY <1>1
<1> QED
  BY <1>1, <1>2 DEF Holds, Single

LEMMA TailFacts ==
  ASSUME NEW S, NEW q \in Seq(S), q # <<>>, NEW e
  PROVE  /\ Tail(q) \in Seq(S)
         /\ Holds(Tail(q), e) => Holds(q, e)
         /\ Single(q, e) => Single(Tail(q), e)
<1>1. /\ Len(q) \in Nat /\ DOMAIN q = 1..Len(q)
      /\ Tail(q) \in Seq(S) /\ Len(Tail(q)) = Len(q) - 1
      /\ DOMAIN Tail(q) = 1..(Len(q) - 1)
      /\ \A k \in 1..(Len(q) - 1) : Tail(q)[k] = q[k + 1]
  BY LenProperties, HeadTailProperties
<1>2. \A k \in 1..(Len(q) - 1) : k + 1 \in 1..Len(q)
  BY <1>1
<1> QED
  BY <1>1, <1>2 DEF Holds, Single
-----------------------------------------------------------------------------
(* Types.  A handle and the owner's call name a task that was spawned for  *)
(* their key.                                                              *)

Mail == [kind : EnvelopeKind, ref : Key \cup Nat]

Life == {"unborn", "sleeping", "due", "overtaken", "firing", "done", "aborted"}

RecordOK ==
  /\ present \in BOOLEAN /\ forced \in BOOLEAN
  /\ mailbox \in Seq(Mail)

OwnerOK ==
  /\ \/ owner = Idle
     \/ owner \in [op : {"cancel", "spawn"}, key : Token \cup Ref]
     \/ owner \in [op : {"insert"}, key : Token \cup Ref, task : Task]
  /\ owner.op = "insert" => /\ key[owner.task] = owner.key
                            /\ state[owner.task] # "unborn"

TasksOK ==
  /\ table \in [Key -> Task \cup {Free}]
  /\ state \in [Task -> Life]
  /\ key \in [Task -> Key]
  /\ \A k \in Key : table[k] # Free => /\ key[table[k]] = k
                                       /\ state[table[k]] # "unborn"

ShutdownOK ==
  /\ policy \in Shutdown \cup {"none"}
  /\ signals \in Seq(Shutdown)
  /\ table[Stop] # Free => policy = "Timeout"

CountersOK ==
  /\ reply \in [Ref -> {"none", "asked", "cancelled", "replied", "refused",
                        "noproc"}]
  /\ mail \in 0..MaxMail
  /\ armed \in [Key -> Nat] /\ fired \in [Key -> Nat]
  /\ settled \subseteq Ref

TypeInv == RecordOK /\ OwnerOK /\ TasksOK /\ ShutdownOK /\ CountersOK

LEMMA TypesFollow == TypeInv => TypeOK
<1> SUFFICES ASSUME TypeInv PROVE TypeOK
  OBVIOUS
<1>1. \A i \in DOMAIN mailbox : mailbox[i] \in Mail
  BY ElementOfSeq, LenProperties DEF TypeInv, RecordOK
<1>2. \A i \in DOMAIN mailbox : mailbox[i].kind \in EnvelopeKind
  BY <1>1 DEF Mail
<1>3. owner \in {Idle} \cup [op : {"cancel", "spawn"}, key : Key]
                      \cup [op : {"insert"}, key : Key, task : Task]
  BY DEF TypeInv, OwnerOK, Key
<1> QED
  BY <1>2, <1>3
     DEF TypeInv, TypeOK, RecordOK, TasksOK, ShutdownOK, CountersOK, Life

LEMMA EnvelopeFacts ==
  /\ \A k \in Key : Envelope(k) \in Mail
  /\ \A r \in Ref : Envelope(r) = [kind |-> "CallTimeout", ref |-> r]
  /\ \A k \in Key : \A r : Envelope(k) = Envelope(r) => k = r
<1>1. \A k \in Key : Envelope(k) \in Mail
  <2> TAKE k \in Key
  <2> DEFINE kind == CASE k \in Token -> "Timer"
                      [] k \in Ref   -> "CallTimeout"
                      [] OTHER       -> "Task"
  <2>1. kind \in EnvelopeKind
    BY DEF EnvelopeKind
  <2>2. Envelope(k) = [kind |-> kind, ref |-> k]
    BY DEF Envelope
  <2> HIDE DEF kind
  <2> QED
    BY <2>1, <2>2 DEF Mail
<1>2. \A r \in Ref : Envelope(r) = [kind |-> "CallTimeout", ref |-> r]
  BY KeyAssumption DEF Envelope
<1>3. \A k \in Key : \A r : Envelope(k) = Envelope(r) => k = r
  BY DEF Envelope
<1> QED
  BY <1>1, <1>2, <1>3

LEMMA KeyFacts ==
  /\ Token \subseteq Key /\ Ref \subseteq Key /\ Job \subseteq Key /\ Stop \in Key
  /\ Stop \notin Token \cup Ref /\ Stop \notin Job
  /\ \A r \in Ref : r \notin Token /\ r \notin Job /\ r # Stop
  /\ \A j \in Job : j \notin Token \cup Ref
  /\ MaxTasks \in Nat /\ MaxMail \in Nat
  /\ Task \subseteq Nat /\ Free \notin Task
BY KeyAssumption, BoundsAssumption DEF Key, Task, Free

LEMMA TypeInit == Init => TypeInv
<1> SUFFICES ASSUME Init PROVE TypeInv
  OBVIOUS
<1>1. (CHOOSE k \in Key : TRUE) \in Key
  BY KeyFacts
<1>2. RecordOK
  BY EmptySeq DEF Init, RecordOK
<1>3. OwnerOK
  BY DEF Init, OwnerOK, Idle
<1>4. TasksOK
  BY <1>1, KeyFacts DEF Init, TasksOK, Life
<1>5. ShutdownOK
  BY KeyFacts, EmptySeq DEF Init, ShutdownOK
<1>6. CountersOK
  BY KeyFacts DEF Init, CountersOK
<1> QED
  BY <1>2, <1>3, <1>4, <1>5, <1>6 DEF TypeInv

\* abort() never starts a task and never touches one that is firing.
LEMMA AbortedFacts ==
  ASSUME TasksOK, NEW k \in Key
  PROVE  /\ Aborted(k) \in [Task -> Life]
         /\ \A n \in Task :
              /\ Aborted(k)[n] = "unborn" <=> state[n] = "unborn"
              /\ Aborted(k)[n] = "firing" <=> state[n] = "firing"
              /\ n # table[k] => Aborted(k)[n] = state[n]
              /\ n = table[k] => Aborted(k)[n] \notin {"sleeping", "due"}
BY DEF TasksOK, Aborted, Life

LEMMA CancelFacts ==
  ASSUME RecordOK, TasksOK, NEW k \in Key, Cancel(k), NEW e
  PROVE  /\ table' = [table EXCEPT ![k] = Free]
         /\ state' = Aborted(k)
         /\ mailbox' \in Seq(Mail)
         /\ Holds(mailbox', e) => Holds(mailbox, e)
         /\ Single(mailbox, e) => Single(mailbox', e)
         /\ Single(mailbox, Envelope(k)) => ~Holds(mailbox', Envelope(k))
<1> DEFINE Same == {i \in DOMAIN mailbox : mailbox[i] = Envelope(k)}
<1>1. table' = [table EXCEPT ![k] = Free] /\ state' = Aborted(k)
  BY DEF Cancel
<1>2. CASE Same = {}
  <2>1. mailbox' = mailbox
    BY <1>2 DEF Cancel, AnyMatching
  <2> QED
    BY <1>1, <1>2, <2>1 DEF RecordOK, Holds
<1>3. CASE Same # {}
  <2>1. PICK i \in Same : mailbox' = RemoveEntry(mailbox, i)
    BY <1>3 DEF Cancel, AnyMatching
  <2>2. i \in DOMAIN mailbox /\ mailbox[i] = Envelope(k) /\ mailbox \in Seq(Mail)
    BY <2>1 DEF RecordOK
  <2> QED
    BY <1>1, <2>1, <2>2, RemoveFacts
<1> QED
  BY <1>2, <1>3

\* Spawning takes a task that nothing names yet.
LEMMA SpawnedFacts ==
  ASSUME TasksOK, NEW n \in Task, NEW k \in Key, NEW before \in [Task -> Life],
         \A m \in Task : before[m] = "unborn" <=> state[m] = "unborn",
         Spawned(n, k, before)
  PROVE  /\ state' \in [Task -> Life] /\ key' \in [Task -> Key]
         /\ state[n] = "unborn" /\ state'[n] = "sleeping" /\ key'[n] = k
         /\ \A m \in Task : m # n => state'[m] = before[m] /\ key'[m] = key[m]
         /\ \A m \in Task : state[m] # "unborn" =>
              m # n /\ state'[m] # "unborn" /\ key'[m] = key[m]
         /\ \A j \in Key : table[j] # Free =>
              key'[table[j]] = j /\ state'[table[j]] # "unborn"
BY DEF TasksOK, Spawned, Life
(* One lemma per group of actions. *)

LEMMA OwnerType ==
  ASSUME TypeInv,
         \/ \E t \in Token : ScheduleAfter(t) \/ CancelTimer(t)
         \/ \E r \in Ref : Ask(r)
         \/ Arming
         \/ \E j \in Job : SpawnBlocking(j)
  PROVE  TypeInv'
<1>0. RecordOK /\ OwnerOK /\ TasksOK /\ ShutdownOK /\ CountersOK
  BY DEF TypeInv
<1>1. ASSUME NEW t \in Token, ScheduleAfter(t)
      PROVE  TypeInv'
  <2>1. owner' = [op |-> "cancel", key |-> t]
    BY <1>1 DEF ScheduleAfter
  <2>2. OwnerOK'
    BY <2>1 DEF OwnerOK
  <2> QED
    BY <1>0, <1>1, <2>2
       DEF ScheduleAfter, record, tasks, others, TypeInv, RecordOK, TasksOK,
           ShutdownOK, CountersOK
<1>2. ASSUME NEW r \in Ref, Ask(r)
      PROVE  TypeInv'
  <2>1. /\ owner' = [op |-> "cancel", key |-> r]
        /\ reply' = [reply EXCEPT ![r] = "asked"]
    BY <1>2 DEF Ask
  <2>2. OwnerOK'
    BY <2>1 DEF OwnerOK
  <2> QED
    BY <1>0, <1>2, <2>1, <2>2
       DEF Ask, record, tasks, others, history, TypeInv, RecordOK, TasksOK,
           ShutdownOK, CountersOK
<1>3. ASSUME NEW t \in Token, CancelTimer(t)
      PROVE  TypeInv'
  <2>1. /\ t \in Key /\ t # Stop /\ Cancel(t)
        /\ UNCHANGED <<present, forced, owner, key, reply, others, armed, fired,
                       settled>>
    BY <1>3, KeyFacts DEF CancelTimer
  <2>2. /\ table' = [table EXCEPT ![t] = Free] /\ state' = Aborted(t)
        /\ mailbox' \in Seq(Mail)
    BY <1>0, <2>1, CancelFacts
  <2>3. RecordOK'
    BY <1>0, <2>1, <2>2 DEF RecordOK
  <2>4. TasksOK'
    BY <1>0, <2>1, <2>2, AbortedFacts DEF TasksOK
  <2>5. OwnerOK'
    BY <1>0, <2>1, <2>2, AbortedFacts DEF OwnerOK, Idle
  <2>6. ShutdownOK' /\ CountersOK'
    BY <1>0, <2>1, <2>2, KeyFacts DEF ShutdownOK, CountersOK, others, TasksOK
  <2> QED
    BY <2>3, <2>4, <2>5, <2>6 DEF TypeInv
<1>4. CASE ArmCancel
  <2>1. /\ owner \in [op : {"cancel", "spawn"}, key : Token \cup Ref]
        /\ owner.key \in Key /\ owner.key # Stop /\ Cancel(owner.key)
        /\ owner' = [owner EXCEPT !.op = "spawn"]
        /\ UNCHANGED <<present, forced, key, reply, others, history>>
    BY <1>0, <1>4, KeyFacts DEF ArmCancel, OwnerOK, Idle
  <2>2. /\ table' = [table EXCEPT ![owner.key] = Free]
        /\ state' = Aborted(owner.key) /\ mailbox' \in Seq(Mail)
    BY <1>0, <2>1, CancelFacts
  <2>3. RecordOK'
    BY <1>0, <2>1, <2>2 DEF RecordOK
  <2>4. TasksOK'
    BY <1>0, <2>1, <2>2, AbortedFacts DEF TasksOK
  <2>5. OwnerOK'
    BY <2>1 DEF OwnerOK
  <2>6. ShutdownOK' /\ CountersOK'
    BY <1>0, <2>1, <2>2, KeyFacts
       DEF ShutdownOK, CountersOK, others, history, TasksOK
  <2> QED
    BY <2>3, <2>4, <2>5, <2>6 DEF TypeInv
<1>5. CASE ArmSpawn
  <2>1. /\ owner \in [op : {"cancel", "spawn"}, key : Token \cup Ref]
        /\ owner.key \in Token \cup Ref /\ owner.key \in Key
        /\ UNCHANGED <<record, table, reply, others, history>>
    BY <1>0, <1>5, KeyFacts DEF ArmSpawn, OwnerOK, Idle
  <2>2. PICK n \in Task :
          /\ Spawned(n, owner.key, state)
          /\ owner' = [op |-> "insert", key |-> owner.key, task |-> n]
    BY <1>5 DEF ArmSpawn
  <2>3. /\ state' \in [Task -> Life] /\ key' \in [Task -> Key]
        /\ state'[n] = "sleeping" /\ key'[n] = owner.key
        /\ \A j \in Key : table[j] # Free =>
             key'[table[j]] = j /\ state'[table[j]] # "unborn"
    <3>1. state \in [Task -> Life]
      BY <1>0 DEF TasksOK
    <3> QED
      BY <1>0, <2>1, <2>2, <3>1, SpawnedFacts
  <2>4. OwnerOK'
    BY <2>1, <2>2, <2>3 DEF OwnerOK
  <2> QED
    BY <1>0, <2>1, <2>3, <2>4
       DEF record, others, history, TypeInv, RecordOK, TasksOK, ShutdownOK,
           CountersOK
<1>6. CASE ArmInsert
  <2>1. /\ owner \in [op : {"insert"}, key : Token \cup Ref, task : Task]
        /\ owner.task \in Task /\ owner.key \in Key /\ owner.key # Stop
        /\ key[owner.task] = owner.key /\ state[owner.task] # "unborn"
    BY <1>0, <1>6, KeyFacts DEF ArmInsert, OwnerOK, Idle
  <2>2. /\ table' = [table EXCEPT ![owner.key] = owner.task]
        /\ armed' = [armed EXCEPT ![owner.key] = @ + 1]
        /\ owner' = Idle
        /\ UNCHANGED <<record, state, key, reply, others, fired, settled>>
    BY <1>6 DEF ArmInsert
  <2>3. RecordOK' /\ OwnerOK'
    BY <1>0, <2>2 DEF RecordOK, OwnerOK, Idle, record
  <2>4. TasksOK'
    BY <1>0, <2>1, <2>2 DEF TasksOK
  <2>5. ShutdownOK' /\ CountersOK'
    BY <1>0, <2>1, <2>2, KeyFacts DEF ShutdownOK, CountersOK, others, TasksOK
  <2> QED
    BY <2>3, <2>4, <2>5 DEF TypeInv
<1>7. ASSUME NEW j \in Job, SpawnBlocking(j)
      PROVE  TypeInv'
  <2>1. PICK n \in Task : Spawned(n, j, state)
    BY <1>7 DEF SpawnBlocking
  <2>2. /\ j \in Key /\ owner = Idle
        /\ armed' = [armed EXCEPT ![j] = 1]
        /\ UNCHANGED <<record, owner, table, reply, others, fired, settled>>
    BY <1>7, KeyFacts DEF SpawnBlocking, OwnerRuns
  <2>3. /\ state' \in [Task -> Life] /\ key' \in [Task -> Key]
        /\ \A k \in Key : table[k] # Free =>
             key'[table[k]] = k /\ state'[table[k]] # "unborn"
    <3>1. state \in [Task -> Life]
      BY <1>0 DEF TasksOK
    <3> QED
      BY <1>0, <2>1, <2>2, <3>1, SpawnedFacts
  <2>4. OwnerOK'
    BY <2>2 DEF OwnerOK, Idle
  <2> QED
    BY <1>0, <2>2, <2>3, <2>4
       DEF record, others, TypeInv, RecordOK, TasksOK, ShutdownOK, CountersOK
<1> QED
  BY <1>1, <1>2, <1>3, <1>4, <1>5, <1>6, <1>7 DEF Arming
LEMMA FiringType ==
  ASSUME TypeInv, NEW n \in Task, Firing(n) \/ JobPanics(n)
  PROVE  TypeInv'
<1>0. /\ RecordOK /\ OwnerOK /\ TasksOK /\ ShutdownOK /\ CountersOK
      /\ key[n] \in Key
  BY DEF TypeInv, TasksOK
<1>1. /\ state[n] # "unborn"
      /\ \E s \in Life \ {"unborn"} : state' = [state EXCEPT ![n] = s]
      /\ UNCHANGED <<present, owner, key, reply, others, armed, settled>>
  BY DEF Firing, Elapse, JobPanics, FireTake, FireEnqueue, FireKill, Life,
         record, history
<1>2. /\ state' \in [Task -> Life]
      /\ \A m \in Task : state'[m] = "unborn" <=> state[m] = "unborn"
  BY <1>0, <1>1 DEF TasksOK
<1>3. OwnerOK'
  BY <1>0, <1>1, <1>2 DEF OwnerOK, Idle
<1>4. \/ table' = table
      \/ key[n] # Stop /\ table' = [table EXCEPT ![key[n]] = Free]
  BY DEF Firing, Elapse, JobPanics, FireTake, FireEnqueue, FireKill
<1>5. TasksOK' /\ ShutdownOK'
  BY <1>0, <1>1, <1>2, <1>4, KeyFacts DEF TasksOK, ShutdownOK, others
<1>6. RecordOK' /\ CountersOK'
  <2>1. CASE FireEnqueue(n)
    <3>1. \/ UNCHANGED <<mailbox, fired>>
          \/ /\ mailbox' = Append(mailbox, Envelope(key[n]))
             /\ fired' = [fired EXCEPT ![key[n]] = @ + 1]
      BY <2>1 DEF FireEnqueue
    <3>2. mailbox' \in Seq(Mail)
      BY <1>0, <3>1, EnvelopeFacts, AppendFacts DEF RecordOK
    <3>3. fired' \in [Key -> Nat]
      BY <1>0, <3>1 DEF CountersOK
    <3>4. forced' \in BOOLEAN
      BY <1>0, <2>1 DEF FireEnqueue, RecordOK
    <3> QED
      BY <1>0, <1>1, <3>2, <3>3, <3>4 DEF RecordOK, CountersOK, others
  <2>2. CASE ~FireEnqueue(n)
    <3>1. UNCHANGED <<mailbox, fired>> /\ forced' \in BOOLEAN
      BY <1>0, <2>2
         DEF Firing, Elapse, JobPanics, FireTake, FireKill, record, history,
             RecordOK
    <3> QED
      BY <1>0, <1>1, <3>1 DEF RecordOK, CountersOK, others
  <2> QED
    BY <2>1, <2>2
<1> QED
  BY <1>3, <1>5, <1>6 DEF TypeInv

LEMMA ReplyType ==
  ASSUME TypeInv, NEW r \in Ref, ReplyCancel(r) \/ ReplyPush(r)
  PROVE  TypeInv'
<1>0. /\ RecordOK /\ OwnerOK /\ TasksOK /\ ShutdownOK /\ CountersOK
      /\ r \in Key /\ r # Stop
  BY KeyFacts DEF TypeInv
<1>1. CASE ReplyCancel(r)
  <2>1. /\ reply' = [reply EXCEPT ![r] = "cancelled"]
        /\ settled' \in {settled \cup {r}, settled}
        /\ UNCHANGED <<present, forced, owner, key, others, armed, fired>>
    BY <1>1 DEF ReplyCancel
  <2>2. \/ Cancel(r)
        \/ UNCHANGED <<table, state, mailbox>>
    BY <1>1 DEF ReplyCancel
  <2>3. \/ table' = [table EXCEPT ![r] = Free] /\ state' = Aborted(r)
        \/ table' = table /\ state' = state
    BY <1>0, <2>2, CancelFacts
  <2>4. mailbox' \in Seq(Mail)
    BY <1>0, <2>2, CancelFacts DEF RecordOK
  <2>5. RecordOK'
    BY <1>0, <2>1, <2>4 DEF RecordOK
  <2>6. TasksOK'
    <3>1. CASE table' = table /\ state' = state
      BY <1>0, <2>1, <3>1 DEF TasksOK
    <3>2. CASE table' = [table EXCEPT ![r] = Free] /\ state' = Aborted(r)
      BY <1>0, <2>1, <3>2, AbortedFacts DEF TasksOK
    <3> QED
      BY <2>3, <3>1, <3>2
  <2>7. OwnerOK'
    BY <1>0, <2>1, <2>3, AbortedFacts DEF OwnerOK, Idle
  <2>8. ShutdownOK' /\ CountersOK'
    BY <1>0, <2>1, <2>3, KeyFacts DEF ShutdownOK, CountersOK, others, TasksOK
  <2> QED
    BY <2>5, <2>6, <2>7, <2>8 DEF TypeInv
<1>2. CASE ReplyPush(r)
  <2>1. [kind |-> "Reply", ref |-> r] \in Mail
    BY <1>0 DEF Mail, EnvelopeKind
  <2>2. mailbox' \in {Append(mailbox, [kind |-> "Reply", ref |-> r]), mailbox}
    BY <1>2 DEF ReplyPush
  <2>3. mailbox' \in Seq(Mail)
    BY <1>0, <2>1, <2>2, AppendFacts DEF RecordOK
  <2>4. \E s \in {"replied", "refused", "noproc"} :
          reply' = [reply EXCEPT ![r] = s]
    BY <1>2 DEF ReplyPush
  <2>5. UNCHANGED <<present, forced, owner, tasks, others, armed, fired, settled>>
    BY <1>2 DEF ReplyPush
  <2> QED
    BY <1>0, <2>3, <2>4, <2>5
       DEF TypeInv, RecordOK, OwnerOK, TasksOK, ShutdownOK, CountersOK, tasks,
           others
<1> QED
  BY <1>1, <1>2

LEMMA ShutdownType ==
  ASSUME TypeInv,
         \/ \E p \in Shutdown : RequestShutdown(p)
         \/ \E i \in DOMAIN signals : SendSignal(i)
  PROVE  TypeInv'
<1>0. /\ RecordOK /\ OwnerOK /\ TasksOK /\ ShutdownOK /\ CountersOK
      /\ Stop \in Key
  BY KeyFacts DEF TypeInv
<1>1. ASSUME NEW p \in Shutdown, RequestShutdown(p)
      PROVE  TypeInv'
  <2>1. /\ policy' = p /\ signals' = Append(signals, p)
        /\ armed' = [armed EXCEPT ![Stop] = @ + 1]
        /\ UNCHANGED <<record, owner, reply, mail, used, fired, settled>>
    BY <1>1 DEF RequestShutdown
  <2>2. RecordOK' /\ CountersOK'
    BY <1>0, <2>1 DEF RecordOK, CountersOK, record
  <2>3. signals' \in Seq(Shutdown)
    BY <1>0, <2>1, AppendFacts DEF ShutdownOK
  <2>4. CASE p = "Timeout"
    <3>1. PICK n \in Task : /\ Spawned(n, Stop, Aborted(Stop))
                            /\ table' = [table EXCEPT ![Stop] = n]
      BY <1>1, <2>4 DEF RequestShutdown
    <3>2. /\ state' \in [Task -> Life] /\ key' \in [Task -> Key]
          /\ state'[n] = "sleeping" /\ key'[n] = Stop
          /\ \A m \in Task : state[m] # "unborn" =>
               m # n /\ state'[m] # "unborn" /\ key'[m] = key[m]
          /\ \A j \in Key : table[j] # Free =>
               key'[table[j]] = j /\ state'[table[j]] # "unborn"
      <4>1. /\ Aborted(Stop) \in [Task -> Life]
            /\ \A m \in Task : Aborted(Stop)[m] = "unborn" <=> state[m] = "unborn"
        BY <1>0, AbortedFacts
      <4> QED
        BY <1>0, <3>1, <4>1, SpawnedFacts
    <3>3. TasksOK'
      BY <1>0, <3>1, <3>2 DEF TasksOK
    <3>4. OwnerOK'
      BY <1>0, <2>1, <3>2 DEF OwnerOK, Idle
    <3>5. ShutdownOK'
      BY <2>1, <2>3, <2>4 DEF ShutdownOK
    <3> QED
      BY <2>2, <3>3, <3>4, <3>5 DEF TypeInv
  <2>5. CASE p # "Timeout"
    <3>1. /\ state' = Aborted(Stop)
          /\ table' = [table EXCEPT ![Stop] = Free]
          /\ UNCHANGED key
      BY <1>1, <2>5 DEF RequestShutdown
    <3>2. TasksOK'
      BY <1>0, <3>1, AbortedFacts DEF TasksOK
    <3>3. OwnerOK'
      BY <1>0, <2>1, <3>1, AbortedFacts DEF OwnerOK, Idle
    <3>4. ShutdownOK'
      BY <1>0, <2>1, <2>3, <3>1 DEF ShutdownOK, TasksOK
    <3> QED
      BY <2>2, <3>2, <3>3, <3>4 DEF TypeInv
  <2> QED
    BY <2>4, <2>5
<1>2. ASSUME NEW i \in DOMAIN signals, SendSignal(i)
      PROVE  TypeInv'
  <2>1. signals' \in Seq(Shutdown)
    <3>1. signals \in Seq(Shutdown) /\ signals' = RemoveEntry(signals, i)
      BY <1>0, <1>2 DEF SendSignal, ShutdownOK
    <3> QED
      BY <3>1, RemoveFacts
  <2>2. [kind |-> "Exit", ref |-> Stop] \in Mail
    BY <1>0 DEF Mail, EnvelopeKind
  <2>3. mailbox' \in {Append(mailbox, [kind |-> "Exit", ref |-> Stop]), mailbox}
    BY <1>2 DEF SendSignal
  <2>4. mailbox' \in Seq(Mail)
    BY <1>0, <2>2, <2>3, AppendFacts DEF RecordOK
  <2>5. /\ forced' \in BOOLEAN
        /\ UNCHANGED <<present, owner, tasks, reply, mail, policy, used, history>>
    BY <1>0, <1>2 DEF SendSignal, RecordOK
  <2> QED
    BY <1>0, <2>1, <2>4, <2>5
       DEF TypeInv, RecordOK, OwnerOK, TasksOK, ShutdownOK, CountersOK, tasks,
           history
<1> QED
  BY <1>1, <1>2

LEMMA TypeInductive == TypeInv /\ [Next]_vars => TypeInv'
<1> SUFFICES ASSUME TypeInv, [Next]_vars PROVE TypeInv'
  OBVIOUS
<1>0. RecordOK /\ OwnerOK /\ TasksOK /\ ShutdownOK /\ CountersOK
  BY DEF TypeInv
<1>1. CASE UNCHANGED vars
  BY <1>0, <1>1
     DEF vars, record, tasks, others, history, TypeInv, RecordOK, OwnerOK,
         TasksOK, ShutdownOK, CountersOK
<1>2. CASE Receive
  <2>1. mailbox' \in Seq(Mail)
    BY <1>0, <1>2, TailFacts DEF Receive, RecordOK
  <2> QED
    BY <1>0, <1>2, <2>1
       DEF Receive, tasks, others, history, TypeInv, RecordOK, OwnerOK,
           TasksOK, ShutdownOK, CountersOK
<1>3. CASE Finalize
  <2>1. /\ present' = FALSE /\ mailbox' = <<>> /\ policy' = "none"
        /\ table' = [k \in Key |-> Free] /\ owner = Idle
        /\ UNCHANGED <<forced, owner, key, reply, mail, signals, used, history>>
    BY <1>3 DEF Finalize, OwnerRuns
  <2>2. RecordOK' /\ OwnerOK'
    BY <1>0, <2>1, EmptySeq DEF RecordOK, OwnerOK, Idle
  <2>3. state' \in [Task -> Life]
    BY <1>0, <1>3 DEF Finalize, TasksOK, Life
  <2>4. TasksOK'
    BY <1>0, <2>1, <2>3 DEF TasksOK
  <2>5. ShutdownOK' /\ CountersOK'
    BY <1>0, <2>1, KeyFacts DEF ShutdownOK, CountersOK, history
  <2> QED
    BY <2>2, <2>4, <2>5 DEF TypeInv
<1>4. CASE UserMail
  <2>1. mail' = mail + 1 /\ mail' \in 0..MaxMail
    BY <1>0, <1>4, KeyFacts DEF UserMail, CountersOK
  <2>2. [kind |-> "User", ref |-> mail'] \in Mail
    BY <2>1, KeyFacts DEF Mail, EnvelopeKind
  <2>3. mailbox' = Append(mailbox, [kind |-> "User", ref |-> mail'])
    BY <1>4 DEF UserMail
  <2>4. mailbox' \in Seq(Mail)
    BY <1>0, <2>2, <2>3, AppendFacts DEF RecordOK
  <2> QED
    BY <1>0, <1>4, <2>1, <2>4
       DEF UserMail, tasks, history, TypeInv, RecordOK, OwnerOK, TasksOK,
           ShutdownOK, CountersOK
<1> QED
  BY <1>1, <1>2, <1>3, <1>4, OwnerType, FiringType, ReplyType, ShutdownType
     DEF Next

\* Every variable keeps its type, and the owner's call and the table name tasks
\* of the right key.
THEOREM TypeCorrect == Spec => []TypeOK
<1> QED
  BY TypeInit, TypeInductive, TypesFollow, PTL DEF Spec
-----------------------------------------------------------------------------
(* Firings are backed by armings.                                          *)

\* The tasks of a key that have taken its handle and not yet delivered.
FiringTasks(k) == {n \in Task : key[n] = k /\ state[n] = "firing"}

\* 1 if the key has a handle.
Handle(k) == IF table[k] = Free THEN 0 ELSE 1

Backed(k) == fired[k] + Pending(k) + Handle(k) <= armed[k]

LEMMA PendingFinite ==
  ASSUME NEW k
  PROVE  /\ IsFiniteSet(FiringTasks(k)) /\ Pending(k) = Cardinality(FiringTasks(k))
         /\ Pending(k) \in Nat
<1>1. IsFiniteSet(Task)
  BY KeyFacts, FS_Interval DEF Task
<1>2. IsFiniteSet(FiringTasks(k))
  BY <1>1, FS_Subset DEF FiringTasks
<1> QED
  BY <1>2, FS_CardinalityType DEF Pending, FiringTasks

\* How the number of firing tasks of a key changes.
LEMMA PendingSteps ==
  ASSUME NEW k, NEW n
  PROVE  /\ FiringTasks(k)' = FiringTasks(k) => Pending(k)' = Pending(k)
         /\ FiringTasks(k)' = FiringTasks(k) \cup {n} /\ n \notin FiringTasks(k)
              => Pending(k)' = Pending(k) + 1
         /\ FiringTasks(k)' = FiringTasks(k) \ {n} /\ n \in FiringTasks(k)
              => Pending(k)' = Pending(k) - 1
<1>1. /\ Pending(k) = Cardinality(FiringTasks(k))
      /\ Pending(k)' = Cardinality(FiringTasks(k)')
  BY DEF Pending, FiringTasks
<1> QED
  BY <1>1, PendingFinite, FS_AddElement, FS_RemoveElement
\* Every step but the three of a task that fires.
Quiet == [Next]_vars /\ \A n \in Task :
           ~FireTake(n) /\ ~FireEnqueue(n) /\ ~FireKill(n)

LEMMA QuietTasks ==
  ASSUME TypeInv, Quiet
  PROVE  /\ fired' = fired
         /\ \A n \in Task : /\ state'[n] = "firing" <=> state[n] = "firing"
                            /\ state[n] # "unborn" => key'[n] = key[n]
         /\ \A k : FiringTasks(k)' = FiringTasks(k)
<1>0. RecordOK /\ OwnerOK /\ TasksOK
  BY DEF TypeInv
<1> DEFINE Kept ==
        /\ fired' = fired
        /\ \A n \in Task : /\ state'[n] = "firing" <=> state[n] = "firing"
                           /\ state[n] # "unborn" => key'[n] = key[n]
<1>1. Kept
  <2>1. CASE UNCHANGED vars
    BY <2>1 DEF vars, tasks, history
  <2>2. ASSUME NEW t \in Token, ScheduleAfter(t) \/ CancelTimer(t)
        PROVE  Kept
    BY <1>0, <2>2, KeyFacts, AbortedFacts
       DEF ScheduleAfter, CancelTimer, Cancel, tasks, history
  <2>3. ASSUME NEW r \in Ref, Ask(r) \/ ReplyCancel(r) \/ ReplyPush(r)
        PROVE  Kept
    BY <1>0, <2>3, KeyFacts, AbortedFacts
       DEF Ask, ReplyCancel, ReplyPush, Cancel, tasks, history
  <2>4. CASE ArmCancel
    <3>1. owner.key \in Key
      BY <1>0, <2>4, KeyFacts DEF ArmCancel, OwnerOK, Idle
    <3> QED
      BY <1>0, <2>4, <3>1, AbortedFacts DEF ArmCancel, Cancel, history
  <2>5. CASE ArmSpawn \/ (\E j \in Job : SpawnBlocking(j))
    <3>1. PICK n \in Task : \E k : Spawned(n, k, state)
      BY <2>5 DEF ArmSpawn, SpawnBlocking
    <3>2. fired' = fired
      BY <2>5 DEF ArmSpawn, SpawnBlocking, history
    <3> QED
      BY <1>0, <3>1, <3>2 DEF Spawned, TasksOK
  <2>6. CASE ArmInsert \/ Receive \/ UserMail
             \/ (\E i \in DOMAIN signals : SendSignal(i))
    BY <2>6 DEF ArmInsert, Receive, UserMail, SendSignal, tasks, history
  <2>7. CASE Finalize
    BY <1>0, <2>7 DEF Finalize, TasksOK, history
  <2>8. ASSUME NEW n \in Task, Elapse(n) \/ JobPanics(n)
        PROVE  Kept
    BY <1>0, <2>8 DEF Elapse, JobPanics, TasksOK, history
  <2>9. ASSUME NEW p \in Shutdown, RequestShutdown(p)
        PROVE  Kept
    <3>1. /\ Aborted(Stop) \in [Task -> Life]
          /\ \A m \in Task :
               /\ Aborted(Stop)[m] = "unborn" <=> state[m] = "unborn"
               /\ Aborted(Stop)[m] = "firing" <=> state[m] = "firing"
      BY <1>0, KeyFacts, AbortedFacts
    <3>2. fired' = fired
      BY <2>9 DEF RequestShutdown
    <3>3. CASE p = "Timeout"
      <4>1. PICK n \in Task : Spawned(n, Stop, Aborted(Stop))
        BY <2>9, <3>3 DEF RequestShutdown
      <4> QED
        BY <1>0, <3>1, <3>2, <4>1 DEF Spawned, TasksOK
    <3>4. CASE p # "Timeout"
      BY <2>9, <3>1, <3>2, <3>4 DEF RequestShutdown
    <3> QED
      BY <3>3, <3>4
  <2> QED
    BY <2>1, <2>2, <2>3, <2>4, <2>5, <2>6, <2>7, <2>8, <2>9
       DEF Quiet, Next, Arming, Firing
<1>2. \A k : FiringTasks(k)' = FiringTasks(k)
  BY <1>1 DEF FiringTasks
<1> QED
  BY <1>1, <1>2
LEMMA QuietBacked ==
  ASSUME TypeInv, Quiet, NEW k \in Token \cup Ref, Backed(k)
  PROVE  Backed(k)'
<1>0. RecordOK /\ OwnerOK /\ TasksOK /\ CountersOK /\ k \in Key /\ k # Stop
  BY KeyFacts DEF TypeInv
<1>1. Pending(k)' = Pending(k) /\ Pending(k) \in Nat /\ fired'[k] = fired[k]
  BY QuietTasks, PendingSteps, PendingFinite
<1>2. \/ Handle(k)' <= Handle(k) /\ armed'[k] = armed[k]
      \/ Handle(k)' <= 1 /\ armed'[k] = armed[k] + 1
  <2> USE DEF Handle
  <2>1. CASE ArmInsert
    <3>1. owner.key \in Key
      BY <1>0, <2>1, KeyFacts DEF ArmInsert, OwnerOK, Idle
    <3>2. CASE owner.key = k
      BY <1>0, <2>1, <3>2 DEF ArmInsert, CountersOK
    <3>3. CASE owner.key # k
      BY <1>0, <2>1, <3>1, <3>3 DEF ArmInsert, CountersOK, TasksOK
    <3> QED
      BY <3>2, <3>3
  <2>2. CASE UNCHANGED vars
    BY <2>2 DEF vars, tasks, history
  <2>3. ASSUME NEW t \in Token, ScheduleAfter(t) \/ CancelTimer(t)
        PROVE  Handle(k)' <= Handle(k) /\ armed'[k] = armed[k]
    BY <1>0, <2>3 DEF ScheduleAfter, CancelTimer, Cancel, tasks, TasksOK
  <2>4. ASSUME NEW r \in Ref, Ask(r) \/ ReplyCancel(r) \/ ReplyPush(r)
        PROVE  Handle(k)' <= Handle(k) /\ armed'[k] = armed[k]
    BY <1>0, <2>4
       DEF Ask, ReplyCancel, ReplyPush, Cancel, tasks, history, TasksOK
  <2>5. CASE ArmCancel \/ ArmSpawn
    BY <1>0, <2>5 DEF ArmCancel, ArmSpawn, Cancel, history, TasksOK
  <2>6. ASSUME NEW j \in Job, SpawnBlocking(j)
        PROVE  Handle(k)' <= Handle(k) /\ armed'[k] = armed[k]
    BY <1>0, <2>6, KeyFacts DEF SpawnBlocking, CountersOK
  <2>7. CASE Receive \/ UserMail \/ (\E i \in DOMAIN signals : SendSignal(i))
    BY <2>7 DEF Receive, UserMail, SendSignal, tasks, history
  <2>8. CASE Finalize
    BY <1>0, <2>8 DEF Finalize, history
  <2>9. ASSUME NEW n \in Task, Elapse(n) \/ JobPanics(n)
        PROVE  Handle(k)' <= Handle(k) /\ armed'[k] = armed[k]
    BY <2>9 DEF Elapse, JobPanics, history
  <2>10. ASSUME NEW p \in Shutdown, RequestShutdown(p)
         PROVE  Handle(k)' <= Handle(k) /\ armed'[k] = armed[k]
    BY <1>0, <2>10 DEF RequestShutdown, TasksOK, CountersOK
  <2> QED
    BY <2>1, <2>2, <2>3, <2>4, <2>5, <2>6, <2>7, <2>8, <2>9, <2>10
       DEF Quiet, Next, Arming, Firing
<1>3. /\ fired[k] \in Nat /\ armed[k] \in Nat
      /\ Handle(k) \in {0, 1} /\ Handle(k)' \in {0, 1}
  BY <1>0 DEF CountersOK, Handle
<1> QED
  BY <1>1, <1>2, <1>3 DEF Backed

\* A task that fires uses up the handle of its key, whoever's it was.
LEMMA FiringBacked ==
  ASSUME TypeInv, NEW n \in Task,
         FireTake(n) \/ FireEnqueue(n) \/ FireKill(n),
         NEW k \in Token \cup Ref, Backed(k)
  PROVE  Backed(k)'
<1>0. /\ TasksOK /\ CountersOK /\ k \in Key /\ k # Stop /\ k \notin Job
      /\ key[n] \in Key /\ key' = key /\ armed' = armed
      /\ fired[k] \in Nat /\ armed[k] \in Nat /\ Pending(k) \in Nat
      /\ Handle(k) \in {0, 1}
  BY KeyFacts, PendingFinite
     DEF TypeInv, FireTake, FireEnqueue, FireKill, TasksOK, CountersOK, Handle,
         history
<1>1. CASE FireTake(n)
  <2>1. /\ state[n] \in {"due", "overtaken"} /\ fired' = fired
        /\ state' = [state EXCEPT ![n] = IF MayFire(n) THEN "firing" ELSE "done"]
        /\ table' = IF key[n] = Stop THEN table ELSE [table EXCEPT ![key[n]] = Free]
    BY <1>1 DEF FireTake, history
  <2>2. n \notin FiringTasks(k)
    BY <2>1 DEF FiringTasks
  <2>3. CASE key[n] # k \/ ~MayFire(n)
    <3>1. FiringTasks(k)' = FiringTasks(k)
      BY <1>0, <2>1, <2>3 DEF FiringTasks, TasksOK
    <3>2. Handle(k)' \in {0, 1} /\ Handle(k)' <= Handle(k)
      BY <1>0, <2>1 DEF Handle, TasksOK
    <3>3. Pending(k)' = Pending(k)
      BY <3>1, PendingSteps
    <3> QED
      BY <1>0, <2>1, <3>2, <3>3 DEF Backed
  <2>4. CASE key[n] = k /\ MayFire(n)
    <3>1. FiringTasks(k)' = FiringTasks(k) \cup {n}
      BY <1>0, <2>1, <2>4 DEF FiringTasks, TasksOK
    <3>2. Handle(k) = 1 /\ Handle(k)' = 0
      BY <1>0, <2>1, <2>4 DEF Handle, MayFire, TasksOK
    <3>3. Pending(k)' = Pending(k) + 1
      BY <2>2, <3>1, PendingSteps
    <3> QED
      BY <1>0, <2>1, <3>2, <3>3 DEF Backed
  <2> QED
    BY <2>3, <2>4
<1>2. CASE FireEnqueue(n) \/ FireKill(n)
  <2>1. /\ state[n] = "firing" /\ table' = table
        /\ state' = [state EXCEPT ![n] = "done"]
        /\ \/ fired' = fired
           \/ fired' = [fired EXCEPT ![key[n]] = @ + 1]
    BY <1>2 DEF FireEnqueue, FireKill, history
  <2>2. Handle(k)' = Handle(k)
    BY <2>1 DEF Handle
  <2>3. CASE key[n] # k
    <3>1. FiringTasks(k)' = FiringTasks(k)
      BY <1>0, <2>1, <2>3 DEF FiringTasks, TasksOK
    <3>2. fired'[k] = fired[k]
      BY <1>0, <2>1, <2>3 DEF CountersOK
    <3>3. Pending(k)' = Pending(k)
      BY <3>1, PendingSteps
    <3> QED
      BY <1>0, <2>2, <3>2, <3>3 DEF Backed
  <2>4. CASE key[n] = k
    <3>1. /\ FiringTasks(k)' = FiringTasks(k) \ {n}
          /\ n \in FiringTasks(k)
      BY <1>0, <2>1, <2>4 DEF FiringTasks, TasksOK
    <3>2. fired'[k] \in {fired[k], fired[k] + 1}
      BY <1>0, <2>1, <2>4 DEF CountersOK
    <3>3. Pending(k)' = Pending(k) - 1
      BY <3>1, PendingSteps
    <3> QED
      BY <1>0, <2>2, <3>2, <3>3 DEF Backed
  <2> QED
    BY <2>3, <2>4
<1> QED
  BY <1>1, <1>2

BackedInv == \A k \in Token \cup Ref : Backed(k)

LEMMA BackedInductive == TypeInv /\ BackedInv /\ [Next]_vars => BackedInv'
<1> SUFFICES ASSUME TypeInv, BackedInv, [Next]_vars PROVE BackedInv'
  OBVIOUS
<1>1. CASE Quiet
  BY <1>1, QuietBacked DEF BackedInv
<1>2. CASE ~Quiet
  <2>1. PICK n \in Task : FireTake(n) \/ FireEnqueue(n) \/ FireKill(n)
    BY <1>2 DEF Quiet
  <2> QED
    BY <2>1, FiringBacked DEF BackedInv
<1> QED
  BY <1>1, <1>2

LEMMA BackedInit == Init => BackedInv
<1> SUFFICES ASSUME Init, NEW k \in Token \cup Ref PROVE Backed(k)
  BY DEF BackedInv
<1>1. k \in Key /\ FiringTasks(k) = {}
  BY KeyFacts DEF Init, FiringTasks
<1>2. Pending(k) = 0
  BY <1>1, PendingFinite, FS_EmptySet
<1> QED
  BY <1>1, <1>2 DEF Init, Backed, Handle

\* No timer or call timeout fires more often than it was armed, whatever tasks
\* that were replaced or cancelled wake up late: each wakeup that fire_timer or
\* fire_call_timeout lets through has taken a handle out of the table.
THEOREM FiringsAreBacked == Spec => []FiringsBacked
<1>1. BackedInv => FiringsBacked
  BY DEF BackedInv, Backed, Handle, FiringsBacked
<1> QED
  BY <1>1, TypeInit, TypeInductive, BackedInit, BackedInductive, PTL DEF Spec
-----------------------------------------------------------------------------
(* A reply silences a timeout at rest.                                     *)

\* An actor that is gone has no call under way, no mail, no handle and no
\* tracker.
AbsentInv ==
  ~present => /\ owner = Idle /\ mailbox = <<>> /\ policy = "none"
              /\ \A k \in Key : table[k] = Free

LEMMA AbsentInductive == TypeInv /\ AbsentInv /\ [Next]_vars => AbsentInv'
<1> SUFFICES ASSUME TypeInv, AbsentInv, [Next]_vars, ~present' PROVE AbsentInv'
  BY DEF AbsentInv
<1>0. TasksOK
  BY DEF TypeInv
<1>1. CASE Finalize
  BY <1>1 DEF Finalize, OwnerRuns, AbsentInv
<1>2. CASE ~Finalize
  <2>1. ~present
    BY <1>2
       DEF Next, Firing, Arming, ScheduleAfter, CancelTimer, Ask, ReplyCancel,
           ReplyPush, ArmCancel, ArmSpawn, ArmInsert, Receive, Elapse,
           FireTake, FireEnqueue, FireKill, JobPanics, SpawnBlocking,
           RequestShutdown, SendSignal, UserMail, vars, record
  <2>2. owner = Idle /\ mailbox = <<>> /\ policy = "none"
        /\ \A k \in Key : table[k] = Free
    BY <2>1 DEF AbsentInv
  <2>3. owner.op \notin {"cancel", "spawn", "insert"}
    BY <2>2 DEF Idle
  <2>4. \A k \in Key : table'[k] = Free
    BY <1>0, <1>2, <2>1, <2>2, <2>3
       DEF Next, Firing, Arming, ScheduleAfter, CancelTimer, Ask, ReplyCancel,
           ReplyPush, ArmCancel, ArmSpawn, ArmInsert, Receive, Elapse,
           FireTake, FireEnqueue, FireKill, JobPanics, SpawnBlocking,
           RequestShutdown, SendSignal, UserMail, vars, tasks, OwnerRuns,
           TasksOK
  <2>5. owner' = Idle /\ mailbox' = <<>> /\ policy' = "none"
    BY <1>2, <2>1, <2>2, <2>3
       DEF Next, Firing, Arming, ScheduleAfter, CancelTimer, Ask, ReplyCancel,
           ReplyPush, ArmCancel, ArmSpawn, ArmInsert, Receive, Elapse,
           FireTake, FireEnqueue, FireKill, JobPanics, SpawnBlocking,
           RequestShutdown, SendSignal, UserMail, vars, record, others,
           OwnerRuns
  <2> QED
    BY <2>4, <2>5 DEF AbsentInv
<1> QED
  BY <1>1, <1>2

\* The owner is arming the timeout of the call r.
OnCall(r) == owner # Idle /\ owner.key = r

\* How a step moves a call and its timeout.
LEMMA CallStep ==
  ASSUME TypeInv, [Next]_vars, NEW r \in Ref
  PROVE  /\ OnCall(r)' => \/ OnCall(r)
                          \/ reply[r] = "none" /\ reply'[r] = "asked"
         /\ reply'[r] = "none" => reply[r] = "none"
         /\ reply[r] \notin {"none", "asked"} => reply'[r] \notin {"none", "asked"}
         /\ \/ armed'[r] = armed[r]
            \/ armed'[r] = armed[r] + 1 /\ OnCall(r) /\ ~OnCall(r)'
         /\ table'[r] # Free => table[r] # Free \/ OnCall(r)
<1>0. /\ OwnerOK /\ TasksOK /\ CountersOK
      /\ r \in Key /\ r # Stop /\ r \notin Token /\ r \notin Job
  BY KeyFacts DEF TypeInv
<1> DEFINE Moves ==
         /\ OnCall(r)' => \/ OnCall(r)
                          \/ reply[r] = "none" /\ reply'[r] = "asked"
         /\ reply'[r] = "none" => reply[r] = "none"
         /\ reply[r] \notin {"none", "asked"} => reply'[r] \notin {"none", "asked"}
         /\ \/ armed'[r] = armed[r]
            \/ armed'[r] = armed[r] + 1 /\ OnCall(r) /\ ~OnCall(r)'
         /\ table'[r] # Free => table[r] # Free \/ OnCall(r)
<1>1. ASSUME UNCHANGED <<owner, reply, armed>>, table'[r] \in {table[r], Free}
      PROVE  Moves
  BY <1>1 DEF OnCall, Idle
<1>2. CASE UNCHANGED vars
  BY <1>1, <1>2 DEF vars, tasks, history
<1>3. ASSUME NEW t \in Token, ScheduleAfter(t)
      PROVE  Moves
  BY <1>0, <1>3 DEF ScheduleAfter, tasks, OnCall
<1>4. ASSUME NEW t \in Token, CancelTimer(t)
      PROVE  Moves
  BY <1>0, <1>1, <1>4 DEF CancelTimer, Cancel, TasksOK
<1>5. ASSUME NEW q \in Ref, Ask(q)
      PROVE  Moves
  BY <1>0, <1>5 DEF Ask, tasks, history, OnCall, CountersOK
<1>6. ASSUME NEW q \in Ref, ReplyCancel(q)
      PROVE  Moves
  <2>1. table'[r] \in {table[r], Free}
    BY <1>0, <1>6 DEF ReplyCancel, Cancel, TasksOK
  <2>2. /\ reply[q] = "asked" /\ reply' = [reply EXCEPT ![q] = "cancelled"]
        /\ UNCHANGED <<owner, armed>>
    BY <1>6 DEF ReplyCancel
  <2>3. /\ reply'[r] = "none" => reply[r] = "none"
        /\ reply[r] \notin {"none", "asked"} => reply'[r] \notin {"none", "asked"}
    BY <1>0, <2>2 DEF CountersOK
  <2> QED
    BY <2>1, <2>2, <2>3 DEF OnCall, Idle
<1>7. ASSUME NEW q \in Ref, ReplyPush(q)
      PROVE  Moves
  <2>1. \E v \in {"replied", "refused", "noproc"} : reply' = [reply EXCEPT ![q] = v]
    BY <1>7 DEF ReplyPush
  <2>2. UNCHANGED <<owner, armed, table>>
    BY <1>7 DEF ReplyPush, tasks
  <2>3. /\ reply'[r] = "none" => reply[r] = "none"
        /\ reply[r] \notin {"none", "asked"} => reply'[r] \notin {"none", "asked"}
    BY <1>0, <2>1 DEF CountersOK
  <2> QED
    BY <2>2, <2>3 DEF OnCall, Idle
<1>8. CASE ArmCancel
  <2>1. /\ owner # Idle /\ owner'.key = owner.key
        /\ UNCHANGED <<reply, armed>>
    BY <1>0, <1>8 DEF ArmCancel, OwnerOK, Idle, history
  <2>2. table'[r] \in {table[r], Free}
    BY <1>0, <1>8 DEF ArmCancel, Cancel, TasksOK
  <2> QED
    BY <2>1, <2>2 DEF OnCall
<1>9. CASE ArmSpawn
  <2>1. /\ owner # Idle /\ owner'.key = owner.key
        /\ UNCHANGED <<reply, armed, table>>
    BY <1>9 DEF ArmSpawn, Idle, history
  <2> QED
    BY <2>1 DEF OnCall
<1>10. CASE ArmInsert
  <2>1. /\ owner # Idle /\ owner' = Idle /\ UNCHANGED reply
        /\ table' = [table EXCEPT ![owner.key] = owner.task]
        /\ armed' = [armed EXCEPT ![owner.key] = @ + 1]
    BY <1>10 DEF ArmInsert, Idle
  <2>2. CASE owner.key = r
    BY <1>0, <2>1, <2>2 DEF OnCall, CountersOK
  <2>3. CASE owner.key # r
    BY <1>0, <2>1, <2>3 DEF OnCall, CountersOK, TasksOK
  <2> QED
    BY <2>2, <2>3
<1>11. ASSUME NEW j \in Job, SpawnBlocking(j)
       PROVE  Moves
  <2>1. armed'[r] = armed[r] /\ UNCHANGED <<owner, reply, table>>
    BY <1>0, <1>11 DEF SpawnBlocking, CountersOK
  <2> QED
    BY <2>1 DEF OnCall, Idle
<1>12. CASE Receive \/ UserMail \/ Finalize
            \/ (\E i \in DOMAIN signals : SendSignal(i))
  BY <1>0, <1>1, <1>12 DEF Receive, UserMail, Finalize, SendSignal, tasks, history
<1>13. ASSUME NEW n \in Task, Firing(n) \/ JobPanics(n)
       PROVE  Moves
  BY <1>0, <1>1, <1>13
     DEF Firing, Elapse, FireTake, FireEnqueue, FireKill, JobPanics, history,
         TasksOK
<1>14. ASSUME NEW p \in Shutdown, RequestShutdown(p)
       PROVE  Moves
  <2>1. /\ armed'[r] = armed[r] /\ UNCHANGED <<owner, reply>>
        /\ table'[r] = table[r]
    BY <1>0, <1>14 DEF RequestShutdown, CountersOK, TasksOK
  <2> QED
    BY <2>1 DEF OnCall, Idle
<1> QED
  BY <1>2, <1>3, <1>4, <1>5, <1>6, <1>7, <1>8, <1>9, <1>10, <1>11, <1>12,
     <1>13, <1>14 DEF Next, Arming
\* Only fire_call_timeout queues a CallTimeout.
LEMMA MailStep ==
  ASSUME TypeInv, [Next]_vars, NEW r \in Ref
  PROVE  \/ /\ Holds(mailbox', Envelope(r)) => Holds(mailbox, Envelope(r))
            /\ Single(mailbox, Envelope(r)) => Single(mailbox', Envelope(r))
            /\ fired'[r] >= fired[r]
         \/ /\ \E n \in Task : state[n] = "firing" /\ key[n] = r
            /\ mailbox' = Append(mailbox, Envelope(r))
            /\ fired'[r] = fired[r] + 1
<1> DEFINE e == Envelope(r)
           Shrinks == /\ Holds(mailbox', e) => Holds(mailbox, e)
                      /\ Single(mailbox, e) => Single(mailbox', e)
                      /\ fired'[r] >= fired[r]
<1>0. /\ RecordOK /\ OwnerOK /\ TasksOK /\ CountersOK
      /\ mailbox \in Seq(Mail) /\ r \in Key /\ fired[r] \in Nat
      /\ e = [kind |-> "CallTimeout", ref |-> r]
  BY KeyFacts, EnvelopeFacts DEF TypeInv, RecordOK, CountersOK
<1> HIDE DEF e
<1>1. ASSUME UNCHANGED <<mailbox, fired>> PROVE Shrinks
  BY <1>0, <1>1
<1>2. ASSUME NEW k \in Key, Cancel(k), UNCHANGED fired PROVE Shrinks
  BY <1>0, <1>2, CancelFacts
<1>3. ASSUME NEW x \in Mail, x # e, UNCHANGED fired,
             mailbox' = Append(mailbox, x)
      PROVE  Shrinks
  BY <1>0, <1>3, AppendFacts
<1>4. ASSUME UNCHANGED vars PROVE Shrinks
  BY <1>1, <1>4 DEF vars, record, history
<1>5. ASSUME NEW t \in Token, ScheduleAfter(t) \/ CancelTimer(t)
      PROVE  Shrinks
  BY <1>1, <1>2, <1>5, KeyFacts DEF ScheduleAfter, CancelTimer, record
<1>6. ASSUME NEW q \in Ref, Ask(q) \/ ReplyCancel(q)
      PROVE  Shrinks
  BY <1>1, <1>2, <1>6, KeyFacts DEF Ask, ReplyCancel, record, history
<1>7. ASSUME NEW q \in Ref, ReplyPush(q)
      PROVE  Shrinks
  <2>1. /\ [kind |-> "Reply", ref |-> q] \in Mail
        /\ [kind |-> "Reply", ref |-> q] # e
    BY <1>0, KeyFacts DEF Mail, EnvelopeKind
  <2> QED
    BY <1>1, <1>3, <1>7, <2>1 DEF ReplyPush
<1>8. ASSUME ArmCancel PROVE Shrinks
  <2>1. owner.key \in Key /\ Cancel(owner.key) /\ UNCHANGED fired
    BY <1>0, <1>8, KeyFacts DEF ArmCancel, OwnerOK, Idle, history
  <2> QED
    BY <1>2, <2>1
<1>9. ASSUME ArmSpawn \/ ArmInsert \/ (\E j \in Job : SpawnBlocking(j))
      PROVE  Shrinks
  BY <1>1, <1>9 DEF ArmSpawn, ArmInsert, SpawnBlocking, record, history
<1>10. ASSUME Receive PROVE Shrinks
  BY <1>0, <1>10, TailFacts DEF Receive, history
<1>11. ASSUME Finalize PROVE Shrinks
  <2>1. mailbox' = <<>> /\ fired' = fired
    BY <1>11 DEF Finalize, history
  <2>2. ~Holds(mailbox', e) /\ Single(mailbox', e)
    BY <2>1 DEF Holds, Single
  <2> QED
    BY <1>0, <2>1, <2>2
<1>12. ASSUME NEW n \in Task, Firing(n) \/ JobPanics(n), ~FireEnqueue(n)
       PROVE  Shrinks
  BY <1>1, <1>12
     DEF Firing, Elapse, FireTake, FireKill, JobPanics, record, history
<1>13. ASSUME NEW n \in Task, FireEnqueue(n)
       PROVE  \/ Shrinks
              \/ /\ state[n] = "firing" /\ key[n] = r
                 /\ mailbox' = Append(mailbox, e)
                 /\ fired'[r] = fired[r] + 1
  <2>1. /\ state[n] = "firing" /\ key[n] \in Key
        /\ Envelope(key[n]) \in Mail
        /\ \/ UNCHANGED <<mailbox, fired>>
           \/ /\ mailbox' = Append(mailbox, Envelope(key[n]))
              /\ fired' = [fired EXCEPT ![key[n]] = @ + 1]
    BY <1>0, <1>13, EnvelopeFacts DEF FireEnqueue, TasksOK
  <2>2. CASE UNCHANGED <<mailbox, fired>>
    BY <1>1, <2>2
  <2>3. CASE /\ mailbox' = Append(mailbox, Envelope(key[n]))
             /\ fired' = [fired EXCEPT ![key[n]] = @ + 1]
    <3>1. CASE key[n] = r
      BY <1>0, <2>1, <2>3, <3>1 DEF e, CountersOK
    <3>2. CASE key[n] # r
      <4>1. Envelope(key[n]) # e /\ fired'[r] = fired[r]
        BY <1>0, <2>1, <2>3, <3>2, EnvelopeFacts DEF e, CountersOK
      <4> QED
        BY <1>0, <2>1, <2>3, <4>1, AppendFacts
    <3> QED
      BY <3>1, <3>2
  <2> QED
    BY <2>1, <2>2, <2>3
<1>14. ASSUME NEW p \in Shutdown, RequestShutdown(p)
       PROVE  Shrinks
  BY <1>1, <1>14 DEF RequestShutdown, record
<1>15. ASSUME NEW i \in DOMAIN signals, SendSignal(i)
       PROVE  Shrinks
  <2>1. /\ [kind |-> "Exit", ref |-> Stop] \in Mail
        /\ [kind |-> "Exit", ref |-> Stop] # e
    BY <1>0, KeyFacts DEF Mail, EnvelopeKind
  <2> QED
    BY <1>1, <1>3, <1>15, <2>1 DEF SendSignal, history
<1>16. ASSUME UserMail PROVE Shrinks
  <2>1. /\ mail' = mail + 1 /\ mail' \in Nat
        /\ mailbox' = Append(mailbox, [kind |-> "User", ref |-> mail'])
        /\ UNCHANGED fired
    BY <1>0, <1>16, KeyFacts DEF UserMail, CountersOK, history
  <2>2. /\ [kind |-> "User", ref |-> mail'] \in Mail
        /\ [kind |-> "User", ref |-> mail'] # e
    BY <1>0, <2>1 DEF Mail, EnvelopeKind
  <2> QED
    BY <1>3, <2>1, <2>2
<1> QED
  BY <1>4, <1>5, <1>6, <1>7, <1>8, <1>9, <1>10, <1>11, <1>12, <1>13, <1>14,
     <1>15, <1>16 DEF Next, Arming, Firing, e

\* A call is armed once, so its timeout fires once and is queued once.
Once(r) ==
  /\ armed[r] <= 1
  /\ OnCall(r) => armed[r] = 0 /\ reply[r] # "none"
  /\ reply[r] = "none" => armed[r] = 0
  /\ Holds(mailbox, Envelope(r)) => fired[r] >= 1
  /\ Single(mailbox, Envelope(r))

OnceInv == \A r \in Ref : Once(r)

LEMMA OnceInductive ==
  TypeInv /\ BackedInv /\ OnceInv /\ [Next]_vars => OnceInv'
<1> SUFFICES ASSUME TypeInv, BackedInv, OnceInv, [Next]_vars, NEW r \in Ref
             PROVE  Once(r)'
  BY DEF OnceInv
<1>0. /\ TasksOK /\ Once(r) /\ Backed(r) /\ r \in Key
      /\ armed[r] \in Nat /\ fired[r] \in Nat /\ Pending(r) \in Nat
      /\ mailbox \in Seq(Mail) /\ Envelope(r) \in Mail
      /\ Handle(r) \in {0, 1}
  BY KeyFacts, PendingFinite, EnvelopeFacts
     DEF TypeInv, OnceInv, BackedInv, CountersOK, RecordOK, Handle
<1>1. /\ armed'[r] <= 1
      /\ OnCall(r)' => armed'[r] = 0 /\ reply'[r] # "none"
      /\ reply'[r] = "none" => armed'[r] = 0
  BY <1>0, CallStep DEF Once
<1>2. /\ Holds(mailbox', Envelope(r)) => fired'[r] >= 1
      /\ Single(mailbox', Envelope(r))
  <2>0. fired'[r] \in Nat
    BY <1>0, TypeInductive DEF TypeInv, CountersOK
  <2>1. CASE /\ Holds(mailbox', Envelope(r)) => Holds(mailbox, Envelope(r))
             /\ Single(mailbox, Envelope(r)) => Single(mailbox', Envelope(r))
             /\ fired'[r] >= fired[r]
    BY <1>0, <2>0, <2>1 DEF Once
  <2>2. CASE /\ \E n \in Task : state[n] = "firing" /\ key[n] = r
             /\ mailbox' = Append(mailbox, Envelope(r))
             /\ fired'[r] = fired[r] + 1
    <3>1. FiringTasks(r) # {}
      BY <2>2 DEF FiringTasks
    <3>2. Pending(r) >= 1
      BY <1>0, <3>1, PendingFinite, FS_EmptySet
    <3>3. fired[r] = 0
      BY <1>0, <3>2 DEF Backed, Once
    <3>4. ~Holds(mailbox, Envelope(r))
      BY <1>0, <3>3 DEF Once
    <3> QED
      BY <1>0, <2>2, <3>3, <3>4, AppendFacts DEF Once
  <2> QED
    BY <2>1, <2>2, MailStep
<1> QED
  BY <1>1, <1>2 DEF Once

\* A call that was settled is not armed again, has no handle a late task could
\* take, no task that has taken one, and no timeout in the mailbox.
SettledFor(r) ==
  /\ reply[r] \notin {"none", "asked"}
  /\ ~OnCall(r)
  /\ table[r] = Free
  /\ ~Holds(mailbox, Envelope(r))
  /\ FiringTasks(r) = {}

SettledInv == \A r \in settled : SettledFor(r)

\* A call that is settled now was settled before or is being settled.
LEMMA SettledGrows ==
  ASSUME [Next]_vars, NEW r \in settled'
  PROVE  r \in settled \/ (r \in Ref /\ ReplyCancel(r) /\ AtRest(r))
BY DEF Next, Firing, Arming, ScheduleAfter, CancelTimer, Ask, ReplyCancel,
       ReplyPush, ArmCancel, ArmSpawn, ArmInsert, Receive, Finalize, Elapse,
       FireTake, FireEnqueue, FireKill, JobPanics, SpawnBlocking,
       RequestShutdown, SendSignal, UserMail, vars, history

LEMMA SettledInductive ==
  TypeInv /\ AbsentInv /\ OnceInv /\ SettledInv /\ [Next]_vars => SettledInv'
<1> SUFFICES ASSUME TypeInv, AbsentInv, OnceInv, SettledInv, [Next]_vars,
                    NEW r \in settled'
             PROVE  SettledFor(r)'
  BY DEF SettledInv
<1>0. RecordOK /\ TasksOK /\ CountersOK
  BY DEF TypeInv
<1>1. CASE r \in settled
  <2>0. SettledFor(r) /\ r \in Ref /\ r \in Key /\ r # Stop /\ r \notin Job
    BY <1>0, <1>1, KeyFacts DEF SettledInv, CountersOK
  <2>1. /\ reply'[r] \notin {"none", "asked"} /\ ~OnCall(r)' /\ table'[r] = Free
    BY <2>0, CallStep DEF SettledFor
  <2>2. ~Holds(mailbox', Envelope(r))
    <3>1. ~\E n \in Task : state[n] = "firing" /\ key[n] = r
      BY <2>0 DEF SettledFor, FiringTasks
    <3> QED
      BY <2>0, <3>1, MailStep DEF SettledFor
  <2>3. FiringTasks(r)' = {}
    <3>1. CASE Quiet
      BY <2>0, <3>1, QuietTasks DEF SettledFor
    <3>2. ASSUME NEW n \in Task, FireTake(n) \/ FireEnqueue(n) \/ FireKill(n)
          PROVE  FiringTasks(r)' = {}
      <4>1. /\ key' = key
            /\ \A m \in Task : m # n => state'[m] = state[m]
            /\ state'[n] = "firing" => MayFire(n)
        BY <1>0, <3>2 DEF FireTake, FireEnqueue, FireKill, TasksOK
      <4>2. key[n] = r => ~MayFire(n)
        BY <2>0 DEF MayFire, SettledFor
      <4> QED
        BY <2>0, <4>1, <4>2 DEF FiringTasks, SettledFor
    <3> QED
      BY <3>1, <3>2 DEF Quiet
  <2> QED
    BY <2>1, <2>2, <2>3 DEF SettledFor
<1>2. CASE r \in Ref /\ ReplyCancel(r) /\ AtRest(r)
  <2>0. /\ r \in Key /\ Single(mailbox, Envelope(r))
        /\ \A n \in Task : ~FireTake(n) /\ ~FireEnqueue(n) /\ ~FireKill(n)
    BY <1>0, <1>2, KeyFacts
       DEF OnceInv, Once, ReplyCancel, FireTake, FireEnqueue, FireKill, CountersOK
  <2>1. FiringTasks(r)' = {}
    <3>1. FiringTasks(r) = {}
      BY <1>2 DEF AtRest, FiringTasks
    <3> QED
      BY <2>0, <3>1, QuietTasks DEF Quiet
  <2>2. /\ reply'[r] = "cancelled" /\ ~OnCall(r)'
    BY <1>0, <1>2 DEF ReplyCancel, AtRest, OnCall, CountersOK
  <2>3. table'[r] = Free /\ ~Holds(mailbox', Envelope(r))
    <3>1. CASE present
      <4>1. Cancel(r)
        BY <1>2, <3>1 DEF ReplyCancel
      <4> QED
        BY <1>0, <2>0, <4>1, CancelFacts DEF TasksOK
    <3>2. CASE ~present
      <4>1. UNCHANGED <<table, mailbox>> /\ table[r] = Free /\ mailbox = <<>>
        BY <1>2, <2>0, <3>2 DEF ReplyCancel, AbsentInv
      <4> QED
        BY <4>1 DEF Holds
    <3> QED
      BY <3>1, <3>2
  <2> QED
    BY <2>1, <2>2, <2>3 DEF SettledFor
<1> QED
  BY <1>1, <1>2, SettledGrows

LEMMA SettledInit == Init => AbsentInv /\ OnceInv /\ SettledInv
<1> SUFFICES ASSUME Init PROVE AbsentInv /\ OnceInv /\ SettledInv
  OBVIOUS
<1>1. AbsentInv /\ SettledInv
  BY DEF Init, AbsentInv, SettledInv
<1>2. ASSUME NEW r \in Ref PROVE Once(r)
  <2>1. r \in Key /\ armed[r] = 0 /\ owner = Idle /\ mailbox = <<>>
    BY KeyFacts DEF Init
  <2> QED
    BY <2>1 DEF Once, OnCall, Holds, Single
<1> QED
  BY <1>1, <1>2 DEF OnceInv

\* Once a reply has met the timeout of its call at rest, the caller never sees a
\* CallTimeout: cancel_call_timeout aborts the task if it sleeps, takes away the
\* handle without which a task that has woken does nothing, and withdraws the
\* envelope if it is queued.
THEOREM SettledSilent == Spec => []SettledStaysSilent
<1>1. SettledInv => SettledStaysSilent
  BY DEF SettledInv, SettledFor, Holds, FiringTasks, SettledStaysSilent
<1> QED
  BY <1>1, TypeInit, TypeInductive, BackedInit, BackedInductive, SettledInit,
     AbsentInductive, OnceInductive, SettledInductive, PTL DEF Spec
-----------------------------------------------------------------------------
(* Replaced shutdown timeouts.                                             *)

\* A shutdown timeout that was not overtaken is the one of the tracker.
TrackerInv ==
  \A n \in Task :
    (key[n] = Stop /\ state[n] \in {"sleeping", "due"})
      => table[Stop] = n \/ ~present
LEMMA TrackerInductive == TypeInv /\ TrackerInv /\ [Next]_vars => TrackerInv'
<1> SUFFICES ASSUME TypeInv, TrackerInv, [Next]_vars PROVE TrackerInv'
  OBVIOUS
<1>0. OwnerOK /\ TasksOK /\ Stop \in Key
  BY KeyFacts DEF TypeInv
<1>1. ASSUME UNCHANGED <<present, key>>, table'[Stop] = table[Stop],
             \A n \in Task : (key[n] = Stop /\ state'[n] \in {"sleeping", "due"})
                             => state[n] \in {"sleeping", "due"}
      PROVE  TrackerInv'
  BY <1>1 DEF TrackerInv
<1>2. ASSUME NEW k \in Key, k # Stop, Cancel(k), UNCHANGED <<present, key>>
      PROVE  TrackerInv'
  <2>1. /\ table'[Stop] = table[Stop]
        /\ \A n \in Task : state'[n] \in {"sleeping", "due"} => state'[n] = state[n]
    BY <1>0, <1>2, AbortedFacts DEF Cancel, TasksOK
  <2> QED
    BY <1>1, <1>2, <2>1
<1>3. ASSUME NEW n \in Task, NEW k \in Key, k # Stop, Spawned(n, k, state),
             UNCHANGED <<present, table>>
      PROVE  TrackerInv'
  BY <1>0, <1>3 DEF Spawned, TasksOK, TrackerInv
<1>4. CASE UNCHANGED vars
  BY <1>1, <1>4 DEF vars, record, tasks
<1>5. ASSUME NEW t \in Token, ScheduleAfter(t) \/ CancelTimer(t)
      PROVE  TrackerInv'
  BY <1>1, <1>2, <1>5, KeyFacts DEF ScheduleAfter, CancelTimer, record, tasks
<1>6. ASSUME NEW r \in Ref, Ask(r) \/ ReplyCancel(r) \/ ReplyPush(r)
      PROVE  TrackerInv'
  BY <1>1, <1>2, <1>6, KeyFacts DEF Ask, ReplyCancel, ReplyPush, record, tasks
<1>7. CASE Arming
  <2>1. owner.key \in Key /\ owner.key # Stop
    BY <1>0, <1>7, KeyFacts DEF Arming, ArmCancel, ArmSpawn, ArmInsert, OwnerOK, Idle
  <2>2. CASE ArmCancel
    BY <1>2, <2>1, <2>2 DEF ArmCancel
  <2>3. CASE ArmSpawn
    BY <1>3, <2>1, <2>3 DEF ArmSpawn, record
  <2>4. CASE ArmInsert
    <3>1. table'[Stop] = table[Stop] /\ UNCHANGED <<present, key, state>>
      BY <1>0, <2>1, <2>4 DEF ArmInsert, TasksOK, record
    <3> QED
      BY <1>1, <3>1
  <2> QED
    BY <1>7, <2>2, <2>3, <2>4 DEF Arming
<1>8. ASSUME NEW j \in Job, SpawnBlocking(j)
      PROVE  TrackerInv'
  BY <1>3, <1>8, KeyFacts DEF SpawnBlocking, record
<1>9. CASE Finalize
  BY <1>9 DEF Finalize, TrackerInv
<1>10. CASE Receive \/ UserMail \/ (\E i \in DOMAIN signals : SendSignal(i))
  BY <1>1, <1>10 DEF Receive, UserMail, SendSignal, tasks
<1>11. ASSUME NEW n \in Task, Firing(n) \/ JobPanics(n)
       PROVE  TrackerInv'
  <2>1. UNCHANGED <<present, key>> /\ table'[Stop] = table[Stop]
    BY <1>0, <1>11
       DEF Firing, Elapse, FireTake, FireEnqueue, FireKill, JobPanics, record,
           TasksOK
  <2>2. \A m \in Task : state'[m] \in {"sleeping", "due"}
                          => state[m] \in {"sleeping", "due"}
    BY <1>0, <1>11
       DEF Firing, Elapse, FireTake, FireEnqueue, FireKill, JobPanics, TasksOK
  <2> QED
    BY <1>1, <2>1, <2>2
<1>12. ASSUME NEW p \in Shutdown, RequestShutdown(p)
       PROVE  TrackerInv'
  <2>1. present /\ UNCHANGED present
    BY <1>12 DEF RequestShutdown, record
  <2>2. \A m \in Task : key[m] = Stop => Aborted(Stop)[m] \notin {"sleeping", "due"}
    BY <1>0, <2>1, AbortedFacts DEF TrackerInv
  <2>3. CASE p = "Timeout"
    <3>1. PICK n \in Task : /\ Spawned(n, Stop, Aborted(Stop))
                            /\ table' = [table EXCEPT ![Stop] = n]
      BY <1>12, <2>3 DEF RequestShutdown
    <3>2. /\ table'[Stop] = n
          /\ \A m \in Task : m # n => /\ state'[m] = Aborted(Stop)[m]
                                      /\ key'[m] = key[m]
      BY <1>0, <3>1, AbortedFacts DEF Spawned, TasksOK
    <3> QED
      BY <2>2, <3>2 DEF TrackerInv
  <2>4. CASE p # "Timeout"
    BY <1>12, <2>2, <2>4 DEF RequestShutdown, TrackerInv
  <2> QED
    BY <2>3, <2>4
<1> QED
  BY <1>4, <1>5, <1>6, <1>7, <1>8, <1>9, <1>10, <1>11, <1>12 DEF Next

\* A shutdown timeout that is not the tracker's any more kills the actor only if
\* it had woken before it was replaced: abort() stops every other one, and after
\* finalize_actor there is no tracker that would let one through.
THEOREM ReplacedWasAwake == Spec => ReplacedTimeoutWasAwake
<1>1. Init => TrackerInv
  BY DEF Init, TrackerInv
<1>2. TypeInv /\ AbsentInv /\ TrackerInv /\ [Next]_vars
        => [\A n \in Task :
              (key[n] = Stop /\ state[n] # "firing" /\ state'[n] = "firing"
                 /\ table[Stop] # n)
                => state[n] = "overtaken"]_vars
  <2> SUFFICES ASSUME TypeInv, AbsentInv, TrackerInv, [Next]_vars,
                      NEW n \in Task, key[n] = Stop, state[n] # "firing",
                      state'[n] = "firing", table[Stop] # n
               PROVE  state[n] = "overtaken"
    OBVIOUS
  <2>1. ~Quiet
    BY QuietTasks
  <2>2. PICK m \in Task : FireTake(m) \/ FireEnqueue(m) \/ FireKill(m)
    BY <2>1 DEF Quiet
  <2>3. m = n /\ FireTake(n) /\ MayFire(n)
    BY <2>2 DEF FireTake, FireEnqueue, FireKill, TypeInv, TasksOK
  <2>4. policy # "none"
    BY <2>3, KeyFacts DEF MayFire
  <2> QED
    BY <2>3, <2>4 DEF FireTake, AbsentInv, TrackerInv
<1> QED
  BY <1>1, <1>2, TypeInit, TypeInductive, SettledInit, AbsentInductive,
     TrackerInductive, PTL DEF Spec, ReplacedTimeoutWasAwake
=============================================================================
