-------------------------- MODULE BehavioursProofs --------------------------
(***************************************************************************)
(* Proofs about calls, timers and jobs of the local runtime for every set  *)
(* of tokens, references and jobs, every capacity, any number of sleeps    *)
(* and any behaviour of the server.                                        *)
(*                                                                         *)
(* An event of interest (a reply, a CallTimeout, a completion) goes        *)
(* through the caller's mailbox into what the caller has heard.  The       *)
(* lemmas TakeEffect, PushEffect and AcceptEffect say for every such event *)
(* where it is after a step; the invariants are about one call or one job. *)
(* A step makes one call move in one of a few ways (Moves), or ends all    *)
(* (Goes), and the ways are all that the refinement of Calls looks at.     *)
(***************************************************************************)
EXTENDS Behaviours, SequenceTheorems, FiniteSetTheorems,
        WellFoundedInduction, TLAPS

(* Queues: whether an entry is queued, and whether at most once.           *)

Has(q, e)  == \E i \in DOMAIN q : q[i] = e
Once(q, e) == \A i, j \in DOMAIN q : q[i] = e /\ q[j] = e => i = j

\* VecDeque::remove takes the entry away and moves the others up.
LEMMA RemoveFacts ==
  ASSUME NEW S, NEW q \in Seq(S), NEW i \in DOMAIN q, NEW e
  PROVE  /\ RemoveEntry(q, i) \in Seq(S)
         /\ Has(RemoveEntry(q, i), e) => Has(q, e)
         /\ Has(q, e) => Has(RemoveEntry(q, i), e) \/ q[i] = e
         /\ Once(q, e) => Once(RemoveEntry(q, i), e)
         /\ Once(q, e) /\ q[i] = e => ~Has(RemoveEntry(q, i), e)
<1> DEFINE r == RemoveEntry(q, i)
           src(j) == IF j < i THEN j ELSE j + 1
           dst(k) == IF k < i THEN k ELSE k - 1
<1>1. /\ Len(q) \in Nat /\ DOMAIN q = 1..Len(q)
      /\ \A k \in 1..Len(q) : q[k] \in S
  BY LenProperties, ElementOfSeq
<1>2. /\ Len(q) - 1 \in Nat
      /\ \A j \in 1..(Len(q) - 1) : src(j) \in 1..Len(q) /\ src(j) # i
      /\ \A j, k \in 1..(Len(q) - 1) : src(j) = src(k) => j = k
      /\ \A k \in 1..Len(q) :
           k # i => dst(k) \in 1..(Len(q) - 1) /\ src(dst(k)) = k
  BY <1>1
<1>3. /\ r \in [1..(Len(q) - 1) -> S]
      /\ DOMAIN r = 1..(Len(q) - 1)
      /\ \A j \in 1..(Len(q) - 1) : r[j] = q[src(j)]
  BY <1>1, <1>2 DEF RemoveEntry
<1>4. r \in Seq(S)
  BY <1>2, <1>3, IsASeq DEF RemoveEntry
<1> HIDE DEF r, src, dst
<1>5. Has(r, e) => Has(q, e)
  BY <1>1, <1>2, <1>3 DEF Has
<1>6. Has(q, e) => Has(r, e) \/ q[i] = e
  <2> SUFFICES ASSUME NEW k \in 1..Len(q), q[k] = e, k # i
               PROVE  Has(r, e)
    BY <1>1 DEF Has
  <2>1. dst(k) \in DOMAIN r /\ r[dst(k)] = e
    BY <1>2, <1>3
  <2> QED
    BY <2>1 DEF Has
<1>7. Once(q, e) => Once(r, e)
  BY <1>1, <1>2, <1>3 DEF Once
<1>8. Once(q, e) /\ q[i] = e => ~Has(r, e)
  BY <1>1, <1>2, <1>3 DEF Once, Has
<1> QED
  BY <1>4, <1>5, <1>6, <1>7, <1>8 DEF r

LEMMA AppendFacts ==
  ASSUME NEW S, NEW q \in Seq(S), NEW x \in S, NEW e
  PROVE  /\ Append(q, x) \in Seq(S)
         /\ Has(Append(q, x), e) <=> Has(q, e) \/ x = e
         /\ Once(q, e) /\ (x # e \/ ~Has(q, e)) => Once(Append(q, x), e)
<1>1. /\ Len(q) \in Nat /\ DOMAIN q = 1..Len(q)
      /\ Append(q, x) \in Seq(S)
      /\ DOMAIN Append(q, x) = 1..(Len(q) + 1)
      /\ \A k \in 1..Len(q) : Append(q, x)[k] = q[k]
      /\ Append(q, x)[Len(q) + 1] = x
  BY LenProperties, AppendProperties
<1>2. /\ \A k \in 1..(Len(q) + 1) : k \in 1..Len(q) \/ k = Len(q) + 1
      /\ \A k \in 1..Len(q) : k \in 1..(Len(q) + 1)
      /\ Len(q) + 1 \in 1..(Len(q) + 1)
  BY <1>1
<1> QED
  BY <1>1, <1>2 DEF Has, Once

\* VecDeque::pop_front is a removal.
LEMMA TailRemoves ==
  ASSUME NEW S, NEW q \in Seq(S), q # <<>>
  PROVE  /\ 1 \in DOMAIN q /\ Head(q) = q[1] /\ Tail(q) = RemoveEntry(q, 1)
<1>1. /\ Len(q) \in Nat /\ DOMAIN q = 1..Len(q) /\ Len(q) # 0
      /\ Head(q) = q[1] /\ Tail(q) \in Seq(S)
      /\ Len(Tail(q)) = Len(q) - 1
      /\ \A i \in 1..Len(Tail(q)) : Tail(q)[i] = q[i + 1]
  BY LenProperties, HeadTailProperties, EmptySeq
<1>2. /\ DOMAIN Tail(q) = 1..(Len(q) - 1)
      /\ Tail(q) = [j \in DOMAIN Tail(q) |-> Tail(q)[j]]
  BY <1>1, LenProperties
<1>3. \A j \in 1..(Len(q) - 1) : Tail(q)[j] = q[IF j < 1 THEN j ELSE j + 1]
  BY <1>1
<1>4. Tail(q) = RemoveEntry(q, 1)
  BY <1>2, <1>3 DEF RemoveEntry
<1> QED
  BY <1>1, <1>4

LEMMA EmptyFacts ==
  ASSUME NEW S, NEW e
  PROVE  <<>> \in Seq(S) /\ ~Has(<<>>, e) /\ Once(<<>>, e)
BY EmptySeq DEF Has, Once

LEMMA LeastOf ==
  ASSUME NEW T, T \subseteq Nat, T # {}
  PROVE  \E i \in T : \A j \in T : i <= j
<1>1. PICK x \in T : \A y \in T : ~(<<y, x>> \in OpToRel(<, Nat))
  BY NatLessThanWellFounded, WFMin, Zenon
<1>2. \A y \in T : ~(y < x)
  BY <1>1, Zenon DEF OpToRel
<1> QED
  BY <1>2

\* A search from the front finds an entry, if there is one to find.
LEMMA FirstMatchFound ==
  ASSUME NEW T, T \subseteq Nat, T # {}
  PROVE  \E i \in T : FirstMatch(T, i)
BY LeastOf DEF FirstMatch

\* receive_next of an actor with mail takes an entry of its mailbox.
LEMMA TakesNextFound ==
  ASSUME NEW S, NEW q \in Seq(S), q # <<>>
  PROVE  \E i \in DOMAIN q : TakesNext(q, FALSE, i)
<1>1. DOMAIN q = 1..Len(q) /\ Len(q) \in Nat /\ Len(q) # 0
  BY LenProperties, EmptySeq
<1>2. CASE SystemMessages(q) = {}
  BY <1>1, <1>2 DEF TakesNext, AnyMatching
<1>3. CASE SystemMessages(q) # {}
  <2>1. SystemMessages(q) \subseteq DOMAIN q /\ SystemMessages(q) \subseteq Nat
    BY <1>1 DEF SystemMessages
  <2>2. PICK i \in SystemMessages(q) : FirstMatch(SystemMessages(q), i)
    BY <1>3, <2>1, FirstMatchFound
  <2> QED
    BY <2>1, <2>2 DEF TakesNext
<1> QED
  BY <1>2, <1>3

\* How often an entry is queued, as the properties count it.
LEMMA CountFacts ==
  ASSUME NEW q, NEW e, Once(q, e)
  PROVE  Cardinality({i \in DOMAIN q : q[i] = e}) = IF Has(q, e) THEN 1 ELSE 0
<1> DEFINE at == {i \in DOMAIN q : q[i] = e}
<1>1. CASE ~Has(q, e)
  <2>1. at = {}
    BY <1>1 DEF Has
  <2> QED
    BY <1>1, <2>1, FS_EmptySet
<1>2. CASE Has(q, e)
  <2>1. PICK i \in DOMAIN q : q[i] = e
    BY <1>2 DEF Has
  <2>2. at = {i}
    BY <2>1 DEF Once
  <2> QED
    BY <1>2, <2>2, FS_Singleton
<1> QED
  BY <1>1, <1>2
-----------------------------------------------------------------------------
(* Types.                                                                  *)

\* What the actor remembers of what it has received.
Notice ==
  {Answer(r, n) : r \in Ref, n \in Nat}
    \cup {Env("CallTimeout", r) : r \in Ref} \cup {Env("Task", j) : j \in Job}

\* Driver events.
Event ==
  {Env("Timer", t) : t \in Token} \cup {Env("CallTimeout", r) : r \in Ref}
    \cup {Env("Task", j) : j \in Job}

Mail ==
  Notice \cup Event \cup {Env("User", "host"), Env("System", "host")}

AnyKey     == CHOOSE k \in Key : TRUE
TaskState  == {"unborn", "sleeping", "sent", "aborted"}
InboxItem  == [kind : {"Request"}, ref : Ref]
                \cup [kind : {"User", "Exit", "System"}, ref : {"host"}]

ServerRecord ==
  [behaviour : Behaviour, live : BOOLEAN, up : BOOLEAN, phase : Phase,
   inbox : Seq(InboxItem), held : SUBSET Ref, busy : BOOLEAN,
   terminated : Nat]

DriverOK ==
  /\ present \in BOOLEAN /\ turn \in {"none", "own", "other"}
  /\ table \in [Key -> Task \cup {Free}]
  /\ state \in [Task -> TaskState]
  /\ key \in [Task -> Key \cup {AnyKey}]
  /\ \A n \in Task : state[n] = "sleeping" => key[n] \in Key
  /\ job \in [Job -> {"none", "working", "done", "panicked"}]
  /\ wait \in {NoWait} \cup [kind : {"wait"}, token : Token]

QueuesOK ==
  /\ mailbox \in Seq(Mail) /\ events \in Seq(Event) /\ heard \in Seq(Notice)

Request(r) == Item("Request", r)
Queued(r)  == Has(server.inbox, Request(r))

ServerOK ==
  /\ server \in ServerRecord
  /\ asked \in [Ref -> {"no", "open", "timed"}]
  /\ replies \in [Ref -> [given : Nat, accepted : SUBSET Nat]]
  /\ \A r \in Ref : Queued(r) => asked[r] # "no"

\* Who has a turn has something to run with; an actor that is gone left
\* neither mail nor handles.
LifeOK ==
  /\ turn = "own" => present
  /\ ~present => mailbox = <<>> /\ \A k \in Key : table[k] = Free
  /\ turn = "other" /\ server.up => server.inbox # <<>>

TypeInv == DriverOK /\ QueuesOK /\ ServerOK /\ LifeOK

LEMMA TypeInit == Init => TypeInv
<1> SUFFICES ASSUME Init PROVE TypeInv
  OBVIOUS
<1>1. DriverOK
  BY DEF Init, InitWaits, DriverOK, TaskState, AnyKey
<1>2. QueuesOK
  BY EmptySeq DEF Init, InitWaits, QueuesOK
<1>3. ServerOK
  <2>1. <<>> \in Seq(InboxItem)
    BY EmptySeq
  <2> QED
    BY <2>1, BehaviourAssumption, EmptyFacts
       DEF Init, ServerOK, ServerRecord, Queued
<1>4. LifeOK
  BY DEF Init, InitWaits, LifeOK
<1> QED
  BY <1>1, <1>2, <1>3, <1>4 DEF TypeInv

\* An envelope says what it is.
LEMMA Kinds ==
  ASSUME NEW e \in Mail
  PROVE  /\ e.kind = "Reply" =>
              e.ref \in Ref /\ e.nth \in Nat /\ e = Answer(e.ref, e.nth)
         /\ e.kind = "CallTimeout" =>
              e.ref \in Ref /\ e = Env("CallTimeout", e.ref)
         /\ e.kind = "Task" => e.ref \in Job /\ e = Env("Task", e.ref)
         /\ e.kind = "Timer" => e.ref \in Token /\ e = Env("Timer", e.ref)
         /\ e \in Notice <=> e.kind \in {"Reply", "CallTimeout", "Task"}
         /\ e \in Event =>
              e.kind \in {"Timer", "CallTimeout", "Task"}
         /\ e.kind = "System" => e = Env("System", "host")
BY DEF Mail, Notice, Event, Env, Answer

LEMMA Subkinds == Notice \subseteq Mail /\ Event \subseteq Mail
BY DEF Mail

LEMMA EnvelopesIn ==
  /\ \A r \in Ref, n \in Nat : Answer(r, n) \in Notice
  /\ \A r \in Ref : /\ Env("CallTimeout", r) \in Notice
                    /\ Env("CallTimeout", r) \in Event
  /\ \A j \in Job : Env("Task", j) \in Notice /\ Env("Task", j) \in Event
  /\ \A t \in Token : Env("Timer", t) \in Event
  /\ Env("User", "host") \in Mail /\ Env("System", "host") \in Mail
BY DEF Notice, Event, Mail

\* Envelopes of different kinds, or about different things, differ.
LEMMA EnvelopesDiffer ==
  ASSUME NEW a, NEW b, NEW x, NEW y, Env(a, x) = Env(b, y)
  PROVE  a = b /\ x = y
<1>1. Env(a, x).kind = Env(b, y).kind /\ Env(a, x).ref = Env(b, y).ref
  OBVIOUS
<1> QED
  BY <1>1 DEF Env

LEMMA AnswersDiffer ==
  /\ \A r, n : Answer(r, n).kind = "Reply" /\ Answer(r, n).ref = r
  /\ \A r, n, s, m : Answer(r, n) = Answer(s, m) => r = s /\ n = m
  /\ \A r, n, k, x : k # "Reply" => Answer(r, n) # Env(k, x)
<1>1. \A r, n : /\ Answer(r, n).kind = "Reply" /\ Answer(r, n).ref = r
               /\ Answer(r, n).nth = n
  BY DEF Answer
<1>2. \A k, x : Env(k, x).kind = k
  BY DEF Env
<1> QED
  BY <1>1, <1>2

LEMMA KeyKinds ==
  /\ \A t \in Token : KindOf(t) = "Timer"
  /\ \A r \in Ref : KindOf(r) = "CallTimeout" /\ r \notin Token
  /\ Key = Token \cup Ref
  /\ \A k \in Key : Env(KindOf(k), k) \in Event
BY WaitAssumption, EnvelopesIn DEF KindOf, Key

-----------------------------------------------------------------------------
(* What a step does to the handles.                                        *)

HandlesOK ==
  /\ table \in [Key -> Task \cup {Free}]
  /\ state \in [Task -> TaskState]
  /\ key \in [Task -> Key \cup {AnyKey}]
  /\ \A n \in Task : state[n] = "sleeping" => key[n] \in Key

LEMMA AbortedType ==
  ASSUME HandlesOK, NEW k \in Key
  PROVE  /\ Aborted(k) \in [Task -> TaskState]
         /\ \A n \in Task : Aborted(k)[n] = "sleeping" => key[n] \in Key
BY DEF HandlesOK, Aborted, TaskState

LEMMA CancelType ==
  ASSUME HandlesOK, NEW k \in Key, table' = [table EXCEPT ![k] = Free],
         state' = Aborted(k), key' = key
  PROVE  HandlesOK'
<1>1. table' \in [Key -> Task \cup {Free}]
  BY DEF HandlesOK
<1> QED
  BY <1>1, AbortedType DEF HandlesOK

LEMMA SpawnEffect ==
  ASSUME HandlesOK, NEW k \in Key, NEW before,
         before \in [Task -> TaskState],
         \A n \in Task : before[n] = "sleeping" => key[n] \in Key,
         Spawn(k, before)
  PROVE  /\ HandlesOK'
         /\ \E n \in Task : table' = [table EXCEPT ![k] = n]
         /\ table'[k] # Free
         /\ \A h \in Key : h # k => table'[h] = table[h]
<1>1. PICK n \in Task : /\ state' = [before EXCEPT ![n] = "sleeping"]
                        /\ key' = [key EXCEPT ![n] = k]
                        /\ table' = [table EXCEPT ![k] = n]
  BY DEF Spawn
<1>2. n # Free
  BY WaitAssumption DEF Task, Free
<1>3. /\ state' \in [Task -> TaskState]
      /\ \A m \in Task : state'[m] = "sleeping" => key'[m] \in Key
  BY <1>1 DEF HandlesOK, TaskState
<1>4. key' \in [Task -> Key \cup {AnyKey}]
  BY <1>1 DEF HandlesOK
<1>5. /\ table' \in [Key -> Task \cup {Free}] /\ table'[k] = n
      /\ \A h \in Key : h # k => table'[h] = table[h]
  BY <1>1 DEF HandlesOK
<1> QED
  BY <1>1, <1>2, <1>3, <1>4, <1>5 DEF HandlesOK

LEMMA AllAbortedType ==
  ASSUME HandlesOK
  PROVE  /\ AllAborted \in [Task -> TaskState]
         /\ \A n \in Task : AllAborted[n] = "sleeping" => key[n] \in Key
<1>1. /\ TimersAborted(state) \in [Task -> TaskState]
      /\ \A n \in Task : TimersAborted(state)[n] = "sleeping" => key[n] \in Key
  BY DEF TimersAborted, HandlesOK, TaskState
<1> HIDE DEF TimersAborted
<1> QED
  BY <1>1 DEF AllAborted, CallTimeoutsAborted, TaskState

LEMMA LeaveEffect ==
  ASSUME HandlesOK, Leave, key' = key
  PROVE  /\ HandlesOK' /\ ~present' /\ turn' = "none" /\ wait' = NoWait
         /\ mailbox' = <<>> /\ \A k \in Key : table'[k] = Free
BY AllAbortedType DEF Leave, HandlesOK
-----------------------------------------------------------------------------
(* What a step does to the mailbox and to what has been heard.             *)

NoticeOnce(e) ==
  /\ Once(mailbox, e) /\ Once(heard, e)
  /\ ~(Has(mailbox, e) /\ Has(heard, e))

NoticeInv == \A e \in Notice : NoticeOnce(e)

\* e is where it was.
Stays(e) ==
  /\ Has(mailbox', e) <=> Has(mailbox, e)
  /\ Has(heard', e) <=> Has(heard, e)

\* A receive: the envelope taken goes from the mailbox to what is heard.
LEMMA TakeEffect ==
  ASSUME TypeInv, NoticeInv, NEW i \in DOMAIN mailbox,
         mailbox' = RemoveEntry(mailbox, i), heard' = Recorded(mailbox[i])
  PROVE  LET x == mailbox[i]
         IN  /\ x \in Mail /\ mailbox' \in Seq(Mail) /\ heard' \in Seq(Notice)
             /\ NoticeInv'
             /\ \A e \in Notice : e # x => Stays(e)
             /\ x \in Notice => /\ Has(mailbox, x) /\ ~Has(heard, x)
                                /\ ~Has(mailbox', x) /\ Has(heard', x)
             /\ \A e : Has(mailbox, e) => Has(mailbox', e) \/ e = x
<1> DEFINE x == mailbox[i]
<1>1. /\ mailbox \in Seq(Mail) /\ heard \in Seq(Notice)
      /\ x \in Mail /\ Has(mailbox, x)
  BY ElementOfSeq DEF TypeInv, QueuesOK, Has
<1>2. heard' = IF x \in Notice THEN Append(heard, x) ELSE heard
  BY <1>1, Kinds DEF Recorded
<1>3. /\ mailbox' \in Seq(Mail)
      /\ \A e : /\ Has(mailbox', e) => Has(mailbox, e)
                /\ Has(mailbox, e) => Has(mailbox', e) \/ x = e
                /\ Once(mailbox, e) => Once(mailbox', e)
                /\ Once(mailbox, e) /\ x = e => ~Has(mailbox', e)
  BY <1>1, RemoveFacts
<1>4. CASE x \in Notice
  <2>1. /\ heard' \in Seq(Notice)
        /\ \A e : /\ Has(heard', e) <=> Has(heard, e) \/ x = e
                  /\ Once(heard, e) /\ (x # e \/ ~Has(heard, e))
                       => Once(heard', e)
    BY <1>1, <1>2, <1>4, AppendFacts
  <2>2. Once(mailbox, x) /\ ~Has(heard, x)
    BY <1>1, <1>4 DEF NoticeInv, NoticeOnce
  <2>3. \A e \in Notice : e # x => Stays(e)
    BY <1>3, <2>1 DEF Stays
  <2>4. NoticeInv'
    BY <1>3, <2>1, <2>2 DEF NoticeInv, NoticeOnce
  <2> QED
    BY <1>1, <1>3, <2>1, <2>2, <2>3, <2>4
<1>5. CASE x \notin Notice
  <2>1. heard' = heard
    BY <1>2, <1>5
  <2>2. \A e \in Notice : Stays(e) /\ e # x
    BY <1>3, <1>5, <2>1 DEF Stays
  <2>3. NoticeInv'
    BY <1>3, <2>1 DEF NoticeInv, NoticeOnce
  <2> QED
    BY <1>1, <1>3, <1>5, <2>1, <2>2, <2>3
<1> QED
  BY <1>4, <1>5

\* A push of something that is not there yet.
LEMMA PushEffect ==
  ASSUME TypeInv, NoticeInv, NEW x \in Mail,
         mailbox' = Append(mailbox, x), heard' = heard,
         x \in Notice => ~Has(mailbox, x) /\ ~Has(heard, x)
  PROVE  /\ mailbox' \in Seq(Mail) /\ NoticeInv'
         /\ \A e \in Notice : e # x => Stays(e)
         /\ \A e : Has(mailbox', e) <=> Has(mailbox, e) \/ x = e
<1>1. mailbox \in Seq(Mail)
  BY DEF TypeInv, QueuesOK
<1>2. /\ mailbox' \in Seq(Mail)
      /\ \A e : /\ Has(mailbox', e) <=> Has(mailbox, e) \/ x = e
                /\ Once(mailbox, e) /\ (x # e \/ ~Has(mailbox, e))
                     => Once(mailbox', e)
  BY <1>1, AppendFacts
<1>3. NoticeInv'
  BY <1>2 DEF NoticeInv, NoticeOnce
<1> QED
  BY <1>2, <1>3 DEF Stays

\* A mailbox that goes takes its envelopes with it.
LEMMA ClearEffect ==
  ASSUME NoticeInv, mailbox' = <<>>, heard' = heard
  PROVE  /\ mailbox' \in Seq(Mail) /\ NoticeInv' /\ \A e : ~Has(mailbox', e)
<1>1. \A e : ~Has(mailbox', e) /\ Once(mailbox', e)
  BY EmptyFacts
<1> QED
  BY <1>1, EmptySeq DEF NoticeInv, NoticeOnce

\* cancel_call_timeout withdraws the one CallTimeout there can be.
LEMMA WithdrawnFacts ==
  ASSUME TypeInv, NoticeInv, NEW r \in Ref
  PROVE  /\ Withdrawn(r) \in Seq(Mail)
         /\ ~Has(Withdrawn(r), Env("CallTimeout", r))
         /\ \A e : e # Env("CallTimeout", r) =>
                     (Has(Withdrawn(r), e) <=> Has(mailbox, e))
         /\ \A e : Once(mailbox, e) => Once(Withdrawn(r), e)
<1> DEFINE x      == Env("CallTimeout", r)
           queued == {i \in DOMAIN mailbox : mailbox[i] = x}
<1>1. /\ mailbox \in Seq(Mail) /\ KindOf(r) = "CallTimeout"
      /\ DOMAIN mailbox \subseteq Nat /\ Once(mailbox, x)
  <2>1. mailbox \in Seq(Mail) /\ Once(mailbox, x)
    BY EnvelopesIn DEF TypeInv, QueuesOK, NoticeInv, NoticeOnce
  <2> QED
    BY <2>1, KeyKinds, LenProperties
<1>2. Withdrawn(r) = IF queued = {} THEN mailbox
        ELSE RemoveEntry(mailbox, CHOOSE i \in queued : FirstMatch(queued, i))
  BY <1>1 DEF Withdrawn, AnyMatching
<1>3. CASE queued = {}
  BY <1>1, <1>2, <1>3 DEF Has
<1>4. CASE queued # {}
  <2>1. PICK i \in queued : Withdrawn(r) = RemoveEntry(mailbox, i)
    <3>1. queued \subseteq Nat
      BY <1>1
    <3>2. \E i \in queued : FirstMatch(queued, i)
      BY <1>4, <3>1, FirstMatchFound
    <3>3. (CHOOSE i \in queued : FirstMatch(queued, i)) \in queued
      BY <3>2
    <3> QED
      BY <1>2, <1>4, <3>3
  <2>2. i \in DOMAIN mailbox /\ mailbox[i] = x
    OBVIOUS
  <2>3. \A e : /\ RemoveEntry(mailbox, i) \in Seq(Mail)
               /\ Has(RemoveEntry(mailbox, i), e) => Has(mailbox, e)
               /\ Has(mailbox, e) =>
                    Has(RemoveEntry(mailbox, i), e) \/ mailbox[i] = e
               /\ Once(mailbox, e) => Once(RemoveEntry(mailbox, i), e)
               /\ Once(mailbox, e) /\ mailbox[i] = e =>
                    ~Has(RemoveEntry(mailbox, i), e)
    BY <1>1, <2>2, RemoveFacts
  <2> QED
    BY <1>1, <2>1, <2>2, <2>3
<1> QED
  BY <1>3, <1>4

\* A reply settles its call: no timeout of it is queued or armed.
LEMMA AcceptEffect ==
  ASSUME TypeInv, NoticeInv, NEW r \in Ref, NEW n \in Nat, AcceptReply(r, n),
         ~Has(mailbox, Answer(r, n)), ~Has(heard, Answer(r, n))
  PROVE  /\ mailbox' \in Seq(Mail) /\ NoticeInv' /\ HandlesOK'
         /\ heard' = heard
         /\ UNCHANGED <<present, key, events, job, wait, mail, robbed>>
         /\ ~Has(mailbox', Env("CallTimeout", r))
         /\ \A e \in Notice : e \notin {Answer(r, n), Env("CallTimeout", r)}
                                => Stays(e)
         /\ \A e : e # Env("CallTimeout", r) /\ Has(mailbox, e)
                     => Has(mailbox', e)
         /\ Has(mailbox', Answer(r, n)) <=> ~RefusesReply(r)
         /\ table'[r] = Free
         /\ \A k \in Key : k # r => table'[k] = table[k]
<1> DEFINE after == Withdrawn(r)
           x     == Answer(r, n)
<1>1. /\ table' = [table EXCEPT ![r] = Free] /\ state' = Aborted(r)
      /\ mailbox' = IF RefusesReply(r) THEN after ELSE Append(after, x)
      /\ heard' = heard
      /\ UNCHANGED <<present, key, events, job, wait, mail, robbed>>
  BY DEF AcceptReply
<1>2. HandlesOK /\ r \in Key
  BY DEF TypeInv, DriverOK, HandlesOK, Key
<1>3. HandlesOK'
  BY <1>1, <1>2, CancelType
<1>4. table'[r] = Free /\ \A k \in Key : k # r => table'[k] = table[k]
  BY <1>1, <1>2 DEF HandlesOK
<1>5. /\ after \in Seq(Mail)
      /\ ~Has(after, Env("CallTimeout", r))
      /\ \A e : e # Env("CallTimeout", r) => (Has(after, e) <=> Has(mailbox, e))
      /\ \A e : Once(mailbox, e) => Once(after, e)
  BY WithdrawnFacts
<1>6. x \in Notice /\ x \in Mail /\ x # Env("CallTimeout", r)
  BY EnvelopesIn, Subkinds, AnswersDiffer
<1>7. /\ Append(after, x) \in Seq(Mail)
      /\ \A e : /\ Has(Append(after, x), e) <=> Has(after, e) \/ x = e
                /\ Once(after, e) /\ (x # e \/ ~Has(after, e))
                     => Once(Append(after, x), e)
  BY <1>5, <1>6, AppendFacts
<1> HIDE DEF after, x
<1>8. ~Has(after, x)
  BY <1>5, <1>6 DEF x
<1>9. /\ mailbox' \in Seq(Mail)
      /\ ~Has(mailbox', Env("CallTimeout", r))
      /\ \A e : e # Env("CallTimeout", r) /\ e # x =>
                  (Has(mailbox', e) <=> Has(mailbox, e))
      /\ \A e : e # Env("CallTimeout", r) /\ Has(mailbox, e)
                  => Has(mailbox', e)
      /\ Has(mailbox', x) <=> ~RefusesReply(r)
  <2>1. CASE RefusesReply(r)
    BY <1>1, <1>5, <1>6, <1>8, <2>1
  <2>2. CASE ~RefusesReply(r)
    BY <1>1, <1>5, <1>6, <1>7, <2>2
  <2> QED
    BY <2>1, <2>2
<1>10. \A e : Once(mailbox, e) => Once(mailbox', e)
  BY <1>1, <1>5, <1>7, <1>8
<1>11. NoticeInv'
  <2> SUFFICES ASSUME NEW e \in Notice PROVE NoticeOnce(e)'
    BY DEF NoticeInv
  <2>1. NoticeOnce(e)
    BY DEF NoticeInv
  <2>2. e = x => ~Has(heard, e)
    BY DEF x
  <2> QED
    BY <1>1, <1>9, <1>10, <2>1, <2>2 DEF NoticeOnce
<1>12. \A e \in Notice : e \notin {x, Env("CallTimeout", r)} => Stays(e)
  BY <1>1, <1>9 DEF Stays
<1> QED
  BY <1>1, <1>3, <1>4, <1>9, <1>11, <1>12 DEF x
-----------------------------------------------------------------------------
(* One call: where its answers and its timeout are.                        *)

Armed(r)        == table[r] # Free
TimeoutQueued(r) == Has(mailbox, Env("CallTimeout", r))
TimeoutHeard(r)  == Has(heard, Env("CallTimeout", r))
Given(r)         == replies[r].given
Accepted(r)      == replies[r].accepted

\* The answers and the timeout of a call.  Nothing is heard of a call that was
\* not made, and no timeout of one without a deadline; a timeout is armed,
\* queued or heard of; the first answer given leaves none to come; the answers
\* on their way or received are among those given, and those accepted are on
\* their way or received.
CallInv(r) ==
  /\ asked[r] = "no" => Given(r) = 0
  /\ asked[r] # "timed" =>
       ~Armed(r) /\ ~TimeoutQueued(r) /\ ~TimeoutHeard(r)
  /\ Armed(r) => ~TimeoutQueued(r) /\ ~TimeoutHeard(r)
  /\ Given(r) > 0 => ~Armed(r) /\ ~TimeoutQueued(r)
  /\ \A n \in Nat : Has(mailbox, Answer(r, n)) \/ Has(heard, Answer(r, n))
                     => n \in 1..Given(r)
  /\ Accepted(r) \subseteq 1..Given(r)
  /\ present => \A n \in Accepted(r) :
                  Has(mailbox, Answer(r, n)) \/ Has(heard, Answer(r, n))

\* The caller has what it had of the answers, and of the timeout.
KeepsAnswers(r) == \A n \in Nat : Stays(Answer(r, n))

KeepsTimeout(r) ==
  /\ Armed(r)' <=> Armed(r)
  /\ TimeoutQueued(r)' <=> TimeoutQueued(r)
  /\ TimeoutHeard(r)' <=> TimeoutHeard(r)

SameAsked(r)  == present' = present /\ asked'[r] = asked[r]
SameCaller(r) == SameAsked(r) /\ replies'[r] = replies[r]

Unmoved(r) == SameCaller(r) /\ KeepsAnswers(r) /\ KeepsTimeout(r)

\* ask, with or without a timeout.
Asks(r) ==
  /\ asked[r] = "no" /\ present' = present /\ replies'[r] = replies[r]
  /\ KeepsAnswers(r)
  /\ TimeoutQueued(r)' <=> TimeoutQueued(r)
  /\ TimeoutHeard(r)' <=> TimeoutHeard(r)
  /\ \/ asked'[r] = "timed"
     \/ asked'[r] = "open" /\ (Armed(r)' <=> Armed(r))

\* One more reply, refused or not.
Replies(r) ==
  /\ SameAsked(r) /\ asked[r] # "no"
  /\ Given(r)' = Given(r) + 1
  /\ \A n \in Nat : Has(heard', Answer(r, n)) <=> Has(heard, Answer(r, n))
  /\ \A n \in Nat \ {Given(r) + 1} :
       Has(mailbox', Answer(r, n)) <=> Has(mailbox, Answer(r, n))
  /\ \/ Accepted(r)' = Accepted(r) /\ ~Has(mailbox', Answer(r, Given(r) + 1))
     \/ /\ Accepted(r)' = Accepted(r) \cup {Given(r) + 1}
        /\ Has(mailbox', Answer(r, Given(r) + 1))
  /\ ~Armed(r)' /\ ~TimeoutQueued(r)'
  /\ TimeoutHeard(r)' <=> TimeoutHeard(r)

TakesReply(r) ==
  /\ SameCaller(r) /\ KeepsTimeout(r)
  /\ \E n \in Nat : /\ Has(mailbox, Answer(r, n)) /\ Has(heard', Answer(r, n))
                    /\ ~Has(mailbox', Answer(r, n))
                    /\ \A m \in Nat \ {n} : Stays(Answer(r, m))

TakesTimeout(r) ==
  /\ SameCaller(r) /\ KeepsAnswers(r)
  /\ Armed(r)' <=> Armed(r)
  /\ TimeoutQueued(r) /\ ~TimeoutQueued(r)' /\ TimeoutHeard(r)'

\* The timeout's event is taken in.
Fires(r) ==
  /\ SameCaller(r) /\ KeepsAnswers(r)
  /\ Armed(r) /\ ~Armed(r)' /\ TimeoutQueued(r)'
  /\ TimeoutHeard(r)' <=> TimeoutHeard(r)

\* The caller is gone.
Goes(r) ==
  /\ ~present' /\ asked'[r] = asked[r] /\ replies'[r] = replies[r]
  /\ ~Armed(r)' /\ ~TimeoutQueued(r)'
  /\ TimeoutHeard(r)' <=> TimeoutHeard(r)
  /\ \A n \in Nat : /\ ~Has(mailbox', Answer(r, n))
                    /\ Has(heard', Answer(r, n)) <=> Has(heard, Answer(r, n))

Moves(r) ==
  Asks(r) \/ Replies(r) \/ TakesReply(r) \/ TakesTimeout(r) \/ Fires(r)

\* What a step does to all calls.
CallStep ==
  \/ \A r \in Ref : Goes(r)
  \/ \A r \in Ref : Unmoved(r)
  \/ \E r \in Ref : Moves(r) /\ \A s \in Ref \ {r} : Unmoved(s)

LEMMA MotionKeeps ==
  ASSUME NEW r \in Ref, CallInv(r), asked[r] \in {"no", "open", "timed"},
         Given(r) \in Nat, Accepted(r) \subseteq Nat,
         Goes(r) \/ Unmoved(r) \/ Moves(r)
  PROVE  CallInv(r)'
<1>1. CASE Goes(r)
  BY <1>1 DEF CallInv, Goes, Given, Accepted
<1>2. CASE Unmoved(r)
  BY <1>2 DEF CallInv, Unmoved, SameCaller, SameAsked, KeepsAnswers,
              KeepsTimeout, Stays, Given, Accepted
<1>3. CASE Asks(r)
  BY <1>3 DEF CallInv, Asks, KeepsAnswers, Stays, Given, Accepted
<1>4. CASE Replies(r)
  <2> DEFINE g == Given(r)
  <2>1. g \in Nat /\ Given(r)' = g + 1 /\ g + 1 \in 1..(g + 1)
        /\ 1..g \subseteq 1..(g + 1) /\ g + 1 > 0
    BY <1>4 DEF Replies
  <2>2. \A n \in Nat : Has(mailbox', Answer(r, n)) \/ Has(heard', Answer(r, n))
                        => n \in 1..(g + 1)
    BY <1>4, <2>1 DEF CallInv, Replies
  <2>3. Accepted(r)' \subseteq 1..(g + 1)
    BY <1>4, <2>1 DEF CallInv, Replies
  <2>4. present' => \A n \in Accepted(r)' :
          Has(mailbox', Answer(r, n)) \/ Has(heard', Answer(r, n))
    BY <1>4, <2>1 DEF CallInv, Replies, SameAsked
  <2> QED
    BY <1>4, <2>1, <2>2, <2>3, <2>4 DEF CallInv, Replies, SameAsked
<1>5. CASE TakesReply(r)
  BY <1>5 DEF CallInv, TakesReply, SameCaller, SameAsked, KeepsTimeout, Stays,
              Given, Accepted
<1>6. CASE TakesTimeout(r)
  BY <1>6 DEF CallInv, TakesTimeout, SameCaller, SameAsked, KeepsAnswers,
              Stays, Given, Accepted
<1>7. CASE Fires(r)
  BY <1>7 DEF CallInv, Fires, SameCaller, SameAsked, KeepsAnswers, Stays,
              Given, Accepted
<1> QED
  BY <1>1, <1>2, <1>3, <1>4, <1>5, <1>6, <1>7 DEF Moves

LEMMA CallStepKeeps ==
  ASSUME TypeInv, \A r \in Ref : CallInv(r), CallStep
  PROVE  \A r \in Ref : CallInv(r)'
<1>1. \A r \in Ref : /\ asked[r] \in {"no", "open", "timed"}
                     /\ Given(r) \in Nat /\ Accepted(r) \subseteq Nat
  BY DEF TypeInv, ServerOK, Given, Accepted
<1>2. \A r \in Ref : Goes(r) \/ Unmoved(r) \/ Moves(r)
  BY DEF CallStep
<1> QED
  BY <1>1, <1>2, MotionKeeps
-----------------------------------------------------------------------------
(* The call as module Calls sees it.                                       *)

Answered(r) == \E n \in Nat : Has(heard, Answer(r, n))
OnItsWay(r) == \E n \in Nat : Has(mailbox, Answer(r, n))

Seen(r) ==
  IF ~present THEN "gone"
  ELSE IF asked[r] = "no" THEN "idle"
  ELSE IF TimeoutHeard(r) THEN IF Answered(r) THEN "late" ELSE "expired"
  ELSE IF Answered(r) THEN "answered"
  ELSE IF OnItsWay(r) THEN "replied"
  ELSE IF Given(r) > 0 THEN "lost"
  ELSE asked[r]

\* A reply to r is one of its answers.
LEMMA HasReplyIs ==
  ASSUME NEW S, S \subseteq Mail, NEW q \in Seq(S), NEW r \in Ref
  PROVE  HasReply(q, r) <=> \E n \in Nat : Has(q, Answer(r, n))
<1>1. ASSUME NEW i \in DOMAIN q, q[i].kind = "Reply", q[i].ref = r
      PROVE  \E n \in Nat : Has(q, Answer(r, n))
  <2>1. q[i] \in Mail
    BY ElementOfSeq
  <2>2. q[i].nth \in Nat /\ q[i] = Answer(r, q[i].nth)
    BY <1>1, <2>1, Kinds
  <2> QED
    BY <2>2 DEF Has
<1>2. ASSUME NEW n \in Nat, Has(q, Answer(r, n)) PROVE HasReply(q, r)
  BY <1>2, AnswersDiffer DEF Has, HasReply
<1> QED
  BY <1>1, <1>2 DEF HasReply

LEMMA SeenIs == TypeInv => CallSeen = [r \in Ref |-> Seen(r)]
<1> SUFFICES ASSUME TypeInv PROVE CallSeen = [r \in Ref |-> Seen(r)]
  OBVIOUS
<1>1. \A r \in Ref : /\ HasReply(heard, r) <=> Answered(r)
                     /\ HasReply(mailbox, r) <=> OnItsWay(r)
  <2>1. mailbox \in Seq(Mail) /\ heard \in Seq(Notice)
    BY DEF TypeInv, QueuesOK
  <2> QED
    BY <2>1, HasReplyIs, Subkinds DEF Answered, OnItsWay
<1>2. \A r \in Ref : Got(Env("CallTimeout", r)) <=> TimeoutHeard(r)
  BY DEF Got, TimeoutHeard, Has
<1>3. \A r \in Ref :
        Seen(r) = IF ~present THEN "gone"
                  ELSE IF asked[r] = "no" THEN "idle"
                  ELSE IF Got(Env("CallTimeout", r))
                  THEN IF HasReply(heard, r) THEN "late" ELSE "expired"
                  ELSE IF HasReply(heard, r) THEN "answered"
                  ELSE IF HasReply(mailbox, r) THEN "replied"
                  ELSE IF replies[r].given > 0 THEN "lost"
                  ELSE asked[r]
  BY <1>1, <1>2 DEF Seen, Given
<1> QED
  BY <1>3 DEF CallSeen

\* The steps that Calls allows for call r, whose state becomes s.
Allowed(r, s) ==
  \/ Seen(r) = "idle" /\ s \in {"open", "timed"}
  \/ Seen(r) \in {"open", "timed"} /\ s \in {"replied", "lost"}
  \/ Seen(r) = "lost" /\ s = "replied"
  \/ Seen(r) = "replied" /\ s = "answered"
  \/ Seen(r) = "timed" /\ s = "expired"
  \/ Seen(r) = "expired" /\ s = "late"

LEMMA UnmovedSeen ==
  ASSUME NEW r \in Ref, Unmoved(r)
  PROVE  Seen(r)' = Seen(r)
<1>1. (Answered(r)' <=> Answered(r)) /\ (OnItsWay(r)' <=> OnItsWay(r))
  BY DEF Unmoved, KeepsAnswers, Stays, Answered, OnItsWay
<1> QED
  BY <1>1
     DEF Unmoved, SameCaller, SameAsked, KeepsTimeout, Seen, Given

LEMMA MovesSeen ==
  ASSUME NEW r \in Ref, CallInv(r), asked[r] \in {"no", "open", "timed"},
         Given(r) \in Nat, Moves(r), present
  PROVE  Seen(r)' = Seen(r) \/ Allowed(r, Seen(r)')
<1>1. Answered(r) \/ OnItsWay(r) => Given(r) > 0
  BY DEF CallInv, Answered, OnItsWay
<1>2. CASE Asks(r)
  <2>1. (Answered(r)' <=> Answered(r)) /\ (OnItsWay(r)' <=> OnItsWay(r))
    BY <1>2 DEF Asks, KeepsAnswers, Stays, Answered, OnItsWay
  <2> QED
    BY <1>1, <1>2, <2>1 DEF CallInv, Asks, Seen, Given, Allowed
<1>3. CASE Replies(r)
  <2>1. /\ Answered(r)' <=> Answered(r)
        /\ OnItsWay(r) => OnItsWay(r)'
    <3>1. ~Has(mailbox, Answer(r, Given(r) + 1))
      BY DEF CallInv
    <3> QED
      BY <1>3, <3>1 DEF Replies, Answered, OnItsWay
  <2>2. Given(r)' > 0 /\ present' /\ asked'[r] = asked[r] /\ asked[r] # "no"
        /\ (TimeoutHeard(r)' <=> TimeoutHeard(r))
    BY <1>3 DEF Replies, SameAsked
  <2> QED
    BY <1>1, <2>1, <2>2 DEF Seen, Allowed
<1>4. CASE TakesReply(r)
  <2>1. Answered(r)' /\ OnItsWay(r)
    BY <1>4 DEF TakesReply, Answered, OnItsWay
  <2>2. /\ present' /\ asked'[r] = asked[r] /\ asked[r] # "no"
        /\ TimeoutHeard(r)' <=> TimeoutHeard(r)
    BY <1>1, <1>4, <2>1
       DEF TakesReply, SameCaller, SameAsked, KeepsTimeout, CallInv
  <2> QED
    BY <2>1, <2>2 DEF Seen, Allowed
<1>5. CASE TakesTimeout(r)
  <2>1. (Answered(r)' <=> Answered(r)) /\ (OnItsWay(r)' <=> OnItsWay(r))
    BY <1>5 DEF TakesTimeout, KeepsAnswers, Stays, Answered, OnItsWay
  <2>2. ~Answered(r) /\ ~OnItsWay(r) /\ ~(Given(r) > 0) /\ asked[r] = "timed"
    BY <1>1, <1>5 DEF TakesTimeout, CallInv
  <2> QED
    BY <1>5, <2>1, <2>2 DEF TakesTimeout, SameCaller, SameAsked, Seen, Allowed
<1>6. CASE Fires(r)
  <2>1. (Answered(r)' <=> Answered(r)) /\ (OnItsWay(r)' <=> OnItsWay(r))
    BY <1>6 DEF Fires, KeepsAnswers, Stays, Answered, OnItsWay
  <2> QED
    BY <1>6, <2>1 DEF Fires, SameCaller, SameAsked, Seen, Given
<1> QED
  BY <1>2, <1>3, <1>4, <1>5, <1>6 DEF Moves

\* Every step is one step of one call, or the end of all, or none.
LEMMA StepRefines ==
  ASSUME TypeInv, TypeInv', \A r \in Ref : CallInv(r), CallStep
  PROVE  Promise!Next \/ CallSeen' = CallSeen
<1>1. /\ CallSeen = [r \in Ref |-> Seen(r)]
      /\ CallSeen' = [r \in Ref |-> Seen(r)']
  <2>1. (TypeInv => CallSeen = [r \in Ref |-> Seen(r)])'
    BY SeenIs, PTL
  <2> QED
    BY <2>1, SeenIs
<1>2. \A r \in Ref : asked[r] \in {"no", "open", "timed"} /\ Given(r) \in Nat
  BY DEF TypeInv, ServerOK, Given
<1>3. CASE \A r \in Ref : Goes(r)
  <2>1. \A r \in Ref : Seen(r)' = "gone"
    BY <1>3 DEF Goes, Seen
  <2>2. CallSeen' = [r \in Ref |-> "gone"]
    BY <1>1, <2>1
  <2> QED
    BY <2>2 DEF Promise!Next, Promise!Forget
<1>4. CASE \A r \in Ref : Unmoved(r)
  <2>1. \A r \in Ref : Seen(r)' = Seen(r)
    BY <1>4, UnmovedSeen
  <2> QED
    BY <1>1, <2>1
<1>5. CASE \E r \in Ref : Moves(r) /\ \A s \in Ref \ {r} : Unmoved(s)
  <2>1. PICK r \in Ref : Moves(r) /\ \A s \in Ref \ {r} : Unmoved(s)
    BY <1>5
  <2>2. \A s \in Ref \ {r} : Seen(s)' = Seen(s)
    BY <2>1, UnmovedSeen
  <2>3. CASE ~present
    <3>1. ~present'
      BY <2>1, <2>3
         DEF Moves, Asks, Replies, TakesReply, TakesTimeout, Fires,
             SameCaller, SameAsked
    <3>2. \A s \in Ref : Seen(s)' = Seen(s)
      BY <2>3, <3>1 DEF Seen
    <3> QED
      BY <1>1, <3>2
  <2>4. CASE present
    <3>1. Seen(r)' = Seen(r) \/ Allowed(r, Seen(r)')
      BY <1>2, <2>1, <2>4, MovesSeen
    <3>2. CallSeen' = [CallSeen EXCEPT ![r] = Seen(r)'] /\ CallSeen[r] = Seen(r)
      BY <1>1, <2>2
    <3>3. CASE Seen(r)' = Seen(r)
      BY <1>1, <2>2, <3>3
    <3>4. CASE Allowed(r, Seen(r)')
      <4>1. \/ Promise!Ask(r) \/ Promise!Reply(r) \/ Promise!Lose(r)
            \/ Promise!Receive(r) \/ Promise!Expire(r)
        BY <3>2, <3>4
           DEF Allowed, Promise!Ask, Promise!Reply, Promise!Lose,
               Promise!Receive, Promise!Expire, Promise!Step
      <4> QED
        BY <4>1 DEF Promise!Next
    <3> QED
      BY <3>1, <3>3, <3>4
  <2> QED
    BY <2>3, <2>4
<1> QED
  BY <1>3, <1>4, <1>5 DEF CallStep
-----------------------------------------------------------------------------
(* One job, and the wait state.                                            *)

Reported(j)  == Has(events, Env("Task", j))
JobQueued(j) == Has(mailbox, Env("Task", j))
JobHeard(j)  == Has(heard, Env("Task", j))

\* The completion of a job is in one place: the channel, the mailbox, or what
\* was heard; it is nowhere before the job is done.
JobInv(j) ==
  /\ Once(events, Env("Task", j))
  /\ Reported(j) => ~JobQueued(j) /\ ~JobHeard(j)
  /\ Reported(j) \/ JobQueued(j) \/ JobHeard(j) => job[j] = "done"
  /\ present /\ job[j] = "done" =>
       Reported(j) \/ JobQueued(j) \/ JobHeard(j)

\* The completion stays where it is, or goes with the actor.
JobStays(j) ==
  /\ present' => present
  /\ job'[j] = "done" <=> job[j] = "done"
  /\ Once(events, Env("Task", j)) => Once(events, Env("Task", j))'
  /\ Reported(j)' <=> Reported(j)
  /\ JobQueued(j)' => JobQueued(j)
  /\ present' /\ JobQueued(j) => JobQueued(j)'
  /\ JobHeard(j)' <=> JobHeard(j)

LEMMA JobStaysKeeps ==
  ASSUME NEW j \in Job, JobInv(j), JobStays(j)
  PROVE  JobInv(j)'
BY DEF JobInv, JobStays

Inv ==
  /\ TypeInv /\ NoticeInv
  /\ \A r \in Ref : CallInv(r)
  /\ \A j \in Job : JobInv(j)
  /\ WaitIsBounded

\* What is shown of every step.
StepOK ==
  /\ TypeInv' /\ NoticeInv' /\ CallStep
  /\ \A j \in Job : JobInv(j)'
  /\ WaitIsBounded'

LEMMA UnmovedIf ==
  ASSUME NEW r \in Ref, SameCaller(r), table'[r] = table[r],
         \A n \in Nat : Stays(Answer(r, n)), Stays(Env("CallTimeout", r))
  PROVE  Unmoved(r)
BY DEF Unmoved, KeepsAnswers, KeepsTimeout, Stays, Armed, TimeoutQueued,
       TimeoutHeard

LEMMA ServerSame ==
  ASSUME ServerOK, UNCHANGED <<server, asked, replies>>
  PROVE  ServerOK'
BY DEF ServerOK, Queued, Request, Item

\* The caller's mail, the calls and the server are left alone.
LEMMA QuietEffect ==
  ASSUME Inv, UNCHANGED <<present, mailbox, heard, server, asked, replies>>,
         \A r \in Ref : table'[r] = table[r]
  PROVE  /\ NoticeInv' /\ CallStep
         /\ ServerOK' /\ mailbox' \in Seq(Mail) /\ heard' \in Seq(Notice)
         /\ \A j \in Job : UNCHANGED <<events, job>> => JobInv(j)'
<1>1. /\ NoticeInv' /\ ServerOK'
      /\ mailbox' \in Seq(Mail) /\ heard' \in Seq(Notice)
  BY ServerSame DEF Inv, NoticeInv, NoticeOnce, TypeInv, QueuesOK
<1>2. \A r \in Ref : Unmoved(r)
  BY UnmovedIf DEF SameCaller, SameAsked, Stays
<1>3. \A j \in Job : UNCHANGED <<events, job>> => JobStays(j)
  BY DEF JobStays, Reported, JobQueued, JobHeard
<1> QED
  BY <1>1, <1>2, <1>3, JobStaysKeeps DEF Inv, CallStep

LEMMA ScheduleAfterStep ==
  ASSUME Inv, NEW t \in Token, ScheduleAfter(t),
         UNCHANGED <<server, sent, asked, replies>>
  PROVE  StepOK
<1>1. /\ turn = "own" /\ Spawn(t, Aborted(t))
      /\ UNCHANGED <<present, turn, mailbox, events, job, wait, mail, robbed,
                     heard, server, asked, replies>>
  BY DEF ScheduleAfter
<1>2. HandlesOK /\ t \in Key /\ \A r \in Ref : r # t /\ r \in Key
  BY KeyKinds DEF Inv, TypeInv, DriverOK, HandlesOK
<1>3. /\ HandlesOK' /\ table'[t] # Free
      /\ \A h \in Key : h # t => table'[h] = table[h]
  BY <1>1, <1>2, AbortedType, SpawnEffect
<1>4. /\ NoticeInv' /\ CallStep /\ ServerOK' /\ mailbox' \in Seq(Mail)
      /\ heard' \in Seq(Notice) /\ \A j \in Job : JobInv(j)'
  BY <1>1, <1>2, <1>3, QuietEffect
<1>5. DriverOK'
  BY <1>1, <1>3 DEF Inv, TypeInv, DriverOK, HandlesOK
<1>6. LifeOK' /\ QueuesOK'
  BY <1>1, <1>4 DEF Inv, TypeInv, LifeOK, QueuesOK
<1>7. WaitIsBounded'
  <2> SUFFICES ASSUME present', wait' # NoWait
               PROVE  Coming(wait.token)' \/ wait.token' \in robbed'
    BY DEF WaitIsBounded
  <2>1. wait.token \in Key /\ (Coming(wait.token) \/ wait.token \in robbed)
    BY <1>1, KeyKinds DEF Inv, WaitIsBounded, TypeInv, DriverOK
  <2> QED
    BY <1>1, <1>3, <2>1 DEF Coming
<1> QED
  BY <1>4, <1>5, <1>6, <1>7 DEF StepOK, TypeInv

LEMMA ArmReceiveTimeoutStep ==
  ASSUME Inv, NEW t \in Token, ArmReceiveTimeout(t),
         UNCHANGED <<server, sent, asked, replies>>
  PROVE  StepOK
<1>1. /\ turn = "own" /\ Spawn(t, state)
      /\ wait' = [kind |-> "wait", token |-> t]
      /\ UNCHANGED <<present, turn, mailbox, events, job, mail, robbed,
                     heard, server, asked, replies>>
  BY DEF ArmReceiveTimeout
<1>2. HandlesOK /\ t \in Key /\ \A r \in Ref : r # t /\ r \in Key
  BY KeyKinds DEF Inv, TypeInv, DriverOK, HandlesOK
<1>3. /\ HandlesOK' /\ table'[t] # Free
      /\ \A h \in Key : h # t => table'[h] = table[h]
  <2>1. /\ state \in [Task -> TaskState]
        /\ \A n \in Task : state[n] = "sleeping" => key[n] \in Key
    BY <1>2 DEF HandlesOK
  <2> QED
    BY <1>1, <1>2, <2>1, SpawnEffect
<1>4. /\ NoticeInv' /\ CallStep /\ ServerOK' /\ mailbox' \in Seq(Mail)
      /\ heard' \in Seq(Notice) /\ \A j \in Job : JobInv(j)'
  BY <1>1, <1>2, <1>3, QuietEffect
<1>5. DriverOK'
  BY <1>1, <1>3 DEF Inv, TypeInv, DriverOK, HandlesOK
<1>6. LifeOK' /\ QueuesOK'
  BY <1>1, <1>4 DEF Inv, TypeInv, LifeOK, QueuesOK
<1>7. WaitIsBounded'
  BY <1>1, <1>3 DEF WaitIsBounded, Coming
<1> QED
  BY <1>4, <1>5, <1>6, <1>7 DEF StepOK, TypeInv

LEMMA CancelTimerStep ==
  ASSUME Inv, NEW t \in Token, CancelTimer(t),
         UNCHANGED <<server, sent, asked, replies>>
  PROVE  StepOK
<1>1. /\ turn = "own"
      /\ table' = [table EXCEPT ![t] = Free] /\ state' = Aborted(t)
      /\ wait' = IF wait # NoWait /\ wait.token = t THEN NoWait ELSE wait
      /\ UNCHANGED <<present, turn, mailbox, key, events, job, mail, robbed,
                     heard, server, asked, replies>>
  BY DEF CancelTimer, CancelOwn
<1>2. HandlesOK /\ t \in Key /\ \A r \in Ref : r # t /\ r \in Key
  BY KeyKinds DEF Inv, TypeInv, DriverOK, HandlesOK
<1>3. HandlesOK' /\ \A h \in Key : h # t => table'[h] = table[h]
  BY <1>1, <1>2, CancelType DEF HandlesOK
<1>4. /\ NoticeInv' /\ CallStep /\ ServerOK' /\ mailbox' \in Seq(Mail)
      /\ heard' \in Seq(Notice) /\ \A j \in Job : JobInv(j)'
  BY <1>1, <1>2, <1>3, QuietEffect
<1>5. DriverOK'
  BY <1>1, <1>3 DEF Inv, TypeInv, DriverOK, HandlesOK
<1>6. LifeOK' /\ QueuesOK'
  BY <1>1, <1>4 DEF Inv, TypeInv, LifeOK, QueuesOK
<1>7. WaitIsBounded'
  <2> SUFFICES ASSUME present', wait' # NoWait
               PROVE  Coming(wait.token)' \/ wait.token' \in robbed'
    BY DEF WaitIsBounded
  <2>1. wait' = wait /\ wait.token # t
    BY <1>1
  <2>2. wait.token \in Key /\ (Coming(wait.token) \/ wait.token \in robbed)
    BY <1>1, <2>1, KeyKinds DEF Inv, WaitIsBounded, TypeInv, DriverOK
  <2> QED
    BY <1>1, <1>3, <2>1, <2>2 DEF Coming
<1> QED
  BY <1>4, <1>5, <1>6, <1>7 DEF StepOK, TypeInv

\* Steps that leave handles, mail, channel and wait state alone: the end of a
\* turn, the start and the panic of a job, the begin of the server's turn.
LEMMA IdleStep ==
  ASSUME Inv,
         UNCHANGED <<present, mailbox, table, state, key, events, wait,
                     robbed, heard, server, asked, replies>>,
         turn' \in {"none", "own", "other"}, turn' = "own" => turn = "own",
         turn' = "other" /\ server.up => server.inbox # <<>>,
         job' \in [Job -> {"none", "working", "done", "panicked"}],
         \A j \in Job : job'[j] = "done" <=> job[j] = "done"
  PROVE  StepOK
<1>1. /\ NoticeInv' /\ CallStep /\ ServerOK' /\ mailbox' \in Seq(Mail)
      /\ heard' \in Seq(Notice)
  BY QuietEffect
<1>2. DriverOK'
  BY DEF Inv, TypeInv, DriverOK
<1>3. LifeOK' /\ QueuesOK'
  BY <1>1 DEF Inv, TypeInv, LifeOK, QueuesOK
<1>4. WaitIsBounded'
  BY DEF Inv, WaitIsBounded, Coming
<1>5. \A j \in Job : JobStays(j)
  BY DEF JobStays, Reported, JobQueued, JobHeard
<1> QED
  BY <1>1, <1>2, <1>3, <1>4, <1>5, JobStaysKeeps DEF StepOK, TypeInv, Inv
-----------------------------------------------------------------------------
(* The pool and other mail.                                                *)

\* An event is sent on the channel.
LEMMA ElapseStep ==
  ASSUME Inv, NEW n \in Task, Elapse(n),
         UNCHANGED <<server, sent, asked, replies>>
  PROVE  StepOK
<1> DEFINE x == Env(KindOf(key[n]), key[n])
<1>1. /\ state[n] = "sleeping" /\ state' = [state EXCEPT ![n] = "sent"]
      /\ events' = Append(events, x)
      /\ UNCHANGED <<present, turn, mailbox, table, key, job, wait, mail,
                     robbed, heard, server, asked, replies>>
  BY DEF Elapse
<1>2. HandlesOK /\ key[n] \in Key /\ x \in Event
  BY <1>1, KeyKinds DEF Inv, TypeInv, DriverOK, HandlesOK
<1>3. \A j \in Job : x # Env("Task", j)
  BY EnvelopesDiffer DEF KindOf
<1> HIDE DEF x
<1>4. /\ events' \in Seq(Event)
      /\ \A e : /\ Has(events', e) <=> Has(events, e) \/ x = e
                /\ Once(events, e) /\ x # e => Once(events', e)
  <2>1. events \in Seq(Event)
    BY DEF Inv, TypeInv, QueuesOK
  <2> QED
    BY <1>1, <1>2, <2>1, AppendFacts
<1>5. /\ NoticeInv' /\ CallStep /\ ServerOK' /\ mailbox' \in Seq(Mail)
      /\ heard' \in Seq(Notice)
  BY <1>1, QuietEffect
<1>6. DriverOK'
  <2>1. /\ state' \in [Task -> TaskState]
        /\ \A m \in Task : state'[m] = "sleeping" => key[m] \in Key
    BY <1>1, <1>2 DEF HandlesOK, TaskState
  <2> QED
    BY <1>1, <2>1 DEF Inv, TypeInv, DriverOK
<1>7. LifeOK' /\ QueuesOK'
  BY <1>1, <1>4, <1>5 DEF Inv, TypeInv, LifeOK, QueuesOK
<1>8. WaitIsBounded'
  BY <1>1 DEF Inv, WaitIsBounded, Coming
<1>9. \A j \in Job : JobStays(j)
  BY <1>1, <1>3, <1>4 DEF JobStays, Reported, JobQueued, JobHeard
<1> QED
  BY <1>5, <1>6, <1>7, <1>8, <1>9, JobStaysKeeps DEF StepOK, TypeInv, Inv

LEMMA JobDoneStep ==
  ASSUME Inv, NEW j \in Job, JobDone(j),
         UNCHANGED <<server, sent, asked, replies>>
  PROVE  StepOK
<1> DEFINE x == Env("Task", j)
<1>1. /\ job[j] = "working" /\ job' = [job EXCEPT ![j] = "done"]
      /\ events' = Append(events, x)
      /\ UNCHANGED <<present, turn, mailbox, table, state, key, wait, mail,
                     robbed, heard, server, asked, replies>>
  BY DEF JobDone
<1>2. x \in Event /\ job \in [Job -> {"none", "working", "done", "panicked"}]
  BY EnvelopesIn DEF Inv, TypeInv, DriverOK
<1>3. \A i \in Job : x = Env("Task", i) => i = j
  BY EnvelopesDiffer
<1>4. x = Env("Task", j)
  OBVIOUS
<1> HIDE DEF x
<1>5. /\ events' \in Seq(Event)
      /\ \A e : /\ Has(events', e) <=> Has(events, e) \/ x = e
                /\ Once(events, e) /\ (x # e \/ ~Has(events, e))
                     => Once(events', e)
  <2>1. events \in Seq(Event)
    BY DEF Inv, TypeInv, QueuesOK
  <2> QED
    BY <1>1, <1>2, <2>1, AppendFacts
<1>6. /\ NoticeInv' /\ CallStep /\ ServerOK' /\ mailbox' \in Seq(Mail)
      /\ heard' \in Seq(Notice)
  BY <1>1, QuietEffect
<1>7. DriverOK'
  BY <1>1, <1>2 DEF Inv, TypeInv, DriverOK
<1>8. LifeOK' /\ QueuesOK'
  BY <1>1, <1>5, <1>6 DEF Inv, TypeInv, LifeOK, QueuesOK
<1>9. WaitIsBounded'
  BY <1>1 DEF Inv, WaitIsBounded, Coming
<1>10. \A i \in Job : JobInv(i)'
  <2> SUFFICES ASSUME NEW i \in Job PROVE JobInv(i)'
    OBVIOUS
  <2>1. JobInv(i)
    BY DEF Inv
  <2>2. CASE i = j
    <3>1. ~Has(events, x) /\ ~JobQueued(j) /\ ~JobHeard(j)
          /\ Once(events, x)
      BY <1>1, <1>4, <2>1, <2>2 DEF JobInv, Reported
    <3>2. Once(events', x) /\ Has(events', x) /\ job'[j] = "done"
      BY <1>1, <1>2, <1>5, <3>1
    <3>3. ~JobQueued(j)' /\ ~JobHeard(j)'
      BY <1>1, <3>1 DEF JobQueued, JobHeard
    <3> QED
      BY <1>4, <2>2, <3>2, <3>3 DEF JobInv, Reported
  <2>3. CASE i # j
    <3>1. JobStays(i)
      BY <1>1, <1>2, <1>3, <1>5, <2>3
         DEF JobStays, Reported, JobQueued, JobHeard
    <3> QED
      BY <2>1, <3>1, JobStaysKeeps
  <2> QED
    BY <2>2, <2>3
<1> QED
  BY <1>6, <1>7, <1>8, <1>9, <1>10 DEF StepOK, TypeInv

\* A push that is about no call and no job.
LEMMA OtherMailStep ==
  ASSUME Inv, NEW kind \in {"User", "System"}, OtherMail(kind),
         UNCHANGED <<server, sent, asked, replies>>
  PROVE  StepOK
<1> DEFINE x == Env(kind, "host")
<1>1. /\ present /\ turn = "none" /\ mailbox' = Append(mailbox, x)
      /\ UNCHANGED <<present, turn, tasks, wait, robbed, heard, server, asked,
                     replies>>
  BY DEF OtherMail
<1>2. x \in Mail /\ x.kind = kind
  BY EnvelopesIn DEF Env
<1>3. x \notin Notice
  BY <1>2, Kinds
<1> HIDE DEF x
<1>4. /\ mailbox' \in Seq(Mail) /\ NoticeInv'
      /\ \A e \in Notice : Stays(e)
      /\ \A e : Has(mailbox', e) <=> Has(mailbox, e) \/ x = e
  BY <1>1, <1>2, <1>3, PushEffect DEF Inv
<1>5. CallStep
  <2>1. \A r \in Ref : Unmoved(r)
    BY <1>1, <1>4, EnvelopesIn, UnmovedIf DEF SameCaller, SameAsked, tasks
  <2> QED
    BY <2>1 DEF CallStep
<1>6. \A j \in Job : JobStays(j)
  <2> SUFFICES ASSUME NEW j \in Job PROVE JobStays(j)
    OBVIOUS
  <2>1. Stays(Env("Task", j))
    BY <1>4, EnvelopesIn
  <2> QED
    BY <1>1, <2>1
       DEF JobStays, Stays, Reported, JobQueued, JobHeard, Has, tasks
<1>7. DriverOK' /\ ServerOK' /\ QueuesOK' /\ LifeOK'
  BY <1>1, <1>4, ServerSame
     DEF Inv, TypeInv, DriverOK, QueuesOK, LifeOK, tasks
<1>8. WaitIsBounded'
  <2>1. \A t : Coming(t) => Coming(t)'
    BY <1>1, <1>4 DEF Coming, Has, tasks
  <2> QED
    BY <1>1, <2>1 DEF Inv, WaitIsBounded
<1> QED
  BY <1>4, <1>5, <1>6, <1>7, <1>8, JobStaysKeeps DEF StepOK, TypeInv, Inv
-----------------------------------------------------------------------------
(* Receives.                                                               *)

\* What a receive does to calls and jobs: the envelope taken is the answer or
\* the timeout of one call, or the completion of one job, or none of these.
LEMMA ReceiveEffect ==
  ASSUME Inv, NEW i \in DOMAIN mailbox,
         mailbox' = RemoveEntry(mailbox, i), heard' = Recorded(mailbox[i]),
         UNCHANGED <<present, events, job, server, asked, replies>>,
         \A r \in Ref : table'[r] = table[r]
  PROVE  /\ mailbox' \in Seq(Mail) /\ heard' \in Seq(Notice) /\ NoticeInv'
         /\ CallStep
         /\ \A j \in Job : JobInv(j)'
         /\ mailbox[i] \in Mail
         /\ \A e : Has(mailbox, e) => Has(mailbox', e) \/ e = mailbox[i]
<1> DEFINE x == mailbox[i]
<1>1. /\ x \in Mail /\ mailbox' \in Seq(Mail) /\ heard' \in Seq(Notice)
      /\ NoticeInv'
      /\ \A e \in Notice : e # x => Stays(e)
      /\ x \in Notice => /\ Has(mailbox, x) /\ ~Has(heard, x)
                         /\ ~Has(mailbox', x) /\ Has(heard', x)
      /\ \A e : Has(mailbox, e) => Has(mailbox', e) \/ e = x
  BY TakeEffect DEF Inv
<1> HIDE DEF x
<1>2. \A r \in Ref : /\ SameCaller(r) /\ (Armed(r)' <=> Armed(r))
                     /\ \A n \in Nat : Answer(r, n) \in Notice
                     /\ Env("CallTimeout", r) \in Notice
  BY EnvelopesIn DEF SameCaller, SameAsked, Armed
<1>3. \A r \in Ref : /\ x.kind # "Reply" => KeepsAnswers(r)
                     /\ x # Env("CallTimeout", r) => KeepsTimeout(r)
                     /\ x.ref # r => Unmoved(r)
  <2> SUFFICES ASSUME NEW r \in Ref
               PROVE  /\ x.kind # "Reply" => KeepsAnswers(r)
                      /\ x # Env("CallTimeout", r) => KeepsTimeout(r)
                      /\ x.ref # r => Unmoved(r)
    OBVIOUS
  <2>1. x.kind # "Reply" => KeepsAnswers(r)
    BY <1>1, <1>2, AnswersDiffer DEF KeepsAnswers
  <2>2. x # Env("CallTimeout", r) => KeepsTimeout(r)
    BY <1>1, <1>2 DEF KeepsTimeout, Stays, TimeoutQueued, TimeoutHeard
  <2>3. ASSUME x.ref # r PROVE Unmoved(r)
    <3>1. x # Env("CallTimeout", r) /\ \A n \in Nat : x # Answer(r, n)
      BY <2>3, AnswersDiffer DEF Env
    <3> QED
      BY <1>1, <1>2, <3>1, UnmovedIf
  <2> QED
    BY <2>1, <2>2, <2>3
<1>4. CallStep
  <2>1. CASE x.kind = "Reply"
    <3>1. PICK r \in Ref, n \in Nat : x = Answer(r, n)
      BY <1>1, <2>1, Kinds
    <3>2. /\ Has(mailbox, Answer(r, n)) /\ Has(heard', Answer(r, n))
          /\ ~Has(mailbox', Answer(r, n))
      BY <1>1, <1>2, <3>1
    <3>3. \A m \in Nat \ {n} : Stays(Answer(r, m))
      BY <1>1, <1>2, <3>1, AnswersDiffer
    <3>4. KeepsTimeout(r)
      BY <1>3, <3>1, AnswersDiffer
    <3>5. TakesReply(r)
      BY <1>2, <3>2, <3>3, <3>4 DEF TakesReply
    <3>6. x.ref = r
      BY <3>1, AnswersDiffer
    <3> QED
      BY <1>3, <3>5, <3>6 DEF CallStep, Moves
  <2>2. CASE x.kind = "CallTimeout"
    <3>1. PICK r \in Ref : x = Env("CallTimeout", r) /\ x.ref = r
      BY <1>1, <2>2, Kinds
    <3>2. TimeoutQueued(r) /\ ~TimeoutQueued(r)' /\ TimeoutHeard(r)'
      BY <1>1, <1>2, <3>1 DEF TimeoutQueued, TimeoutHeard
    <3>3. TakesTimeout(r)
      BY <1>2, <1>3, <2>2, <3>2 DEF TakesTimeout
    <3> QED
      BY <1>3, <3>1, <3>3 DEF CallStep, Moves
  <2>3. CASE x.kind \notin {"Reply", "CallTimeout"}
    <3>1. \A r \in Ref : x # Env("CallTimeout", r)
      BY <2>3 DEF Env
    <3>2. \A r \in Ref : Unmoved(r)
      BY <1>2, <1>3, <2>3, <3>1 DEF Unmoved
    <3> QED
      BY <3>2 DEF CallStep
  <2> QED
    BY <2>1, <2>2, <2>3
<1>5. \A j \in Job : JobInv(j)'
  <2> SUFFICES ASSUME NEW j \in Job PROVE JobInv(j)'
    OBVIOUS
  <2> DEFINE e == Env("Task", j)
  <2>1. JobInv(j) /\ e \in Notice
    BY EnvelopesIn DEF Inv
  <2>2. CASE e = x
    <3>1. JobQueued(j) /\ ~JobQueued(j)' /\ JobHeard(j)'
      BY <1>1, <2>1, <2>2 DEF JobQueued, JobHeard
    <3>2. Reported(j)' = Reported(j) /\ (Once(events, e) => Once(events, e)')
      BY DEF Reported
    <3> QED
      BY <2>1, <3>1, <3>2 DEF JobInv
  <2>3. CASE e # x
    <3>1. Stays(e)
      BY <1>1, <2>1, <2>3
    <3>2. JobStays(j)
      BY <3>1 DEF Stays, JobStays, Reported, JobQueued, JobHeard, Has
    <3> QED
      BY <2>1, <3>2, JobStaysKeeps
  <2> QED
    BY <2>2, <2>3
<1> QED
  BY <1>1, <1>4, <1>5 DEF x

LEMMA ReceiveNextStep ==
  ASSUME Inv, ReceiveNext,
         UNCHANGED <<server, sent, asked, replies>>
  PROVE  StepOK
<1>1. PICK i \in DOMAIN mailbox :
        /\ mailbox' = RemoveEntry(mailbox, i)
        /\ turn' \in {"none", "own"}
        /\ heard' = Recorded(mailbox[i])
  BY DEF ReceiveNext
<1>2. /\ present /\ wait = NoWait
      /\ UNCHANGED <<present, tasks, wait, mail, robbed, server, sent, asked, replies>>
  BY DEF ReceiveNext, MayRun
<1>3. UNCHANGED <<present, table, state, key, events, job, wait, robbed,
                  server, asked, replies>>
  BY <1>2 DEF tasks
<1>4. /\ mailbox' \in Seq(Mail) /\ heard' \in Seq(Notice) /\ NoticeInv'
      /\ CallStep /\ \A j \in Job : JobInv(j)'
  BY <1>1, <1>3, ReceiveEffect
<1>5. DriverOK' /\ ServerOK' /\ QueuesOK' /\ LifeOK'
  BY <1>1, <1>2, <1>3, <1>4, ServerSame
     DEF Inv, TypeInv, DriverOK, QueuesOK, LifeOK
<1>6. WaitIsBounded'
  BY <1>2 DEF WaitIsBounded
<1> QED
  BY <1>4, <1>5, <1>6 DEF StepOK, TypeInv

LEMMA ReceiveWithTimeoutStep ==
  ASSUME Inv, ReceiveWithTimeout,
         UNCHANGED <<server, sent, asked, replies>>
  PROVE  StepOK
<1>1. PICK i \in DOMAIN mailbox :
        /\ mailbox' = RemoveEntry(mailbox, i)
        /\ IF GivesUpTimeout(mailbox[i]) THEN CancelOwn(wait.token)
                                         ELSE UNCHANGED <<table, state>>
        /\ turn' \in {"none", "own"}
        /\ heard' = Recorded(mailbox[i])
        /\ wait' = IF IsReserved(mailbox[i]) THEN wait ELSE NoWait
        /\ robbed' = IF IsReserved(mailbox[i]) THEN robbed \cup {wait.token}
                                               ELSE robbed
  BY DEF ReceiveWithTimeout
<1>2. /\ present /\ wait # NoWait
      /\ UNCHANGED <<present, key, events, job, mail, server, sent, asked, replies>>
  BY DEF ReceiveWithTimeout, MayRun
<1>3. HandlesOK /\ wait.token \in Token /\ wait.token \in Key
  BY <1>2, KeyKinds DEF Inv, TypeInv, DriverOK, HandlesOK
<1>4. HandlesOK' /\ \A h \in Key : h # wait.token => table'[h] = table[h]
  <2>1. CASE CancelOwn(wait.token)
    BY <1>2, <1>3, <2>1, CancelType DEF CancelOwn, HandlesOK
  <2>2. CASE UNCHANGED <<table, state>>
    BY <1>2, <1>3, <2>2 DEF HandlesOK
  <2> QED
    BY <1>1, <2>1, <2>2
<1>5. \A r \in Ref : table'[r] = table[r]
  BY <1>3, <1>4, KeyKinds
<1>6. /\ mailbox' \in Seq(Mail) /\ heard' \in Seq(Notice) /\ NoticeInv'
      /\ CallStep /\ \A j \in Job : JobInv(j)'
  BY <1>1, <1>2, <1>5, ReceiveEffect
<1>7. DriverOK'
  BY <1>1, <1>2, <1>4 DEF Inv, TypeInv, DriverOK, HandlesOK
<1>8. ServerOK' /\ QueuesOK' /\ LifeOK'
  BY <1>1, <1>2, <1>6, ServerSame DEF Inv, TypeInv, QueuesOK, LifeOK
<1>9. WaitIsBounded'
  BY <1>1 DEF WaitIsBounded
<1> QED
  BY <1>6, <1>7, <1>8, <1>9 DEF StepOK, TypeInv
-----------------------------------------------------------------------------
(* The actor's end, and the driver.                                        *)

\* An actor that leaves takes its mail and its handles with it.
LEMMA LeaveStep ==
  ASSUME Inv, Leave, UNCHANGED <<key, job, heard, server, asked, replies>>,
         events' \in Seq(Event),
         \A e : /\ Has(events', e) => Has(events, e)
                /\ Once(events, e) => Once(events', e)
  PROVE  StepOK
<1>1. HandlesOK
  BY DEF Inv, TypeInv, DriverOK, HandlesOK
<1>2. /\ HandlesOK' /\ present' = FALSE /\ turn' = "none" /\ wait' = NoWait
      /\ mailbox' = <<>> /\ \A k \in Key : table'[k] = Free
  BY <1>1, LeaveEffect DEF Leave
<1>3. /\ mailbox' \in Seq(Mail) /\ NoticeInv' /\ \A e : ~Has(mailbox', e)
  BY <1>2, ClearEffect DEF Inv
<1>4. CallStep
  <2>1. \A r \in Ref : Goes(r)
    <3> SUFFICES ASSUME NEW r \in Ref PROVE Goes(r)
      OBVIOUS
    <3>1. ~TimeoutQueued(r)' /\ (TimeoutHeard(r)' <=> TimeoutHeard(r))
      BY <1>3 DEF TimeoutQueued, TimeoutHeard
    <3>2. ~Armed(r)'
      BY <1>2 DEF Armed, Key
    <3> QED
      BY <1>2, <1>3, <3>1, <3>2 DEF Goes
  <2> QED
    BY <2>1 DEF CallStep
<1>5. \A j \in Job : JobInv(j)'
  <2> SUFFICES ASSUME NEW j \in Job PROVE JobInv(j)'
    OBVIOUS
  <2>1. JobInv(j)
    BY DEF Inv
  <2>2. ~JobQueued(j)' /\ (JobHeard(j)' <=> JobHeard(j))
    BY <1>3 DEF JobQueued, JobHeard
  <2>3. /\ Reported(j)' => Reported(j)
        /\ Once(events, Env("Task", j)) => Once(events, Env("Task", j))'
    BY DEF Reported
  <2> QED
    BY <1>2, <2>1, <2>2, <2>3 DEF JobInv
<1>6. DriverOK' /\ ServerOK' /\ QueuesOK' /\ LifeOK'
  BY <1>2, <1>3, ServerSame
     DEF Inv, TypeInv, DriverOK, QueuesOK, LifeOK, HandlesOK
<1>7. WaitIsBounded'
  BY <1>2 DEF WaitIsBounded
<1> QED
  BY <1>3, <1>4, <1>5, <1>6, <1>7 DEF StepOK, TypeInv

LEMMA ExitStep ==
  ASSUME Inv, Exit,
         UNCHANGED <<server, sent, asked, replies>>
  PROVE  StepOK
<1>1. Leave /\ UNCHANGED <<key, job, heard, server, asked, replies, events>>
  BY DEF Exit
<1>2. /\ events' \in Seq(Event)
      /\ \A e : /\ Has(events', e) => Has(events, e)
                /\ Once(events, e) => Once(events', e)
  BY <1>1 DEF Inv, TypeInv, QueuesOK
<1> QED
  BY <1>1, <1>2, LeaveStep

\* What taking an event off the channel does to the channel.
LEMMA ChannelEffect ==
  ASSUME Inv, events # <<>>, events' = Tail(events)
  PROVE  /\ Head(events) \in Event /\ Has(events, Head(events))
         /\ events' \in Seq(Event)
         /\ \A e : /\ Has(events', e) => Has(events, e)
                   /\ Has(events, e) => Has(events', e) \/ Head(events) = e
                   /\ Once(events, e) => Once(events', e)
                   /\ Once(events, e) /\ Head(events) = e => ~Has(events', e)
<1>1. events \in Seq(Event)
  BY DEF Inv, TypeInv, QueuesOK
<1>2. /\ 1 \in DOMAIN events /\ Head(events) = events[1]
      /\ events' = RemoveEntry(events, 1)
  BY <1>1, TailRemoves
<1>3. Head(events) \in Event /\ Has(events, Head(events))
  BY <1>1, <1>2, ElementOfSeq DEF Has
<1> DEFINE rest == RemoveEntry(events, 1)
           x    == Head(events)
<1>4. \A e : /\ rest \in Seq(Event)
             /\ Has(rest, e) => Has(events, e)
             /\ Has(events, e) => Has(rest, e) \/ events[1] = e
             /\ Once(events, e) => Once(rest, e)
             /\ Once(events, e) /\ events[1] = e => ~Has(rest, e)
  BY <1>1, <1>2, RemoveFacts
<1>5. events' = rest /\ x = events[1]
  BY <1>2
<1> HIDE DEF rest, x
<1>6. /\ events' \in Seq(Event)
      /\ \A e : /\ Has(events', e) => Has(events, e)
                /\ Has(events, e) => Has(events', e) \/ x = e
                /\ Once(events, e) => Once(events', e)
                /\ Once(events, e) /\ x = e => ~Has(events', e)
  BY <1>4, <1>5
<1> QED
  BY <1>3, <1>6 DEF x

\* An event that counts for nothing: its key has no handle, or nobody is there.
LEMMA UncountedStep ==
  ASSUME Inv, events # <<>>, events' = Tail(events),
         UNCHANGED <<present, turn, mailbox, state, wait, key, job, mail,
                     robbed, heard, server, asked, replies>>,
         table' = table,
         ~present \/ Head(events).kind # "Task"
  PROVE  StepOK
<1> DEFINE x == Head(events)
<1>1. /\ x \in Event /\ Has(events, x) /\ events' \in Seq(Event)
      /\ \A e : /\ Has(events', e) => Has(events, e)
                /\ Has(events, e) => Has(events', e) \/ x = e
                /\ Once(events, e) => Once(events', e)
  BY ChannelEffect
<1>2. /\ NoticeInv' /\ CallStep /\ ServerOK' /\ mailbox' \in Seq(Mail)
      /\ heard' \in Seq(Notice)
  BY QuietEffect
<1>3. \A j \in Job : JobInv(j)'
  <2> SUFFICES ASSUME NEW j \in Job PROVE JobInv(j)'
    OBVIOUS
  <2>1. JobInv(j)
    BY DEF Inv
  <2>2. JobQueued(j)' = JobQueued(j) /\ JobHeard(j)' = JobHeard(j)
    BY DEF JobQueued, JobHeard
  <2>3. /\ Reported(j)' => Reported(j)
        /\ Reported(j) => Reported(j)' \/ x = Env("Task", j)
        /\ Once(events, Env("Task", j)) => Once(events, Env("Task", j))'
    BY <1>1 DEF Reported
  <2>4. x = Env("Task", j) => ~present
    BY DEF Env
  <2> QED
    BY <2>1, <2>2, <2>3, <2>4 DEF JobInv
<1>4. DriverOK' /\ QueuesOK' /\ LifeOK'
  BY <1>1, <1>2 DEF Inv, TypeInv, DriverOK, QueuesOK, LifeOK
<1>5. WaitIsBounded'
  BY DEF Inv, WaitIsBounded, Coming
<1> QED
  BY <1>2, <1>3, <1>4, <1>5 DEF StepOK, TypeInv

\* An event that becomes an envelope, and takes the handle of its key.
LEMMA DeliveryStep ==
  ASSUME Inv, events # <<>>, events' = Tail(events), turn = "none", present,
         mailbox' = Append(mailbox, Head(events)),
         UNCHANGED <<present, turn, state, wait, key, job, mail, robbed,
                     heard, server, asked, replies>>,
         IF Head(events).kind = "Task" THEN table' = table
         ELSE /\ table[Head(events).ref] # Free
              /\ table' = [table EXCEPT ![Head(events).ref] = Free]
  PROVE  StepOK
<1> DEFINE x == Head(events)
<1>1. /\ x \in Event /\ Has(events, x) /\ events' \in Seq(Event)
      /\ \A e : /\ Has(events', e) => Has(events, e)
                /\ Has(events, e) => Has(events', e) \/ x = e
                /\ Once(events, e) => Once(events', e)
                /\ Once(events, e) /\ x = e => ~Has(events', e)
  BY ChannelEffect
<1>2. /\ x.kind \in {"Timer", "CallTimeout", "Task"} /\ x \in Mail
      /\ x.kind = "CallTimeout" => x.ref \in Ref /\ x = Env("CallTimeout", x.ref)
      /\ x.kind = "Task" => x.ref \in Job /\ x = Env("Task", x.ref)
      /\ x.kind = "Timer" => x.ref \in Token /\ x = Env("Timer", x.ref)
      /\ x \in Notice <=> x.kind \in {"CallTimeout", "Task"}
  BY <1>1, Kinds, Subkinds
<1>3. /\ mailbox' = Append(mailbox, x)
      /\ IF x.kind = "Task" THEN table' = table
         ELSE table[x.ref] # Free /\ table' = [table EXCEPT ![x.ref] = Free]
      /\ HandlesOK
  BY DEF Inv, TypeInv, DriverOK, HandlesOK
<1> HIDE DEF x
<1>4. x \in Notice => ~Has(mailbox, x) /\ ~Has(heard, x)
  <2>1. CASE x.kind = "Task"
    <3>1. JobInv(x.ref)
      BY <1>2, <2>1 DEF Inv
    <3> QED
      BY <1>1, <1>2, <2>1, <3>1 DEF JobInv, Reported, JobQueued, JobHeard
  <2>2. CASE x.kind = "CallTimeout"
    <3>1. CallInv(x.ref) /\ Armed(x.ref)
      BY <1>2, <1>3, <2>2 DEF Inv, Armed
    <3> QED
      BY <1>2, <2>2, <3>1 DEF CallInv, TimeoutQueued, TimeoutHeard
  <2> QED
    BY <1>2, <2>1, <2>2
<1>5. /\ mailbox' \in Seq(Mail) /\ NoticeInv'
      /\ \A e \in Notice : e # x => Stays(e)
      /\ \A e : Has(mailbox', e) <=> Has(mailbox, e) \/ x = e
  BY <1>2, <1>3, <1>4, PushEffect DEF Inv
<1>6. /\ HandlesOK'
      /\ \A h \in Key : h # x.ref \/ x.kind = "Task" => table'[h] = table[h]
      /\ x.kind # "Task" => table'[x.ref] = Free
  BY <1>2, <1>3, KeyKinds DEF HandlesOK
<1>7. \A r \in Ref : /\ KeepsAnswers(r) /\ SameCaller(r)
                     /\ x # Env("CallTimeout", r) => Unmoved(r)
  <2> SUFFICES ASSUME NEW r \in Ref
               PROVE  /\ KeepsAnswers(r) /\ SameCaller(r)
                      /\ x # Env("CallTimeout", r) => Unmoved(r)
    OBVIOUS
  <2>1. SameCaller(r)
    BY DEF SameCaller, SameAsked
  <2>2. \A n \in Nat : x # Answer(r, n) /\ Answer(r, n) \in Notice
    BY <1>2, AnswersDiffer, EnvelopesIn
  <2>3. \A n \in Nat : Stays(Answer(r, n))
    BY <1>5, <2>2
  <2>4. ASSUME x # Env("CallTimeout", r) PROVE Unmoved(r)
    <3>1. Stays(Env("CallTimeout", r))
      BY <1>5, <2>4, EnvelopesIn
    <3>2. table'[r] = table[r]
      BY <1>2, <1>6, <2>4, KeyKinds
    <3> QED
      BY <2>1, <2>3, <3>1, <3>2, UnmovedIf
  <2> QED
    BY <2>1, <2>3, <2>4 DEF KeepsAnswers
<1>8. CallStep
  <2>1. CASE x.kind # "CallTimeout"
    <3>1. \A r \in Ref : x # Env("CallTimeout", r)
      BY <2>1 DEF Env
    <3> QED
      BY <1>7, <3>1 DEF CallStep
  <2>2. CASE x.kind = "CallTimeout"
    <3>1. PICK r \in Ref : x = Env("CallTimeout", r) /\ x.ref = r
      BY <1>2, <2>2
    <3>2. Armed(r) /\ ~Armed(r)'
      BY <1>3, <1>6, <2>2, <3>1 DEF Armed
    <3>3. TimeoutQueued(r)' /\ (TimeoutHeard(r)' <=> TimeoutHeard(r))
      BY <1>5, <3>1 DEF TimeoutQueued, TimeoutHeard
    <3>4. Fires(r)
      BY <1>7, <3>2, <3>3 DEF Fires
    <3>5. \A s \in Ref \ {r} : x # Env("CallTimeout", s)
      BY <3>1, EnvelopesDiffer
    <3> QED
      BY <1>7, <3>4, <3>5 DEF CallStep, Moves
  <2> QED
    BY <2>1, <2>2
<1>9. \A j \in Job : JobInv(j)'
  <2> SUFFICES ASSUME NEW j \in Job PROVE JobInv(j)'
    OBVIOUS
  <2> DEFINE e == Env("Task", j)
  <2>1. JobInv(j) /\ e \in Notice
    BY EnvelopesIn DEF Inv
  <2>2. CASE x = e
    <3>1. Reported(j) /\ Once(events, e)
      BY <1>1, <2>1, <2>2 DEF Reported, JobInv
    <3>2. ~Reported(j)' /\ Once(events, e)'
      BY <1>1, <2>2, <3>1 DEF Reported
    <3>3. JobQueued(j)' /\ ~JobHeard(j)'
      BY <1>5, <2>1, <2>2, <3>1 DEF JobQueued, JobHeard, JobInv
    <3> QED
      BY <2>1, <3>1, <3>2, <3>3 DEF JobInv
  <2>3. CASE x # e
    <3>1. Stays(e)
      BY <1>5, <2>1, <2>3
    <3>2. JobStays(j)
      BY <1>1, <2>3, <3>1 DEF Stays, JobStays, Reported, JobQueued, JobHeard, Has
    <3> QED
      BY <2>1, <3>2, JobStaysKeeps
  <2> QED
    BY <2>2, <2>3
<1>10. DriverOK' /\ ServerOK' /\ QueuesOK' /\ LifeOK'
  BY <1>1, <1>5, <1>6, ServerSame
     DEF Inv, TypeInv, DriverOK, QueuesOK, LifeOK, HandlesOK
<1>11. WaitIsBounded'
  <2> SUFFICES ASSUME wait # NoWait
               PROVE  Coming(wait.token)' \/ wait.token' \in robbed'
    BY DEF WaitIsBounded
  <2>1. /\ wait.token \in Token /\ wait.token \in Key
        /\ Coming(wait.token) \/ wait.token \in robbed
    BY KeyKinds DEF Inv, WaitIsBounded, TypeInv, DriverOK
  <2>2. CASE x = Env("Timer", wait.token)
    BY <1>5, <2>2 DEF Coming, Has
  <2>3. CASE x # Env("Timer", wait.token)
    <3>1. table'[wait.token] = table[wait.token]
      BY <1>2, <1>6, <2>1, <2>3, KeyKinds
    <3> QED
      BY <1>5, <2>1, <3>1 DEF Coming, Has
  <2> QED
    BY <2>2, <2>3
<1> QED
  BY <1>5, <1>8, <1>9, <1>10, <1>11 DEF StepOK, TypeInv

LEMMA DrainEventsStep ==
  ASSUME Inv, DrainEvents,
         UNCHANGED <<server, sent, asked, replies>>
  PROVE  StepOK
<1> DEFINE x == Head(events)
<1>1. /\ turn = "none" /\ events # <<>> /\ events' = Tail(events)
      /\ Ingest(x)
      /\ UNCHANGED <<key, job, mail, robbed, heard, server, asked, replies>>
  BY DEF DrainEvents
<1>2. /\ x \in Event /\ events' \in Seq(Event)
      /\ \A e : /\ Has(events', e) => Has(events, e)
                /\ Once(events, e) => Once(events', e)
  BY <1>1, ChannelEffect
<1>3. present \in BOOLEAN /\ (~present => table = [k \in Key |-> Free])
  BY DEF Inv, TypeInv, DriverOK, LifeOK
<1>4. CASE Uncounted /\ x.kind # "Task"
  BY <1>1, <1>4, UncountedStep DEF Uncounted
<1>5. CASE /\ Delivered(x)
           /\ x.kind # "Task" => table[x.ref] # Free
           /\ table' = IF ~present' THEN [k \in Key |-> Free]
                       ELSE IF x.kind = "Task" THEN table
                       ELSE [table EXCEPT ![x.ref] = Free]
  <2>1. CASE /\ present /\ mailbox' = Append(mailbox, x)
             /\ UNCHANGED <<present, turn, state, wait>>
    <3>1. IF x.kind = "Task" THEN table' = table
          ELSE table[x.ref] # Free /\ table' = [table EXCEPT ![x.ref] = Free]
      BY <1>5, <2>1
    <3> QED
      BY <1>1, <2>1, <3>1, DeliveryStep
  <2>2. CASE Leave
    BY <1>1, <1>2, <2>2, LeaveStep
  <2>3. CASE ~present /\ UNCHANGED <<present, turn, mailbox, state, wait>>
    <3>1. table' = table
      BY <1>3, <1>5, <2>3
    <3> QED
      BY <1>1, <2>3, <3>1, UncountedStep
  <2> QED
    BY <1>5, <2>1, <2>2, <2>3 DEF Delivered
<1> QED
  BY <1>1, <1>4, <1>5 DEF Ingest
-----------------------------------------------------------------------------
(* What reaches the server.                                                *)

LEMMA ItemsDiffer ==
  ASSUME NEW a, NEW b, NEW x, NEW y, Item(a, x) = Item(b, y)
  PROVE  a = b /\ x = y
<1>1. Item(a, x).kind = Item(b, y).kind /\ Item(a, x).ref = Item(b, y).ref
  OBVIOUS
<1> QED
  BY <1>1 DEF Item

\* A request or a message joins the mailbox of the server.
LEMMA InboxEffect ==
  ASSUME Inv, NEW x \in InboxItem,
         server' = [server EXCEPT !.inbox = Append(@, x)]
  PROVE  /\ server' \in ServerRecord /\ server'.inbox # <<>>
         /\ \A e : Has(server'.inbox, e) <=> Has(server.inbox, e) \/ x = e
<1>1. server \in ServerRecord /\ server.inbox \in Seq(InboxItem)
  BY DEF Inv, TypeInv, ServerOK, ServerRecord
<1>2. server'.inbox = Append(server.inbox, x)
  BY <1>1 DEF ServerRecord
<1>3. Append(server.inbox, x) \in Seq(InboxItem) /\ Append(server.inbox, x) # <<>>
  BY <1>1, AppendProperties
<1>4. server' \in ServerRecord
  BY <1>1, <1>3 DEF ServerRecord
<1>5. \A e : Has(Append(server.inbox, x), e) <=> Has(server.inbox, e) \/ x = e
  BY <1>1, AppendFacts
<1> QED
  BY <1>2, <1>3, <1>4, <1>5

\* The requests in the server's mailbox have been made.
LEMMA ServerMoves ==
  ASSUME Inv, server' \in ServerRecord, UNCHANGED <<asked, replies>>,
         \A r \in Ref : Has(server'.inbox, Request(r)) => Queued(r)
  PROVE  ServerOK'
BY DEF Inv, TypeInv, ServerOK, Queued, Request, Item

LEMMA AskStep ==
  ASSUME Inv, NEW r \in Ref, NEW timed \in BOOLEAN, Ask(r, timed)
  PROVE  StepOK
<1>1. /\ asked[r] = "no" /\ turn = "own"
      /\ server' = [server EXCEPT !.inbox = Append(@, Request(r))]
      /\ asked' = [asked EXCEPT ![r] = IF timed THEN "timed" ELSE "open"]
      /\ IF timed THEN Spawn(r, Aborted(r)) ELSE UNCHANGED <<table, state, key>>
      /\ UNCHANGED <<present, turn, mailbox, events, job, wait, mail, robbed,
                     heard, replies>>
  BY DEF Ask, ArmCall, Request
<1>2. /\ HandlesOK /\ r \in Key /\ present /\ r \notin Token
      /\ asked \in [Ref -> {"no", "open", "timed"}]
  BY <1>1, KeyKinds DEF Inv, TypeInv, DriverOK, HandlesOK, LifeOK, ServerOK
<1>3. Request(r) \in InboxItem
  BY DEF Request, Item, InboxItem
<1>4. /\ server' \in ServerRecord /\ server'.inbox # <<>>
      /\ \A e : Has(server'.inbox, e) <=> Has(server.inbox, e) \/ Request(r) = e
  BY <1>1, <1>3, InboxEffect
<1>5. /\ HandlesOK'
      /\ \A h \in Key : h # r => table'[h] = table[h]
      /\ IF timed THEN table'[r] # Free ELSE table'[r] = table[r]
  <2>1. CASE timed
    BY <1>1, <1>2, <2>1, AbortedType, SpawnEffect
  <2>2. CASE ~timed
    BY <1>1, <1>2, <2>2 DEF HandlesOK
  <2> QED
    BY <2>1, <2>2
<1>6. \A e : Stays(e)
  BY <1>1 DEF Stays
<1>7. Asks(r)
  <2>1. \/ asked'[r] = "timed"
        \/ asked'[r] = "open" /\ (Armed(r)' <=> Armed(r))
    BY <1>1, <1>2, <1>5 DEF Armed
  <2>2. /\ KeepsAnswers(r) /\ (TimeoutQueued(r)' <=> TimeoutQueued(r))
        /\ (TimeoutHeard(r)' <=> TimeoutHeard(r))
    BY <1>6 DEF KeepsAnswers, Stays, TimeoutQueued, TimeoutHeard
  <2> QED
    BY <1>1, <2>1, <2>2 DEF Asks
<1>8. \A s \in Ref \ {r} : Unmoved(s)
  <2> SUFFICES ASSUME NEW s \in Ref, s # r PROVE Unmoved(s)
    OBVIOUS
  <2>1. SameCaller(s)
    BY <1>1, <1>2 DEF SameCaller, SameAsked
  <2>2. table'[s] = table[s]
    BY <1>5, KeyKinds
  <2> QED
    BY <1>6, <2>1, <2>2, UnmovedIf
<1>9. NoticeInv' /\ \A j \in Job : JobStays(j)
  BY <1>1 DEF Inv, NoticeInv, NoticeOnce, JobStays, Reported, JobQueued,
              JobHeard
<1>10. DriverOK' /\ QueuesOK'
  BY <1>1, <1>5 DEF Inv, TypeInv, DriverOK, QueuesOK, HandlesOK
<1>11. ServerOK'
  <2>1. \A s \in Ref : Has(server'.inbox, Request(s)) => asked'[s] # "no"
    <3> SUFFICES ASSUME NEW s \in Ref, Has(server'.inbox, Request(s))
                 PROVE  asked'[s] # "no"
      OBVIOUS
    <3>1. Queued(s) \/ Request(s) = Request(r)
      BY <1>4 DEF Queued
    <3>2. Request(s) = Request(r) => s = r
      BY ItemsDiffer DEF Request
    <3>3. Queued(s) => asked[s] # "no"
      BY DEF Inv, TypeInv, ServerOK
    <3> QED
      BY <1>1, <1>2, <3>1, <3>2, <3>3
  <2>2. asked' \in [Ref -> {"no", "open", "timed"}]
    BY <1>1, <1>2
  <2> QED
    BY <1>1, <1>4, <2>1, <2>2
       DEF Inv, TypeInv, ServerOK, Queued, Request, Item
<1>12. LifeOK'
  BY <1>1, <1>2, <1>4 DEF LifeOK
<1>13. WaitIsBounded'
  <2> SUFFICES ASSUME wait # NoWait
               PROVE  Coming(wait.token)' \/ wait.token' \in robbed'
    BY <1>1 DEF WaitIsBounded
  <2>1. /\ wait.token \in Token /\ wait.token \in Key
        /\ Coming(wait.token) \/ wait.token \in robbed
    BY <1>2, KeyKinds DEF Inv, WaitIsBounded, TypeInv, DriverOK
  <2> QED
    BY <1>1, <1>2, <1>5, <2>1 DEF Coming
<1> QED
  BY <1>7, <1>8, <1>9, <1>10, <1>11, <1>12, <1>13, JobStaysKeeps
     DEF StepOK, TypeInv, CallStep, Moves, Inv

\* Steps of the server that answer nobody: caller, driver and pool are left
\* alone.
LEMMA SilentStep ==
  ASSUME Inv,
         UNCHANGED <<present, mailbox, table, state, key, events, job, wait,
                     robbed, heard, asked, replies>>,
         turn' = "none", server' \in ServerRecord,
         \A r \in Ref : Has(server'.inbox, Request(r)) => Queued(r)
  PROVE  StepOK
<1>1. \A r \in Ref : Unmoved(r)
  BY UnmovedIf DEF SameCaller, SameAsked, Stays
<1>2. NoticeInv' /\ \A j \in Job : JobStays(j)
  BY DEF Inv, NoticeInv, NoticeOnce, JobStays, Reported, JobQueued, JobHeard
<1>3. DriverOK' /\ QueuesOK'
  BY DEF Inv, TypeInv, DriverOK, QueuesOK
<1>4. ServerOK'
  BY ServerMoves
<1>5. LifeOK'
  BY DEF Inv, TypeInv, LifeOK
<1>6. WaitIsBounded'
  BY DEF Inv, WaitIsBounded, Coming
<1> QED
  BY <1>1, <1>2, <1>3, <1>4, <1>5, <1>6, JobStaysKeeps
     DEF StepOK, TypeInv, Inv, CallStep

LEMMA TellStep ==
  ASSUME Inv, NEW kind \in {"User", "Exit", "System"}, Tell(kind)
  PROVE  StepOK
<1> DEFINE x == Item(kind, "host")
<1>1. /\ turn = "none" /\ server' = [server EXCEPT !.inbox = Append(@, x)]
      /\ UNCHANGED <<present, turn, mailbox, table, state, key, events, job,
                     wait, mail, robbed, heard, asked, replies>>
  BY DEF Tell, waiter, tasks
<1>2. x \in InboxItem /\ \A r \in Ref : x # Request(r)
  BY ItemsDiffer DEF Item, InboxItem, Request
<1> HIDE DEF x
<1>3. /\ server' \in ServerRecord
      /\ \A e : Has(server'.inbox, e) <=> Has(server.inbox, e) \/ x = e
  BY <1>1, <1>2, InboxEffect
<1>4. \A r \in Ref : Has(server'.inbox, Request(r)) => Queued(r)
  BY <1>2, <1>3 DEF Queued
<1> QED
  BY <1>1, <1>3, <1>4, SilentStep
-----------------------------------------------------------------------------
(* Replies.                                                                *)

\* A reply to call r, whoever gives it and however many came before.
LEMMA AnsweringStep ==
  ASSUME Inv, NEW r \in Ref, present, asked[r] # "no", ReplyTo(r),
         asked' = asked, server' \in ServerRecord,
         turn' = "none" \/ (turn' = turn /\ server'.inbox # <<>>),
         \A s \in Ref : Has(server'.inbox, Request(s)) => Queued(s)
  PROVE  StepOK
<1> DEFINE n == Given(r) + 1
           x == Answer(r, n)
<1>1. AcceptReply(r, n) /\ Counted(r)
  BY DEF ReplyTo, Given
<1>2. /\ CallInv(r) /\ Given(r) \in Nat /\ n \in Nat
      /\ replies \in [Ref -> [given : Nat, accepted : SUBSET Nat]]
  BY DEF Inv, TypeInv, ServerOK, Given
<1>3. ~Has(mailbox, x) /\ ~Has(heard, x)
  BY <1>2 DEF CallInv
<1>4. /\ mailbox' \in Seq(Mail) /\ NoticeInv' /\ HandlesOK'
      /\ heard' = heard
      /\ UNCHANGED <<present, key, events, job, wait, mail, robbed>>
      /\ ~Has(mailbox', Env("CallTimeout", r))
      /\ \A e \in Notice : e \notin {x, Env("CallTimeout", r)} => Stays(e)
      /\ \A e : e # Env("CallTimeout", r) /\ Has(mailbox, e)
                  => Has(mailbox', e)
      /\ Has(mailbox', x) <=> ~RefusesReply(r)
      /\ table'[r] = Free
      /\ \A k \in Key : k # r => table'[k] = table[k]
  BY <1>1, <1>2, <1>3, AcceptEffect DEF Inv
<1>5. /\ replies' \in [Ref -> [given : Nat, accepted : SUBSET Nat]]
      /\ Given(r)' = n
      /\ Accepted(r)' = IF RefusesReply(r) THEN Accepted(r)
                                           ELSE Accepted(r) \cup {n}
      /\ \A s \in Ref \ {r} : replies'[s] = replies[s]
  <2> DEFINE now == [given |-> n,
                     accepted |-> IF RefusesReply(r) THEN Accepted(r)
                                  ELSE Accepted(r) \cup {n}]
  <2>1. replies' = [replies EXCEPT ![r] = now]
    BY <1>1, <1>2 DEF Counted, Given, Accepted
  <2>2. now \in [given : Nat, accepted : SUBSET Nat] /\ now.given = n
        /\ now.accepted = IF RefusesReply(r) THEN Accepted(r)
                                             ELSE Accepted(r) \cup {n}
    BY <1>2 DEF Accepted
  <2> HIDE DEF now, n
  <2> QED
    BY <1>2, <2>1, <2>2 DEF Given, Accepted
<1> HIDE DEF x
<1>6. \A s \in Ref, m \in Nat :
        s # r \/ m # n => Answer(s, m) # x
  BY AnswersDiffer DEF x
<1>7. \A s \in Ref, m \in Nat :
        /\ Answer(s, m) \in Notice
        /\ Answer(s, m) # Env("CallTimeout", r)
        /\ s # r \/ m # n => Stays(Answer(s, m))
  BY <1>4, <1>6, AnswersDiffer, EnvelopesIn
<1>8. Replies(r)
  <2>1. ~Armed(r)' /\ ~TimeoutQueued(r)'
        /\ (TimeoutHeard(r)' <=> TimeoutHeard(r))
    BY <1>4 DEF Armed, TimeoutQueued, TimeoutHeard
  <2>2. \A m \in Nat : Has(heard', Answer(r, m)) <=> Has(heard, Answer(r, m))
    BY <1>4
  <2>3. \A m \in Nat \ {n} :
          Has(mailbox', Answer(r, m)) <=> Has(mailbox, Answer(r, m))
    BY <1>7 DEF Stays
  <2>4. \/ Accepted(r)' = Accepted(r) /\ ~Has(mailbox', Answer(r, n))
        \/ Accepted(r)' = Accepted(r) \cup {n} /\ Has(mailbox', Answer(r, n))
    BY <1>4, <1>5 DEF x
  <2> QED
    BY <1>4, <1>5, <2>1, <2>2, <2>3, <2>4 DEF Replies, SameAsked
<1>9. \A s \in Ref \ {r} : Unmoved(s)
  <2> SUFFICES ASSUME NEW s \in Ref, s # r PROVE Unmoved(s)
    OBVIOUS
  <2>1. /\ Env("CallTimeout", s) # x
        /\ Env("CallTimeout", s) # Env("CallTimeout", r)
    BY AnswersDiffer, EnvelopesDiffer DEF x
  <2>2. Stays(Env("CallTimeout", s))
    BY <1>4, <2>1, EnvelopesIn
  <2>3. table'[s] = table[s] /\ SameCaller(s)
    BY <1>4, <1>5, KeyKinds DEF SameCaller, SameAsked
  <2> QED
    BY <1>7, <2>2, <2>3, UnmovedIf
<1>10. CallStep
  BY <1>8, <1>9 DEF CallStep, Moves
<1>11. \A j \in Job : JobStays(j)
  <2> SUFFICES ASSUME NEW j \in Job PROVE JobStays(j)
    OBVIOUS
  <2>1. /\ Env("Task", j) \in Notice /\ Env("Task", j) # x
        /\ Env("Task", j) # Env("CallTimeout", r)
    BY EnvelopesIn, EnvelopesDiffer, AnswersDiffer DEF x
  <2>2. Stays(Env("Task", j))
    BY <1>4, <2>1
  <2> QED
    BY <1>4, <2>2 DEF JobStays, Stays, Reported, JobQueued, JobHeard
<1>12. DriverOK' /\ QueuesOK' /\ LifeOK'
  BY <1>4 DEF Inv, TypeInv, DriverOK, QueuesOK, LifeOK, HandlesOK
<1>13. ServerOK'
  BY <1>5 DEF Inv, TypeInv, ServerOK, Queued, Request, Item
<1>14. WaitIsBounded'
  <2> SUFFICES ASSUME wait # NoWait
               PROVE  Coming(wait.token)' \/ wait.token' \in robbed'
    BY <1>4 DEF WaitIsBounded
  <2>1. /\ wait.token \in Token /\ wait.token \in Key /\ wait.token # r
        /\ Coming(wait.token) \/ wait.token \in robbed
    BY KeyKinds DEF Inv, WaitIsBounded, TypeInv, DriverOK
  <2>2. Env("Timer", wait.token) # Env("CallTimeout", r)
    BY EnvelopesDiffer
  <2> QED
    BY <1>4, <2>1, <2>2 DEF Coming, Has
<1> QED
  BY <1>4, <1>10, <1>11, <1>12, <1>13, <1>14, JobStaysKeeps
     DEF StepOK, TypeInv, Inv

\* Nobody hears of a reply to a caller that is gone.
LEMMA ReplyStep ==
  ASSUME Inv, NEW r \in Ref, asked[r] # "no",
         ReplyTo(r) \/ NoReply, asked' = asked, server' \in ServerRecord,
         \A s \in Ref : Has(server'.inbox, Request(s)) => Queued(s),
         turn' = "none"
  PROVE  StepOK
<1>1. CASE NoReply
  BY <1>1, SilentStep DEF NoReply, tasks
<1>2. CASE present /\ ReplyTo(r)
  BY <1>2, AnsweringStep
<1> QED
  BY <1>1, <1>2 DEF ReplyTo

LEMMA ReplyElsewhereStep ==
  ASSUME Inv, NEW r \in Ref, ReplyElsewhere(r)
  PROVE  StepOK
<1>1. /\ turn = "none" /\ present /\ asked[r] # "no" /\ ReplyTo(r)
      /\ UNCHANGED <<turn, server, asked>>
  BY DEF ReplyElsewhere, MayReply
<1>2. /\ server \in ServerRecord
      /\ \A s \in Ref : Has(server.inbox, Request(s)) => Queued(s)
  BY DEF Inv, TypeInv, ServerOK, Queued
<1> QED
  BY <1>1, <1>2, AnsweringStep
-----------------------------------------------------------------------------
(* The server's turns.                                                     *)

\* A turn of a running server takes one entry of its mailbox.
LEMMA ClaimFacts ==
  ASSUME Inv, turn = "other", server.up
  PROVE  /\ server \in ServerRecord
         /\ server.inbox[Claimed] \in InboxItem
         /\ Has(server.inbox, server.inbox[Claimed])
         /\ Rest \in Seq(InboxItem)
         /\ \A e : Has(Rest, e) => Has(server.inbox, e)
<1>1. /\ server \in ServerRecord /\ server.inbox \in Seq(InboxItem)
      /\ server.inbox # <<>>
  BY DEF Inv, TypeInv, ServerOK, LifeOK, ServerRecord
<1>2. \E i \in DOMAIN server.inbox : TakesNext(server.inbox, FALSE, i)
  BY <1>1, TakesNextFound
<1>3. Claimed \in DOMAIN server.inbox
  BY <1>2 DEF Claimed
<1>4. /\ server.inbox[Claimed] \in InboxItem
      /\ Has(server.inbox, server.inbox[Claimed])
  BY <1>1, <1>3, ElementOfSeq DEF Has
<1> DEFINE c == Claimed
           q == server.inbox
<1>5. q \in Seq(InboxItem) /\ c \in DOMAIN q
  BY <1>1, <1>3
<1> HIDE DEF c, q
<1>6. /\ RemoveEntry(q, c) \in Seq(InboxItem)
      /\ \A e : Has(RemoveEntry(q, c), e) => Has(q, e)
  BY <1>5, RemoveFacts
<1>7. Rest = RemoveEntry(q, c)
  BY DEF Rest, q, c
<1>8. Rest \in Seq(InboxItem) /\ \A e : Has(Rest, e) => Has(server.inbox, e)
  BY <1>6, <1>7 DEF q
<1> QED
  BY <1>1, <1>4, <1>8

\* A server that stops has no mail left.
LEMMA StoppedFacts ==
  ASSUME NEW s \in ServerRecord, NEW stop \in BOOLEAN
  PROVE  /\ StoppedIf(stop, s) \in ServerRecord
         /\ StoppedIf(stop, s).inbox \in {s.inbox, <<>>}
         /\ Stopped(s) = StoppedIf(TRUE, s)
<1>1. <<>> \in Seq(InboxItem) /\ 0 \in Phase
  BY EmptySeq, BehaviourAssumption
<1>2. s.terminated + 1 \in Nat
  BY DEF ServerRecord
<1>3. Stopped(s) \in ServerRecord
  BY <1>1, <1>2 DEF Stopped, ServerRecord
<1>4. Stopped(s).inbox = <<>>
  BY DEF Stopped, ServerRecord
<1> QED
  BY <1>3, <1>4 DEF StoppedIf

\* What the server has left of the requests in a mailbox q.
LEMMA QueuedFrom ==
  ASSUME NEW q, server'.inbox \in {q, <<>>},
         \A e : Has(q, e) => Has(server.inbox, e)
  PROVE  \A r \in Ref : Has(server'.inbox, Request(r)) => Queued(r)
BY EmptyFacts DEF Queued

\* The outcomes of a callback lead to a phase there is.
LEMMA OutcomesType ==
  ASSUME server \in ServerRecord
  PROVE  /\ \A out \in CallOutcomes : /\ out.reply \in BOOLEAN
                                      /\ out.stop \in BOOLEAN
                                      /\ out.next \in Phase
         /\ \A out \in Outcomes : out.stop \in BOOLEAN /\ out.next \in Phase
BY DEF CallOutcomes, Outcomes, ServerCallOutcomes, StatemCallOutcomes,
       ServerOutcomes, StatemOutcomes, ServerRecord

\* A callback that returns leaves the rest of the mailbox.
LEMMA ReturnedFacts ==
  ASSUME Inv, turn = "other", server.up, NEW out, out.next \in Phase
  PROVE  Returned(out) \in ServerRecord /\ Returned(out).inbox = Rest
BY ClaimFacts DEF Returned, ServerRecord

LEMMA HandleCallStep ==
  ASSUME Inv, HandleCall
  PROVE  StepOK
<1> DEFINE r == server.inbox[Claimed].ref
<1>1. /\ turn = "other" /\ server.up /\ asked' = asked /\ turn' = "none"
      /\ server.inbox[Claimed].kind = "Request"
  BY DEF HandleCall, NextEnvelope, EndOfTurn
<1>2. PICK out \in CallOutcomes :
        /\ server' = StoppedIf(out.stop, AfterCall(r, out))
        /\ IF out.reply THEN ReplyTo(r) ELSE NoReply
  BY DEF HandleCall
<1>3. /\ server \in ServerRecord
      /\ server.inbox[Claimed] \in InboxItem
      /\ Has(server.inbox, server.inbox[Claimed])
      /\ \A e : Has(Rest, e) => Has(server.inbox, e)
  BY <1>1, ClaimFacts
<1>4. PICK q \in Ref : r = q /\ server.inbox[Claimed] = Request(q)
  BY <1>1, <1>3 DEF InboxItem, Request, Item
<1> HIDE DEF r
<1>5. asked[q] # "no"
  BY <1>3, <1>4 DEF Inv, TypeInv, ServerOK, Queued
<1>6. out.stop \in BOOLEAN /\ out.next \in Phase
  BY <1>3, OutcomesType
<1>7. AfterCall(q, out) \in ServerRecord /\ AfterCall(q, out).inbox = Rest
  <2>1. Returned(out) \in ServerRecord /\ Returned(out).inbox = Rest
    BY <1>1, <1>6, ReturnedFacts
  <2> DEFINE s == Returned(out)
  <2>2. s \in ServerRecord /\ s.inbox = Rest
    BY <2>1
  <2> HIDE DEF s
  <2>3. /\ [s EXCEPT !.held = @ \cup {q}] \in ServerRecord
        /\ [s EXCEPT !.held = @ \cup {q}].inbox = Rest
    BY <2>2 DEF ServerRecord
  <2> QED
    BY <2>3 DEF AfterCall, s
<1>8. server' \in ServerRecord /\ server'.inbox \in {Rest, <<>>}
  BY <1>2, <1>4, <1>6, <1>7, StoppedFacts
<1>9. \A s \in Ref : Has(server'.inbox, Request(s)) => Queued(s)
  BY <1>3, <1>8, QueuedFrom
<1>10. ReplyTo(q) \/ NoReply
  BY <1>2, <1>4
<1> QED
  BY <1>1, <1>5, <1>8, <1>9, <1>10, ReplyStep

\* A callback replies and goes on.
LEMMA ReplyInCallbackStep ==
  ASSUME Inv, NEW r \in Ref, ReplyInCallback(r)
  PROVE  StepOK
<1>1. /\ turn = "other" /\ server.up /\ asked[r] # "no" /\ ReplyTo(r)
      /\ server' = [server EXCEPT !.busy = TRUE]
      /\ UNCHANGED <<turn, asked>>
  BY DEF ReplyInCallback, NextEnvelope, MayReply
<1>2. server \in ServerRecord /\ server.inbox # <<>>
  BY <1>1 DEF Inv, TypeInv, ServerOK, LifeOK
<1>3. /\ server' \in ServerRecord /\ server'.inbox = server.inbox
      /\ server'.up = server.up
  BY <1>1, <1>2 DEF ServerRecord
<1>4. \A s \in Ref : Has(server'.inbox, Request(s)) => Queued(s)
  BY <1>3 DEF Queued
<1>5. CASE present
  BY <1>1, <1>2, <1>3, <1>4, <1>5, AnsweringStep
<1>6. CASE ~present
  <2>1. /\ UNCHANGED <<present, mailbox, table, state, key, events, job, wait,
                       robbed, heard, replies>>
    BY <1>1, <1>6 DEF ReplyTo, NoReply, tasks
  <2>2. \A s \in Ref : Unmoved(s)
    BY <1>1, <2>1, UnmovedIf DEF SameCaller, SameAsked, Stays
  <2>3. NoticeInv' /\ \A j \in Job : JobStays(j)
    BY <2>1 DEF Inv, NoticeInv, NoticeOnce, JobStays, Reported, JobQueued,
                JobHeard
  <2>4. DriverOK' /\ QueuesOK' /\ LifeOK' /\ WaitIsBounded'
    BY <1>1, <1>2, <1>3, <2>1
       DEF Inv, TypeInv, DriverOK, QueuesOK, LifeOK, WaitIsBounded, Coming
  <2>5. ServerOK'
    BY <1>1, <1>3, <1>4, <2>1, ServerMoves
  <2> QED
    BY <2>2, <2>3, <2>4, <2>5, JobStaysKeeps
       DEF StepOK, TypeInv, Inv, CallStep
<1> QED
  BY <1>5, <1>6

\* The other callbacks return.
LEMMA CallbackStep ==
  ASSUME Inv, turn = "other", server.up, asked' = asked,
         NEW outcomes \in SUBSET Outcomes, Callback(outcomes)
  PROVE  StepOK
<1>1. server \in ServerRecord /\ \A e : Has(Rest, e) => Has(server.inbox, e)
  BY ClaimFacts
<1>2. PICK out \in outcomes : server' = StoppedIf(out.stop, Returned(out))
  BY DEF Callback
<1>3. out.stop \in BOOLEAN /\ out.next \in Phase
  BY <1>1, OutcomesType
<1>4. server' \in ServerRecord /\ server'.inbox \in {Rest, <<>>}
  BY <1>2, <1>3, ReturnedFacts, StoppedFacts
<1>5. \A r \in Ref : Has(server'.inbox, Request(r)) => Queued(r)
  BY <1>1, <1>4, QueuedFrom
<1> QED
  BY <1>4, <1>5, SilentStep DEF Callback, NoReply, EndOfTurn, tasks

\* init, and the payloads that stop the server.
LEMMA StopStep ==
  ASSUME Inv, NoReply, EndOfTurn, asked' = asked, NEW s \in ServerRecord,
         s.inbox = server.inbox, server' \in {s, Stopped(s)}
  PROVE  StepOK
<1>1. server' \in ServerRecord /\ server'.inbox \in {server.inbox, <<>>}
  BY StoppedFacts
<1>2. \A r \in Ref : Has(server'.inbox, Request(r)) => Queued(r)
  BY <1>1, QueuedFrom
<1> QED
  BY <1>1, <1>2, SilentStep DEF NoReply, EndOfTurn, tasks

LEMMA ServerTurnStep ==
  ASSUME Inv, ServerTurn
  PROVE  StepOK
<1>1. server \in ServerRecord
  BY DEF Inv, TypeInv, ServerOK
<1>2. CASE ServerBegin
  <2>1. /\ UNCHANGED <<present, mailbox, table, state, key, events, wait,
                       robbed, heard, server, asked, replies, job>>
        /\ turn' = "other" /\ (server.up => server.inbox # <<>>)
    BY <1>2 DEF ServerBegin, tasks, peer
  <2> QED
    BY <2>1, IdleStep DEF Inv, TypeInv, DriverOK
<1>3. CASE ServerInit
  <2>1. /\ NoReply /\ EndOfTurn /\ asked' = asked
        /\ server' \in {Initialized, Stopped(Initialized)}
             \/ server' \in {server, Stopped(server)}
    BY <1>3 DEF ServerInit
  <2>2. /\ Initialized \in ServerRecord
        /\ Initialized.inbox = server.inbox
    BY <1>1 DEF Initialized, ServerRecord
  <2> QED
    BY <1>1, <2>1, <2>2, StopStep
<1>4. CASE HandleCall
  BY <1>4, HandleCallStep
<1>5. CASE HandleUser \/ HandleRuntimeInfo
  <2>1. /\ turn = "other" /\ server.up /\ asked' = asked
        /\ Callback(Outcomes)
    BY <1>5 DEF HandleUser, HandleRuntimeInfo, NextEnvelope
  <2> QED
    BY <2>1, CallbackStep
<1>6. CASE InspectState \/ ReplaceState \/ CodeChange
  <2>1. /\ turn = "other" /\ server.up /\ asked' = asked
        /\ \E outcomes \in SUBSET Outcomes : Callback(outcomes)
    BY <1>6 DEF InspectState, ReplaceState, CodeChange, NextEnvelope,
                HookOutcomes
  <2> QED
    BY <2>1, CallbackStep
<1>7. CASE RejectPayload
  <2>1. NoReply /\ EndOfTurn /\ asked' = asked /\ server' = Stopped(server)
    BY <1>7 DEF RejectPayload
  <2> QED
    BY <1>1, <2>1, StopStep
<1>8. ASSUME NEW r \in Ref, ReplyInCallback(r)
      PROVE  StepOK
  BY <1>8, ReplyInCallbackStep
<1> QED
  BY <1>2, <1>3, <1>4, <1>5, <1>6, <1>7, <1>8 DEF ServerTurn
-----------------------------------------------------------------------------
LEMMA WaitsStep ==
  ASSUME Inv, Waits,
         UNCHANGED <<server, sent, asked, replies>>
  PROVE  StepOK
<1>1. CASE ReceiveNext
  BY <1>1, ReceiveNextStep
<1>2. CASE ReceiveWithTimeout
  BY <1>2, ReceiveWithTimeoutStep
<1>3. CASE EndTurn
  BY <1>3, IdleStep DEF EndTurn, tasks, Inv, TypeInv, DriverOK
<1>4. CASE Exit
  BY <1>4, ExitStep
<1>5. ASSUME NEW t \in Token,
             ScheduleAfter(t) \/ CancelTimer(t) \/ ArmReceiveTimeout(t)
      PROVE  StepOK
  BY <1>5, ScheduleAfterStep, CancelTimerStep, ArmReceiveTimeoutStep
<1>6. ASSUME NEW j \in Job, SpawnBlocking(j)
      PROVE  StepOK
  BY <1>6, IdleStep DEF SpawnBlocking, Inv, TypeInv, DriverOK, LifeOK
<1>7. ASSUME NEW n \in Task, Elapse(n)
      PROVE  StepOK
  BY <1>7, ElapseStep
<1>8. ASSUME NEW j \in Job, JobDone(j)
      PROVE  StepOK
  BY <1>8, JobDoneStep
<1>9. ASSUME NEW j \in Job, JobPanics(j)
      PROVE  StepOK
  BY <1>9, IdleStep DEF JobPanics, Inv, TypeInv, DriverOK, LifeOK
<1>10. CASE DrainEvents
  BY <1>10, DrainEventsStep
<1>11. CASE OtherMail("User") \/ OtherMail("System")
  BY <1>11, OtherMailStep
<1> QED
  BY <1>1, <1>2, <1>3, <1>4, <1>5, <1>6, <1>7, <1>8, <1>9, <1>10, <1>11
     DEF Waits, Turns, Pool

LEMMA NextStep ==
  ASSUME Inv, [Next]_vars
  PROVE  Inv' /\ CallStep
<1>1. StepOK
  <2>1. CASE Waits /\ UNCHANGED peer
    BY <2>1, WaitsStep DEF peer
  <2>2. CASE ServerTurn
    BY <2>2, ServerTurnStep
  <2>3. ASSUME NEW r \in Ref, NEW timed \in BOOLEAN, Ask(r, timed)
        PROVE  StepOK
    BY <2>3, AskStep
  <2>4. ASSUME NEW kind \in {"User", "Exit", "System"}, Tell(kind)
        PROVE  StepOK
    BY <2>4, TellStep
  <2>5. ASSUME NEW r \in Ref, ReplyElsewhere(r)
        PROVE  StepOK
    BY <2>5, ReplyElsewhereStep
  <2>6. CASE UNCHANGED vars
    BY <2>6, IdleStep
       DEF vars, waiter, peer, tasks, Inv, TypeInv, DriverOK, LifeOK
  <2> QED
    BY <2>1, <2>2, <2>3, <2>4, <2>5, <2>6 DEF Next
<1>2. \A r \in Ref : CallInv(r)'
  BY <1>1, CallStepKeeps DEF StepOK, Inv
<1> QED
  BY <1>1, <1>2 DEF StepOK, Inv

LEMMA InvInit == Init => Inv
<1> SUFFICES ASSUME Init PROVE Inv
  OBVIOUS
<1>1. /\ mailbox = <<>> /\ heard = <<>> /\ events = <<>> /\ wait = NoWait
      /\ table = [k \in Key |-> Free]
      /\ asked = [r \in Ref |-> "no"] /\ job = [j \in Job |-> "none"]
      /\ replies = [r \in Ref |-> [given |-> 0, accepted |-> {}]]
  BY DEF Init, InitWaits
<1>2. \A e : ~Has(<<>>, e) /\ Once(<<>>, e)
  BY EmptyFacts
<1>3. NoticeInv
  BY <1>1, <1>2 DEF NoticeInv, NoticeOnce
<1>4. \A r \in Ref : CallInv(r)
  BY <1>1, <1>2
     DEF CallInv, Armed, TimeoutQueued, TimeoutHeard, Given, Accepted, Key
<1>5. \A j \in Job : JobInv(j)
  BY <1>1, <1>2 DEF JobInv, Reported, JobQueued, JobHeard
<1>6. WaitIsBounded
  BY <1>1 DEF WaitIsBounded
<1> QED
  BY <1>3, <1>4, <1>5, <1>6, TypeInit DEF Inv

LEMMA Invariance == Spec => []Inv
<1>1. Inv /\ [Next]_vars => Inv'
  BY NextStep
<1> QED
  BY InvInit, <1>1, PTL DEF Spec
-----------------------------------------------------------------------------
\* Caller, driver, pool and server keep their types: an actor that is gone has
\* no mail and no handles left (finish_actor), and a server that is given a
\* turn has an envelope to take (run_once).
THEOREM TypeCorrect == Spec => []TypeInv
BY Invariance, PTL DEF Inv

\* An actor in a wait state has the firing of its timeout to come, or a message
\* for the runtime has cost it the timeout (receive_selective_with_timeout).
THEOREM WaitsEnd == Spec => []WaitIsBounded
BY Invariance, PTL DEF Inv

\* No reply, CallTimeout or completion is heard of twice, and a reply that was
\* accepted (push_envelope) is in the caller's mailbox or was received, however
\* often the call is answered: cancel_call_timeout withdraws the timeout and
\* nothing else, and an event without a handle is dropped (ingest_event).
THEOREM NothingTwice == Spec => []HeardOnce
<1>1. Inv => HeardOnce
  <2> SUFFICES ASSUME Inv PROVE HeardOnce
    OBVIOUS
  <2>1. ASSUME NEW i \in DOMAIN heard, NEW k \in DOMAIN heard,
               heard[i] = heard[k]
        PROVE  i = k
    <3>1. heard[i] \in Notice
      BY ElementOfSeq DEF Inv, TypeInv, QueuesOK
    <3> QED
      BY <2>1, <3>1 DEF Inv, NoticeInv, NoticeOnce, Once
  <2>2. ASSUME NEW r \in Ref, NEW n \in replies[r].accepted
        PROVE  /\ ~(InMailbox(Answer(r, n)) /\ Got(Answer(r, n)))
               /\ present => InMailbox(Answer(r, n)) \/ Got(Answer(r, n))
    <3>1. n \in Nat /\ n \in Accepted(r) /\ CallInv(r)
      BY DEF Inv, TypeInv, ServerOK, Accepted
    <3>2. NoticeOnce(Answer(r, n))
      BY <3>1, EnvelopesIn DEF Inv, NoticeInv
    <3>3. /\ InMailbox(Answer(r, n)) <=> Has(mailbox, Answer(r, n))
          /\ Got(Answer(r, n)) <=> Has(heard, Answer(r, n))
      BY DEF InMailbox, Got, Has
    <3> QED
      BY <3>1, <3>2, <3>3 DEF NoticeOnce, CallInv
  <2> QED
    BY <2>1, <2>2 DEF HeardOnce
<1> QED
  BY <1>1, Invariance, PTL

\* The completion of a job is in the channel, in the mailbox or heard of, in
\* one of them and once (ingest_event, enqueue_runtime_envelope).
THEOREM JobsHeard == Spec => []JobsHeardOnce
<1>1. Inv => JobsHeardOnce
  <2> SUFFICES ASSUME Inv, NEW j \in Job
      PROVE LET times(s) == Cardinality({i \in DOMAIN s : s[i] = Env("Task", j)})
            IN  /\ times(events) + times(mailbox) + times(heard)
                     <= (IF job[j] = "done" THEN 1 ELSE 0)
                /\ (present /\ job[j] = "done" =>
                      times(events) + times(mailbox) + times(heard) = 1)
    BY DEF JobsHeardOnce
  <2> DEFINE e == Env("Task", j)
             times(s) == Cardinality({i \in DOMAIN s : s[i] = e})
  <2>1. JobInv(j) /\ Once(mailbox, e) /\ Once(heard, e)
        /\ ~(Has(mailbox, e) /\ Has(heard, e))
    BY EnvelopesIn DEF Inv, NoticeInv, NoticeOnce
  <2>2. /\ times(events) = IF Reported(j) THEN 1 ELSE 0
        /\ times(mailbox) = IF JobQueued(j) THEN 1 ELSE 0
        /\ times(heard) = IF JobHeard(j) THEN 1 ELSE 0
    BY <2>1, CountFacts DEF JobInv, Reported, JobQueued, JobHeard
  <2>3. ~(JobQueued(j) /\ JobHeard(j))
    BY <2>1 DEF JobQueued, JobHeard
  <2> HIDE DEF times
  <2>4. /\ times(events) + times(mailbox) + times(heard)
             <= (IF job[j] = "done" THEN 1 ELSE 0)
        /\ (present /\ job[j] = "done" =>
              times(events) + times(mailbox) + times(heard) = 1)
    BY <2>1, <2>2, <2>3 DEF JobInv
  <2> QED
    BY <2>4 DEF times
<1> QED
  BY <1>1, Invariance, PTL

\* A call to a typed server is a call of module Calls, step by step, however
\* often it is answered: no CallTimeout is received after a reply, received or
\* refused, and an answer that was accepted is received.  The fairness of Calls
\* is not part of this.
THEOREM CallsRefined == Spec => Promise!Init /\ [][Promise!Next]_CallSeen
<1>1. Init => Promise!Init
  <2> SUFFICES ASSUME Init PROVE Promise!Init
    OBVIOUS
  <2>1. present /\ asked = [r \in Ref |-> "no"]
    BY DEF Init, InitWaits
  <2> QED
    BY <2>1 DEF Promise!Init, CallSeen
<1>2. Inv /\ [Next]_vars => [Promise!Next]_CallSeen
  BY NextStep, StepRefines DEF Inv
<1> QED
  BY <1>1, <1>2, Invariance, PTL DEF Spec
=============================================================================
