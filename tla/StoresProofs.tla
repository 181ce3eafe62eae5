---------------------------- MODULE StoresProofs ----------------------------
(***************************************************************************)
(* Proofs about what the runtimes store and touch under exclusive access:  *)
(* first the mailbox of an actor, then the ids, table and names of all.    *)
(***************************************************************************)
EXTENDS Mailbox, Directory, SequenceTheorems, FiniteSetTheorems, TLAPS
-----------------------------------------------------------------------------
(* The mailbox, for every capacity, reserve, set of envelopes and set of   *)
(* selective-receive predicates.                                           *)
\* Removing the entry at a position keeps a queue a queue, one shorter, whose
\* entries are the others in their order (VecDeque::remove).
LEMMA RemoveEntryProperties ==
  ASSUME NEW S, NEW q \in Seq(S), NEW i \in DOMAIN q
  PROVE  /\ RemoveEntry(q, i) \in Seq(S)
         /\ Len(RemoveEntry(q, i)) = Len(q) - 1
         /\ DOMAIN RemoveEntry(q, i) = 1..(Len(q) - 1)
         /\ \A j \in 1..(Len(q) - 1) :
              /\ RemoveEntry(q, i)[j] = q[IF j < i THEN j ELSE j + 1]
              /\ (IF j < i THEN j ELSE j + 1) \in DOMAIN q
<1>1. /\ Len(q) \in Nat
      /\ DOMAIN q = 1..Len(q)
      /\ \A k \in 1..Len(q) : q[k] \in S
  BY LenProperties, ElementOfSeq
<1>2. Len(q) - 1 \in Nat
  BY <1>1
<1>3. \A j \in 1..(Len(q) - 1) : (IF j < i THEN j ELSE j + 1) \in 1..Len(q)
  BY <1>1
<1>4. RemoveEntry(q, i) \in [1..(Len(q) - 1) -> S]
  BY <1>1, <1>3 DEF RemoveEntry
<1>5. RemoveEntry(q, i) \in Seq(S)
  BY <1>2, <1>4, IsASeq DEF RemoveEntry
<1>6. Len(RemoveEntry(q, i)) = Len(q) - 1
  BY <1>2, <1>4, <1>5, LenProperties
<1> QED
  BY <1>1, <1>3, <1>4, <1>5, <1>6 DEF RemoveEntry

\* Pushing appends one entry that carries the old sequence number.
LEMMA PushProperties ==
  ASSUME TypeOK, NEW env \in Offers, Push(env)
  PROVE  /\ queue' \in Seq(Entry)
         /\ Len(queue') = Len(queue) + 1
         /\ DOMAIN queue' = 1..(Len(queue) + 1)
         /\ DOMAIN queue = 1..Len(queue)
         /\ \A j \in DOMAIN queue : queue'[j] = queue[j]
         /\ queue'[Len(queue) + 1] =
              [seq |-> nextSequence, kind |-> env.kind, ref |-> env.ref]
         /\ nextSequence' = nextSequence + 1
<1> DEFINE e == [seq |-> nextSequence, kind |-> env.kind, ref |-> env.ref]
<1>1. e \in Entry
  BY OffersAssumption DEF TypeOK, Entry
<1>2. queue \in Seq(Entry) /\ queue' = Append(queue, e)
  BY DEF TypeOK, Push
<1> QED
  BY <1>1, <1>2, AppendProperties, LenProperties DEF Push

\* A claimed entry never overtakes an older one of its class: not a System
\* message or a signal whatever the receive, and not ordinary mail either
\* when the receive is the plain one.
NoOvertaking(i) ==
  \A j \in 1..(i - 1) :
    queue[j].kind \in {"System", "Exit", "Down"}
      => ClassOf(queue[j].kind) # ClassOf(queue[i].kind)

NoOvertakingAtAll(i) ==
  \A j \in 1..(i - 1) : ClassOf(queue[j].kind) # ClassOf(queue[i].kind)

LEMMA NextDoesNotOvertake ==
  ASSUME TypeOK, NEW i \in DOMAIN queue, TakesNext(queue, suspended, i)
  PROVE  NoOvertaking(i) /\ NoOvertakingAtAll(i)
<1>1. DOMAIN queue = 1..Len(queue) /\ Len(queue) \in Nat
  BY LenProperties DEF TypeOK
<1>2. CASE FirstMatch(RunnableWhileSuspended(queue), i)
  BY <1>1, <1>2
     DEF FirstMatch, RunnableWhileSuspended, CanRunWhileSuspended,
         NoOvertaking, NoOvertakingAtAll, ClassOf
<1>3. CASE FirstMatch(SystemMessages(queue), i)
  BY <1>1, <1>3
     DEF FirstMatch, SystemMessages, IsSystemMessage, NoOvertaking,
         NoOvertakingAtAll, ClassOf
<1>4. CASE i = 1
  BY <1>4 DEF NoOvertaking, NoOvertakingAtAll
<1> QED
  BY <1>2, <1>3, <1>4 DEF TakesNext

LEMMA SelectiveDoesNotOvertake ==
  ASSUME TypeOK, NEW want, NEW w, NEW i \in DOMAIN queue,
         TakesSelective(queue, suspended, w, want, i)
  PROVE  NoOvertaking(i)
<1>1. DOMAIN queue = 1..Len(queue) /\ Len(queue) \in Nat
  BY LenProperties DEF TypeOK
<1>2. CASE FirstMatch(RunnableWhileSuspended(queue), i)
  BY <1>1, <1>2
     DEF FirstMatch, RunnableWhileSuspended, CanRunWhileSuspended,
         NoOvertaking, ClassOf
<1>3. CASE FirstMatch(Bypassing(queue), i)
  BY <1>1, <1>3
     DEF FirstMatch, Bypassing, BypassesUserSelectiveReceive, NoOvertaking,
         ClassOf
<1>4. CASE i \notin Bypassing(queue)
  BY <1>1, <1>4 DEF Bypassing, BypassesUserSelectiveReceive, NoOvertaking, ClassOf
<1>5. \/ FirstMatch(RunnableWhileSuspended(queue), i)
      \/ FirstMatch(Bypassing(queue), i)
      \/ i \notin Bypassing(queue)
  BY DEF TakesSelective, FirstMatch
<1> QED
  BY <1>2, <1>3, <1>4, <1>5

\* Every step is an accepted push, a delivery that overtakes nothing it must
\* not, a withdrawal, a new call or a stutter.
LEMMA StepCases ==
  ASSUME TypeOK, [Next]_vars
  PROVE  \/ \E env \in Offers : TryPush(env)
         \/ \E i \in DOMAIN queue :
              /\ Deliver(i)
              /\ NoOvertaking(i)
              /\ ~selective' => ~selective /\ NoOvertakingAtAll(i)
         \/ \E i \in DOMAIN queue :
              /\ queue' = RemoveEntry(queue, i)
              /\ UNCHANGED <<nextSequence, suspended, calls, taken, selective>>
         \/ \E ref \in Refs : Ask(ref)
         \/ UNCHANGED vars
<1>1. ASSUME ReceiveNext
      PROVE  \E i \in DOMAIN queue :
               /\ Deliver(i)
               /\ NoOvertaking(i)
               /\ ~selective' => ~selective /\ NoOvertakingAtAll(i)
  BY <1>1, NextDoesNotOvertake DEF ReceiveNext
<1>2. ASSUME NEW want, NEW w, ReceiveSelective(want, w)
      PROVE  \E i \in DOMAIN queue :
               /\ Deliver(i)
               /\ NoOvertaking(i)
               /\ ~selective' => ~selective /\ NoOvertakingAtAll(i)
  BY <1>2, SelectiveDoesNotOvertake DEF ReceiveSelective
<1>3. ASSUME NEW env \in Offers, Withdraw(env)
      PROVE  \E i \in DOMAIN queue :
              /\ queue' = RemoveEntry(queue, i)
              /\ UNCHANGED <<nextSequence, suspended, calls, taken, selective>>
  BY <1>3 DEF Withdraw
<1> QED
  BY <1>1, <1>2, <1>3 DEF Next
-----------------------------------------------------------------------------
LEMMA TypeInductive == TypeOK /\ [Next]_vars => TypeOK'
<1> SUFFICES ASSUME TypeOK, [Next]_vars PROVE TypeOK'
  OBVIOUS
<1>1. ASSUME NEW env \in Offers, TryPush(env) PROVE TypeOK'
  <2>1. Push(env)
    BY <1>1 DEF TryPush
  <2>2. queue' \in Seq(Entry) /\ nextSequence' = nextSequence + 1
    BY <2>1, PushProperties
  <2>3. UNCHANGED <<suspended, calls, taken, selective>>
    BY <1>1 DEF TryPush
  <2> QED
    BY <2>2, <2>3 DEF TypeOK
<1>2. ASSUME NEW i \in DOMAIN queue, Deliver(i) PROVE TypeOK'
  <2>1. queue' \in Seq(Entry)
    BY <1>2, RemoveEntryProperties DEF TypeOK, Deliver
  <2>2. queue[i] \in Entry
    BY ElementOfSeq, LenProperties DEF TypeOK
  <2>3. ClassOf(queue[i].kind) \in Class
    BY DEF ClassOf, Class
  <2>4. taken' \in [Class -> Nat]
    BY <1>2, <2>2, <2>3 DEF TypeOK, Deliver, Entry
  <2>5. suspended' \in BOOLEAN
    BY <1>2 DEF TypeOK, Deliver, ApplySystemMessageEffects
  <2>6. nextSequence' \in Nat /\ calls' \subseteq [ref : Refs, watermark : Nat]
    BY <1>2 DEF TypeOK, Deliver
  <2>7. selective' \in BOOLEAN
    BY DEF Next, vars, TypeOK, TryPush, ReceiveNext, ReceiveSelective, Ask,
           Withdraw
  <2> QED
    BY <2>1, <2>4, <2>5, <2>6, <2>7 DEF TypeOK
<1>3. ASSUME NEW i \in DOMAIN queue, queue' = RemoveEntry(queue, i),
             UNCHANGED <<nextSequence, suspended, calls, taken, selective>>
      PROVE  TypeOK'
  BY <1>3, RemoveEntryProperties DEF TypeOK
<1>4. ASSUME NEW ref \in Refs, Ask(ref) PROVE TypeOK'
  BY <1>4 DEF TypeOK, Ask
<1>5. CASE UNCHANGED vars
  BY <1>5 DEF TypeOK, vars
<1> QED
  BY <1>1, <1>2, <1>3, <1>4, <1>5, StepCases

\* The mailbox keeps its types.
THEOREM TypeCorrect == Spec => []TypeOK
<1>1. Init => TypeOK
  <2> SUFFICES ASSUME Init PROVE TypeOK
    OBVIOUS
  <2>1. queue \in Seq(Entry)
    BY EmptySeq DEF Init
  <2> QED
    BY <2>1 DEF Init, TypeOK
<1> QED
  BY <1>1, TypeInductive, PTL DEF Spec

-----------------------------------------------------------------------------
\* An accepted push: the new entry is the newest of all.
LEMMA PushKeepsDeliveryInv ==
  ASSUME TypeOK, DeliveryInv, NEW env \in Offers, TryPush(env)
  PROVE  DeliveryInv'
<1>1. Push(env) /\ UNCHANGED <<calls, taken, selective>>
  BY DEF TryPush
<1>2. /\ DOMAIN queue = 1..Len(queue)
      /\ Len(queue) \in Nat
      /\ DOMAIN queue' = 1..(Len(queue) + 1)
      /\ \A j \in DOMAIN queue : queue'[j] = queue[j] /\ queue[j].seq \in Nat
      /\ queue'[Len(queue) + 1] =
           [seq |-> nextSequence, kind |-> env.kind, ref |-> env.ref]
      /\ nextSequence' = nextSequence + 1
      /\ nextSequence \in Nat
  <2>1. queue \in Seq(Entry) /\ nextSequence \in Nat
    BY DEF TypeOK
  <2>2. /\ DOMAIN queue = 1..Len(queue)
        /\ Len(queue) \in Nat
        /\ \A j \in DOMAIN queue : queue[j] \in Entry
    BY <2>1, LenProperties, ElementOfSeq
  <2>3. \A j \in DOMAIN queue : queue[j].seq \in Nat
    BY <2>2 DEF Entry
  <2>4. /\ DOMAIN queue' = 1..(Len(queue) + 1)
        /\ \A j \in DOMAIN queue : queue'[j] = queue[j]
        /\ queue'[Len(queue) + 1] =
             [seq |-> nextSequence, kind |-> env.kind, ref |-> env.ref]
        /\ nextSequence' = nextSequence + 1
    BY <1>1, PushProperties
  <2> QED
    BY <2>1, <2>2, <2>3, <2>4
<1>3. \A j \in DOMAIN queue' : j \in DOMAIN queue \/ j = Len(queue) + 1
  BY <1>2
<1>4. SequencesOrdered'
  BY <1>2, <1>3 DEF DeliveryInv, SequencesOrdered
<1>5. HistoryBounded'
  BY <1>1, <1>2 DEF DeliveryInv, HistoryBounded, TypeOK
<1>6. \A kind : ClassOf(kind) \in Class
  BY DEF ClassOf, Class
<1>7. ControlTrafficFifo'
  BY <1>1, <1>2, <1>3, <1>6
     DEF DeliveryInv, ControlTrafficFifo, HistoryBounded
<1>8. OrdinaryFifoUnlessSelective'
  BY <1>1, <1>2, <1>3
     DEF DeliveryInv, OrdinaryFifoUnlessSelective, HistoryBounded, Class
<1>9. WatermarkCoversReply'
  BY <1>1, <1>2, <1>3 DEF DeliveryInv, WatermarkCoversReply, HistoryBounded
<1>10. RepliesAsked'
  <2>1. env.kind = "Reply" => \E c \in calls : c.ref = env.ref
    BY DEF TryPush, Answerable
  <2> QED
    BY <1>1, <1>2, <1>3, <2>1 DEF DeliveryInv, RepliesAsked
<1> QED
  BY <1>4, <1>5, <1>7, <1>8, <1>9, <1>10 DEF DeliveryInv

\* The entries left after a removal come from other positions of the old
\* queue, in the same order.
LEMMA RemovalSources ==
  ASSUME TypeOK, NEW i \in DOMAIN queue, queue' = RemoveEntry(queue, i)
  PROVE  \A j \in DOMAIN queue' : \E k \in DOMAIN queue :
           /\ queue'[j] = queue[k]
           /\ k = IF j < i THEN j ELSE j + 1
           /\ k # i
<1>1. queue \in Seq(Entry)
  BY DEF TypeOK
<1>2. DOMAIN queue = 1..Len(queue) /\ Len(queue) \in Nat
  BY <1>1, LenProperties
<1>3. /\ DOMAIN queue' = 1..(Len(queue) - 1)
      /\ \A j \in 1..(Len(queue) - 1) :
           queue'[j] = queue[IF j < i THEN j ELSE j + 1]
  BY <1>1, RemoveEntryProperties
<1> SUFFICES ASSUME NEW j \in DOMAIN queue'
             PROVE  LET k == IF j < i THEN j ELSE j + 1
                    IN  k \in DOMAIN queue /\ queue'[j] = queue[k] /\ k # i
  OBVIOUS
<1> QED
  BY <1>2, <1>3

\* A removal that delivers nothing.
LEMMA WithdrawalKeepsDeliveryInv ==
  ASSUME TypeOK, DeliveryInv, NEW i \in DOMAIN queue,
         queue' = RemoveEntry(queue, i),
         UNCHANGED <<nextSequence, calls, taken, selective>>
  PROVE  DeliveryInv'
<1>1. \A j \in DOMAIN queue' : \E k \in DOMAIN queue :
           /\ queue'[j] = queue[k]
           /\ k = IF j < i THEN j ELSE j + 1
           /\ k # i
  BY RemovalSources
<1>2. DOMAIN queue \subseteq Nat /\ DOMAIN queue' \subseteq Nat
  BY RemoveEntryProperties, LenProperties DEF TypeOK
<1>3. SequencesOrdered'
  BY <1>1, <1>2 DEF DeliveryInv, SequencesOrdered
<1>4. HistoryBounded'
  BY DEF DeliveryInv, HistoryBounded
<1>5. ControlTrafficFifo'
  BY <1>1 DEF DeliveryInv, ControlTrafficFifo
<1>6. OrdinaryFifoUnlessSelective'
  BY <1>1 DEF DeliveryInv, OrdinaryFifoUnlessSelective
<1>7. WatermarkCoversReply'
  BY <1>1 DEF DeliveryInv, WatermarkCoversReply
<1>8. RepliesAsked'
  BY <1>1 DEF DeliveryInv, RepliesAsked
<1> QED
  BY <1>3, <1>4, <1>5, <1>6, <1>7, <1>8 DEF DeliveryInv

\* A delivery: what is left of the class of the claimed entry is newer.
LEMMA DeliveryKeepsDeliveryInv ==
  ASSUME TypeOK, DeliveryInv, NEW i \in DOMAIN queue, Deliver(i),
         NoOvertaking(i), ~selective' => ~selective /\ NoOvertakingAtAll(i)
  PROVE  DeliveryInv'
<1>1. /\ queue' = RemoveEntry(queue, i)
      /\ taken' = [taken EXCEPT ![ClassOf(queue[i].kind)] = queue[i].seq + 1]
      /\ UNCHANGED <<nextSequence, calls>>
  BY DEF Deliver
<1>2. \A j \in DOMAIN queue' : \E k \in DOMAIN queue :
           /\ queue'[j] = queue[k]
           /\ k = IF j < i THEN j ELSE j + 1
           /\ k # i
  BY <1>1, RemovalSources
<1>3. /\ DOMAIN queue = 1..Len(queue)
      /\ Len(queue) \in Nat
      /\ DOMAIN queue' \subseteq Nat
      /\ \A k \in DOMAIN queue : queue[k] \in Entry
  BY <1>1, RemoveEntryProperties, LenProperties, ElementOfSeq DEF TypeOK
<1>4. \A k \in DOMAIN queue : queue[k].seq \in Nat
  BY <1>3 DEF Entry
<1>5. nextSequence \in Nat /\ taken \in [Class -> Nat]
  BY DEF TypeOK
<1>6. \A kind : ClassOf(kind) \in Class
  BY DEF ClassOf, Class
<1>7. SequencesOrdered'
  BY <1>1, <1>2, <1>3 DEF DeliveryInv, SequencesOrdered
<1>8. \A c \in Class :
        taken'[c] = IF c = ClassOf(queue[i].kind) THEN queue[i].seq + 1
                                                  ELSE taken[c]
  BY <1>1, <1>5
<1>9. HistoryBounded'
  BY <1>1, <1>4, <1>5, <1>8 DEF DeliveryInv, HistoryBounded, SequencesOrdered
\* An entry older than i keeps its bound; a newer one is above i's.
<1>10. \A k \in DOMAIN queue : k > i => queue[k].seq >= queue[i].seq + 1
  BY <1>3, <1>4 DEF DeliveryInv, SequencesOrdered
<1>11. ControlTrafficFifo'
  <2> SUFFICES ASSUME NEW k \in DOMAIN queue, k # i,
                      queue[k].kind \in {"System", "Exit", "Down"}
               PROVE  queue[k].seq >= taken'[ClassOf(queue[k].kind)]
    BY <1>2 DEF ControlTrafficFifo
  <2>1. CASE k < i
    <3>1. ClassOf(queue[k].kind) # ClassOf(queue[i].kind)
      BY <1>3, <2>1 DEF NoOvertaking
    <3> QED
      BY <1>6, <1>8, <3>1 DEF DeliveryInv, ControlTrafficFifo
  <2>2. CASE k > i
    BY <1>6, <1>8, <1>10, <2>2 DEF DeliveryInv, ControlTrafficFifo
  <2> QED
    BY <1>3, <2>1, <2>2
<1>12. OrdinaryFifoUnlessSelective'
  <2> SUFFICES ASSUME ~selective', NEW k \in DOMAIN queue, k # i,
                      ClassOf(queue[k].kind) = "ordinary"
               PROVE  queue[k].seq >= taken'["ordinary"]
    BY <1>2 DEF OrdinaryFifoUnlessSelective
  <2>1. queue[k].seq >= taken["ordinary"]
    BY DEF DeliveryInv, OrdinaryFifoUnlessSelective
  <2>2. CASE k < i
    <3>1. ClassOf(queue[k].kind) # ClassOf(queue[i].kind)
      BY <1>3, <2>2 DEF NoOvertakingAtAll
    <3> QED
      BY <1>8, <2>1, <3>1 DEF Class
  <2>3. CASE k > i
    BY <1>8, <1>10, <2>1, <2>3 DEF Class
  <2> QED
    BY <1>3, <2>2, <2>3
<1>13. WatermarkCoversReply'
  BY <1>1, <1>2 DEF DeliveryInv, WatermarkCoversReply
<1>14. RepliesAsked'
  BY <1>1, <1>2 DEF DeliveryInv, RepliesAsked
<1> QED
  BY <1>7, <1>9, <1>11, <1>12, <1>13, <1>14 DEF DeliveryInv

LEMMA AskKeepsDeliveryInv ==
  ASSUME TypeOK, DeliveryInv, NEW ref \in Refs, Ask(ref)
  PROVE  DeliveryInv'
<1>1. UNCHANGED <<queue, nextSequence, taken, selective>>
  BY DEF Ask
<1>2. calls' = calls \cup {[ref |-> ref, watermark |-> nextSequence]}
  BY DEF Ask
<1>3. HistoryBounded'
  BY <1>1, <1>2 DEF DeliveryInv, HistoryBounded, TypeOK
<1>4. WatermarkCoversReply'
  BY <1>1, <1>2 DEF DeliveryInv, WatermarkCoversReply, RepliesAsked, Ask
<1>5. RepliesAsked'
  BY <1>1, <1>2 DEF DeliveryInv, RepliesAsked
<1> QED
  BY <1>1, <1>3, <1>4, <1>5
     DEF DeliveryInv, SequencesOrdered, ControlTrafficFifo,
         OrdinaryFifoUnlessSelective

\* The delivery order is an inductive invariant on top of the types.
THEOREM DeliveryOrder == Spec => []DeliveryInv
<1>1. Init => DeliveryInv
  BY DEF Init, DeliveryInv, SequencesOrdered, HistoryBounded,
         ControlTrafficFifo, OrdinaryFifoUnlessSelective, RepliesAsked,
         WatermarkCoversReply
<1>2. TypeOK /\ DeliveryInv /\ [Next]_vars => DeliveryInv'
  <2> SUFFICES ASSUME TypeOK, DeliveryInv, [Next]_vars PROVE DeliveryInv'
    OBVIOUS
  <2>1. CASE UNCHANGED vars
    BY <2>1 DEF vars, DeliveryInv, SequencesOrdered, HistoryBounded,
         ControlTrafficFifo, OrdinaryFifoUnlessSelective, RepliesAsked,
         WatermarkCoversReply
  <2> QED
    BY <2>1, StepCases, PushKeepsDeliveryInv, DeliveryKeepsDeliveryInv,
       WithdrawalKeepsDeliveryInv, AskKeepsDeliveryInv
<1> QED
  BY <1>1, <1>2, TypeCorrect, PTL DEF Spec

\* System messages, and exit and down signals, are delivered in the order
\* they arrived in, for every mix of receives.
THEOREM ControlFifo == Spec => []ControlTrafficFifo
<1>1. DeliveryInv => ControlTrafficFifo
  BY DEF DeliveryInv
<1> QED
  BY <1>1, DeliveryOrder, PTL

\* An actor that never receives selectively gets its other mail in the order it
\* arrived in too, through any number of suspensions.
THEOREM OrdinaryFifo == Spec => []OrdinaryFifoUnlessSelective
<1>1. DeliveryInv => OrdinaryFifoUnlessSelective
  BY DEF DeliveryInv
<1> QED
  BY <1>1, DeliveryOrder, PTL

\* A receive from the watermark of a call never misses its reply.
THEOREM WatermarkSound == Spec => []WatermarkCoversReply
<1>1. DeliveryInv => WatermarkCoversReply
  BY DEF DeliveryInv
<1> QED
  BY <1>1, DeliveryOrder, PTL

-----------------------------------------------------------------------------
\* The limits with_limits settles on: room for one envelope, and a reserve
\* strictly below the capacity.
LEMMA LimitsSane ==
  capacity \in Nat /\ reserve \in Nat /\ capacity - reserve \in Nat
  /\ capacity - reserve >= 1
BY LimitsAssumption
   DEF capacity, reserve, EffectiveCapacity, EffectiveReserve

LEMMA ApplicationFinite ==
  ASSUME TypeOK
  PROVE  /\ IsFiniteSet(Application)
         /\ Cardinality(Application) \in Nat
         /\ Cardinality(Application) <= Len(queue)
         /\ IsFiniteSet(DOMAIN queue)
         /\ Cardinality(DOMAIN queue) = Len(queue)
<1>1. DOMAIN queue = 1..Len(queue) /\ Len(queue) \in Nat
  BY LenProperties DEF TypeOK
<1>2. IsFiniteSet(DOMAIN queue) /\ Cardinality(DOMAIN queue) = Len(queue)
  <2>1. 1 \in Int /\ Len(queue) \in Int
    BY <1>1
  <2>2. IsFiniteSet(1..Len(queue))
        /\ Cardinality(1..Len(queue))
             = IF 1 > Len(queue) THEN 0 ELSE Len(queue) - 1 + 1
    BY <2>1, FS_Interval
  <2> QED
    BY <1>1, <2>2
<1>3. Application \in SUBSET (DOMAIN queue)
  BY DEF Application
<1>4. IsFiniteSet(Application)
      /\ Cardinality(Application) <= Cardinality(DOMAIN queue)
  BY <1>2, <1>3, FS_Subset
<1> QED
  BY <1>2, <1>4, FS_CardinalityType

\* Removing an entry does not add application mail: the positions that are
\* left map one to one to old positions.
LEMMA RemovalKeepsReserve ==
  ASSUME TypeOK, TypeOK', ReserveKept, NEW i \in DOMAIN queue,
         queue' = RemoveEntry(queue, i)
  PROVE  ReserveKept'
<1> DEFINE src == [j \in Application' |-> IF j < i THEN j ELSE j + 1]
<1>1. \A j \in DOMAIN queue' : \E k \in DOMAIN queue :
           /\ queue'[j] = queue[k]
           /\ k = IF j < i THEN j ELSE j + 1
           /\ k # i
  BY RemovalSources
<1>2. DOMAIN queue \subseteq Nat /\ DOMAIN queue' \subseteq Nat
  BY RemoveEntryProperties, LenProperties DEF TypeOK
<1>3. src \in [Application' -> Application]
  BY <1>1 DEF Application
<1>4. \A j, k \in Application' : src[j] = src[k] => j = k
  BY <1>2 DEF Application
<1>5. src \in Injection(Application', Application)
  BY <1>3, <1>4 DEF Injection, IsInjective
<1>6. Cardinality(Application') <= Cardinality(Application)
  BY <1>5, FS_Injection, ApplicationFinite
<1>7. Cardinality(Application) \in Nat /\ Cardinality(Application') \in Nat
  <2>1. IsFiniteSet(Application')
    BY <1>5, FS_Injection, ApplicationFinite
  <2> QED
    BY <2>1, FS_CardinalityType, ApplicationFinite
<1>8. capacity' = capacity /\ reserve' = reserve
  BY DEF capacity, reserve
<1>9. Cardinality(Application)' = Cardinality(Application')
  OBVIOUS
<1> QED
  BY <1>6, <1>7, <1>8, <1>9, LimitsSane DEF ReserveKept

LEMMA PushKeepsReserve ==
  ASSUME TypeOK, TypeOK', ReserveKept, NEW env \in Offers, TryPush(env)
  PROVE  ReserveKept'
<1>1. Push(env) /\ ~IsFullFor(queue, env.kind, capacity, reserve, Unbounded)
  BY DEF TryPush
<1>2. /\ DOMAIN queue = 1..Len(queue)
      /\ Len(queue') = Len(queue) + 1
      /\ DOMAIN queue' = 1..(Len(queue) + 1)
      /\ \A j \in DOMAIN queue : queue'[j] = queue[j]
      /\ queue'[Len(queue) + 1].kind = env.kind
  <2>1. queue'[Len(queue) + 1] =
          [seq |-> nextSequence, kind |-> env.kind, ref |-> env.ref]
    BY <1>1, PushProperties
  <2> QED
    BY <1>1, <2>1, PushProperties
<1>3. Len(queue) \in Nat
  BY LenProperties DEF TypeOK
<1> SUFFICES ASSUME capacity # Unbounded
             PROVE  Cardinality(Application') <= capacity - reserve
  BY DEF ReserveKept, capacity, reserve
<1>4. CASE UsesRuntimeReserve(env.kind)
  <2>1. Application' = Application
    BY <1>2, <1>3, <1>4 DEF Application
  <2> QED
    BY <2>1 DEF ReserveKept
<1>5. CASE ~UsesRuntimeReserve(env.kind)
  <2>1. Len(queue) + 1 <= capacity - reserve
    BY <1>1, <1>3, <1>5, LimitsSane DEF IsFullFor
  <2>2. Application' \in SUBSET (1..(Len(queue) + 1))
    BY <1>2 DEF Application
  <2>3. IsFiniteSet(1..(Len(queue) + 1))
        /\ Cardinality(1..(Len(queue) + 1)) = Len(queue) + 1
    BY <1>3, FS_Interval
  <2>4. Cardinality(Application') <= Len(queue) + 1
        /\ IsFiniteSet(Application')
    BY <2>2, <2>3, FS_Subset
  <2>5. Cardinality(Application') \in Nat
    BY <2>4, FS_CardinalityType
  <2> QED
    BY <1>3, <2>1, <2>4, <2>5, LimitsSane
<1> QED
  BY <1>4, <1>5

\* User and request mail never eats into the reserve.
THEOREM ReserveHolds == Spec => []ReserveKept
<1>1. Init => ReserveKept
  <2> SUFFICES ASSUME Init PROVE ReserveKept
    OBVIOUS
  <2>1. Application = {}
    BY EmptySeq DEF Init, Application
  <2> QED
    BY <2>1, FS_EmptySet, LimitsSane DEF ReserveKept
<1>2. TypeOK /\ TypeOK' /\ ReserveKept /\ [Next]_vars => ReserveKept'
  <2> SUFFICES ASSUME TypeOK, TypeOK', ReserveKept, [Next]_vars
               PROVE  ReserveKept'
    OBVIOUS
  <2>1. ASSUME NEW env \in Offers, TryPush(env) PROVE ReserveKept'
    BY <2>1, PushKeepsReserve
  <2>2. ASSUME NEW i \in DOMAIN queue, queue' = RemoveEntry(queue, i)
        PROVE  ReserveKept'
    BY <2>2, RemovalKeepsReserve
  <2>3. CASE UNCHANGED queue
    BY <2>3 DEF ReserveKept, Application, capacity, reserve
  <2> QED
    BY <2>1, <2>2, <2>3, StepCases DEF Deliver, Ask, vars
<1> QED
  BY <1>1, <1>2, TypeCorrect, PTL DEF Spec

\* The runtime is refused, and the owner forced out for it, only when the
\* runtime's own envelopes fill the reserve.
THEOREM RefusalMeansReserveFull == Spec => []RefusedOnlyWhenReserveFull
<1>1. TypeOK /\ ReserveKept => RefusedOnlyWhenReserveFull
  <2> SUFFICES ASSUME TypeOK, ReserveKept, capacity # Unbounded,
                      Len(queue) >= capacity
               PROVE  Cardinality(DOMAIN queue \ Application) >= reserve
    BY DEF RefusedOnlyWhenReserveFull, IsFullFor
  <2>1. Application \subseteq DOMAIN queue
    BY DEF Application
  <2>2. DOMAIN queue \cap Application = Application
    BY <2>1
  <2>3. Cardinality(DOMAIN queue \ Application)
          = Cardinality(DOMAIN queue) - Cardinality(DOMAIN queue \cap Application)
    BY ApplicationFinite, FS_Difference
  <2>4. Len(queue) \in Nat
    BY LenProperties DEF TypeOK
  <2>5. Cardinality(DOMAIN queue) = Len(queue)
        /\ Cardinality(Application) \in Nat
    BY ApplicationFinite
  <2>6. Cardinality(Application) <= capacity - reserve
    BY DEF ReserveKept
  <2>7. Cardinality(DOMAIN queue \ Application)
          = Len(queue) - Cardinality(Application)
    BY <2>2, <2>3, <2>5
  <2>8. \A len, app, cap, res \in Nat :
          len >= cap /\ app <= cap - res => len - app >= res
    OBVIOUS
  <2>9. Len(queue) - Cardinality(Application) >= reserve
    BY <2>4, <2>5, <2>6, <2>8, LimitsSane
  <2> QED
    BY <2>7, <2>9
<1> QED
  BY <1>1, TypeCorrect, ReserveHolds, PTL
-----------------------------------------------------------------------------
(* The directory, for any names, any limit and any number of spawns.  Its  *)
(* invariants are inductive only together: that live actors carry the      *)
(* current generation of their slots needs that a free slot is not in use, *)
(* and that needs that no slot is free twice.                              *)

DirectoryInv ==
  /\ DirectoryTypeOK
  /\ IdsNameOneActor
  /\ NamesAgree
  /\ SlotsAccounted

\* The initial state has every part of the invariant.
LEMMA InitDirectoryInv == DirectoryInit => DirectoryInv
  <1> SUFFICES ASSUME DirectoryInit PROVE DirectoryInv
    OBVIOUS
  <1> USE MaxAssumption DEF DirectoryInit
  <1>1. DirectoryTypeOK
    BY DEF DirectoryTypeOK, ActorId, Slot
  <1>2. IdsNameOneActor
    BY DEF IdsNameOneActor
  <1>3. NamesAgree
    BY DEF NamesAgree
  <1>4. SlotsAccounted
    BY DEF SlotsAccounted
  <1> QED
    BY <1>1, <1>2, <1>3, <1>4 DEF DirectoryInv

\* allocate: the id it hands out is in a slot that nobody holds, and the slots
\* left over are as they should be without it.
LEMMA AllocateFacts ==
  ASSUME DirectoryInv, Allocate, spawns < MaxSpawns
  PROVE  /\ Allocated.slot \in Slot
         /\ Allocated.slot < nextSlot'
         /\ Allocated = [slot |-> Allocated.slot,
                         generation |-> generations[Allocated.slot]]
         /\ nextSlot' \in 0..MaxSpawns /\ nextSlot' <= spawns + 1
         /\ nextSlot <= nextSlot'
         /\ freeSlots' \in Seq(Slot)
         /\ generations' = generations
         /\ \A id \in actors : id.slot # Allocated.slot
         /\ Allocated.slot \notin leaked
         /\ \A i \in DOMAIN freeSlots' :
              /\ freeSlots'[i] < nextSlot'
              /\ freeSlots'[i] \notin leaked
              /\ freeSlots'[i] # Allocated.slot
              /\ \A id \in actors : id.slot # freeSlots'[i]
         /\ \A i, j \in DOMAIN freeSlots' :
              freeSlots'[i] = freeSlots'[j] => i = j
         /\ \A s \in 0..(nextSlot' - 1) :
              \/ s = Allocated.slot
              \/ s \in leaked
              \/ \E i \in DOMAIN freeSlots' : freeSlots'[i] = s
              \/ \E id \in actors : id.slot = s
  <1> USE MaxAssumption
  <1> DEFINE n == Len(freeSlots)
  <1>0. /\ nextSlot \in Nat /\ nextSlot <= spawns /\ spawns \in Nat
        /\ freeSlots \in Seq(Slot) /\ generations \in [Slot -> Nat]
        /\ actors \subseteq ActorId /\ leaked \subseteq Slot
    BY DEF DirectoryInv, DirectoryTypeOK
  <1>1. CASE freeSlots = <<>>
    <2>1. /\ Allocated = [slot |-> nextSlot,
                          generation |-> generations[nextSlot]]
          /\ nextSlot' = nextSlot + 1
          /\ freeSlots' = <<>> /\ generations' = generations
      BY <1>1 DEF Allocate, Allocated
    <2>2. Allocated.slot = nextSlot /\ nextSlot \in Slot
      BY <2>1, <1>0 DEF Slot
    <2>3. /\ \A id \in actors : id.slot < nextSlot
          /\ \A s \in leaked : s < nextSlot
          /\ \A s \in 0..(nextSlot - 1) :
               s \in leaked \/ \E id \in actors : id.slot = s
      BY <1>1 DEF DirectoryInv, SlotsAccounted
    <2>4. \A s \in 0..(nextSlot' - 1) : s = nextSlot \/ s \in 0..(nextSlot - 1)
      BY <1>0, <2>1
    <2>5. \A id \in actors : id.slot # nextSlot
      BY <2>3, <1>0
    <2>6. nextSlot \notin leaked
      BY <2>3, <1>0
    <2>7. DOMAIN freeSlots' = {}
      BY <2>1
    <2>8. nextSlot' \in 0..MaxSpawns /\ nextSlot' <= spawns + 1
          /\ nextSlot <= nextSlot' /\ nextSlot < nextSlot'
      BY <2>1, <1>0
    <2>9. freeSlots' \in Seq(Slot)
      BY <2>1
    <2> QED
      BY <2>1, <2>2, <2>3, <2>4, <2>5, <2>6, <2>7, <2>8, <2>9
  <1>2. CASE freeSlots # <<>>
    <2>1. n \in Nat /\ n > 0 /\ DOMAIN freeSlots = 1..n
      BY <1>2, <1>0
    <2>2. /\ Allocated = [slot |-> freeSlots[n],
                          generation |-> generations[freeSlots[n]]]
          /\ nextSlot' = nextSlot /\ generations' = generations
          /\ freeSlots' = SubSeq(freeSlots, 1, n - 1)
      BY <1>2 DEF Allocate, Allocated
    <2>3. freeSlots[n] \in Slot /\ n \in DOMAIN freeSlots
      BY <2>1, <1>0
    <2>4. Allocated.slot = freeSlots[n]
      BY <2>2
    <2>5. /\ freeSlots' \in Seq(Slot) /\ DOMAIN freeSlots' = 1..(n - 1)
          /\ \A i \in 1..(n - 1) : freeSlots'[i] = freeSlots[i]
      BY <2>1, <2>2, <1>0
    <2>6. \A i \in 1..(n - 1) : i \in DOMAIN freeSlots /\ i # n
      <3>1. \A k \in Nat : \A i \in 1..(k - 1) : i \in 1..k /\ i # k
        OBVIOUS
      <3> QED
        BY <2>1, <3>1
    <2>7. /\ \A i \in DOMAIN freeSlots :
               /\ freeSlots[i] < nextSlot /\ freeSlots[i] \notin leaked
               /\ \A id \in actors : id.slot # freeSlots[i]
          /\ \A i, j \in DOMAIN freeSlots : freeSlots[i] = freeSlots[j] => i = j
          /\ \A s \in 0..(nextSlot - 1) :
               \/ s \in leaked
               \/ \E i \in DOMAIN freeSlots : freeSlots[i] = s
               \/ \E id \in actors : id.slot = s
      BY DEF DirectoryInv, SlotsAccounted
    <2>8. \A i \in DOMAIN freeSlots : i = n \/ i \in 1..(n - 1)
      BY <2>1
    <2>9. nextSlot' \in 0..MaxSpawns /\ nextSlot' <= spawns + 1
          /\ nextSlot <= nextSlot'
      BY <2>2, <1>0 DEF DirectoryInv, DirectoryTypeOK
    <2>10. \A s \in 0..(nextSlot' - 1) :
              \/ s = freeSlots[n]
              \/ s \in leaked
              \/ \E i \in DOMAIN freeSlots' : freeSlots'[i] = s
              \/ \E id \in actors : id.slot = s
      BY <2>2, <2>5, <2>7, <2>8
    <2>11. \A i \in DOMAIN freeSlots' :
              /\ freeSlots'[i] < nextSlot' /\ freeSlots'[i] \notin leaked
              /\ freeSlots'[i] # freeSlots[n]
              /\ \A id \in actors : id.slot # freeSlots'[i]
      BY <2>2, <2>3, <2>5, <2>6, <2>7
    <2>12. \A i, j \in DOMAIN freeSlots' : freeSlots'[i] = freeSlots'[j] => i = j
      BY <2>5, <2>6, <2>7
    <2> QED
      BY <2>2, <2>3, <2>4, <2>5, <2>7, <2>9, <2>10, <2>11, <2>12
  <1> QED
    BY <1>1, <1>2

\* What a spawn keeps, refused or not.
LEMMA SpawnInv ==
  ASSUME DirectoryInv, NEW name \in Name \cup {NoName}, Spawn(name)
  PROVE  DirectoryInv'
  <1> USE MaxAssumption, NameAssumption
  <1> DEFINE id == Allocated
             refused == \/ liveActors >= MaxLive
                        \/ name # NoName /\ ~CanRegister(id, name)
  <1>1. Allocate /\ spawns < MaxSpawns /\ spawns' = spawns + 1
        /\ completed' = completed
    BY DEF Spawn
  <1>2. /\ id.slot \in Slot /\ id.slot < nextSlot'
        /\ id = [slot |-> id.slot, generation |-> generations[id.slot]]
        /\ nextSlot' \in 0..MaxSpawns /\ nextSlot' <= spawns + 1
        /\ nextSlot <= nextSlot'
        /\ freeSlots' \in Seq(Slot)
        /\ generations' = generations
        /\ \A x \in actors : x.slot # id.slot
        /\ id.slot \notin leaked
    BY <1>1, AllocateFacts
  <1>3. /\ \A i \in DOMAIN freeSlots' :
              /\ freeSlots'[i] < nextSlot'
              /\ freeSlots'[i] \notin leaked
              /\ freeSlots'[i] # id.slot
              /\ \A x \in actors : x.slot # freeSlots'[i]
        /\ \A i, j \in DOMAIN freeSlots' :
             freeSlots'[i] = freeSlots'[j] => i = j
        /\ \A s \in 0..(nextSlot' - 1) :
              \/ s = id.slot
              \/ s \in leaked
              \/ \E i \in DOMAIN freeSlots' : freeSlots'[i] = s
              \/ \E x \in actors : x.slot = s
    BY <1>1, AllocateFacts
  <1>4. /\ spawns' \in 0..MaxSpawns /\ nextSlot' <= spawns'
        /\ generations' \in [Slot -> Nat] /\ completed' \subseteq ActorId
        /\ nextSlot \in Nat /\ nextSlot' \in Nat
    BY <1>1, <1>2 DEF DirectoryInv, DirectoryTypeOK
  <1>5. id \in ActorId /\ id.generation = generations[id.slot]
    BY <1>2 DEF DirectoryInv, DirectoryTypeOK, ActorId
  <1>6. \A x \in actors : x.slot < nextSlot' /\ x.slot \in Slot
    BY <1>2, <1>4 DEF DirectoryInv, DirectoryTypeOK, SlotsAccounted, ActorId, Slot
  <1>7. \A s \in leaked : s < nextSlot' /\ s \in Slot
    BY <1>2, <1>4 DEF DirectoryInv, DirectoryTypeOK, SlotsAccounted, Slot
  <1>10. \A x \in actors : x.slot \notin leaked
    BY DEF DirectoryInv, SlotsAccounted
  <1> HIDE DEF id
  <1>8. CASE /\ leaked' = leaked \cup {id.slot}
             /\ UNCHANGED <<actors, liveActors, registry>>
    <2>1. DirectoryTypeOK'
      BY <1>2, <1>4, <1>8 DEF DirectoryInv, DirectoryTypeOK, registry
    <2>2. IdsNameOneActor'
      BY <1>1, <1>2, <1>8 DEF DirectoryInv, IdsNameOneActor
    <2>3. NamesAgree'
      BY <1>8 DEF DirectoryInv, NamesAgree, registry
    <2>4. SlotsAccounted'
      <3>1. \A i \in DOMAIN freeSlots' : /\ freeSlots'[i] < nextSlot'
                                        /\ freeSlots'[i] \notin leaked'
                                        /\ \A x \in actors' : x.slot # freeSlots'[i]
        BY <1>2, <1>3, <1>6, <1>7, <1>8
      <3>2. \A x \in actors' : x.slot < nextSlot' /\ x.slot \notin leaked'
        BY <1>2, <1>3, <1>6, <1>7, <1>8, <1>10
      <3>3. \A s \in leaked' : s < nextSlot'
        BY <1>2, <1>3, <1>6, <1>7, <1>8
      <3>4. \A s \in 0..(nextSlot' - 1) :
              \/ s \in leaked'
              \/ \E i \in DOMAIN freeSlots' : freeSlots'[i] = s
              \/ \E x \in actors' : x.slot = s
        <4> TAKE s \in 0..(nextSlot' - 1)
        <4>1. \/ s = id.slot
              \/ s \in leaked
              \/ \E i \in DOMAIN freeSlots' : freeSlots'[i] = s
              \/ \E x \in actors : x.slot = s
          BY <1>3
        <4>2. actors' = actors /\ leaked' = leaked \cup {id.slot}
          BY <1>8
        <4> QED
          BY <4>1, <4>2
      <3> QED
        BY <1>3, <3>1, <3>2, <3>3, <3>4 DEF SlotsAccounted
    <2> QED
      BY <2>1, <2>2, <2>3, <2>4 DEF DirectoryInv
  <1>9. CASE /\ ~refused
             /\ actors' = {x \in actors : x.slot # id.slot} \cup {id}
             /\ liveActors' = liveActors + 1
             /\ IF name = NoName THEN UNCHANGED registry ELSE Register(id, name)
             /\ UNCHANGED leaked
    <2>1. actors' = actors \cup {id}
      BY <1>2, <1>9
    <2>2. actors' \subseteq ActorId /\ liveActors' \in Nat
      BY <2>1, <1>5, <1>9 DEF DirectoryInv, DirectoryTypeOK
    <2>3. /\ byName' \in [Name -> ActorId \cup {NoId}]
          /\ byActor' \subseteq [actor : ActorId, name : Name]
      BY <1>5, <1>9 DEF DirectoryInv, DirectoryTypeOK, Register, registry
    <2>4. DirectoryTypeOK'
      BY <1>2, <1>4, <1>9, <2>2, <2>3 DEF DirectoryInv, DirectoryTypeOK
    <2>5. IdsNameOneActor'
      BY <1>1, <1>2, <1>5, <2>1 DEF DirectoryInv, IdsNameOneActor
    <2>6. SlotsAccounted'
      <3>1. \A i \in DOMAIN freeSlots' : /\ freeSlots'[i] < nextSlot'
                                        /\ freeSlots'[i] \notin leaked'
                                        /\ \A x \in actors' : x.slot # freeSlots'[i]
        BY <1>2, <1>3, <1>6, <1>7, <1>9, <2>1
      <3>2. \A x \in actors' : x.slot < nextSlot' /\ x.slot \notin leaked'
        BY <1>2, <1>3, <1>6, <1>7, <1>9, <2>1, <1>10
      <3>3. \A s \in leaked' : s < nextSlot'
        BY <1>2, <1>3, <1>6, <1>7, <1>9, <2>1
      <3>4. \A s \in 0..(nextSlot' - 1) :
              \/ s \in leaked'
              \/ \E i \in DOMAIN freeSlots' : freeSlots'[i] = s
              \/ \E x \in actors' : x.slot = s
        <4> TAKE s \in 0..(nextSlot' - 1)
        <4>1. \/ s = id.slot
              \/ s \in leaked
              \/ \E i \in DOMAIN freeSlots' : freeSlots'[i] = s
              \/ \E x \in actors : x.slot = s
          BY <1>3
        <4>2. leaked' = leaked
          BY <1>9
        <4> QED
          BY <4>1, <4>2, <2>1
      <3> QED
        BY <1>3, <3>1, <3>2, <3>3, <3>4 DEF SlotsAccounted
    <2>7. id \notin actors
      BY <1>2
    <2>8. NamesAgree'
      <3>1. CASE name = NoName
        BY <3>1, <1>9, <2>1 DEF DirectoryInv, NamesAgree, registry
      <3>2. CASE name # NoName
        <4>1. \A e \in byActor : e.actor # id
          BY <2>7 DEF DirectoryInv, NamesAgree, DirectoryTypeOK, NoId, ActorId, Slot
        <4>2. NamesOf(id) = {}
          BY <4>1 DEF NamesOf
        <4>3. byName[name] = NoId /\ name \in Name
          BY <1>9, <3>2, <4>2 DEF CanRegister
        <4>4. /\ byName' = [byName EXCEPT ![name] = id]
              /\ byActor' = byActor \cup {[actor |-> id, name |-> name]}
          BY <1>9, <3>2 DEF Register
        <4>5. \A e \in byActor : e.name # name
          <5> SUFFICES ASSUME NEW e \in byActor, e.name = name PROVE FALSE
            OBVIOUS
          <5>1. e.actor = NoId /\ e.actor \in ActorId
            BY <4>3 DEF DirectoryInv, NamesAgree, DirectoryTypeOK
          <5> QED
            BY <5>1 DEF NoId, ActorId, Slot
        <4> QED
          BY <2>1, <4>1, <4>3, <4>4, <4>5 DEF DirectoryInv, NamesAgree, DirectoryTypeOK
      <3> QED
        BY <3>1, <3>2
    <2> QED
      BY <2>4, <2>5, <2>6, <2>8 DEF DirectoryInv
  <1> QED
    BY <1>8, <1>9 DEF Spawn, id

\* A registration by name keeps the registry's directions in agreement.
LEMMA RegisterNameInv ==
  ASSUME DirectoryInv, NEW id \in actors, NEW name \in Name, RegisterName(id, name)
  PROVE  DirectoryInv'
  <1> USE MaxAssumption, NameAssumption
  <1>1. /\ UNCHANGED allocator /\ UNCHANGED <<actors, liveActors>>
        /\ UNCHANGED <<completed, leaked, spawns>>
        /\ CanRegister(id, name) /\ Register(id, name)
    BY DEF RegisterName
  <1>2. id \in ActorId
    BY DEF DirectoryInv, DirectoryTypeOK
  <1>3. DirectoryTypeOK'
    BY <1>1, <1>2 DEF DirectoryInv, DirectoryTypeOK, Register, allocator
  <1>4. IdsNameOneActor'
    BY <1>1 DEF DirectoryInv, IdsNameOneActor, allocator
  <1>5. SlotsAccounted'
    BY <1>1 DEF DirectoryInv, SlotsAccounted, allocator
  <1>6. /\ byName' = [byName EXCEPT ![name] = id]
        /\ byActor' = byActor \cup {[actor |-> id, name |-> name]}
        /\ actors' = actors
    BY <1>1 DEF Register
  <1>7. NamesAgree'
    <2>1. CASE NamesOf(id) = {}
      <3>1. \A e \in byActor : e.actor # id
        BY <2>1 DEF NamesOf
      <3>2. byName[name] = NoId
        BY <1>1, <2>1 DEF CanRegister
      <3>3. \A e \in byActor : e.name # name
        <4> SUFFICES ASSUME NEW e \in byActor, e.name = name PROVE FALSE
          OBVIOUS
        <4>1. e.actor = NoId /\ e.actor \in ActorId
          BY <3>2 DEF DirectoryInv, NamesAgree, DirectoryTypeOK
        <4> QED
          BY <4>1 DEF NoId, ActorId, Slot
      <3> QED
        BY <1>6, <3>1, <3>2, <3>3 DEF DirectoryInv, NamesAgree, DirectoryTypeOK
    <2>2. CASE NamesOf(id) # {}
      <3>1. [actor |-> id, name |-> name] \in byActor
        BY <1>1, <2>2 DEF CanRegister
      <3>2. byName[name] = id
        BY <3>1 DEF DirectoryInv, NamesAgree
      <3>3. byName' = byName /\ byActor' = byActor
        BY <1>6, <3>1, <3>2 DEF DirectoryInv, DirectoryTypeOK
      <3> QED
        BY <1>6, <3>3 DEF DirectoryInv, NamesAgree
    <2> QED
      BY <2>1, <2>2
  <1> QED
    BY <1>3, <1>4, <1>5, <1>7 DEF DirectoryInv

\* What unregister leaves behind: nothing of the actor, everything else.
LEMMA UnregisterFacts ==
  ASSUME DirectoryInv, NEW id, Unregister(id)
  PROVE  /\ byName' \in [Name -> ActorId \cup {NoId}]
         /\ byActor' \subseteq [actor : ActorId, name : Name]
         /\ \A n \in Name : byName'[n] # NoId =>
              /\ byName'[n] = byName[n] /\ byName[n] # id
              /\ [actor |-> byName[n], name |-> n] \in byActor'
         /\ \A e \in byActor' : byName'[e.name] = e.actor
         /\ \A e, f \in byActor' : e.actor = f.actor => e = f
  <1>1. /\ byActor' = {e \in byActor : e.actor # id}
        /\ byName' = [n \in Name |->
             IF [actor |-> id, name |-> n] \in byActor THEN NoId ELSE byName[n]]
    BY DEF Unregister, NamesOf
  <1>2. /\ byName \in [Name -> ActorId \cup {NoId}]
        /\ byActor \subseteq [actor : ActorId, name : Name]
        /\ \A n \in Name : byName[n] # NoId =>
             [actor |-> byName[n], name |-> n] \in byActor
        /\ \A e \in byActor : byName[e.name] = e.actor
        /\ \A e, f \in byActor : e.actor = f.actor => e = f
    BY DEF DirectoryInv, DirectoryTypeOK, NamesAgree
  <1>3. byName' \in [Name -> ActorId \cup {NoId}]
    BY <1>1, <1>2
  <1>4. byActor' \subseteq [actor : ActorId, name : Name]
    BY <1>1, <1>2
  <1>5. ASSUME NEW n \in Name, byName'[n] # NoId
        PROVE  /\ byName'[n] = byName[n] /\ byName[n] # id
               /\ [actor |-> byName[n], name |-> n] \in byActor'
    <2>1. byName'[n] = byName[n] /\ [actor |-> id, name |-> n] \notin byActor
      BY <1>1, <1>5
    <2>2. [actor |-> byName[n], name |-> n] \in byActor
      BY <2>1, <1>2, <1>5
    <2>3. byName[n] # id
      BY <2>1, <2>2
    <2> QED
      BY <2>1, <2>2, <2>3, <1>1
  <1>6. ASSUME NEW e \in byActor'
        PROVE  byName'[e.name] = e.actor
    <2>1. e \in byActor /\ e.actor # id /\ byName[e.name] = e.actor
      BY <1>1, <1>2
    <2>2. e.name \in Name
      BY <2>1, <1>2
    <2>3. [actor |-> id, name |-> e.name] \notin byActor
      <3> SUFFICES ASSUME [actor |-> id, name |-> e.name] \in byActor
                   PROVE  FALSE
        OBVIOUS
      <3>1. byName[e.name] = id
        BY <1>2
      <3> QED
        BY <3>1, <2>1
    <2> QED
      BY <1>1, <2>1, <2>2, <2>3
  <1>7. \A e, f \in byActor' : e.actor = f.actor => e = f
    BY <1>1, <1>2
  <1> QED
    BY <1>3, <1>4, <1>5, <1>6, <1>7

\* A name is given up; whoever held it stays.
LEMMA UnregisterNameInv ==
  ASSUME DirectoryInv, NEW id, UnregisterName(id)
  PROVE  DirectoryInv'
  <1> USE MaxAssumption, NameAssumption
  <1>1. /\ UNCHANGED allocator /\ UNCHANGED <<actors, liveActors>>
        /\ UNCHANGED <<completed, leaked, spawns>>
        /\ Unregister(id)
    BY DEF UnregisterName
  <1>2. /\ byName' \in [Name -> ActorId \cup {NoId}]
        /\ byActor' \subseteq [actor : ActorId, name : Name]
        /\ \A n \in Name : byName'[n] # NoId =>
             /\ byName'[n] = byName[n] /\ byName[n] # id
             /\ [actor |-> byName[n], name |-> n] \in byActor'
        /\ \A e \in byActor' : byName'[e.name] = e.actor
        /\ \A e, f \in byActor' : e.actor = f.actor => e = f
    BY <1>1, UnregisterFacts
  <1>3. DirectoryTypeOK'
    BY <1>1, <1>2 DEF DirectoryInv, DirectoryTypeOK, allocator
  <1>4. IdsNameOneActor'
    BY <1>1 DEF DirectoryInv, IdsNameOneActor, allocator
  <1>5. SlotsAccounted'
    BY <1>1 DEF DirectoryInv, SlotsAccounted, allocator
  <1>6. \A n \in Name : byName[n] # NoId => byName[n] \in actors
    BY DEF DirectoryInv, NamesAgree
  <1>7. NamesAgree'
    BY <1>1, <1>2, <1>6 DEF NamesAgree
  <1> QED
    BY <1>3, <1>4, <1>5, <1>7 DEF DirectoryInv

\* An exit frees the slot under a new generation.
LEMMA FinalizeInv ==
  ASSUME DirectoryInv, NEW id \in actors, Finalize(id)
  PROVE  DirectoryInv'
  <1> USE MaxAssumption, NameAssumption
  <1>1. /\ actors' = actors \ {id} /\ completed' = completed \cup {id}
        /\ UNCHANGED leaked /\ UNCHANGED spawns
        /\ Unregister(id) /\ Release(id)
        /\ liveActors' = IF liveActors = 0 THEN 0 ELSE liveActors - 1
    BY DEF Finalize
  <1>2. /\ byName' \in [Name -> ActorId \cup {NoId}]
        /\ byActor' \subseteq [actor : ActorId, name : Name]
        /\ \A n \in Name : byName'[n] # NoId =>
             /\ byName'[n] = byName[n] /\ byName[n] # id
             /\ [actor |-> byName[n], name |-> n] \in byActor'
        /\ \A e \in byActor' : byName'[e.name] = e.actor
        /\ \A e, f \in byActor' : e.actor = f.actor => e = f
    BY <1>1, UnregisterFacts
  <1>3. /\ id \in ActorId /\ id.slot \in Slot
        /\ id = [slot |-> id.slot, generation |-> id.generation]
        /\ id.generation = generations[id.slot]
        /\ id.slot < nextSlot /\ id.slot \notin leaked
    BY DEF DirectoryInv, DirectoryTypeOK, ActorId, IdsNameOneActor, SlotsAccounted
  <1>4. /\ generations' = [generations EXCEPT ![id.slot] = @ + 1]
        /\ freeSlots' = Append(freeSlots, id.slot)
        /\ nextSlot' = nextSlot
    BY <1>1, <1>3 DEF Release
  <1>5. /\ freeSlots \in Seq(Slot) /\ generations \in [Slot -> Nat]
        /\ liveActors \in Nat /\ nextSlot \in Nat
        /\ actors \subseteq ActorId /\ completed \subseteq ActorId
    BY DEF DirectoryInv, DirectoryTypeOK
  <1>6. freeSlots' \in Seq(Slot) /\ generations' \in [Slot -> Nat]
    BY <1>3, <1>4, <1>5
  <1>7. DirectoryTypeOK'
    BY <1>1, <1>2, <1>3, <1>4, <1>5, <1>6 DEF DirectoryInv, DirectoryTypeOK
  <1>8. \A x \in actors : x.slot = id.slot => x = id
    <2> SUFFICES ASSUME NEW x \in actors, x.slot = id.slot PROVE x = id
      OBVIOUS
    <2>1. x \in ActorId /\ x.generation = generations[x.slot]
      BY <1>5 DEF DirectoryInv, IdsNameOneActor
    <2> QED
      BY <2>1, <1>3 DEF ActorId
  <1>9. IdsNameOneActor'
    <2>1. \A x \in actors' : x.generation = generations'[x.slot]
      <3> TAKE x \in actors'
      <3>1. x \in actors /\ x.slot # id.slot /\ x.slot \in Slot
        BY <1>1, <1>5, <1>8 DEF ActorId
      <3> QED
        BY <3>1, <1>4, <1>5 DEF DirectoryInv, IdsNameOneActor
    <2>2. \A x \in completed' : x.generation < generations'[x.slot]
      <3> TAKE x \in completed'
      <3>1. CASE x = id
        BY <3>1, <1>3, <1>4, <1>5
      <3>2. CASE x \in completed
        <4>1. /\ x.generation < generations[x.slot]
              /\ x.slot \in Slot /\ x.generation \in Nat
          BY <3>2, <1>5 DEF DirectoryInv, IdsNameOneActor, ActorId
        <4> QED
          BY <4>1, <1>3, <1>4, <1>5
      <3> QED
        BY <3>1, <3>2, <1>1
    <2> QED
      BY <2>1, <2>2 DEF IdsNameOneActor
  <1>10. NamesAgree'
    <2>1. \A n \in Name : byName[n] # NoId => byName[n] \in actors
      BY DEF DirectoryInv, NamesAgree
    <2> QED
      BY <1>1, <1>2, <2>1 DEF NamesAgree
  <1>11. SlotsAccounted'
    <2> DEFINE n == Len(freeSlots)
    <2>1. /\ n \in Nat /\ DOMAIN freeSlots = 1..n
          /\ DOMAIN freeSlots' = 1..(n + 1)
          /\ freeSlots'[n + 1] = id.slot
          /\ \A i \in 1..n : freeSlots'[i] = freeSlots[i]
      BY <1>4, <1>5, <1>3
    <2>2. \A i \in DOMAIN freeSlots' : i = n + 1 \/ i \in 1..n
      BY <2>1
    <2>3. /\ \A i \in 1..n :
               /\ freeSlots[i] < nextSlot /\ freeSlots[i] \notin leaked
               /\ \A x \in actors : x.slot # freeSlots[i]
          /\ \A i, j \in 1..n : freeSlots[i] = freeSlots[j] => i = j
          /\ \A x \in actors : x.slot < nextSlot /\ x.slot \notin leaked
          /\ \A s \in leaked : s < nextSlot
          /\ \A s \in 0..(nextSlot - 1) :
               \/ s \in leaked
               \/ \E i \in 1..n : freeSlots[i] = s
               \/ \E x \in actors : x.slot = s
      BY <2>1 DEF DirectoryInv, SlotsAccounted
    <2>4. \A i \in 1..n : freeSlots[i] # id.slot
      BY <2>3
    <2> HIDE DEF n
    <2>5. \A i \in DOMAIN freeSlots' :
             /\ freeSlots'[i] < nextSlot' /\ freeSlots'[i] \notin leaked'
             /\ \A x \in actors' : x.slot # freeSlots'[i]
      <3> TAKE i \in DOMAIN freeSlots'
      <3>1. CASE i = n + 1
        BY <3>1, <2>1, <1>1, <1>3, <1>4, <1>8
      <3>2. CASE i \in 1..n
        BY <3>2, <2>1, <2>3, <1>1, <1>4
      <3> QED
        BY <3>1, <3>2, <2>2
    <2>6. \A i, j \in DOMAIN freeSlots' : freeSlots'[i] = freeSlots'[j] => i = j
      BY <2>1, <2>2, <2>3, <2>4
    <2>7. \A x \in actors' : x.slot < nextSlot' /\ x.slot \notin leaked'
      BY <2>3, <1>1, <1>4
    <2>8. \A s \in leaked' : s < nextSlot'
      BY <2>3, <1>1, <1>4
    <2>9. \A s \in 0..(nextSlot' - 1) :
             \/ s \in leaked'
             \/ \E i \in DOMAIN freeSlots' : freeSlots'[i] = s
             \/ \E x \in actors' : x.slot = s
      <3> TAKE s \in 0..(nextSlot' - 1)
      <3>1. \/ s \in leaked
            \/ \E i \in 1..n : freeSlots[i] = s
            \/ \E x \in actors : x.slot = s
        BY <2>3, <1>4
      <3>2. \A i \in 1..n : i \in DOMAIN freeSlots'
        BY <2>1
      <3>3. n + 1 \in DOMAIN freeSlots'
        BY <2>1
      <3>4. CASE s = id.slot
        BY <3>4, <3>3, <2>1
      <3>5. CASE s # id.slot
        BY <3>1, <3>2, <3>5, <2>1, <1>1
      <3> QED
        BY <3>4, <3>5
    <2> QED
      BY <2>5, <2>6, <2>7, <2>8, <2>9 DEF SlotsAccounted
  <1> QED
    BY <1>7, <1>9, <1>10, <1>11 DEF DirectoryInv

\* Every step keeps the invariant.
LEMMA StepDirectoryInv ==
  DirectoryInv /\ [DirectoryNext]_directoryVars => DirectoryInv'
  <1> SUFFICES ASSUME DirectoryInv, [DirectoryNext]_directoryVars
      PROVE  DirectoryInv'
    OBVIOUS
  <1>1. ASSUME NEW name \in Name \cup {NoName}, Spawn(name) PROVE DirectoryInv'
    BY <1>1, SpawnInv
  <1>2. ASSUME NEW id \in actors, Finalize(id) PROVE DirectoryInv'
    BY <1>2, FinalizeInv
  <1>3. ASSUME NEW id \in actors, NEW name \in Name, RegisterName(id, name)
        PROVE  DirectoryInv'
    BY <1>3, RegisterNameInv
  <1>4. ASSUME NEW id, UnregisterName(id) PROVE DirectoryInv'
    BY <1>4, UnregisterNameInv
  <1>5. CASE UNCHANGED directoryVars
    BY <1>5 DEF directoryVars, allocator, registry, DirectoryInv, DirectoryTypeOK, IdsNameOneActor,
                NamesAgree, SlotsAccounted
  <1> QED
    BY <1>1, <1>2, <1>3, <1>4, <1>5 DEF DirectoryNext

\* The invariant holds of every behaviour of the directory.
THEOREM Invariance == DirectorySpec => []DirectoryInv
  BY InitDirectoryInv, StepDirectoryInv, PTL DEF DirectorySpec

\* Every variable of the allocator, the table and the registry keeps its type.
THEOREM DirectoryTypeCorrect == DirectorySpec => []DirectoryTypeOK
  <1>1. DirectoryInv => DirectoryTypeOK
    BY DEF DirectoryInv
  <1> QED
    BY <1>1, Invariance, PTL

\* ActorSlotAllocator: an id names one actor for all time.
THEOREM IdsUnique == DirectorySpec => []IdsNameOneActor
  <1>1. DirectoryInv => IdsNameOneActor
    BY DEF DirectoryInv
  <1> QED
    BY <1>1, Invariance, PTL

\* Registry: both directions agree and only live actors are registered.
THEOREM NamesSound == DirectorySpec => []NamesAgree
  <1>1. DirectoryInv => NamesAgree
    BY DEF DirectoryInv
  <1> QED
    BY <1>1, Invariance, PTL

\* ActorSlotAllocator: a slot that was ever used is free, in use or lost to a
\* refused spawn, and only one of these.
THEOREM SlotsSound == DirectorySpec => []SlotsAccounted
  <1>1. DirectoryInv => SlotsAccounted
    BY DEF DirectoryInv
  <1> QED
    BY <1>1, Invariance, PTL

\* The table is finite and counted.  A spawn adds one actor because nobody
\* holds the slot it was given, which is what AllocateFacts says.
CountInv == IsFiniteSet(actors) /\ LiveCounted

\* No actor, and none counted, to begin with.
LEMMA InitCount == DirectoryInit => CountInv
  BY FS_EmptySet, MaxAssumption DEF DirectoryInit, CountInv, LiveCounted

\* A spawn that is let in adds exactly one actor, and only below the limit.
LEMMA SpawnCount ==
  ASSUME DirectoryInv, CountInv, NEW name \in Name \cup {NoName}, Spawn(name)
  PROVE  CountInv'
  <1> USE MaxAssumption
  <1> DEFINE id == Allocated
  <1>1. Allocate /\ spawns < MaxSpawns
    BY DEF Spawn
  <1>2. \A x \in actors : x.slot # id.slot
    BY <1>1, AllocateFacts
  <1>3. \/ actors' = actors /\ liveActors' = liveActors
        \/ /\ ~(liveActors >= MaxLive)
           /\ actors' = {x \in actors : x.slot # id.slot} \cup {id}
           /\ liveActors' = liveActors + 1
    BY DEF Spawn
  <1> HIDE DEF id
  <1>4. CASE actors' = actors /\ liveActors' = liveActors
    BY <1>4 DEF CountInv, LiveCounted
  <1>5. CASE /\ ~(liveActors >= MaxLive)
             /\ actors' = {x \in actors : x.slot # id.slot} \cup {id}
             /\ liveActors' = liveActors + 1
    <2>1. actors' = actors \cup {id} /\ id \notin actors
      BY <1>2, <1>5
    <2>2. IsFiniteSet(actors) /\ liveActors = Cardinality(actors)
      BY DEF CountInv, LiveCounted
    <2>3. IsFiniteSet(actors') /\ Cardinality(actors') = Cardinality(actors) + 1
      BY <2>1, <2>2, FS_AddElement
    <2>4. liveActors \in Nat
      BY DEF DirectoryInv, DirectoryTypeOK
    <2>5. liveActors' <= MaxLive
      BY <1>5, <2>4
    <2> QED
      BY <2>2, <2>3, <2>5, <1>5 DEF CountInv, LiveCounted
  <1> QED
    BY <1>3, <1>4, <1>5

\* An exit takes exactly one actor away, so the saturating subtraction never
\* has to saturate.
LEMMA FinalizeCount ==
  ASSUME DirectoryInv, CountInv, NEW id \in actors, Finalize(id)
  PROVE  CountInv'
  <1> USE MaxAssumption
  <1>1. /\ actors' = actors \ {id}
        /\ liveActors' = IF liveActors = 0 THEN 0 ELSE liveActors - 1
    BY DEF Finalize
  <1>2. IsFiniteSet(actors) /\ liveActors = Cardinality(actors)
        /\ liveActors <= MaxLive
    BY DEF CountInv, LiveCounted
  <1>3. IsFiniteSet(actors') /\ Cardinality(actors') = Cardinality(actors) - 1
    BY <1>1, <1>2, FS_RemoveElement
  <1>4. Cardinality(actors) \in Nat /\ Cardinality(actors') \in Nat
    BY <1>2, <1>3, FS_CardinalityType
  <1>5. liveActors # 0
    BY <1>2, <1>3, <1>4
  <1>6. liveActors' = Cardinality(actors') /\ liveActors' <= MaxLive
    BY <1>1, <1>2, <1>3, <1>4, <1>5
  <1> QED
    BY <1>3, <1>6 DEF CountInv, LiveCounted

\* Every step keeps the count.
LEMMA StepCount ==
  DirectoryInv /\ CountInv /\ [DirectoryNext]_directoryVars => CountInv'
  <1> SUFFICES ASSUME DirectoryInv, CountInv, [DirectoryNext]_directoryVars
      PROVE  CountInv'
    OBVIOUS
  <1>1. ASSUME NEW name \in Name \cup {NoName}, Spawn(name) PROVE CountInv'
    BY <1>1, SpawnCount
  <1>2. ASSUME NEW id \in actors, Finalize(id) PROVE CountInv'
    BY <1>2, FinalizeCount
  <1>3. ASSUME NEW id, NEW name, RegisterName(id, name) PROVE CountInv'
    BY <1>3 DEF RegisterName, CountInv, LiveCounted
  <1>4. ASSUME NEW id, UnregisterName(id) PROVE CountInv'
    BY <1>4 DEF UnregisterName, CountInv, LiveCounted
  <1>5. CASE UNCHANGED directoryVars
    BY <1>5 DEF directoryVars, CountInv, LiveCounted
  <1> QED
    BY <1>1, <1>2, <1>3, <1>4, <1>5 DEF DirectoryNext

\* insert_actor_record: live_actors is the number of live actors, so the
\* capacity check it feeds lets in max_actors and no more.
THEOREM CapacityKept == DirectorySpec => []LiveCounted
  <1>1. CountInv => LiveCounted
    BY DEF CountInv
  <1> QED
    BY <1>1, InitCount, StepCount, Invariance, PTL DEF DirectorySpec
=============================================================================
