------------------------------ MODULE Mailbox -------------------------------
(***************************************************************************)
(* The mailbox of one actor: a bounded FIFO queue with slots reserved for  *)
(* the runtime, two ways to receive from it, and the watermark that lets a *)
(* caller look for the reply to a request among the newer entries only.    *)
(*                                                                         *)
(* Both runtimes touch a mailbox under exclusive access (the local one is  *)
(* single threaded, the concurrent one holds its state lock), so each      *)
(* operation is one action.  Any actor, timer or task may push; only the   *)
(* owner receives, asks and withdraws.                                     *)
(***************************************************************************)
EXTENDS MailboxOps

CONSTANTS
  Capacity,        \* capacity the mailbox is created with
  RuntimeReserve,  \* reserve it is created with
  Unbounded,       \* usize::MAX
  Offers,          \* envelopes somebody may push
  Refs,            \* call references the owner may allocate
  Wants,           \* selective-receive predicates, as sets of envelopes
  MaxSequence      \* bound: envelopes accepted over the whole life

SystemRequest == {"Suspend", "Resume", "Other"}

ASSUME LimitsAssumption ==
  /\ Capacity \in Nat
  /\ RuntimeReserve \in Nat
  /\ Unbounded \in Nat \ {0}
  /\ MaxSequence \in Nat

ASSUME OffersAssumption ==
  /\ \A env \in Offers : /\ env = [kind |-> env.kind, ref |-> env.ref]
                         /\ env.kind \in EnvelopeKind
  /\ \A env \in Offers : env.kind = "System" => env.ref \in SystemRequest
  /\ \A env \in Offers : env.kind = "Reply" => env.ref \in Refs

VARIABLES
  queue,         \* Mailbox::queue
  nextSequence,  \* Mailbox::next_sequence
  suspended,     \* the owner's suspended flag, set by delivered System mail
  calls,         \* PendingCall values the owner holds: [ref, watermark]
  taken,         \* history: per class, 1 + sequence of its last delivery
  selective      \* history: the owner has used a selective receive

vars == <<queue, nextSequence, suspended, calls, taken, selective>>

capacity == EffectiveCapacity(Capacity)
reserve  == EffectiveReserve(Capacity, RuntimeReserve)

\* Classes of envelopes that one delivery order is promised for.
Class == {"system", "signal", "ordinary"}

ClassOf(kind) ==
  IF kind = "System" THEN "system"
  ELSE IF kind \in {"Exit", "Down"} THEN "signal" ELSE "ordinary"

Init ==
  /\ queue = <<>>
  /\ nextSequence = 0
  /\ suspended = FALSE
  /\ calls = {}
  /\ taken = [c \in Class |-> 0]
  /\ selective = FALSE

Push(env) ==
  /\ queue' = Append(queue,
                [seq |-> nextSequence, kind |-> env.kind, ref |-> env.ref])
  /\ nextSequence' = nextSequence + 1

\* A reply names a reference some ask of the owner has allocated.
Answerable(env) == env.kind = "Reply" => \E c \in calls : c.ref = env.ref

\* Accepted push.  A refused one changes nothing here: the sender of user
\* mail gets MailboxFull, the runtime forces the owner out.
TryPush(env) ==
  /\ nextSequence < MaxSequence
  /\ Answerable(env)
  /\ ~IsFullFor(queue, env.kind, capacity, reserve, Unbounded)
  /\ Push(env)
  /\ UNCHANGED <<suspended, calls, taken, selective>>

\* The System message of the turn takes effect before the turn runs.
ApplySystemMessageEffects(env) ==
  suspended' = CASE env.kind = "System" /\ env.ref = "Suspend" -> TRUE
                 [] env.kind = "System" /\ env.ref = "Resume"  -> FALSE
                 [] OTHER -> suspended

Deliver(i) ==
  /\ queue' = RemoveEntry(queue, i)
  /\ taken' = [taken EXCEPT ![ClassOf(queue[i].kind)] = queue[i].seq + 1]
  /\ ApplySystemMessageEffects(queue[i])
  /\ UNCHANGED <<nextSequence, calls>>

ReceiveNext ==
  \E i \in DOMAIN queue :
    /\ TakesNext(queue, suspended, i)
    /\ Deliver(i)
    /\ UNCHANGED selective

ReceiveSelective(want, watermark) ==
  \E i \in DOMAIN queue :
    /\ TakesSelective(queue, suspended, watermark, want, i)
    /\ Deliver(i)
    /\ selective' = TRUE

\* Faulty: the watermark is one past the next sequence number.
AskLateWatermark(ref) ==
  /\ \A c \in calls : c.ref # ref
  /\ calls' = calls \cup {[ref |-> ref, watermark |-> nextSequence + 1]}
  /\ UNCHANGED <<queue, nextSequence, suspended, taken, selective>>

\* ask: the watermark is read before the request leaves, under a fresh
\* reference.
Ask(ref) ==
  /\ \A c \in calls : c.ref # ref
  /\ calls' = calls \cup {[ref |-> ref, watermark |-> nextSequence]}
  /\ UNCHANGED <<queue, nextSequence, suspended, taken, selective>>

\* A cancelled timer, or a call whose reply has come, takes its queued Timer
\* or CallTimeout envelope back.
Withdraw(env) ==
  LET Same == {i \in DOMAIN queue : /\ queue[i].kind = env.kind
                                    /\ queue[i].ref = env.ref}
  IN  /\ env.kind \in {"Timer", "CallTimeout"}
      /\ \E i \in DOMAIN queue : /\ FirstMatch(Same, i)
                                 /\ queue' = RemoveEntry(queue, i)
      /\ UNCHANGED <<nextSequence, suspended, calls, taken, selective>>

Next ==
  \/ \E env \in Offers : TryPush(env)
  \/ ReceiveNext
  \/ \E want \in Wants : ReceiveSelective(want, 0)
  \/ \E want \in Wants : \E c \in calls : ReceiveSelective(want, c.watermark)
  \/ \E ref \in Refs : Ask(ref)
  \/ \E env \in Offers : Withdraw(env)

Spec == Init /\ [][Next]_vars
-----------------------------------------------------------------------------
Entry == [seq : Nat, kind : EnvelopeKind, ref : {env.ref : env \in Offers}]

\* Every variable keeps its type.
TypeOK ==
  /\ queue \in Seq(Entry)
  /\ nextSequence \in Nat
  /\ suspended \in BOOLEAN
  /\ calls \subseteq [ref : Refs, watermark : Nat]
  /\ taken \in [Class -> Nat]
  /\ selective \in BOOLEAN

\* Sequence numbers grow strictly along the queue and none has reached
\* next_sequence, whatever was pushed, claimed from the middle or withdrawn:
\* this is what makes a watermark stable (mailbox.rs push, remove).
SequencesOrdered ==
  /\ \A i, j \in DOMAIN queue : i < j => queue[i].seq < queue[j].seq
  /\ \A i \in DOMAIN queue : queue[i].seq < nextSequence

\* No delivery and no watermark is ahead of the sequence counter.
HistoryBounded ==
  /\ \A c \in Class : taken[c] <= nextSequence
  /\ \A c \in calls : c.watermark <= nextSequence

Application == {i \in DOMAIN queue : ~UsesRuntimeReserve(queue[i].kind)}

\* The reserve does its work: user and request mail never takes more than
\* capacity - reserve slots, even though the length it is admitted against
\* counts runtime mail that may leave later (mailbox.rs is_full_for).
ReserveKept ==
  capacity # Unbounded => Cardinality(Application) <= capacity - reserve

\* So a runtime envelope is refused, and the owner forced out, only when the
\* runtime itself has filled the reserve (enqueue_runtime_envelope).
RefusedOnlyWhenReserveFull ==
  \A kind \in EnvelopeKind :
    (UsesRuntimeReserve(kind)
       /\ IsFullFor(queue, kind, capacity, reserve, Unbounded))
      => Cardinality(DOMAIN queue \ Application) >= reserve

\* A receive that starts at the watermark of a call can never miss the reply
\* to that call (ask reads the watermark before it sends).
WatermarkCoversReply ==
  \A c \in calls : \A i \in DOMAIN queue :
    (queue[i].kind = "Reply" /\ queue[i].ref = c.ref)
      => queue[i].seq >= c.watermark

\* However receives, selective receives, suspensions and withdrawals are
\* mixed, System messages are delivered in arrival order, and so are exit and
\* down signals.
ControlTrafficFifo ==
  \A i \in DOMAIN queue :
    queue[i].kind \in {"System", "Exit", "Down"}
      => queue[i].seq >= taken[ClassOf(queue[i].kind)]

\* An actor that never receives selectively gets all other mail in arrival
\* order too, through any number of suspensions.
OrdinaryFifoUnlessSelective ==
  ~selective => \A i \in DOMAIN queue :
    ClassOf(queue[i].kind) = "ordinary" => queue[i].seq >= taken["ordinary"]

\* A queued reply answers a call the owner has made.
RepliesAsked ==
  \A i \in DOMAIN queue :
    queue[i].kind = "Reply" => \E c \in calls : c.ref = queue[i].ref

\* What a step preserves, taken together: the delivery order of the mailbox.
DeliveryInv ==
  /\ SequencesOrdered
  /\ HistoryBounded
  /\ ControlTrafficFifo
  /\ OrdinaryFifoUnlessSelective
  /\ RepliesAsked
  /\ WatermarkCoversReply
=============================================================================
