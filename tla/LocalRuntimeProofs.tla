------------------------- MODULE LocalRuntimeProofs -------------------------
(***************************************************************************)
(* Proofs about the local runtime for every set of actors and roots, every *)
(* choice of reasons and policies, every capacity and number of calls.     *)
(*                                                                         *)
(* Almost every action puts something on the stack of actors that are out  *)
(* of the table, replaces its top or takes the top away; Shape says what a *)
(* stack must look like beside the places of the actors, and the lemmas    *)
(* ShapeSet, ShapePush and ShapePop cover the three ways it changes.       *)
(***************************************************************************)
EXTENDS LocalRuntime, SequenceTheorems, FiniteSetTheorems, TLAPS

Envelope == {Exit, Down, User, System(TRUE), System(FALSE)}

FrameType ==
  [actor : Actor, op : {"init", "turn", "terminate", "telling"},
   reason : ExitReason \cup {None}, watchers : SUBSET MonitorEntry,
   peers : SUBSET Actor, waits : Actor \cup {None}]

\* The stack s fits the places pl.
Shape(s, pl) ==
  /\ s \in Seq(FrameType)
  /\ \A a \in Actor :
       pl[a] = "running" <=> \E i \in DOMAIN s : s[i].actor = a
  /\ \A i, j \in DOMAIN s : s[i].actor = s[j].actor => i = j
  /\ \A i \in DOMAIN s : s[i].op \in {"init", "turn"} => i = 1
  /\ \A i \in DOMAIN s : s[i].op \in {"terminate", "telling"}
                            => s[i].reason # None

Places == [Actor -> {"unborn", "fresh", "table", "running", "gone"}]

BoxOK ==
  /\ mailbox \in [Actor -> Seq(Envelope)]
  /\ scheduled \in [Actor -> BOOLEAN]
  /\ runQueue \in Seq(Actor)

PlaceOK == place \in Places /\ Shape(stack, place)

BondsOK ==
  /\ links \in [Actor -> SUBSET Actor]
  /\ monOut \in [Actor -> SUBSET MonitorEntry]
  /\ monIn \in [Actor -> SUBSET MonitorEntry]

ShutdownOK ==
  /\ tracker \in [Actor -> Policy \cup {None}]
  /\ sleeping \subseteq Actor
  /\ channel \in Seq(Actor)

RestOK ==
  /\ suspended \in [Actor -> BOOLEAN] /\ trap \in [Actor -> BOOLEAN]
  /\ calls \in 0..MaxCalls /\ deaf \subseteq Actor

TypeInv == BoxOK /\ PlaceOK /\ BondsOK /\ ShutdownOK /\ RestOK

LEMMA TypeInvTypes == TypeInv => TypeOK
BY DEF TypeInv, BoxOK, PlaceOK, BondsOK, ShutdownOK, RestOK, Shape, Places,
       TypeOK, Envelope
-----------------------------------------------------------------------------
(* Sequences and frames.                                                   *)

\* Removing an entry leaves a queue of the same kind of entries.
LEMMA RemoveEntryType ==
  ASSUME NEW S, NEW q \in Seq(S), NEW i \in DOMAIN q
  PROVE  RemoveEntry(q, i) \in Seq(S)
<1>1. /\ Len(q) \in Nat /\ DOMAIN q = 1..Len(q)
      /\ \A k \in 1..Len(q) : q[k] \in S
  BY LenProperties, ElementOfSeq
<1>2. /\ Len(q) - 1 \in Nat
      /\ \A j \in 1..(Len(q) - 1) : (IF j < i THEN j ELSE j + 1) \in 1..Len(q)
  BY <1>1
<1>3. RemoveEntry(q, i) \in [1..(Len(q) - 1) -> S]
  BY <1>1, <1>2 DEF RemoveEntry
<1> QED
  BY <1>2, <1>3, IsASeq DEF RemoveEntry

LEMMA AppendHas ==
  ASSUME NEW S, NEW q \in Seq(S), NEW x \in S
  PROVE  /\ Append(q, x) \in Seq(S)
         /\ Len(q) \in Nat /\ Len(Append(q, x)) = Len(q) + 1
         /\ DOMAIN q = 1..Len(q)
         /\ DOMAIN Append(q, x) = 1..(Len(q) + 1)
         /\ \A i \in 1..Len(q) : Append(q, x)[i] = q[i]
         /\ Append(q, x)[Len(q) + 1] = x
BY AppendProperties, LenProperties

LEMMA TailHas ==
  ASSUME NEW S, NEW q \in Seq(S), q # <<>>
  PROVE  /\ Head(q) \in S /\ Head(q) = q[1]
         /\ Tail(q) \in Seq(S)
         /\ Len(q) \in Nat \ {0} /\ DOMAIN q = 1..Len(q)
         /\ DOMAIN Tail(q) = 1..(Len(q) - 1)
         /\ \A i \in 1..(Len(q) - 1) : Tail(q)[i] = q[i + 1]
<1>1. Len(q) \in Nat \ {0} /\ DOMAIN q = 1..Len(q)
  BY EmptySeq, LenProperties
<1>2. /\ Head(q) \in S /\ Tail(q) \in Seq(S) /\ Len(Tail(q)) = Len(q) - 1
      /\ \A i \in 1..Len(Tail(q)) : Tail(q)[i] = q[i + 1]
  BY HeadTailProperties
<1> QED
  BY <1>1, <1>2, LenProperties

\* The stack without its top.
LEMMA BelowHas ==
  ASSUME NEW S, NEW s \in Seq(S), s # <<>>
  PROVE  LET below == SubSeq(s, 1, Len(s) - 1)
         IN  /\ Len(s) \in Nat \ {0} /\ DOMAIN s = 1..Len(s)
             /\ s[Len(s)] \in S
             /\ below \in Seq(S) /\ Len(below) = Len(s) - 1
             /\ DOMAIN below = 1..(Len(s) - 1)
             /\ \A i \in 1..(Len(s) - 1) : below[i] = s[i]
<1>1. Len(s) \in Nat \ {0} /\ DOMAIN s = 1..Len(s)
      /\ \A i \in 1..Len(s) : s[i] \in S
  BY EmptySeq, LenProperties, ElementOfSeq
<1>2. DOMAIN SubSeq(s, 1, Len(s) - 1) = 1..(Len(s) - 1)
      /\ Len(SubSeq(s, 1, Len(s) - 1)) = Len(s) - 1
      /\ \A i \in 1..(Len(s) - 1) : SubSeq(s, 1, Len(s) - 1)[i] = s[i]
      /\ SubSeq(s, 1, Len(s) - 1) \in Seq(S)
  BY <1>1, SubSeqProperties
<1> QED
  BY <1>1, <1>2

LEMMA FrameHas ==
  ASSUME NEW a \in Actor, NEW r \in ExitReason \cup {None},
         NEW op \in {"init", "turn", "terminate", "telling"}
  PROVE  /\ Frame(a, op, r) \in FrameType
         /\ Frame(a, op, r).actor = a /\ Frame(a, op, r).op = op
         /\ Frame(a, op, r).reason = r /\ Frame(a, op, r).waits = None
         /\ Frame(a, op, r).watchers = {} /\ Frame(a, op, r).peers = {}
BY DEF Frame, FrameType

\* Another frame of the same actor on top.
LEMMA ShapeSet ==
  ASSUME PlaceOK, stack # <<>>,
         NEW f \in FrameType, f.actor = Top.actor,
         f.op \in {"init", "turn"} => Top.op \in {"init", "turn"},
         f.op \in {"terminate", "telling"} => f.reason # None
  PROVE  Shape(Append(Below, f), place)
<1> DEFINE n == Len(stack)
           t == Append(Below, f)
<1>1. /\ n \in Nat \ {0} /\ DOMAIN stack = 1..n
      /\ Below \in Seq(FrameType) /\ Len(Below) = n - 1
      /\ \A i \in 1..(n - 1) : Below[i] = stack[i]
  BY BelowHas DEF PlaceOK, Shape, Below
<1>2. /\ t \in Seq(FrameType) /\ DOMAIN t = 1..n
      /\ \A i \in 1..(n - 1) : t[i] = stack[i]
      /\ t[n] = f
  <2>1. (n - 1) + 1 = n
    BY <1>1
  <2> HIDE DEF n
  <2> QED
    BY <1>1, <2>1, AppendHas
<1> HIDE DEF t
<1>3. \A i \in 1..n : t[i].actor = stack[i].actor
  <2> SUFFICES ASSUME NEW i \in 1..n PROVE t[i].actor = stack[i].actor
    OBVIOUS
  <2>1. i = n \/ i \in 1..(n - 1)
    <3> HIDE DEF n
    <3> QED
      BY <1>1
  <2>2. CASE i = n
    <3>1. t[i] = f /\ stack[i] = Top
      BY <1>2, <2>2 DEF Top
    <3> QED
      BY <3>1
  <2>3. CASE i \in 1..(n - 1)
    BY <1>2, <2>3
  <2> QED
    BY <2>1, <2>2, <2>3
<1>4. \A i \in DOMAIN t : t[i].op \in {"init", "turn"} => i = 1
  <2> SUFFICES ASSUME NEW i \in 1..n, t[i].op \in {"init", "turn"} PROVE i = 1
    BY <1>2
  <2>1. CASE i = n
    BY <1>1, <1>2, <2>1 DEF PlaceOK, Shape, Top
  <2>2. CASE i # n
    BY <1>1, <1>2, <2>2 DEF PlaceOK, Shape
  <2> QED
    BY <2>1, <2>2
<1>5. \A i \in DOMAIN t : t[i].op \in {"terminate", "telling"}
                             => t[i].reason # None
  BY <1>1, <1>2 DEF PlaceOK, Shape
<1>6. \A a \in Actor :
        place[a] = "running" <=> \E i \in DOMAIN t : t[i].actor = a
  BY <1>1, <1>2, <1>3 DEF PlaceOK, Shape
<1>7. \A i, j \in DOMAIN t : t[i].actor = t[j].actor => i = j
  BY <1>1, <1>2, <1>3 DEF PlaceOK, Shape
<1> QED
  BY <1>2, <1>4, <1>5, <1>6, <1>7 DEF Shape, t

\* An actor is forced out of the table.
LEMMA ShapePush ==
  ASSUME NEW s, NEW pl \in Places, Shape(s, pl),
         NEW f \in FrameType, pl[f.actor] # "running",
         s = <<>> \/ f.op \notin {"init", "turn"},
         f.op \in {"terminate", "telling"} => f.reason # None
  PROVE  Shape(Append(s, f), [pl EXCEPT ![f.actor] = "running"])
<1> DEFINE n == Len(s)
           t == Append(s, f)
           p == [pl EXCEPT ![f.actor] = "running"]
<1>1. /\ s \in Seq(FrameType) /\ n \in Nat /\ DOMAIN s = 1..n
      /\ t \in Seq(FrameType) /\ DOMAIN t = 1..(n + 1)
      /\ \A i \in 1..n : t[i] = s[i]
      /\ t[n + 1] = f
  BY AppendHas DEF Shape
<1>2. f.actor \in Actor /\ \A i \in 1..n : s[i].actor # f.actor
  BY <1>1 DEF Shape, FrameType
<1>3. \A a \in Actor : p[a] = "running" <=> a = f.actor \/ pl[a] = "running"
  BY DEF Places
<1> HIDE DEF t, p
<1>4. \A a \in Actor : p[a] = "running" <=> \E i \in DOMAIN t : t[i].actor = a
  <2> TAKE a \in Actor
  <2>1. (\E i \in DOMAIN t : t[i].actor = a)
          <=> a = f.actor \/ \E i \in DOMAIN s : s[i].actor = a
    BY <1>1
  <2> QED
    BY <1>3, <2>1 DEF Shape
<1>5. \A i, j \in DOMAIN t : t[i].actor = t[j].actor => i = j
  <2> TAKE i, j \in DOMAIN t
  <2>1. CASE i = n + 1 \/ j = n + 1
    BY <1>1, <1>2, <2>1
  <2>2. CASE i # n + 1 /\ j # n + 1
    <3>1. i \in 1..n /\ j \in 1..n
      BY <1>1, <2>2
    <3> QED
      BY <1>1, <3>1 DEF Shape
  <2> QED
    BY <2>1, <2>2
<1>6. \A i \in DOMAIN t : t[i].op \in {"init", "turn"} => i = 1
  <2> SUFFICES ASSUME NEW i \in 1..(n + 1), t[i].op \in {"init", "turn"}
               PROVE  i = 1
    BY <1>1
  <2>1. CASE i = n + 1
    <3>1. s = <<>>
      BY <1>1, <2>1
    <3> QED
      BY <2>1, <3>1, <1>1, EmptySeq
  <2>2. CASE i # n + 1
    BY <1>1, <2>2 DEF Shape
  <2> QED
    BY <2>1, <2>2
<1>7. \A i \in DOMAIN t : t[i].op \in {"terminate", "telling"}
                             => t[i].reason # None
  BY <1>1 DEF Shape
<1> QED
  BY <1>1, <1>4, <1>5, <1>6, <1>7 DEF Shape, t, p

\* The top leaves the stack, and is somewhere else.
LEMMA ShapePop ==
  ASSUME PlaceOK, stack # <<>>, NEW w, w # "running"
  PROVE  Shape(Below, [place EXCEPT ![Top.actor] = w])
<1> DEFINE n == Len(stack)
           p == [place EXCEPT ![Top.actor] = w]
<1>1. /\ n \in Nat \ {0} /\ DOMAIN stack = 1..n
      /\ Top \in FrameType
      /\ Below \in Seq(FrameType) /\ DOMAIN Below = 1..(n - 1)
      /\ \A i \in 1..(n - 1) : Below[i] = stack[i]
  BY BelowHas DEF PlaceOK, Shape, Below, Top
<1>2. /\ Top.actor \in Actor /\ Top = stack[n]
      /\ \A i \in 1..(n - 1) : stack[i].actor # Top.actor
  BY <1>1 DEF PlaceOK, Shape, Top, FrameType
<1>3. \A a \in Actor : p[a] = "running" <=> a # Top.actor /\ place[a] = "running"
  BY <1>2 DEF PlaceOK, Places
<1> HIDE DEF p
<1>4. \A a \in Actor : p[a] = "running"
                         <=> \E i \in DOMAIN Below : Below[i].actor = a
  <2> TAKE a \in Actor
  <2>1. (\E i \in DOMAIN stack : stack[i].actor = a)
          <=> a = Top.actor \/ \E i \in DOMAIN Below : Below[i].actor = a
    BY <1>1, <1>2
  <2>2. (\E i \in DOMAIN Below : Below[i].actor = a) => a # Top.actor
    BY <1>1, <1>2
  <2> QED
    BY <1>3, <2>1, <2>2 DEF PlaceOK, Shape
<1>5. \A i \in DOMAIN Below : i \in DOMAIN stack /\ Below[i] = stack[i]
  BY <1>1
<1> QED
  BY <1>1, <1>4, <1>5 DEF PlaceOK, Shape, p
-----------------------------------------------------------------------------
(* Type correctness.                                                       *)

LEMMA TypeInit == Init => TypeInv
<1> SUFFICES ASSUME Init PROVE TypeInv
  OBVIOUS
<1>1. Cardinality(Root) \in Nat
  BY ActorAssumption, FS_CardinalityType
<1>2. runQueue \in Seq(Actor)
  <2>1. runQueue \in [1..Cardinality(Root) -> Root]
    BY DEF Init
  <2>2. runQueue \in [1..Cardinality(Root) -> Actor]
    BY <2>1, ActorAssumption
  <2> QED
    BY <1>1, <2>2, IsASeq
<1>3. BoxOK /\ BondsOK /\ RestOK /\ ShutdownOK
  BY <1>2, EmptySeq, BoundAssumption
     DEF Init, BoxOK, BondsOK, RestOK, ShutdownOK, None
<1>4. place \in Places /\ Shape(<<>>, place)
  <2>1. place \in Places /\ \A a \in Actor : place[a] # "running"
    BY DEF Init, Places
  <2>2. <<>> \in Seq(FrameType) /\ DOMAIN <<>> = {}
    BY EmptySeq, Len(<<>>) = 0
  <2> QED
    BY <2>1, <2>2 DEF Shape
<1> QED
  BY <1>3, <1>4 DEF TypeInv, PlaceOK, Init

LEMMA DeliverType ==
  ASSUME BoxOK, NEW to \in Actor, NEW env \in Envelope, Deliver(to, env)
  PROVE  BoxOK'
<1>1. /\ Append(mailbox[to], env) \in Seq(Envelope)
      /\ Append(runQueue, to) \in Seq(Actor)
  BY AppendHas DEF BoxOK
<1> DEFINE marks == ~scheduled[to] /\ (InTable(to) \/ Top.op # "terminate")
<1>2. /\ mailbox' = [mailbox EXCEPT ![to] = Append(@, env)]
      /\ scheduled' = [scheduled EXCEPT ![to] = @ \/ marks]
      /\ runQueue' = IF marks THEN Append(runQueue, to) ELSE runQueue
  BY DEF Deliver
<1>3. (scheduled[to] \/ marks) \in BOOLEAN
  OBVIOUS
<1> HIDE DEF marks
<1> QED
  BY <1>1, <1>2, <1>3 DEF BoxOK

LEMMA ForceExitType ==
  ASSUME BoxOK, place \in Places, NEW s, Shape(s, place),
         NEW to \in Actor, InTable(to), NEW reason \in ExitReason,
         ForceExit(s, to, reason)
  PROVE  PlaceOK' /\ BoxOK'
<1> DEFINE f == Frame(to, "terminate", reason)
<1>1. /\ f \in FrameType /\ f.actor = to /\ f.op = "terminate"
      /\ f.reason = reason
  BY FrameHas
<1>2. reason # None /\ place[to] # "running"
  BY DEF ExitReason, None, InTable
<1> HIDE DEF f
<1>3. Shape(Append(s, f), [place EXCEPT ![f.actor] = "running"])
  BY <1>1, <1>2, ShapePush
<1>4. place' \in Places
  BY DEF ForceExit, Places
<1> QED
  BY <1>1, <1>3, <1>4 DEF ForceExit, PlaceOK, BoxOK, box, f

LEMMA EnvelopesTyped ==
  /\ Exit \in Envelope /\ Down \in Envelope /\ User \in Envelope
  /\ \A on \in BOOLEAN : System(on) \in Envelope
BY DEF Envelope

LEMMA EnqueueType ==
  ASSUME BoxOK, place \in Places, NEW s, Shape(s, place),
         NEW to \in Actor, InTable(to), NEW env \in Envelope,
         EnqueueRuntimeEnvelope(s, to, env)
  PROVE  PlaceOK' /\ BoxOK'
<1>1. CASE Deliver(to, env) /\ stack' = s /\ place' = place
  BY <1>1, DeliverType DEF PlaceOK
<1>2. CASE ForceExit(s, to, "Error")
  BY <1>2, ForceExitType DEF ExitReason
<1> QED
  BY <1>1, <1>2 DEF EnqueueRuntimeEnvelope

LEMMA PropagateType ==
  ASSUME BoxOK, place \in Places, NEW s, Shape(s, place),
         NEW to \in Actor, NEW reason \in ExitReason,
         PropagateLinkExit(s, to, reason)
  PROVE  PlaceOK' /\ BoxOK'
<1>1. CASE InTable(to) /\ ForceExit(s, to, reason)
  BY <1>1, ForceExitType
<1>2. CASE InTable(to) /\ EnqueueRuntimeEnvelope(s, to, Exit)
  BY <1>2, EnqueueType, EnvelopesTyped
<1>3. CASE stack' = s /\ UNCHANGED <<place, box>>
  BY <1>3 DEF PlaceOK, BoxOK, box
<1> QED
  BY <1>1, <1>2, <1>3 DEF PropagateLinkExit

LEMMA RequestShutdownType ==
  ASSUME BoxOK, ShutdownOK, place \in Places, NEW s, Shape(s, place),
         NEW to \in Actor, NEW policy \in Policy,
         RequestShutdown(s, to, policy)
  PROVE  PlaceOK' /\ BoxOK' /\ ShutdownOK'
<1>1. PlaceOK' /\ BoxOK'
  BY ForceExitType, PropagateType DEF RequestShutdown, ExitReason
<1>2. ShutdownOK'
  BY DEF RequestShutdown, ShutdownOK
<1> QED
  BY <1>1, <1>2

\* The frame of the actor that runs.
LEMMA RunsTop ==
  ASSUME PlaceOK, stack # <<>>
  PROVE  /\ Top \in FrameType /\ Top.actor \in Actor
         /\ Top.reason \in ExitReason \cup {None}
         /\ Top.op \in {"terminate", "telling"} => Top.reason # None
         /\ place[Top.actor] = "running"
         /\ Len(stack) \in DOMAIN stack
<1>1. /\ Len(stack) \in DOMAIN stack /\ Top \in FrameType
  BY BelowHas DEF PlaceOK, Shape, Top
<1> QED
  BY <1>1 DEF PlaceOK, Shape, FrameType, Top

\* Actor code makes a call and its frame changes at most.
LEMMA EnqueueSelfType ==
  ASSUME BoxOK, PlaceOK, stack # <<>>, NEW a \in Actor, NEW env \in Envelope,
         NEW f \in FrameType, f.actor = Top.actor, f.op = Top.op,
         f.reason = Top.reason, EnqueueSelf(a, f, env), place' = place
  PROVE  PlaceOK' /\ BoxOK'
<1>1. /\ WithExit(f, "Error") \in FrameType
      /\ WithExit(f, "Error").actor = Top.actor
      /\ WithExit(f, "Error").op = Top.op
      /\ WithExit(f, "Error").op \in {"terminate", "telling"}
           => WithExit(f, "Error").reason # None
  BY RunsTop DEF WithExit, FrameType, ExitReason, None
<1>2. Shape(Append(Below, f), place) /\ Shape(Append(Below, WithExit(f, "Error")), place)
  BY <1>1, ShapeSet, RunsTop
<1> QED
  BY <1>2, DeliverType DEF EnqueueSelf, PlaceOK, BoxOK, box

LEMMA HostType ==
  ASSUME TypeInv, Host
  PROVE  TypeInv'
<1> USE DEF TypeInv
<1> PICK b \in Actor :
      \/ \E env \in {User, System(TRUE), System(FALSE)} : HostSends(b, env)
      \/ \E reason \in Reason : HostExits(b, reason)
      \/ \E policy \in Policy : HostShutsDown(b, policy)
  BY DEF Host
<1>0. place \in Places
  BY DEF PlaceOK
<1>1. ASSUME NEW env \in {User, System(TRUE), System(FALSE)}, HostSends(b, env)
      PROVE  TypeInv'
  <2>1. BoxOK'
    BY <1>1, DeliverType DEF HostSends, Envelope
  <2>2. PlaceOK' /\ BondsOK' /\ ShutdownOK' /\ RestOK'
    BY <1>1, BoundAssumption
       DEF HostSends, Counts, PlaceOK, BondsOK, bonds, ShutdownOK, shutdown,
           RestOK
  <2> QED
    BY <2>1, <2>2
<1>2. ASSUME NEW reason \in Reason, HostExits(b, reason) PROVE TypeInv'
  <2>0. Shape(<<>>, place) /\ reason \in ExitReason
    BY <1>2, ChoiceAssumption DEF HostExits, PlaceOK, ExitReason
  <2>1. BoxOK' /\ PlaceOK'
    BY <1>0, <1>2, <2>0, ForceExitType DEF HostExits
  <2>2. BondsOK' /\ ShutdownOK' /\ RestOK'
    BY <1>2, BoundAssumption
       DEF HostExits, Counts, BondsOK, bonds, ShutdownOK, shutdown, RestOK
  <2> QED
    BY <2>1, <2>2
<1>3. ASSUME NEW policy \in Policy, HostShutsDown(b, policy) PROVE TypeInv'
  <2>0. Shape(<<>>, place)
    BY <1>3 DEF HostShutsDown, PlaceOK
  <2>1. BoxOK' /\ PlaceOK' /\ ShutdownOK'
    BY <1>0, <1>3, <2>0, RequestShutdownType DEF HostShutsDown
  <2>2. BondsOK' /\ RestOK'
    BY <1>3, BoundAssumption
       DEF HostShutsDown, Counts, BondsOK, bonds, RestOK
  <2> QED
    BY <2>1, <2>2
<1> QED
  BY <1>1, <1>2, <1>3

\* A monitor is an entry of its reference and the actor at the other end.
LEMMA EntryTyped ==
  ASSUME NEW r \in Ref, NEW b \in Actor
  PROVE  [ref |-> r, peer |-> b] \in MonitorEntry
BY DEF MonitorEntry

LEMMA CountsTyped ==
  ASSUME calls \in 0..MaxCalls, Counts
  PROVE  calls' \in 0..MaxCalls /\ calls' \in Ref /\ calls' = calls + 1
BY BoundAssumption DEF Counts, Ref

LEMMA UserCodeType ==
  ASSUME TypeInv, NEW a \in Actor, NEW b \in Actor,
         \/ Send(a, b) \/ Link(a, b) \/ Unlink(a, b) \/ Monitor(a, b)
         \/ Demonitor(a) \/ SetTrapExit(a) \/ Spawn(a, b)
         \/ \E reason \in Reason : ExitSelf(a, reason)
         \/ \E policy \in Policy : ShutdownActor(a, b, policy)
  PROVE  TypeInv'
<1> USE DEF TypeInv
<1>0. /\ place \in Places /\ Runs(a) /\ Counts /\ stack # <<>>
      /\ Top.actor = a /\ Top \in FrameType
      /\ Top.reason \in ExitReason \cup {None}
      /\ Top.op \in {"terminate", "telling"} => Top.reason # None
  BY RunsTop DEF PlaceOK, Send, Link, Unlink, Monitor, Demonitor, SetTrapExit,
     Spawn, ExitSelf, ShutdownActor, Runs
<1>c. calls' \in 0..MaxCalls /\ calls' \in Ref
  BY <1>0, CountsTyped DEF RestOK
<1>1. CASE Send(a, b)
  <2>1. BoxOK'
    BY <1>1, DeliverType DEF Send, Envelope
  <2>2. PlaceOK' /\ BondsOK' /\ ShutdownOK' /\ RestOK'
    BY <1>1, <1>c
       DEF Send, PlaceOK, BondsOK, bonds, ShutdownOK, shutdown, RestOK
  <2> QED
    BY <2>1, <2>2
<1>2. CASE Link(a, b)
  BY <1>2, <1>c
     DEF Link, PlaceOK, BondsOK, BoxOK, box, ShutdownOK, shutdown, RestOK
<1>3. CASE Unlink(a, b)
  BY <1>3, <1>c
     DEF Unlink, PlaceOK, BondsOK, BoxOK, box, ShutdownOK, shutdown, RestOK
<1>4. CASE Monitor(a, b)
  <2>1. BondsOK'
    BY <1>4, <1>c, EntryTyped DEF Monitor, BondsOK
  <2>2. PlaceOK' /\ BoxOK'
    <3>1. CASE EnqueueSelf(a, Top, Down)
      BY <1>0, <1>4, <3>1, EnqueueSelfType, EnvelopesTyped DEF Monitor
    <3>2. CASE UNCHANGED <<box, stack>>
      BY <1>4, <3>2 DEF Monitor, PlaceOK, BoxOK, box
    <3> QED
      BY <1>4, <3>1, <3>2 DEF Monitor
  <2>3. ShutdownOK' /\ RestOK'
    BY <1>4, <1>c DEF Monitor, ShutdownOK, shutdown, RestOK
  <2> QED
    BY <2>1, <2>2, <2>3
<1>5. CASE Demonitor(a)
  <2>0. PICK m \in monOut[a] :
       /\ monOut' = [monOut EXCEPT ![a] = @ \ {m}]
       /\ monIn' = IF m.peer = a \/ InTable(m.peer)
                   THEN [monIn EXCEPT ![m.peer] =
                           @ \ {[ref |-> m.ref, peer |-> a]}]
                   ELSE monIn
    BY <1>5 DEF Demonitor
  <2>1. BondsOK'
    <3> DEFINE e == [ref |-> m.ref, peer |-> a]
    <3>1. links' = links
      BY <1>5 DEF Demonitor
    <3>2. monIn' = monIn \/ monIn' = [monIn EXCEPT ![m.peer] = @ \ {e}]
      BY <2>0
    <3> HIDE DEF e
    <3> QED
      BY <2>0, <3>1, <3>2 DEF BondsOK
  <2> QED
    BY <1>5, <2>1, <1>c
       DEF Demonitor, PlaceOK, BoxOK, box, ShutdownOK, shutdown, RestOK
<1>6. CASE SetTrapExit(a)
  BY <1>6, <1>c
     DEF SetTrapExit, PlaceOK, BondsOK, bonds, BoxOK, box, ShutdownOK,
         shutdown, RestOK
<1>7. CASE Spawn(a, b)
  <2>1. BoxOK'
    BY <1>7, AppendHas DEF Spawn, InsertActor, BoxOK
  <2>2. PlaceOK'
    <3>1. place' \in Places
          /\ \A x \in Actor : place'[x] = "running" <=> place[x] = "running"
      BY <1>0, <1>7 DEF Spawn, InsertActor, Places
    <3>2. stack' = stack
      BY <1>7 DEF Spawn
    <3> QED
      BY <3>1, <3>2 DEF PlaceOK, Shape
  <2>3. BondsOK'
    BY <1>7 DEF Spawn, BondsOK
  <2> QED
    BY <1>7, <1>c, <2>1, <2>2, <2>3 DEF Spawn, ShutdownOK, shutdown, RestOK
<1>8. ASSUME NEW reason \in Reason, ExitSelf(a, reason) PROVE TypeInv'
  <2>0. reason \in ExitReason /\ reason # None
    BY ChoiceAssumption DEF ExitReason, None
  <2>1. /\ WithExit(Top, reason) \in FrameType
        /\ WithExit(Top, reason).actor = Top.actor
        /\ WithExit(Top, reason).op = Top.op
        /\ WithExit(Top, reason).reason \in {Top.reason, reason}
    BY <1>0, <2>0 DEF WithExit, FrameType
  <2>2. Shape(Append(Below, WithExit(Top, reason)), place)
    BY <1>0, <2>0, <2>1, ShapeSet
  <2> QED
    BY <1>8, <1>c, <2>2
       DEF ExitSelf, PlaceOK, BondsOK, bonds, BoxOK, box, ShutdownOK,
         shutdown, RestOK
<1>9. ASSUME NEW policy \in Policy, ShutdownActor(a, b, policy) PROVE TypeInv'
  <2> DEFINE f == IF b \in links[a] THEN [Top EXCEPT !.waits = b] ELSE Top
  <2>1. /\ f \in FrameType /\ f.actor = Top.actor /\ f.op = Top.op
        /\ f.reason = Top.reason
    BY <1>0 DEF FrameType
  <2>2. RequestShutdown(Append(Below, f), b, policy)
    BY <1>9 DEF ShutdownActor
  <2> HIDE DEF f
  <2>3. Shape(Append(Below, f), place)
    BY <1>0, <2>1, ShapeSet
  <2>4. PlaceOK' /\ BoxOK' /\ ShutdownOK'
    BY <1>0, <2>2, <2>3, RequestShutdownType
  <2> QED
    BY <1>9, <1>c, <2>4 DEF ShutdownActor, BondsOK, bonds, RestOK
<1> QED
  BY <1>1, <1>2, <1>3, <1>4, <1>5, <1>6, <1>7, <1>8, <1>9

LEMMA ShutdownReturnsType ==
  ASSUME TypeInv, NEW a \in Actor, ShutdownReturns(a)
  PROVE  TypeInv'
<1> USE DEF TypeInv
<1> DEFINE back == [Top EXCEPT !.waits = None]
<1>1. /\ stack # <<>> /\ Top.actor = a /\ Top \in FrameType
      /\ Top.op \in {"terminate", "telling"} => Top.reason # None
      /\ Top.reason \in ExitReason \cup {None}
  BY RunsTop DEF ShutdownReturns
<1>2. /\ back \in FrameType /\ back.actor = Top.actor /\ back.op = Top.op
      /\ back.reason = Top.reason
  BY <1>1 DEF FrameType
<1>3. UNCHANGED <<place, suspended, trap, monOut, monIn, shutdown, calls, deaf>>
  BY DEF ShutdownReturns
<1>4. \/ stack' = Append(Below, back) /\ UNCHANGED <<box, links>>
      \/ /\ links' = [links EXCEPT ![a] = @ \ {Top.waits}]
         /\ HandleCurrentExitSignal(a, back, "Shutdown")
  BY DEF ShutdownReturns
<1> HIDE DEF back
<1>5. BondsOK' /\ ShutdownOK' /\ RestOK'
  BY <1>3, <1>4 DEF BondsOK, ShutdownOK, shutdown, RestOK
<1>6. Shape(Append(Below, back), place)
  BY <1>1, <1>2, ShapeSet
<1>7. CASE HandleCurrentExitSignal(a, back, "Shutdown")
  <2>1. CASE EnqueueSelf(a, back, Exit)
    BY <1>1, <1>2, <1>3, <1>5, <2>1, EnqueueSelfType, EnvelopesTyped
  <2>2. CASE stack' = Append(Below, WithExit(back, "Shutdown")) /\ UNCHANGED box
    <3>1. /\ WithExit(back, "Shutdown") \in FrameType
          /\ WithExit(back, "Shutdown").actor = Top.actor
          /\ WithExit(back, "Shutdown").op = Top.op
          /\ WithExit(back, "Shutdown").reason \in {Top.reason, "Shutdown"}
      BY <1>1, <1>2 DEF WithExit, FrameType, ExitReason
    <3>2. "Shutdown" # None
      BY DEF None
    <3>3. Shape(Append(Below, WithExit(back, "Shutdown")), place)
      BY <1>1, <3>1, <3>2, ShapeSet
    <3> QED
      BY <1>3, <1>5, <2>2, <3>3 DEF PlaceOK, BoxOK, box
  <2> QED
    BY <1>7, <2>1, <2>2 DEF HandleCurrentExitSignal
<1>8. CASE stack' = Append(Below, back) /\ UNCHANGED <<box, links>>
  BY <1>3, <1>5, <1>6, <1>8 DEF PlaceOK, BoxOK, box
<1> QED
  BY <1>4, <1>7, <1>8

LEMMA UnwindsType ==
  ASSUME TypeInv, NEW a \in Actor,
         \/ TurnReturns(a) \/ TurnStops(a)
         \/ TerminateReturns(a) \/ TellWatcher(a) \/ TellPeer(a) \/ Finished(a)
  PROVE  TypeInv'
<1> USE DEF TypeInv
<1>0. /\ place \in Places /\ stack # <<>>
      /\ Top.actor = a /\ Top \in FrameType
      /\ Top.reason \in ExitReason \cup {None}
      /\ Top.op \in {"terminate", "telling"} => Top.reason # None
  BY RunsTop DEF PlaceOK, TurnReturns, TurnStops, TerminateReturns, TellWatcher,
     TellPeer, Finished, Tells, Runs
<1>1. CASE TurnReturns(a)
  <2>1. PlaceOK'
    BY <1>0, <1>1, ShapePop DEF TurnReturns, PlaceOK, Places
  <2>2. BoxOK'
    BY <1>1, AppendHas DEF TurnReturns, BoxOK
  <2> QED
    BY <1>1, <2>1, <2>2
       DEF TurnReturns, BondsOK, bonds, ShutdownOK, shutdown, RestOK
<1>2. CASE TurnStops(a)
  <2>1. PICK r \in Reason \cup {"Error", Top.reason} :
          r # None /\ stack' = Append(Below, Frame(a, "terminate", r))
    BY <1>2 DEF TurnStops
  <2>2. r \in ExitReason
    BY <1>0, <2>1, ChoiceAssumption DEF ExitReason
  <2>3. Shape(Append(Below, Frame(a, "terminate", r)), place)
    BY <1>0, <2>1, <2>2, FrameHas, ShapeSet
  <2> QED
    BY <1>2, <2>1, <2>3
       DEF TurnStops, PlaceOK, BoxOK, box, BondsOK, bonds, ShutdownOK, shutdown,
           RestOK
<1>3. CASE TerminateReturns(a)
  <2>1. PICK final \in {Top.reason, "Error"} :
       stack' = Append(Below,
         [Frame(a, "telling", ShutdownLinkReason(a, final)) EXCEPT
            !.watchers = {m \in monIn[a] : m.peer # a},
            !.peers = links[a]])
    BY <1>3 DEF TerminateReturns
  <2> DEFINE r == ShutdownLinkReason(a, final)
             f == [Frame(a, "telling", r) EXCEPT
                     !.watchers = {m \in monIn[a] : m.peer # a},
                     !.peers = links[a]]
  <2>2. r \in ExitReason /\ r # None
    BY <1>0, <1>3 DEF ShutdownLinkReason, ExitReason, None, TerminateReturns
  <2> HIDE DEF r
  <2>3. /\ f \in FrameType /\ f.actor = Top.actor /\ f.op = "telling"
        /\ f.reason = r
    BY <1>0, <2>2 DEF Frame, FrameType, BondsOK
  <2>4. stack' = Append(Below, f)
    BY <2>1 DEF r
  <2> HIDE DEF f
  <2>5. Shape(Append(Below, f), place)
    BY <1>0, <2>2, <2>3, ShapeSet
  <2>6. BondsOK'
    BY <1>3 DEF TerminateReturns, WithoutMonitorsOf, BondsOK
  <2>7. BoxOK'
    BY <1>3, EmptySeq DEF TerminateReturns, BoxOK
  <2> QED
    BY <1>3, <2>4, <2>5, <2>6, <2>7
       DEF TerminateReturns, PlaceOK, ShutdownOK, shutdown, RestOK
<1>4. CASE TellWatcher(a)
  <2>1. PICK m \in Top.watchers :
       LET told == Append(Below, [Top EXCEPT !.watchers = @ \ {m}])
       IN  \/ /\ InTable(m.peer)
              /\ monOut' = [monOut EXCEPT ![m.peer] =
                              @ \ {[ref |-> m.ref, peer |-> a]}]
              /\ EnqueueRuntimeEnvelope(told, m.peer, Down)
              /\ UNCHANGED deaf
           \/ /\ ~InTable(m.peer)
              /\ deaf' = deaf \cup ({m.peer} \cap Busy(a, FALSE))
              /\ stack' = told
              /\ UNCHANGED <<place, box, monOut>>
    BY <1>4 DEF TellWatcher
  <2> DEFINE f == [Top EXCEPT !.watchers = @ \ {m}]
             told == Append(Below, f)
  <2>2. m.peer \in Actor
    BY <1>0 DEF FrameType, MonitorEntry
  <2>3. /\ f \in FrameType /\ f.actor = Top.actor /\ f.op = Top.op
        /\ f.reason = Top.reason
    BY <1>0 DEF FrameType
  <2> HIDE DEF f
  <2>4. Shape(told, place)
    BY <1>0, <2>3, ShapeSet
  <2>5. \/ /\ InTable(m.peer)
           /\ monOut' = [monOut EXCEPT ![m.peer] =
                              @ \ {[ref |-> m.ref, peer |-> a]}]
           /\ EnqueueRuntimeEnvelope(told, m.peer, Down)
           /\ UNCHANGED deaf
        \/ /\ deaf' \subseteq deaf \cup {m.peer}
           /\ stack' = told
           /\ UNCHANGED <<place, box, monOut>>
    BY <2>1 DEF f
  <2> HIDE DEF told
  <2>6. PlaceOK' /\ BoxOK'
    BY <1>0, <2>2, <2>4, <2>5, EnqueueType, EnvelopesTyped DEF PlaceOK, BoxOK, box
  <2>7. BondsOK' /\ deaf' \subseteq Actor
    BY <1>4, <2>2, <2>5 DEF TellWatcher, BondsOK, RestOK
  <2> QED
    BY <1>4, <2>6, <2>7 DEF TellWatcher, ShutdownOK, shutdown, RestOK
<1>5. CASE TellPeer(a)
  <2>1. PICK b \in Top.peers :
       /\ links' = IF InTable(b) THEN [links EXCEPT ![b] = @ \ {a}] ELSE links
       /\ PropagateLinkExit(Append(Below, [Top EXCEPT !.peers = @ \ {b}]), b,
                            Top.reason)
       /\ deaf' = deaf \cup ({b} \cap Busy(a, TRUE))
    BY <1>5 DEF TellPeer
  <2> DEFINE f == [Top EXCEPT !.peers = @ \ {b}]
             told == Append(Below, f)
  <2>2. b \in Actor /\ Top.reason \in ExitReason
    BY <1>0, <1>5 DEF FrameType, TellPeer, Tells
  <2>3. /\ f \in FrameType /\ f.actor = Top.actor /\ f.op = Top.op
        /\ f.reason = Top.reason
    BY <1>0 DEF FrameType
  <2>5. PropagateLinkExit(told, b, Top.reason)
    BY <2>1
  <2> HIDE DEF f
  <2>4. Shape(told, place)
    BY <1>0, <2>3, ShapeSet
  <2> HIDE DEF told
  <2>6. PlaceOK' /\ BoxOK'
    BY <1>0, <2>2, <2>4, <2>5, PropagateType
  <2>7. BondsOK' /\ deaf' \subseteq Actor
    BY <1>5, <2>1, <2>2 DEF TellPeer, BondsOK, RestOK
  <2> QED
    BY <1>5, <2>6, <2>7 DEF TellPeer, ShutdownOK, shutdown, RestOK
<1>6. CASE Finished(a)
  <2>1. PlaceOK'
    BY <1>0, <1>6, ShapePop DEF Finished, PlaceOK, Places
  <2>2. BoxOK' /\ ShutdownOK'
    BY <1>6 DEF Finished, BoxOK, ShutdownOK
  <2> QED
    BY <1>6, <2>1, <2>2 DEF Finished, BondsOK, bonds, RestOK
<1> QED
  BY <1>1, <1>2, <1>3, <1>4, <1>5, <1>6

LEMMA LoopType ==
  ASSUME TypeInv, IngestEvent \/ RunOnce \/ \E b \in Actor : Elapse(b)
  PROVE  TypeInv'
<1> USE DEF TypeInv
<1>1. CASE IngestEvent
  <2>1. Head(channel) \in Actor /\ Tail(channel) \in Seq(Actor)
    BY <1>1, TailHas DEF IngestEvent, ShutdownOK
  <2>2. PlaceOK' /\ BoxOK'
    BY <1>1, <2>1, ForceExitType
       DEF IngestEvent, PlaceOK, BoxOK, box, ExitReason
  <2> QED
    BY <1>1, <2>1, <2>2
       DEF IngestEvent, BondsOK, bonds, ShutdownOK, RestOK
<1>2. CASE RunOnce
  <2> DEFINE a == Head(runQueue)
  <2>1. a \in Actor /\ Tail(runQueue) \in Seq(Actor)
    BY <1>2, TailHas DEF RunOnce, BoxOK
  <2>2. /\ stack = <<>> /\ runQueue' = Tail(runQueue)
        /\ UNCHANGED <<trap, bonds, shutdown, calls, deaf>>
    BY <1>2 DEF RunOnce
  <2>3. place \in Places /\ Shape(<<>>, place)
    BY <2>2 DEF PlaceOK
  <2>4. ASSUME NEW op \in {"init", "turn"}, place[a] \in {"fresh", "table"},
               place' = [place EXCEPT ![a] = "running"],
               stack' = <<Frame(a, op, None)>>
        PROVE  PlaceOK'
    <3> DEFINE f == Frame(a, op, None)
    <3>1. f \in FrameType /\ f.actor = a /\ f.op = op
      BY <2>1, FrameHas
    <3> HIDE DEF f
    <3>2. Shape(Append(<<>>, f), [place EXCEPT ![f.actor] = "running"])
      BY <2>3, <2>4, <3>1, ShapePush
    <3>3. Append(<<>>, f) = <<f>>
      OBVIOUS
    <3> QED
      BY <2>1, <2>3, <2>4, <3>1, <3>2, <3>3 DEF PlaceOK, Places, f
  <2>5. /\ \/ place' = place /\ stack' = stack
           \/ \E op \in {"init", "turn"} :
                /\ place[a] \in {"fresh", "table"}
                /\ place' = [place EXCEPT ![a] = "running"]
                /\ stack' = <<Frame(a, op, None)>>
        /\ scheduled' = scheduled \/ scheduled' = [scheduled EXCEPT ![a] = FALSE]
        /\ \/ UNCHANGED <<mailbox, suspended>>
           \/ \E i \in DOMAIN mailbox[a] :
                /\ mailbox' = [mailbox EXCEPT ![a] = RemoveEntry(@, i)]
                /\ suspended' = [suspended EXCEPT ![a] =
                       IF mailbox[a][i].kind = "System" THEN mailbox[a][i].suspend
                                                        ELSE @]
    BY <1>2 DEF RunOnce, Unscheduled
  <2>6. PlaceOK'
    BY <2>4, <2>5 DEF PlaceOK
  <2>7. BoxOK'
    <3>1. \A i \in DOMAIN mailbox[a] : RemoveEntry(mailbox[a], i) \in Seq(Envelope)
      BY <2>1, RemoveEntryType DEF BoxOK
    <3>2. mailbox' \in [Actor -> Seq(Envelope)]
      BY <2>1, <2>5, <3>1 DEF BoxOK
    <3> QED
      BY <2>1, <2>2, <2>5, <3>2 DEF BoxOK
  <2>8. suspended' \in [Actor -> BOOLEAN]
    <3>1. \A e \in Envelope : e.kind = "System" => e.suspend \in BOOLEAN
      <4> SUFFICES ASSUME NEW e \in Envelope, e.kind = "System"
                   PROVE  e.suspend \in BOOLEAN
        OBVIOUS
      <4>1. e # Exit /\ e # Down /\ e # User
        BY DEF Exit, Down, User
      <4>2. \A on \in BOOLEAN : System(on).suspend = on
        BY DEF System
      <4> QED
        BY <4>1, <4>2 DEF Envelope
    <3>2. \A i \in DOMAIN mailbox[a] : mailbox[a][i] \in Envelope
      BY <2>1, ElementOfSeq, LenProperties DEF BoxOK
    <3> QED
      BY <2>1, <2>5, <3>1, <3>2 DEF RestOK
  <2> QED
    BY <2>2, <2>6, <2>7, <2>8 DEF BondsOK, bonds, ShutdownOK, shutdown, RestOK
<1>3. ASSUME NEW b \in Actor, Elapse(b) PROVE TypeInv'
  <2>1. Append(channel, b) \in Seq(Actor)
    BY AppendHas DEF ShutdownOK
  <2> QED
    BY <1>3, <2>1
       DEF Elapse, PlaceOK, BoxOK, box, BondsOK, bonds, ShutdownOK, RestOK
<1> QED
  BY <1>1, <1>2, <1>3

LEMMA TypeStep == TypeInv /\ [Next]_vars => TypeInv'
<1> SUFFICES ASSUME TypeInv, [Next]_vars PROVE TypeInv'
  OBVIOUS
<1>1. CASE Next
  BY <1>1, HostType, UserCodeType, ShutdownReturnsType, UnwindsType, LoopType
     DEF Next, UserCode, Unwinds
<1>2. CASE UNCHANGED vars
  BY <1>2 DEF vars, box, bonds, shutdown, TypeInv, BoxOK, PlaceOK, BondsOK,
              ShutdownOK, RestOK
<1> QED
  BY <1>1, <1>2

\* The runtime keeps its types, an actor is out of the table exactly while it
\* has one frame on the stack, and only the bottom frame is a turn: take_actor,
\* return_actor and finish_actor go together on every path.
THEOREM TypeCorrect == Spec => []TypeOK
<1> QED
  BY TypeInit, TypeStep, TypeInvTypes, PTL DEF Spec
-----------------------------------------------------------------------------
(* No actor loses its turn.                                                *)

\* What a delivery or an exit signal to an actor comes to.
Outcome(s, to) ==
  \/ stack' = s /\ UNCHANGED <<place, box>>
  \/ /\ InTable(to) /\ stack' = s /\ place' = place
     /\ \E env \in Envelope : Deliver(to, env)
  \/ /\ InTable(to)
     /\ \E reason \in ExitReason : ForceExit(s, to, reason)

LEMMA EnqueueOutcome ==
  ASSUME NEW s, NEW to, NEW env \in Envelope, InTable(to),
         EnqueueRuntimeEnvelope(s, to, env)
  PROVE  Outcome(s, to)
BY DEF EnqueueRuntimeEnvelope, Outcome, ExitReason

LEMMA PropagateOutcome ==
  ASSUME NEW s, NEW to, NEW reason \in ExitReason,
         PropagateLinkExit(s, to, reason)
  PROVE  Outcome(s, to)
<1>1. CASE InTable(to) /\ ForceExit(s, to, reason)
  BY <1>1 DEF Outcome
<1>2. CASE InTable(to) /\ EnqueueRuntimeEnvelope(s, to, Exit)
  BY <1>2, EnqueueOutcome, EnvelopesTyped
<1>3. CASE stack' = s /\ UNCHANGED <<place, box>>
  BY <1>3 DEF Outcome
<1> QED
  BY <1>1, <1>2, <1>3 DEF PropagateLinkExit

LEMMA RequestOutcome ==
  ASSUME NEW s, NEW to, NEW policy, RequestShutdown(s, to, policy)
  PROVE  Outcome(s, to)
<1>1. CASE InTable(to) /\ ForceExit(s, to, "Kill")
  BY <1>1 DEF Outcome, ExitReason
<1>2. CASE PropagateLinkExit(s, to, "Shutdown")
  BY <1>2, PropagateOutcome DEF ExitReason
<1> QED
  BY <1>1, <1>2 DEF RequestShutdown

Queued(a)  == \E i \in DOMAIN runQueue : runQueue[i] = a
Takable(a) == \E i \in DOMAIN mailbox[a] :
                TakesNext(mailbox[a], suspended[a], i)

\* An actor whose flag is set is in the queue, and the flag of an actor with
\* something to do is set.  The part about actors on the stack is what
\* return_actor relies on when it finds the flag set.
TurnInv ==
  \A a \in Actor :
    /\ scheduled[a] => Queued(a)
    /\ place[a] \in {"unborn", "gone"} => ~scheduled[a]
    /\ place[a] = "fresh" => scheduled[a]
    /\ place[a] = "table" /\ Takable(a) => scheduled[a]

LEMMA TurnInvMeans == TurnInv => NoLostTurn
BY DEF TurnInv, NoLostTurn, InTable, Takable, Queued

LEMMA TurnInit == Init => TurnInv
<1> SUFFICES ASSUME Init PROVE TurnInv
  OBVIOUS
<1>1. \A a \in Root : Queued(a)
  BY DEF Init, Queued
<1>2. \A a \in Actor :
        /\ scheduled[a] <=> a \in Root
        /\ place[a] = IF a \in Root THEN "fresh" ELSE "unborn"
  BY DEF Init
<1> QED
  BY <1>1, <1>2 DEF TurnInv

LEMMA AppendQueued ==
  ASSUME NEW b \in Actor, runQueue \in Seq(Actor),
         runQueue' = Append(runQueue, b)
  PROVE  Queued(b)' /\ \A x \in Actor : Queued(x) => Queued(x)'
<1>1. /\ Len(runQueue) \in Nat /\ DOMAIN runQueue = 1..Len(runQueue)
      /\ DOMAIN runQueue' = 1..(Len(runQueue) + 1)
      /\ \A i \in 1..Len(runQueue) : runQueue'[i] = runQueue[i]
      /\ runQueue'[Len(runQueue) + 1] = b
  BY AppendHas
<1> QED
  BY <1>1 DEF Queued

LEMMA TurnSame ==
  ASSUME TypeInv, TurnInv, UNCHANGED <<box, suspended>>,
         \A x \in Actor : place'[x] = place[x] \/ place'[x] = "running"
  PROVE  TurnInv'
BY DEF TurnInv, Queued, Takable, box

LEMMA TurnDeliver ==
  ASSUME TypeInv, TurnInv, NEW to \in Actor, NEW env \in Envelope,
         Deliver(to, env), place[to] \in {"fresh", "table", "running"},
         UNCHANGED <<place, suspended>>
  PROVE  TurnInv'
<1> DEFINE marks == ~scheduled[to] /\ (InTable(to) \/ Top.op # "terminate")
<1>1. /\ \A x \in Actor \ {to} : mailbox'[x] = mailbox[x]
      /\ \A x \in Actor \ {to} : scheduled'[x] = scheduled[x]
      /\ scheduled'[to] = (scheduled[to] \/ marks)
      /\ InTable(to) => scheduled'[to]
  BY DEF Deliver, TypeInv, BoxOK
<1>2. runQueue' = IF marks THEN Append(runQueue, to) ELSE runQueue
  BY DEF Deliver
<1> HIDE DEF marks
<1>3. /\ \A x \in Actor : Queued(x) => Queued(x)'
      /\ marks => Queued(to)'
  BY <1>2, AppendQueued DEF Queued, TypeInv, BoxOK
<1>4. ASSUME NEW x \in Actor PROVE
        /\ scheduled'[x] => Queued(x)'
        /\ place'[x] \in {"unborn", "gone"} => ~scheduled'[x]
        /\ place'[x] = "fresh" => scheduled'[x]
        /\ place'[x] = "table" /\ Takable(x)' => scheduled'[x]
  <2>1. CASE x = to
    BY <1>1, <1>3, <2>1 DEF TurnInv, InTable
  <2>2. CASE x # to
    BY <1>1, <1>3, <2>2 DEF TurnInv, Takable
  <2> QED
    BY <2>1, <2>2
<1> QED
  BY <1>4 DEF TurnInv

LEMMA TurnOutcome ==
  ASSUME TypeInv, TurnInv, NEW s, NEW to \in Actor, Outcome(s, to),
         UNCHANGED suspended
  PROVE  TurnInv'
<1>1. CASE UNCHANGED <<place, box>>
  BY <1>1, TurnSame
<1>2. CASE InTable(to) /\ place' = place /\ \E env \in Envelope : Deliver(to, env)
  BY <1>2, TurnDeliver DEF InTable
<1>3. CASE \E reason \in ExitReason : ForceExit(s, to, reason)
  <2>1. UNCHANGED box /\ place' = [place EXCEPT ![to] = "running"]
    BY <1>3 DEF ForceExit
  <2>2. \A x \in Actor : place'[x] = place[x] \/ place'[x] = "running"
    BY <2>1 DEF TypeInv, PlaceOK, Places
  <2> QED
    BY <2>1, <2>2, TurnSame
<1> QED
  BY <1>1, <1>2, <1>3 DEF Outcome

LEMMA TurnSelf ==
  ASSUME TypeInv, TurnInv, stack # <<>>, NEW a \in Actor, Top.actor = a,
         NEW env \in Envelope, NEW f, EnqueueSelf(a, f, env),
         UNCHANGED <<place, suspended>>
  PROVE  TurnInv'
<1>1. place[a] = "running"
  BY RunsTop DEF TypeInv
<1> QED
  BY <1>1, TurnDeliver, TurnSame DEF EnqueueSelf

LEMMA TurnStep == TypeInv /\ TurnInv /\ [Next]_vars => TurnInv'
<1> SUFFICES ASSUME TypeInv, TurnInv, [Next]_vars PROVE TurnInv'
  OBVIOUS
<1>t. TypeInv'
  BY TypeStep
<1>1. ASSUME NEW b \in Actor, NEW env \in {User, System(TRUE), System(FALSE)},
             HostSends(b, env)
      PROVE  TurnInv'
  BY <1>1, TurnDeliver DEF HostSends, Envelope, InTable
<1>2. ASSUME NEW b \in Actor, NEW reason \in Reason, HostExits(b, reason)
      PROVE  TurnInv'
  <2>1. Outcome(<<>>, b)
    BY <1>2, ChoiceAssumption DEF HostExits, Outcome, ExitReason
  <2> QED
    BY <1>2, <2>1, TurnOutcome DEF HostExits
<1>3. ASSUME NEW b \in Actor, NEW policy \in Policy, HostShutsDown(b, policy)
      PROVE  TurnInv'
  BY <1>3, RequestOutcome, TurnOutcome DEF HostShutsDown
<1>4. ASSUME NEW a \in Actor, NEW b \in Actor, Send(a, b) PROVE TurnInv'
  <2>1. place[a] = "running"
    BY <1>4, RunsTop DEF Send, Runs, TypeInv
  <2> QED
    BY <1>4, <2>1, TurnDeliver DEF Send, Envelope, InTable
<1>5. ASSUME NEW a \in Actor, NEW b \in Actor, Link(a, b) \/ Unlink(a, b)
      PROVE  TurnInv'
  BY <1>5, TurnSame DEF Link, Unlink
<1>6. ASSUME NEW a \in Actor, NEW b \in Actor, Monitor(a, b) PROVE TurnInv'
  <2>1. CASE UNCHANGED <<box, stack>>
    BY <1>6, <2>1, TurnSame DEF Monitor
  <2>2. CASE EnqueueSelf(a, Top, Down)
    BY <1>6, <2>2, TurnSelf, EnvelopesTyped DEF Monitor, Runs
  <2> QED
    BY <1>6, <2>1, <2>2 DEF Monitor
<1>7. ASSUME NEW a \in Actor, Demonitor(a) \/ SetTrapExit(a) PROVE TurnInv'
  BY <1>7, TurnSame DEF Demonitor, SetTrapExit
<1>8. ASSUME NEW a \in Actor, NEW b \in Actor, Spawn(a, b) PROVE TurnInv'
  <2>1. /\ place' = [place EXCEPT ![b] = "fresh"]
        /\ scheduled' = [scheduled EXCEPT ![b] = TRUE]
        /\ runQueue' = Append(runQueue, b)
        /\ UNCHANGED <<mailbox, suspended>>
    BY <1>8 DEF Spawn, InsertActor
  <2>2. Queued(b)' /\ \A x \in Actor : Queued(x) => Queued(x)'
    BY <2>1, AppendQueued DEF Queued, TypeInv, BoxOK
  <2>3. /\ place'[b] = "fresh" /\ scheduled'[b]
        /\ \A x \in Actor \ {b} : place'[x] = place[x] /\ scheduled'[x] = scheduled[x]
    BY <2>1 DEF TypeInv, BoxOK, PlaceOK, Places
  <2> QED
    BY <2>1, <2>2, <2>3 DEF TurnInv, Takable
<1>9. ASSUME NEW a \in Actor, NEW reason \in Reason, ExitSelf(a, reason)
      PROVE  TurnInv'
  BY <1>9, TurnSame DEF ExitSelf
<1>10. ASSUME NEW a \in Actor, NEW b \in Actor, NEW policy \in Policy,
              ShutdownActor(a, b, policy)
       PROVE  TurnInv'
  BY <1>10, RequestOutcome, TurnOutcome DEF ShutdownActor
<1>11. ASSUME NEW a \in Actor, ShutdownReturns(a) PROVE TurnInv'
  <2>1. CASE UNCHANGED box
    BY <1>11, <2>1, TurnSame DEF ShutdownReturns
  <2>2. CASE EnqueueSelf(a, [Top EXCEPT !.waits = None], Exit)
    BY <1>11, <2>2, TurnSelf, EnvelopesTyped DEF ShutdownReturns
  <2> QED
    BY <1>11, <2>1, <2>2 DEF ShutdownReturns, HandleCurrentExitSignal
<1>12. ASSUME NEW a \in Actor, TurnReturns(a) PROVE TurnInv'
  <2> DEFINE mail == mailbox[a] # <<>>
  <2>1. /\ place' = [place EXCEPT ![a] = "table"]
        /\ scheduled' = [scheduled EXCEPT ![a] = mail]
        /\ runQueue' = IF mail /\ ~scheduled[a] THEN Append(runQueue, a)
                                                ELSE runQueue
        /\ UNCHANGED <<mailbox, suspended>>
    BY <1>12 DEF TurnReturns
  <2>2. Takable(a) => mail
    BY EmptySeq DEF Takable
  <2> HIDE DEF mail
  <2>3. /\ mail /\ ~scheduled[a] => Queued(a)'
        /\ \A x \in Actor : Queued(x) => Queued(x)'
    BY <2>1, AppendQueued DEF Queued, TypeInv, BoxOK
  <2>4. /\ place'[a] = "table" /\ scheduled'[a] = mail
        /\ \A x \in Actor \ {a} : place'[x] = place[x] /\ scheduled'[x] = scheduled[x]
    BY <2>1 DEF TypeInv, BoxOK, PlaceOK, Places
  <2> QED
    BY <2>1, <2>2, <2>3, <2>4 DEF TurnInv, Takable
<1>13. ASSUME NEW a \in Actor, TurnStops(a) PROVE TurnInv'
  BY <1>13, TurnSame DEF TurnStops
<1>14. ASSUME NEW a \in Actor, TerminateReturns(a) PROVE TurnInv'
  <2>1. place[a] = "running"
    BY <1>14, RunsTop DEF TerminateReturns, Runs, TypeInv
  <2>2. /\ \A x \in Actor \ {a} : mailbox'[x] = mailbox[x]
                                  /\ suspended'[x] = suspended[x]
        /\ UNCHANGED <<place, scheduled, runQueue>>
    BY <1>14 DEF TerminateReturns, TypeInv, BoxOK, RestOK
  <2> QED
    BY <2>1, <2>2 DEF TurnInv, Takable, Queued
<1>15. ASSUME NEW a \in Actor, TellWatcher(a) PROVE TurnInv'
  <2>1. PICK m \in Top.watchers : \E s : Outcome(s, m.peer)
    <3>1. PICK m \in Top.watchers :
           LET told == Append(Below, [Top EXCEPT !.watchers = @ \ {m}])
           IN  \/ /\ InTable(m.peer)
                  /\ EnqueueRuntimeEnvelope(told, m.peer, Down)
               \/ stack' = told /\ UNCHANGED <<place, box>>
      BY <1>15 DEF TellWatcher
    <3> DEFINE told == Append(Below, [Top EXCEPT !.watchers = @ \ {m}])
    <3>2. \/ InTable(m.peer) /\ EnqueueRuntimeEnvelope(told, m.peer, Down)
          \/ stack' = told /\ UNCHANGED <<place, box>>
      BY <3>1
    <3> HIDE DEF told
    <3>3. Outcome(told, m.peer)
      <4>1. CASE InTable(m.peer) /\ EnqueueRuntimeEnvelope(told, m.peer, Down)
        BY <4>1, EnqueueOutcome, EnvelopesTyped
      <4>2. CASE stack' = told /\ UNCHANGED <<place, box>>
        BY <4>2 DEF Outcome
      <4> QED
        BY <3>2, <4>1, <4>2
    <3> QED
      BY <3>3
  <2>2. m.peer \in Actor
    BY <1>15, RunsTop DEF TellWatcher, Tells, TypeInv, FrameType, MonitorEntry
  <2> QED
    BY <1>15, <2>1, <2>2, TurnOutcome DEF TellWatcher
<1>16. ASSUME NEW a \in Actor, TellPeer(a) PROVE TurnInv'
  <2>1. PICK b \in Top.peers :
          PropagateLinkExit(Append(Below, [Top EXCEPT !.peers = @ \ {b}]), b,
                            Top.reason)
    BY <1>16 DEF TellPeer
  <2>2. b \in Actor /\ Top.reason \in ExitReason
    BY <1>16, RunsTop DEF TellPeer, Tells, TypeInv, FrameType
  <2> QED
    BY <1>16, <2>1, <2>2, PropagateOutcome, TurnOutcome DEF TellPeer
<1>17. ASSUME NEW a \in Actor, Finished(a) PROVE TurnInv'
  <2>1. /\ place' = [place EXCEPT ![a] = "gone"]
        /\ scheduled' = [scheduled EXCEPT ![a] = FALSE]
        /\ UNCHANGED <<mailbox, runQueue, suspended>>
    BY <1>17 DEF Finished
  <2>2. /\ place'[a] = "gone" /\ ~scheduled'[a]
        /\ \A x \in Actor \ {a} : place'[x] = place[x] /\ scheduled'[x] = scheduled[x]
    BY <2>1 DEF TypeInv, BoxOK, PlaceOK, Places
  <2> QED
    BY <2>1, <2>2 DEF TurnInv, Takable, Queued
<1>18. CASE IngestEvent
  <2>1. Head(channel) \in Actor
    BY <1>18, TailHas DEF IngestEvent, TypeInv, ShutdownOK
  <2>2. Outcome(<<>>, Head(channel))
    BY <1>18 DEF IngestEvent, Outcome, ExitReason
  <2> QED
    BY <1>18, <2>1, <2>2, TurnOutcome DEF IngestEvent
<1>19. CASE RunOnce
  <2>0. PICK a \in Actor : a = Head(runQueue)
    BY <1>19, TailHas DEF RunOnce, TypeInv, BoxOK
  <2>1. /\ a \in Actor /\ stack = <<>>
        /\ \A x \in Actor \ {a} : Queued(x) => Queued(x)'
    <3>1. /\ runQueue # <<>> /\ runQueue \in Seq(Actor) /\ stack = <<>>
          /\ runQueue' = Tail(runQueue)
      BY <1>19 DEF RunOnce, TypeInv, BoxOK
    <3>2. /\ a \in Actor /\ a = runQueue[1] /\ Len(runQueue) \in Nat \ {0}
          /\ DOMAIN runQueue = 1..Len(runQueue)
          /\ DOMAIN runQueue' = 1..(Len(runQueue) - 1)
          /\ \A i \in 1..(Len(runQueue) - 1) : runQueue'[i] = runQueue[i + 1]
      BY <2>0, <3>1, TailHas
    <3>3. ASSUME NEW x \in Actor \ {a}, Queued(x) PROVE Queued(x)'
      <4>1. PICK i \in 1..Len(runQueue) : runQueue[i] = x
        BY <3>2, <3>3 DEF Queued
      <4>2. i - 1 \in 1..(Len(runQueue) - 1) /\ (i - 1) + 1 = i
        BY <3>2, <4>1
      <4> QED
        BY <3>2, <4>1, <4>2 DEF Queued
    <3> QED
      BY <3>1, <3>2, <3>3
  <2>2. place[a] # "running"
    BY <2>1, EmptySeq DEF TypeInv, PlaceOK, Shape
  <2>3. \A x \in Actor \ {a} :
          /\ mailbox'[x] = mailbox[x] /\ suspended'[x] = suspended[x]
          /\ place'[x] = place[x] /\ scheduled'[x] = scheduled[x]
    BY <1>19, <2>0, <2>1
       DEF RunOnce, Unscheduled, TypeInv, BoxOK, PlaceOK, Places, RestOK
  <2>4. /\ ~scheduled'[a]
        /\ place'[a] # "fresh"
        /\ place'[a] = "table" => ~Takable(a)'
    <3>1. CASE ~InTable(a) /\ UNCHANGED <<place, mailbox, scheduled, suspended>>
      BY <2>1, <2>2, <3>1 DEF TurnInv, InTable, TypeInv, PlaceOK, Places
    <3>2. CASE /\ place' = [place EXCEPT ![a] = "running"]
               /\ scheduled' = Unscheduled(a)
      BY <2>1, <3>2 DEF Unscheduled, TypeInv, BoxOK, PlaceOK, Places
    <3>3. CASE /\ place[a] = "table"
               /\ \A i \in DOMAIN mailbox[a] :
                    ~TakesNext(mailbox[a], suspended[a], i)
               /\ scheduled' = Unscheduled(a)
               /\ UNCHANGED <<place, mailbox, suspended>>
      BY <2>1, <3>3 DEF Unscheduled, TypeInv, BoxOK, Takable
    <3> QED
      BY <1>19, <2>0, <3>1, <3>2, <3>3 DEF RunOnce
  <2> QED
    BY <2>1, <2>3, <2>4 DEF TurnInv, Takable
<1>20. ASSUME NEW b \in Actor, Elapse(b) PROVE TurnInv'
  BY <1>20, TurnSame DEF Elapse
<1>21. CASE UNCHANGED vars
  BY <1>21, TurnSame DEF vars
<1> QED
  BY <1>1, <1>2, <1>3, <1>4, <1>5, <1>6, <1>7, <1>8, <1>9, <1>10, <1>11, <1>12,
     <1>13, <1>14, <1>15, <1>16, <1>17, <1>18, <1>19, <1>20, <1>21
     DEF Next, Host, UserCode, Unwinds

\* No actor that has something to do is left out of the run queue: the
\* scheduled flag and the queue agree on every path through mark_scheduled,
\* park_actor, return_actor and force_exit.
THEOREM TurnsKept == Spec => []NoLostTurn
<1> QED
  BY TypeInit, TypeStep, TurnInit, TurnStep, TurnInvMeans, PTL DEF Spec
-----------------------------------------------------------------------------
(* What each actor is doing, seen without the order of the stack: its      *)
(* frame, or a frame that only says where it is.                           *)

Rest(p) == [op |-> p, watchers |-> {}, peers |-> {}, waits |-> None]

ViewIn(s, pl, a) ==
  IF pl[a] = "running"
  THEN s[CHOOSE i \in DOMAIN s : s[i].actor = a]
  ELSE Rest(pl[a])

View(a) == ViewIn(stack, place, a)

LEMMA ViewOf ==
  ASSUME NEW s, NEW pl, Shape(s, pl)
  PROVE  /\ \A i \in DOMAIN s : s[i].actor \in Actor
                                /\ ViewIn(s, pl, s[i].actor) = s[i]
         /\ \A a \in Actor : pl[a] = "running" =>
              \E i \in DOMAIN s : s[i].actor = a /\ ViewIn(s, pl, a) = s[i]
         /\ \A a \in Actor : pl[a] # "running" => ViewIn(s, pl, a) = Rest(pl[a])
<1>1. \A a \in Actor : pl[a] # "running" => ViewIn(s, pl, a) = Rest(pl[a])
  BY DEF ViewIn
<1>2. ASSUME NEW i \in DOMAIN s
      PROVE  s[i].actor \in Actor /\ ViewIn(s, pl, s[i].actor) = s[i]
  <2>1. s[i] \in FrameType
    BY ElementOfSeq, LenProperties DEF Shape
  <2>2. s[i].actor \in Actor
    BY <2>1 DEF FrameType
  <2>3. pl[s[i].actor] = "running"
    BY <2>2 DEF Shape
  <2> DEFINE j == CHOOSE k \in DOMAIN s : s[k].actor = s[i].actor
  <2>4. j \in DOMAIN s /\ s[j].actor = s[i].actor
    OBVIOUS
  <2> HIDE DEF j
  <2>5. j = i
    BY <2>4 DEF Shape
  <2> QED
    BY <2>2, <2>3, <2>5 DEF ViewIn, j
<1>3. ASSUME NEW a \in Actor, pl[a] = "running"
      PROVE  \E i \in DOMAIN s : s[i].actor = a /\ ViewIn(s, pl, a) = s[i]
  <2>1. PICK i \in DOMAIN s : s[i].actor = a
    BY <1>3 DEF Shape
  <2> QED
    BY <1>2, <2>1
<1> QED
  BY <1>1, <1>2, <1>3

LEMMA ViewTop ==
  ASSUME PlaceOK, stack # <<>>
  PROVE  View(Top.actor) = Top
<1>1. Len(stack) \in DOMAIN stack
  BY RunsTop
<1> QED
  BY <1>1, ViewOf DEF View, PlaceOK, Top

LEMMA ViewSet ==
  ASSUME PlaceOK, stack # <<>>,
         NEW f \in FrameType, f.actor = Top.actor,
         f.op \in {"init", "turn"} => Top.op \in {"init", "turn"},
         f.op \in {"terminate", "telling"} => f.reason # None
  PROVE  /\ Shape(Append(Below, f), place)
         /\ \A x \in Actor : ViewIn(Append(Below, f), place, x)
                               = IF x = Top.actor THEN f ELSE View(x)
<1> DEFINE n == Len(stack)
           t == Append(Below, f)
<1>0. Shape(t, place) /\ Shape(stack, place)
  BY ShapeSet DEF PlaceOK
<1>1. /\ n \in Nat \ {0} /\ DOMAIN stack = 1..n
      /\ Below \in Seq(FrameType) /\ Len(Below) = n - 1
      /\ \A i \in 1..(n - 1) : Below[i] = stack[i]
  BY BelowHas DEF PlaceOK, Shape, Below
<1>2. /\ DOMAIN t = 1..n
      /\ \A i \in 1..(n - 1) : t[i] = stack[i]
      /\ t[n] = f
  <2>1. (n - 1) + 1 = n
    BY <1>1
  <2> HIDE DEF n
  <2> QED
    BY <1>1, <2>1, AppendHas
<1>n. n \in 1..n
  <2> HIDE DEF n
  <2> QED
    BY <1>1
<1>3. ViewIn(t, place, Top.actor) = f
  <2>1. n \in DOMAIN t /\ t[n] = f
    BY <1>2, <1>n
  <2> HIDE DEF n, t
  <2>2. ViewIn(t, place, t[n].actor) = t[n]
    BY <1>0, <2>1, ViewOf
  <2> QED
    BY <2>1, <2>2
<1> HIDE DEF t
<1>4. ASSUME NEW x \in Actor, x # Top.actor
      PROVE  ViewIn(t, place, x) = View(x)
  <2>1. CASE place[x] # "running"
    BY <1>0, <2>1, ViewOf DEF View
  <2>2. CASE place[x] = "running"
    <3>1. PICK i \in 1..n : stack[i].actor = x /\ View(x) = stack[i]
      BY <1>0, <1>1, <2>2, ViewOf DEF View
    <3>2. i # n
      BY <1>4, <3>1 DEF Top
    <3> HIDE DEF n
    <3>3. i \in 1..(n - 1)
      BY <1>1, <3>1, <3>2
    <3>4. i \in DOMAIN t /\ t[i] = stack[i]
      BY <1>1, <1>2, <3>1, <3>3
    <3>5. ViewIn(t, place, t[i].actor) = t[i]
      BY <1>0, <3>4, ViewOf
    <3> QED
      BY <3>1, <3>4, <3>5
  <2> QED
    BY <2>1, <2>2
<1> QED
  BY <1>0, <1>3, <1>4 DEF t

LEMMA ViewPush ==
  ASSUME NEW s, NEW pl \in Places, Shape(s, pl),
         NEW f \in FrameType, pl[f.actor] # "running",
         s = <<>> \/ f.op \notin {"init", "turn"},
         f.op \in {"terminate", "telling"} => f.reason # None
  PROVE  \A x \in Actor :
           ViewIn(Append(s, f), [pl EXCEPT ![f.actor] = "running"], x)
             = IF x = f.actor THEN f ELSE ViewIn(s, pl, x)
<1> DEFINE n == Len(s)
           t == Append(s, f)
           p == [pl EXCEPT ![f.actor] = "running"]
<1>0. Shape(t, p)
  BY ShapePush
<1>1. /\ s \in Seq(FrameType) /\ n \in Nat /\ DOMAIN s = 1..n
      /\ DOMAIN t = 1..(n + 1)
      /\ \A i \in 1..n : t[i] = s[i]
      /\ t[n + 1] = f
  BY AppendHas DEF Shape
<1>2. f.actor \in Actor /\ \A x \in Actor : x # f.actor => p[x] = pl[x]
  BY DEF FrameType, Places
<1> HIDE DEF t, p
<1>3. ViewIn(t, p, f.actor) = f
  <2>1. n + 1 \in DOMAIN t
    BY <1>1
  <2> QED
    BY <1>0, <1>1, <2>1, ViewOf
<1>4. ASSUME NEW x \in Actor, x # f.actor
      PROVE  ViewIn(t, p, x) = ViewIn(s, pl, x)
  <2>1. CASE pl[x] # "running"
    BY <1>0, <1>2, <1>4, <2>1, ViewOf
  <2>2. CASE pl[x] = "running"
    <3>1. PICK i \in 1..n : s[i].actor = x /\ ViewIn(s, pl, x) = s[i]
      BY <1>1, <2>2, ViewOf
    <3>2. i \in DOMAIN t /\ t[i] = s[i]
      BY <1>1, <3>1
    <3> QED
      BY <1>0, <3>1, <3>2, ViewOf
  <2> QED
    BY <2>1, <2>2
<1> QED
  BY <1>3, <1>4 DEF t, p

LEMMA ViewPop ==
  ASSUME PlaceOK, stack # <<>>, NEW w, w # "running"
  PROVE  \A x \in Actor :
           ViewIn(Below, [place EXCEPT ![Top.actor] = w], x)
             = IF x = Top.actor THEN Rest(w) ELSE View(x)
<1> DEFINE n == Len(stack)
           p == [place EXCEPT ![Top.actor] = w]
<1>0. Shape(Below, p) /\ Shape(stack, place)
  BY ShapePop DEF PlaceOK
<1>1. /\ n \in Nat \ {0} /\ DOMAIN stack = 1..n
      /\ DOMAIN Below = 1..(n - 1)
      /\ \A i \in 1..(n - 1) : Below[i] = stack[i]
  BY BelowHas DEF PlaceOK, Shape, Below
<1>2. /\ Top.actor \in Actor /\ p[Top.actor] = w
      /\ \A x \in Actor : x # Top.actor => p[x] = place[x]
  BY RunsTop DEF PlaceOK, Places
<1> HIDE DEF p
<1>3. ViewIn(Below, p, Top.actor) = Rest(w)
  BY <1>0, <1>2, ViewOf
<1>4. ASSUME NEW x \in Actor, x # Top.actor
      PROVE  ViewIn(Below, p, x) = View(x)
  <2>1. CASE place[x] # "running"
    BY <1>0, <1>2, <1>4, <2>1, ViewOf DEF View
  <2>2. CASE place[x] = "running"
    <3>1. PICK i \in 1..n : stack[i].actor = x /\ View(x) = stack[i]
      BY <1>0, <1>1, <2>2, ViewOf DEF View
    <3>2. i # n
      BY <1>4, <3>1 DEF Top
    <3> HIDE DEF n
    <3>3. i \in 1..(n - 1)
      BY <1>1, <3>1, <3>2
    <3> QED
      BY <1>0, <1>1, <3>1, <3>3, ViewOf
  <2> QED
    BY <2>1, <2>2
<1> QED
  BY <1>3, <1>4 DEF p
-----------------------------------------------------------------------------
(* Links, monitors and the exits that are told.                            *)

Alive(a)   == View(a).op \in {"fresh", "table", "init", "turn", "terminate"}
Stays(a)   == View(a).op \in {"fresh", "table", "init", "turn"}
Leaving(a) == View(a).op \in {"telling", "gone"}

Entry(r, x) == [ref |-> r, peer |-> x]

\* Links have two sides between actors whose exit has not begun to be told.
LinkInv ==
  \A a, b \in Actor :
    Alive(a) /\ Alive(b) => (b \in links[a] <=> a \in links[b])

\* A monitor has its other side too; an entry of a watcher that is itself
\* terminating may be left over (it took its monitor back in its hook, while
\* the monitored actor was out of the table).
MonitorInv ==
  \A a, b \in Actor : \A r \in Ref :
    /\ Alive(a) /\ Alive(b) /\ Entry(r, b) \in monOut[a]
         => Entry(r, a) \in monIn[b]
    /\ Stays(a) /\ Alive(b) /\ Entry(r, a) \in monIn[b]
         => Entry(r, b) \in monOut[a]

\* References are not used twice.
RefInv ==
  \A a, b \in Actor : \A r \in Ref :
    /\ Entry(r, b) \in monOut[a] =>
         r <= calls /\ \A x \in Actor : Entry(r, x) \in monIn[b] => x = a
    /\ Entry(r, b) \in monIn[a] => r <= calls

\* Nobody knows an actor that has not been spawned.
CleanInv ==
  \A b \in Actor : View(b).op = "unborn" =>
    /\ links[b] = {} /\ monOut[b] = {} /\ monIn[b] = {}
    /\ \A a \in Actor :
         b \notin links[a] /\ \A r \in Ref : /\ Entry(r, b) \notin monOut[a]
                                             /\ Entry(r, b) \notin monIn[a]

\* An actor that has a bond to one that is leaving is still to be told, was
\* passed over, or waits in shutdown_actor for just this exit.
HearInv ==
  \A a, b \in Actor :
    Alive(a) /\ Leaving(b) /\ a \notin deaf =>
      /\ b \in links[a] => a \in View(b).peers \/ View(a).waits = b
      /\ \A r \in Ref : Entry(r, b) \in monOut[a]
                          => Entry(r, a) \in View(b).watchers

\* The target of a shutdown_actor in progress is in the table, or gone, or it
\* is being finalized above the caller.
WaitShape(s, pl) ==
  \A i \in DOMAIN s : LET w == s[i].waits IN
    w # None => \/ pl[w] \in {"fresh", "table", "gone"}
                \/ \E j \in DOMAIN s : j > i /\ s[j].actor = w

WaitInv == WaitShape(stack, place)

BondInv == LinkInv /\ MonitorInv /\ RefInv /\ CleanInv /\ HearInv

LEMMA ViewPlace ==
  ASSUME PlaceOK, NEW x \in Actor
  PROVE  /\ place[x] # "running" => View(x) = Rest(place[x])
         /\ place[x] = "running" =>
              View(x) \in FrameType /\ View(x).actor = x
              /\ View(x).op \in {"init", "turn", "terminate", "telling"}
         /\ InTable(x) <=> View(x).op \in {"fresh", "table"}
         /\ place[x] = "gone" <=> View(x).op = "gone"
         /\ place[x] = "unborn" <=> View(x).op = "unborn"
         /\ View(x).op \in {"unborn", "fresh", "table", "gone", "init", "turn",
                            "terminate", "telling"}
<1>1. CASE place[x] # "running"
  <2>1. View(x) = Rest(place[x])
    BY <1>1, ViewOf DEF View, PlaceOK
  <2> QED
    BY <1>1, <2>1 DEF Rest, PlaceOK, Places, InTable
<1>2. CASE place[x] = "running"
  <2>1. PICK i \in DOMAIN stack : stack[i].actor = x /\ View(x) = stack[i]
    BY <1>2, ViewOf DEF View, PlaceOK
  <2>2. stack[i] \in FrameType
    BY <2>1, ElementOfSeq, LenProperties DEF PlaceOK, Shape
  <2> QED
    BY <1>2, <2>1, <2>2 DEF FrameType, InTable
<1> QED
  BY <1>1, <1>2

LEMMA WaitSet ==
  ASSUME PlaceOK, WaitInv, stack # <<>>,
         NEW f \in FrameType, f.actor = Top.actor,
         \/ f.waits \in {None, Top.waits}
         \/ place[f.waits] \in {"fresh", "table", "gone"}
  PROVE  WaitShape(Append(Below, f), place)
<1> DEFINE n == Len(stack)
           t == Append(Below, f)
<1>1. /\ n \in Nat \ {0} /\ DOMAIN stack = 1..n
      /\ Below \in Seq(FrameType) /\ Len(Below) = n - 1
      /\ \A i \in 1..(n - 1) : Below[i] = stack[i]
  BY BelowHas DEF PlaceOK, Shape, Below
<1>2. /\ DOMAIN t = 1..n
      /\ \A i \in 1..(n - 1) : t[i] = stack[i]
      /\ t[n] = f
  <2>1. (n - 1) + 1 = n
    BY <1>1
  <2> HIDE DEF n
  <2> QED
    BY <1>1, <2>1, AppendHas
<1>3. Top = stack[n]
  BY DEF Top
<1> HIDE DEF t, n
<1>4. \A i \in 1..n : (i = n \/ i \in 1..(n - 1)) /\ (i > n => FALSE) /\ n \in 1..n
  BY <1>1
<1>5. \A i \in 1..n : t[i].actor = stack[i].actor
  <2> SUFFICES ASSUME NEW i \in 1..n PROVE t[i].actor = stack[i].actor
    OBVIOUS
  <2>1. CASE i = n
    BY <1>2, <1>3, <2>1
  <2>2. CASE i \in 1..(n - 1)
    BY <1>2, <2>2
  <2> QED
    BY <1>4, <2>1, <2>2
<1>6. ASSUME NEW i \in 1..n, t[i].waits # None
      PROVE  \/ place[t[i].waits] \in {"fresh", "table", "gone"}
             \/ \E j \in 1..n : j > i /\ t[j].actor = t[i].waits
  <2>1. CASE t[i].waits = stack[i].waits
    BY <1>1, <1>5, <1>6, <2>1 DEF WaitInv, WaitShape
  <2>2. CASE t[i].waits # stack[i].waits
    BY <1>2, <1>3, <1>4, <1>6, <2>2
  <2> QED
    BY <2>1, <2>2
<1> QED
  BY <1>2, <1>6 DEF WaitShape, t

LEMMA WaitPush ==
  ASSUME NEW s, NEW pl \in Places, Shape(s, pl), WaitShape(s, pl),
         NEW f \in FrameType, f.waits = None
  PROVE  WaitShape(Append(s, f), [pl EXCEPT ![f.actor] = "running"])
<1> DEFINE n == Len(s)
           t == Append(s, f)
           p == [pl EXCEPT ![f.actor] = "running"]
<1>1. /\ s \in Seq(FrameType) /\ n \in Nat /\ DOMAIN s = 1..n
      /\ DOMAIN t = 1..(n + 1)
      /\ \A i \in 1..n : t[i] = s[i]
      /\ t[n + 1] = f
  BY AppendHas DEF Shape
<1>2. \A i \in 1..n : s[i].waits \in Actor \cup {None}
  <2>1. \A i \in 1..n : s[i] \in FrameType
    BY <1>1, ElementOfSeq
  <2> HIDE DEF n
  <2> QED
    BY <2>1 DEF FrameType
<1>3. \A x \in Actor : x # f.actor => p[x] = pl[x]
  BY DEF Places
<1> HIDE DEF t, p, n
<1>4. ASSUME NEW i \in 1..(n + 1), t[i].waits # None
      PROVE  \/ p[t[i].waits] \in {"fresh", "table", "gone"}
             \/ \E j \in 1..(n + 1) : j > i /\ t[j].actor = t[i].waits
  <2>1. i \in 1..n /\ n + 1 > i /\ n + 1 \in 1..(n + 1)
    BY <1>1, <1>4
  <2>2. t[i].waits = s[i].waits /\ t[i].waits \in Actor
    BY <1>1, <1>2, <1>4, <2>1
  <2>3. CASE t[i].waits = f.actor
    BY <1>1, <2>1, <2>3
  <2>4. CASE t[i].waits # f.actor
    <3>1. CASE pl[s[i].waits] \in {"fresh", "table", "gone"}
      BY <1>3, <2>2, <2>4, <3>1
    <3>2. CASE \E j \in 1..n : j > i /\ s[j].actor = s[i].waits
      <4>1. PICK j \in 1..n : j > i /\ s[j].actor = s[i].waits
        BY <3>2
      <4>2. j \in 1..(n + 1) /\ t[j] = s[j]
        BY <1>1, <4>1
      <4> QED
        BY <2>2, <4>1, <4>2
    <3> QED
      BY <1>1, <1>4, <2>1, <2>2, <3>1, <3>2 DEF WaitShape
  <2> QED
    BY <2>3, <2>4
<1> QED
  BY <1>1, <1>4 DEF WaitShape, t, p

LEMMA WaitPop ==
  ASSUME PlaceOK, WaitInv, stack # <<>>, NEW w \in {"table", "gone"}
  PROVE  WaitShape(Below, [place EXCEPT ![Top.actor] = w])
<1> DEFINE n == Len(stack)
           p == [place EXCEPT ![Top.actor] = w]
<1>1. /\ n \in Nat \ {0} /\ DOMAIN stack = 1..n
      /\ DOMAIN Below = 1..(n - 1)
      /\ \A i \in 1..(n - 1) : Below[i] = stack[i]
  BY BelowHas DEF PlaceOK, Shape, Below
<1>2. /\ Top.actor \in Actor /\ p[Top.actor] = w /\ Top = stack[n]
      /\ \A x \in Actor : x # Top.actor => p[x] = place[x]
  BY RunsTop DEF PlaceOK, Places, Top
<1>3. \A i \in 1..n : stack[i].waits \in Actor \cup {None}
  <2>1. \A i \in 1..n : stack[i] \in FrameType
    BY <1>1, ElementOfSeq DEF PlaceOK, Shape
  <2> HIDE DEF n
  <2> QED
    BY <2>1 DEF FrameType
<1> HIDE DEF p, n
<1>4. ASSUME NEW i \in 1..(n - 1), stack[i].waits # None
      PROVE  \/ p[stack[i].waits] \in {"fresh", "table", "gone"}
             \/ \E j \in 1..(n - 1) : j > i /\ stack[j].actor = stack[i].waits
  <2>1. i \in 1..n /\ stack[i].waits \in Actor
    BY <1>1, <1>3, <1>4
  <2>2. CASE stack[i].waits = Top.actor
    BY <1>2, <2>2
  <2>3. CASE stack[i].waits # Top.actor
    <3>1. CASE place[stack[i].waits] \in {"fresh", "table", "gone"}
      BY <1>2, <2>1, <2>3, <3>1
    <3>2. CASE \E j \in 1..n : j > i /\ stack[j].actor = stack[i].waits
      <4>1. PICK j \in 1..n : j > i /\ stack[j].actor = stack[i].waits
        BY <3>2
      <4>2. j # n
        BY <1>2, <2>3, <4>1
      <4>3. j \in 1..(n - 1)
        BY <1>1, <4>1, <4>2
      <4> QED
        BY <4>1, <4>3
    <3> QED
      BY <1>1, <1>4, <2>1, <3>1, <3>2 DEF WaitInv, WaitShape
  <2> QED
    BY <2>2, <2>3
<1> QED
  BY <1>1, <1>4 DEF WaitShape, p

\* The top of the stack waits for nobody who is on it.
LEMMA WaitTop ==
  ASSUME PlaceOK, WaitInv, stack # <<>>, Top.waits # None
  PROVE  Top.waits \in Actor /\ place[Top.waits] \in {"fresh", "table", "gone"}
<1> DEFINE n == Len(stack)
<1>1. n \in Nat \ {0} /\ DOMAIN stack = 1..n
  BY BelowHas DEF PlaceOK, Shape
<1>2. n \in DOMAIN stack /\ Top = stack[n] /\ Top \in FrameType
  BY RunsTop DEF Top
<1> HIDE DEF n
<1>3. ~ \E j \in DOMAIN stack : j > n
  BY <1>1
<1> QED
  BY <1>2, <1>3 DEF WaitInv, WaitShape, FrameType

LEMMA OutcomeView ==
  ASSUME TypeInv, NEW s, Shape(s, place), WaitShape(s, place),
         NEW to \in Actor, Outcome(s, to)
  PROVE  /\ WaitInv'
         /\ \A x \in Actor : x # to => View(x)' = ViewIn(s, place, x)
         /\ \/ View(to)' = ViewIn(s, place, to)
            \/ InTable(to) /\ \E r \in ExitReason :
                                View(to)' = Frame(to, "terminate", r)
<1>1. CASE stack' = s /\ place' = place
  BY <1>1 DEF WaitInv, View
<1>2. ASSUME InTable(to), NEW r \in ExitReason, ForceExit(s, to, r)
      PROVE  /\ WaitInv'
             /\ \A x \in Actor : x # to => View(x)' = ViewIn(s, place, x)
             /\ View(to)' = Frame(to, "terminate", r)
  <2> DEFINE f == Frame(to, "terminate", r)
  <2>1. /\ f \in FrameType /\ f.actor = to /\ f.op = "terminate"
        /\ f.reason = r /\ f.waits = None /\ r # None
    BY FrameHas DEF ExitReason, None
  <2>2. stack' = Append(s, f) /\ place' = [place EXCEPT ![to] = "running"]
    BY <1>2 DEF ForceExit
  <2> HIDE DEF f
  <2>3. place \in Places /\ place[to] # "running"
    BY <1>2 DEF TypeInv, PlaceOK, InTable
  <2>4. WaitInv'
    BY <2>1, <2>2, <2>3, WaitPush DEF WaitInv
  <2>5. \A x \in Actor : View(x)' = IF x = to THEN f ELSE ViewIn(s, place, x)
    <3>1. \A x \in Actor :
             ViewIn(Append(s, f), [place EXCEPT ![f.actor] = "running"], x)
               = IF x = f.actor THEN f ELSE ViewIn(s, place, x)
      BY <2>1, <2>3, ViewPush
    <3>2. \A x : View(x)' = ViewIn(stack', place', x)
      BY DEF View
    <3> QED
      BY <2>1, <2>2, <3>1, <3>2
  <2> QED
    BY <2>4, <2>5 DEF f
<1> QED
  BY <1>1, <1>2 DEF Outcome

\* What a step may do to an actor without touching anybody's bonds.
Calm(x) ==
  /\ Alive(x)' => Alive(x)
  /\ Stays(x)' => Stays(x)
  /\ Leaving(x)' => Leaving(x)
  /\ Leaving(x)' => /\ View(x)'.peers = View(x).peers
                    /\ View(x)'.watchers = View(x).watchers
  /\ View(x)'.op = "unborn" => View(x).op = "unborn"
  /\ \A b \in Actor : View(x).waits = b /\ Alive(x)' /\ Leaving(b)'
                        => View(x)'.waits = b

LEMMA CalmFrame ==
  ASSUME NEW x \in Actor, View(x)'.op = View(x).op,
         View(x)'.peers = View(x).peers, View(x)'.watchers = View(x).watchers,
         View(x)'.waits = View(x).waits \/ View(x).waits = None
  PROVE  Calm(x)
BY ActorAssumption DEF Calm, Alive, Stays, Leaving

LEMMA CalmStays ==
  ASSUME NEW x \in Actor, Stays(x), View(x).waits = None,
         View(x)'.op \in {"table", "init", "turn", "terminate"}
  PROVE  Calm(x)
BY ActorAssumption DEF Calm, Alive, Stays, Leaving

\* An actor in the table that is forced out.
LEMMA CalmForced ==
  ASSUME PlaceOK, NEW x \in Actor, InTable(x), NEW r \in ExitReason,
         View(x)' = Frame(x, "terminate", r)
  PROVE  Calm(x)
<1>1. View(x) = Rest(place[x]) /\ Stays(x)
  BY ViewPlace DEF InTable, Stays, Rest
<1>2. View(x).waits = None /\ View(x)'.op = "terminate"
  BY <1>1 DEF Rest, Frame
<1> QED
  BY <1>1, <1>2, CalmStays

LEMMA BondsQuiet ==
  ASSUME BondInv, UNCHANGED bonds, calls \in Nat, calls' \in Nat,
         calls <= calls', deaf \subseteq deaf', \A x \in Actor : Calm(x)
  PROVE  BondInv'
<1> USE DEF BondInv, bonds
<1>1. LinkInv'
  BY DEF LinkInv, Calm
<1>2. MonitorInv'
  BY DEF MonitorInv, Calm
<1>3. RefInv'
  BY BoundAssumption DEF RefInv, Ref
<1>4. CleanInv'
  BY DEF CleanInv, Calm
<1>5. HearInv'
  <2> SUFFICES ASSUME NEW a \in Actor, NEW b \in Actor, Alive(a)', Leaving(b)',
                      a \notin deaf'
               PROVE  /\ b \in links[a] =>
                           a \in View(b)'.peers \/ View(a)'.waits = b
                      /\ \A r \in Ref : Entry(r, b) \in monOut[a]
                           => Entry(r, a) \in View(b)'.watchers
    BY DEF HearInv, Entry
  <2>1. Alive(a) /\ Leaving(b) /\ a \notin deaf
    BY DEF Calm
  <2> QED
    BY <2>1 DEF HearInv, Calm
<1> QED
  BY <1>1, <1>2, <1>3, <1>4, <1>5

\* The same for a step whose stack is s, or s and an actor forced out of the
\* table.
LEMMA QuietOutcome ==
  ASSUME TypeInv, BondInv, NEW s, Shape(s, place), WaitShape(s, place),
         NEW to \in Actor, Outcome(s, to), UNCHANGED bonds,
         calls \in Nat, calls' \in Nat, calls <= calls', deaf \subseteq deaf',
         \A x \in Actor :
           /\ ViewIn(s, place, x).op = View(x).op
           /\ ViewIn(s, place, x).peers = View(x).peers
           /\ ViewIn(s, place, x).watchers = View(x).watchers
           /\ ViewIn(s, place, x).waits = View(x).waits \/ View(x).waits = None
  PROVE  BondInv' /\ WaitInv'
<1>1. /\ WaitInv'
      /\ \A x \in Actor : x # to => View(x)' = ViewIn(s, place, x)
      /\ \/ View(to)' = ViewIn(s, place, to)
         \/ InTable(to) /\ \E r \in ExitReason :
                             View(to)' = Frame(to, "terminate", r)
  BY OutcomeView
<1>2. ASSUME NEW x \in Actor PROVE Calm(x)
  <2>1. CASE View(x)' = ViewIn(s, place, x)
    BY <2>1, CalmFrame
  <2>2. CASE InTable(x) /\ \E r \in ExitReason :
                             View(x)' = Frame(x, "terminate", r)
    BY <2>2, CalmForced DEF TypeInv
  <2> QED
    BY <1>1, <2>1, <2>2
<1> QED
  BY <1>1, <1>2, BondsQuiet

LEMMA CallsGrow ==
  ASSUME TypeInv, [Next]_vars
  PROVE  calls \in Nat /\ calls' \in Nat /\ (Counts => calls <= calls')
<1>1. TypeInv'
  BY TypeStep
<1> QED
  BY <1>1, BoundAssumption DEF TypeInv, RestOK, Counts

\* An outcome on the stack as it is.
LEMMA QuietHere ==
  ASSUME TypeInv, BondInv, WaitInv, NEW to \in Actor, Outcome(stack, to),
         UNCHANGED bonds, calls \in Nat, calls' \in Nat, calls <= calls',
         deaf \subseteq deaf'
  PROVE  BondInv' /\ WaitInv'
<1>1. Shape(stack, place) /\ WaitShape(stack, place)
  BY DEF TypeInv, PlaceOK, WaitInv
<1>2. \A x \in Actor : ViewIn(stack, place, x) = View(x)
  BY DEF View
<1> QED
  BY <1>1, <1>2, QuietOutcome

LEMMA QuietStay ==
  ASSUME TypeInv, BondInv, WaitInv, UNCHANGED <<stack, place, bonds>>,
         calls \in Nat, calls' \in Nat, calls <= calls', deaf \subseteq deaf'
  PROVE  BondInv' /\ WaitInv'
<1>1. WaitInv' /\ \A x \in Actor : View(x)' = View(x)
  BY DEF WaitInv, View
<1> QED
  BY <1>1, CalmFrame, BondsQuiet

\* The running actor's frame changes at most in its reason.
LEMMA QuietSet ==
  ASSUME TypeInv, BondInv, WaitInv, stack # <<>>, NEW f \in FrameType,
         f.actor = Top.actor, f.op = Top.op, f.peers = Top.peers,
         f.watchers = Top.watchers, f.waits = Top.waits,
         f.op \in {"terminate", "telling"} => f.reason # None,
         stack' = Append(Below, f), UNCHANGED <<place, bonds>>,
         calls \in Nat, calls' \in Nat, calls <= calls', deaf \subseteq deaf'
  PROVE  BondInv' /\ WaitInv'
<1>1. WaitInv'
  BY WaitSet DEF TypeInv, WaitInv
<1>2. View(Top.actor) = Top
  BY ViewTop DEF TypeInv
<1>3. \A x \in Actor : View(x)' = IF x = Top.actor THEN f ELSE View(x)
  <2>1. \A x \in Actor : ViewIn(Append(Below, f), place, x)
                               = IF x = Top.actor THEN f ELSE View(x)
    BY ViewSet DEF TypeInv
  <2>2. \A x : View(x)' = ViewIn(stack', place', x)
    BY DEF View
  <2> QED
    BY <2>1, <2>2
<1>4. ASSUME NEW x \in Actor PROVE Calm(x)
  BY <1>2, <1>3, CalmFrame
<1> QED
  BY <1>1, <1>4, BondsQuiet

LEMMA RunsView ==
  ASSUME TypeInv, NEW a \in Actor, Runs(a)
  PROVE  /\ View(a) = Top /\ Alive(a) /\ ~Leaving(a) /\ place[a] = "running"
         /\ stack # <<>> /\ Top \in FrameType /\ Top.actor = a
         /\ Top.reason \in ExitReason \cup {None}
         /\ Top.waits = None /\ Top.op \in {"init", "turn", "terminate"}
         /\ Top.op = "terminate" => Top.reason # None
<1>1. stack # <<>> /\ Top.actor = a /\ Top.waits = None
      /\ Top.op \in {"init", "turn", "terminate"}
  BY DEF Runs
<1> QED
  BY <1>1, RunsTop, ViewTop DEF TypeInv, Alive, Leaving

\* The steps that touch no bond.
LEMMA QuietSteps ==
  ASSUME TypeInv, BondInv, WaitInv, [Next]_vars, NEW a \in Actor, NEW b \in Actor,
         \/ Host \/ Send(a, b) \/ SetTrapExit(a)
         \/ \E reason \in Reason : ExitSelf(a, reason)
         \/ \E policy \in Policy : ShutdownActor(a, b, policy)
         \/ IngestEvent \/ Elapse(a) \/ UNCHANGED vars
  PROVE  BondInv' /\ WaitInv'
<1>c. /\ calls \in Nat /\ calls' \in Nat /\ (Counts => calls <= calls')
      /\ (calls' = calls => calls <= calls')
  BY CallsGrow
<1>1. CASE Host
  <2>1. PICK c \in Actor :
      \/ \E env \in {User, System(TRUE), System(FALSE)} : HostSends(c, env)
      \/ \E reason \in Reason : HostExits(c, reason)
      \/ \E policy \in Policy : HostShutsDown(c, policy)
    BY <1>1 DEF Host
  <2>2. /\ Counts /\ UNCHANGED bonds /\ deaf' = deaf
    BY <2>1 DEF HostSends, HostExits, HostShutsDown
  <2>3. Outcome(stack, c) \/ UNCHANGED <<stack, place>>
    <3>1. CASE \E env \in {User, System(TRUE), System(FALSE)} : HostSends(c, env)
      BY <3>1 DEF HostSends
    <3>2. ASSUME NEW reason \in Reason, HostExits(c, reason)
          PROVE  Outcome(stack, c)
      BY <3>2, ChoiceAssumption DEF HostExits, Outcome, ExitReason
    <3>3. CASE \E policy \in Policy : HostShutsDown(c, policy)
      BY <3>3, RequestOutcome DEF HostShutsDown
    <3> QED
      BY <2>1, <3>1, <3>2, <3>3
  <2> QED
    BY <1>c, <2>2, <2>3, QuietHere, QuietStay
<1>2. CASE Send(a, b) \/ SetTrapExit(a)
  BY <1>2, <1>c, QuietStay DEF Send, SetTrapExit
<1>3. ASSUME NEW reason \in Reason, ExitSelf(a, reason)
      PROVE  BondInv' /\ WaitInv'
  <2>1. /\ stack # <<>> /\ Top \in FrameType
        /\ Top.op \in {"init", "turn", "terminate"}
        /\ Top.op = "terminate" => Top.reason # None
    BY <1>3, RunsView DEF ExitSelf
  <2>2. reason \in ExitReason /\ reason # None
    BY ChoiceAssumption DEF ExitReason, None
  <2> DEFINE f == WithExit(Top, reason)
  <2>3. /\ f \in FrameType /\ f.actor = Top.actor /\ f.op = Top.op
        /\ f.peers = Top.peers /\ f.watchers = Top.watchers
        /\ f.waits = Top.waits
        /\ f.op \in {"terminate", "telling"} => f.reason # None
    BY <2>1, <2>2 DEF WithExit, FrameType
  <2>4. stack' = Append(Below, f) /\ UNCHANGED <<place, bonds, deaf>> /\ Counts
    BY <1>3 DEF ExitSelf
  <2> HIDE DEF f
  <2> QED
    BY <1>c, <2>1, <2>3, <2>4, QuietSet
<1>4. ASSUME NEW policy \in Policy, ShutdownActor(a, b, policy)
      PROVE  BondInv' /\ WaitInv'
  <2>1. /\ stack # <<>> /\ Top \in FrameType /\ Top.waits = None
        /\ Top.op \in {"init", "turn", "terminate"} /\ View(a) = Top
        /\ Top.op = "terminate" => Top.reason # None
        /\ Top.actor = a
    BY <1>4, RunsView DEF ShutdownActor
  <2> DEFINE f == IF b \in links[a] THEN [Top EXCEPT !.waits = b] ELSE Top
  <2>2. /\ f \in FrameType /\ f.actor = Top.actor /\ f.op = Top.op
        /\ f.peers = Top.peers /\ f.watchers = Top.watchers
        /\ f.reason = Top.reason /\ f.waits \in {None, b}
    BY <2>1 DEF FrameType
  <2>3. /\ RequestShutdown(Append(Below, f), b, policy) /\ InTable(b)
        /\ UNCHANGED <<bonds, deaf>> /\ Counts
    BY <1>4 DEF ShutdownActor, RequestShutdown
  <2> HIDE DEF f
  <2>4. Outcome(Append(Below, f), b)
    BY <2>3, RequestOutcome
  <2>5. WaitShape(Append(Below, f), place)
    BY <2>1, <2>2, <2>3, WaitSet DEF TypeInv, InTable
  <2>6. /\ Shape(Append(Below, f), place)
        /\ \A x \in Actor : ViewIn(Append(Below, f), place, x)
                               = IF x = Top.actor THEN f ELSE View(x)
    BY <2>1, <2>2, ViewSet DEF TypeInv
  <2>7. \A x \in Actor : LET v == ViewIn(Append(Below, f), place, x) IN
           /\ v.op = View(x).op /\ v.peers = View(x).peers
           /\ v.watchers = View(x).watchers
           /\ v.waits = View(x).waits \/ View(x).waits = None
    BY <2>1, <2>2, <2>6
  <2> DEFINE s == Append(Below, f)
  <2>8. /\ Shape(s, place) /\ WaitShape(s, place) /\ Outcome(s, b)
        /\ \A x \in Actor : LET v == ViewIn(s, place, x) IN
           /\ v.op = View(x).op /\ v.peers = View(x).peers
           /\ v.watchers = View(x).watchers
           /\ v.waits = View(x).waits \/ View(x).waits = None
    BY <2>4, <2>5, <2>6, <2>7
  <2> HIDE DEF s
  <2> QED
    BY <1>c, <2>3, <2>8, QuietOutcome
<1>5. CASE IngestEvent
  <2>1. Head(channel) \in Actor
    BY <1>5, TailHas DEF IngestEvent, TypeInv, ShutdownOK
  <2>2. Outcome(stack, Head(channel)) /\ UNCHANGED <<bonds, calls, deaf>>
    BY <1>5 DEF IngestEvent, Outcome, ExitReason
  <2> QED
    BY <1>c, <2>1, <2>2, QuietHere
<1>6. CASE Elapse(a) \/ UNCHANGED vars
  BY <1>6, <1>c, QuietStay DEF Elapse, vars
<1> QED
  BY <1>1, <1>2, <1>3, <1>4, <1>5, <1>6

\* The steps that take an actor from one stage of its life to the next.
LEMMA StageSteps ==
  ASSUME TypeInv, BondInv, WaitInv, [Next]_vars, NEW a \in Actor,
         \/ RunOnce \/ TurnReturns(a) \/ TurnStops(a) \/ Finished(a)
  PROVE  BondInv' /\ WaitInv'
<1>c. /\ calls \in Nat /\ calls' \in Nat /\ calls <= calls' /\ UNCHANGED bonds
      /\ deaf \subseteq deaf'
  BY CallsGrow DEF RunOnce, TurnReturns, TurnStops, Finished
<1>v. \A x : View(x)' = ViewIn(stack', place', x)
  BY DEF View
<1>1. CASE RunOnce
  <2>1. PICK c \in Actor : c = Head(runQueue)
    BY <1>1, TailHas DEF RunOnce, TypeInv, BoxOK
  <2>2. /\ stack = <<>>
        /\ \/ UNCHANGED <<place, stack>>
           \/ \E op \in {"init", "turn"} :
                /\ place[c] \in {"fresh", "table"}
                /\ place' = [place EXCEPT ![c] = "running"]
                /\ stack' = <<Frame(c, op, None)>>
    BY <1>1, <2>1 DEF RunOnce
  <2>3. ASSUME NEW op \in {"init", "turn"}, place[c] \in {"fresh", "table"},
               place' = [place EXCEPT ![c] = "running"],
               stack' = <<Frame(c, op, None)>>
        PROVE  BondInv' /\ WaitInv'
    <3> DEFINE f == Frame(c, op, None)
    <3>1. /\ f \in FrameType /\ f.actor = c /\ f.op = op /\ f.waits = None
          /\ stack' = Append(stack, f)
      BY <2>2, <2>3, FrameHas
    <3> HIDE DEF f
    <3>2. /\ place \in Places /\ Shape(stack, place) /\ WaitShape(stack, place)
          /\ place[c] # "running" /\ InTable(c)
      BY <2>3 DEF TypeInv, PlaceOK, WaitInv, InTable
    <3>3. WaitInv'
      BY <2>3, <3>1, <3>2, WaitPush DEF WaitInv
    <3>4. \A x \in Actor :
           ViewIn(Append(stack, f), [place EXCEPT ![f.actor] = "running"], x)
             = IF x = f.actor THEN f ELSE ViewIn(stack, place, x)
      <4>1. /\ place[f.actor] # "running" /\ stack = <<>>
            /\ ~(f.op \in {"terminate", "telling"})
        BY <2>2, <3>1, <3>2
      <4> DEFINE s == stack
      <4>2. /\ Shape(s, place) /\ (s = <<>> \/ f.op \notin {"init", "turn"})
            /\ f.op \in {"terminate", "telling"} => f.reason # None
        BY <3>2, <4>1
      <4> HIDE DEF s
      <4>3. \A x \in Actor :
              ViewIn(Append(s, f), [place EXCEPT ![f.actor] = "running"], x)
                = IF x = f.actor THEN f ELSE ViewIn(s, place, x)
        BY <3>1, <3>2, <4>1, <4>2, ViewPush
      <4> QED
        BY <4>3 DEF s
    <3>5. \A x \in Actor : View(x)' = IF x = c THEN f ELSE View(x)
      <4>1. \A x : View(x) = ViewIn(stack, place, x)
        BY DEF View
      <4> QED
        BY <1>v, <2>3, <3>1, <3>4, <4>1
    <3>6. View(c) = Rest(place[c]) /\ Stays(c)
      BY <3>2, ViewPlace DEF TypeInv, Stays
    <3>7. View(c).waits = None
      BY <3>6 DEF Rest
    <3>8. Calm(c)
      BY <3>1, <3>5, <3>6, <3>7, CalmStays
    <3>9. ASSUME NEW x \in Actor PROVE Calm(x)
      BY <3>5, <3>8, CalmFrame
    <3> QED
      BY <1>c, <3>3, <3>9, BondsQuiet
  <2> QED
    BY <1>c, <2>2, <2>3, QuietStay
<1>2. CASE TurnReturns(a) \/ Finished(a)
  <2>1. /\ stack # <<>> /\ stack' = Below /\ Top.actor = a
    BY <1>2 DEF TurnReturns, Finished, Runs, Tells
  <2>2. PICK w \in {"table", "gone"} :
          /\ place' = [place EXCEPT ![a] = w]
          /\ w = "table" => Top.op \in {"init", "turn"} /\ Top.waits = None
          /\ w = "gone" => /\ Top.op = "telling" /\ Top.watchers = {}
                           /\ Top.peers = {}
    BY <1>2 DEF TurnReturns, Finished, Runs, Tells
  <2>3. WaitInv'
    BY <2>1, <2>2, WaitPop DEF WaitInv, TypeInv
  <2>4. \A x \in Actor : View(x)' = IF x = a THEN Rest(w) ELSE View(x)
    <3>1. \A x \in Actor : ViewIn(Below, [place EXCEPT ![Top.actor] = w], x)
             = IF x = Top.actor THEN Rest(w) ELSE View(x)
      BY <2>1, ViewPop DEF TypeInv
    <3> QED
      BY <1>v, <2>1, <2>2, <3>1
  <2>5. View(a) = Top
    BY <2>1, ViewTop DEF TypeInv
  <2>6. /\ View(a)' = Rest(w)
        /\ Rest(w).op = w /\ Rest(w).peers = {} /\ Rest(w).watchers = {}
    BY <2>4 DEF Rest
  <2>7. Calm(a)
    <3>1. CASE w = "table"
      BY <2>2, <2>5, <2>6, <3>1, CalmStays DEF Stays
    <3>2. CASE w = "gone"
      BY <2>2, <2>5, <2>6, <3>2 DEF Calm, Alive, Stays, Leaving
    <3> QED
      BY <3>1, <3>2
  <2>8. ASSUME NEW x \in Actor PROVE Calm(x)
    BY <2>4, <2>7, CalmFrame
  <2> QED
    BY <1>c, <2>3, <2>8, BondsQuiet
<1>3. CASE TurnStops(a)
  <2>1. PICK r \in Reason \cup {"Error", Top.reason} :
          r # None /\ stack' = Append(Below, Frame(a, "terminate", r))
    BY <1>3 DEF TurnStops
  <2>2. /\ Runs(a) /\ Top.op # "terminate" /\ place' = place
    BY <1>3 DEF TurnStops
  <2>3. /\ View(a) = Top /\ stack # <<>> /\ Top.actor = a /\ Top.waits = None
        /\ Top.reason \in ExitReason \cup {None} /\ Top.op \in {"init", "turn"}
    BY <2>2, RunsView
  <2> DEFINE f == Frame(a, "terminate", r)
  <2>4. r \in ExitReason
    BY <2>1, <2>3, ChoiceAssumption DEF ExitReason
  <2>5. /\ f \in FrameType /\ f.actor = a /\ f.op = "terminate"
        /\ f.reason = r /\ f.waits = None
    BY <2>4, FrameHas
  <2> HIDE DEF f
  <2>6. stack' = Append(Below, f)
    BY <2>1 DEF f
  <2>7. WaitInv'
    BY <2>2, <2>3, <2>5, <2>6, WaitSet DEF WaitInv, TypeInv
  <2>8. \A x \in Actor : View(x)' = IF x = a THEN f ELSE View(x)
    <3>1. \A x \in Actor : ViewIn(Append(Below, f), place, x)
                               = IF x = Top.actor THEN f ELSE View(x)
      BY <2>1, <2>3, <2>5, ViewSet DEF TypeInv
    <3> QED
      BY <1>v, <2>2, <2>3, <2>6, <3>1
  <2>9. Calm(a)
    BY <2>3, <2>5, <2>8, CalmStays DEF Stays
  <2>10. ASSUME NEW x \in Actor PROVE Calm(x)
    BY <2>8, <2>9, CalmFrame
  <2> QED
    BY <1>c, <2>7, <2>10, BondsQuiet
<1> QED
  BY <1>1, <1>2, <1>3

LEMMA SameViews ==
  ASSUME WaitInv, UNCHANGED <<stack, place>>
  PROVE  /\ WaitInv'
         /\ \A x : /\ View(x)' = View(x) /\ (Alive(x)' <=> Alive(x))
                   /\ (Stays(x)' <=> Stays(x)) /\ (Leaving(x)' <=> Leaving(x))
<1>1. WaitInv' /\ \A x : View(x)' = View(x)
  BY DEF WaitInv, View
<1> QED
  BY <1>1 DEF Alive, Stays, Leaving

\* An actor in the table can have bonds.
LEMMA TableView ==
  ASSUME TypeInv, NEW b \in Actor, InTable(b)
  PROVE  Alive(b) /\ Stays(b) /\ ~Leaving(b) /\ View(b).op # "unborn"
BY ViewPlace DEF TypeInv, Alive, Stays, Leaving

LEMMA LinkBonds ==
  ASSUME TypeInv, BondInv, WaitInv, [Next]_vars, NEW a \in Actor, NEW b \in Actor,
         Link(a, b) \/ Unlink(a, b)
  PROVE  BondInv' /\ WaitInv'
<1> USE DEF BondInv
<1>c. calls \in Nat /\ calls' \in Nat /\ calls <= calls'
  BY CallsGrow DEF Link, Unlink
<1>1. /\ UNCHANGED <<stack, place, monOut, monIn, deaf>> /\ InTable(b)
      /\ Runs(a)
      /\ \/ links' = [links EXCEPT ![a] = @ \cup {b}, ![b] = @ \cup {a}]
         \/ links' = [links EXCEPT ![a] = @ \ {b}, ![b] = @ \ {a}]
  BY DEF Link, Unlink
<1>2. /\ WaitInv'
      /\ \A x : /\ View(x)' = View(x) /\ (Alive(x)' <=> Alive(x))
                /\ (Stays(x)' <=> Stays(x)) /\ (Leaving(x)' <=> Leaving(x))
  BY <1>1, SameViews
<1>3. /\ Alive(a) /\ ~Leaving(a) /\ View(a).op # "unborn"
      /\ Alive(b) /\ ~Leaving(b) /\ View(b).op # "unborn"
      /\ a # b
  BY <1>1, RunsView, TableView DEF InTable
<1>4. /\ \A x \in Actor \ {a, b} : links'[x] = links[x]
      /\ \/ links'[a] = links[a] \cup {b} /\ links'[b] = links[b] \cup {a}
         \/ links'[a] = links[a] \ {b} /\ links'[b] = links[b] \ {a}
  BY <1>1, <1>3 DEF TypeInv, BondsOK
<1>5. \A x, y \in Actor : (y \in links'[x] <=> y \in links[x])
                           \/ (x = a /\ y = b) \/ (x = b /\ y = a)
  BY <1>3, <1>4
<1>6. b \in links'[a] <=> a \in links'[b]
  BY <1>4
<1>7. LinkInv'
  BY <1>2, <1>5, <1>6 DEF LinkInv
<1>8. MonitorInv' /\ RefInv'
  BY <1>1, <1>2, <1>c, BoundAssumption DEF MonitorInv, RefInv, Ref
<1>9. CleanInv'
  <2> SUFFICES ASSUME NEW y \in Actor, View(y).op = "unborn"
               PROVE  /\ links'[y] = {} /\ \A x \in Actor : y \notin links'[x]
    BY <1>1, <1>2 DEF CleanInv
  <2>1. y # a /\ y # b
    BY <1>3
  <2> QED
    BY <1>4, <1>5, <2>1 DEF CleanInv
<1>10. HearInv'
  <2> SUFFICES ASSUME NEW x \in Actor, NEW y \in Actor, Alive(x), Leaving(y),
                      x \notin deaf
               PROVE  y \in links'[x] => x \in View(y).peers \/ View(x).waits = y
    BY <1>1, <1>2 DEF HearInv
  <2>1. y # a /\ y # b
    BY <1>3
  <2> QED
    BY <1>5, <2>1 DEF HearInv
<1> QED
  BY <1>2, <1>7, <1>8, <1>9, <1>10

LEMMA SpawnBonds ==
  ASSUME TypeInv, BondInv, WaitInv, [Next]_vars, NEW a \in Actor, NEW b \in Actor,
         Spawn(a, b)
  PROVE  BondInv' /\ WaitInv'
<1> USE DEF BondInv
<1>c. calls \in Nat /\ calls' \in Nat /\ calls <= calls'
  BY CallsGrow DEF Spawn
<1>1. /\ UNCHANGED <<stack, monOut, monIn, deaf>> /\ Runs(a)
      /\ place[b] = "unborn" /\ place' = [place EXCEPT ![b] = "fresh"]
      /\ \/ links' = [links EXCEPT ![a] = @ \cup {b}, ![b] = {a}]
         \/ links' = links
  BY DEF Spawn, InsertActor
<1>t. TypeInv'
  BY TypeStep
<1>2. /\ View(b) = Rest("unborn") /\ View(b)' = Rest("fresh")
      /\ \A x \in Actor : x # b => View(x)' = View(x)
  <2>1. /\ place'[b] = "fresh" /\ \A x \in Actor : x # b => place'[x] = place[x]
    BY <1>1 DEF TypeInv, PlaceOK, Places
  <2>2. View(b) = Rest("unborn")
    BY <1>1, ViewPlace DEF TypeInv
  <2>3. View(b)' = Rest("fresh")
    BY <2>1 DEF View, ViewIn
  <2>4. \A x \in Actor : x # b => View(x)' = View(x)
    BY <1>1, <2>1 DEF View, ViewIn
  <2> QED
    BY <2>2, <2>3, <2>4
<1>3. WaitInv'
  <2>1. \A x : place[x] \in {"fresh", "table", "gone"}
                 => place'[x] \in {"fresh", "table", "gone"}
    BY <1>1 DEF TypeInv, PlaceOK, Places
  <2> QED
    BY <1>1, <2>1 DEF WaitInv, WaitShape
<1>4. /\ View(b).op = "unborn" /\ View(b)'.op = "fresh"
      /\ ~Leaving(b)' /\ Alive(b)'
      /\ \A x \in Actor : x # b =>
           /\ (Alive(x)' <=> Alive(x)) /\ (Stays(x)' <=> Stays(x))
           /\ (Leaving(x)' <=> Leaving(x))
  BY <1>2 DEF Alive, Stays, Leaving, Rest
<1>5. /\ Alive(a) /\ ~Leaving(a) /\ View(a).op # "unborn" /\ a # b
  BY <1>1, <1>4, RunsView
<1>6. /\ links[b] = {} /\ monOut[b] = {} /\ monIn[b] = {}
      /\ \A x \in Actor :
         b \notin links[x] /\ \A r \in Ref : /\ Entry(r, b) \notin monOut[x]
                                             /\ Entry(r, b) \notin monIn[x]
  BY <1>4 DEF CleanInv
<1>7. /\ \A x \in Actor \ {a, b} : links'[x] = links[x]
      /\ \/ links'[a] = links[a] \cup {b} /\ links'[b] = {a}
         \/ links'[a] = links[a] /\ links'[b] = {}
  BY <1>1, <1>5, <1>6 DEF TypeInv, BondsOK
<1>8. LinkInv'
  BY <1>4, <1>5, <1>6, <1>7 DEF LinkInv
<1>9. MonitorInv'
  BY <1>1, <1>4, <1>6 DEF MonitorInv
<1>10. RefInv'
  BY <1>1, <1>c, BoundAssumption DEF RefInv, Ref
<1>11. CleanInv'
  BY <1>1, <1>2, <1>4, <1>5, <1>7 DEF CleanInv
<1>12. HearInv'
  <2> SUFFICES ASSUME NEW x \in Actor, NEW y \in Actor, Alive(x)', Leaving(y)',
                      x \notin deaf
               PROVE  /\ y \in links'[x] => x \in View(y)'.peers \/ View(x)'.waits = y
                      /\ \A r \in Ref : Entry(r, y) \in monOut[x]
                          => Entry(r, x) \in View(y)'.watchers
    BY <1>1 DEF HearInv, Entry
  <2>1. y # b /\ y # a /\ View(y)' = View(y) /\ Leaving(y)
    BY <1>2, <1>4, <1>5
  <2>2. CASE x = b
    BY <1>6, <1>7, <2>1, <2>2
  <2>3. CASE x # b
    BY <1>2, <1>4, <1>7, <2>1, <2>3 DEF HearInv
  <2> QED
    BY <2>2, <2>3
<1> QED
  BY <1>3, <1>8, <1>9, <1>10, <1>11, <1>12

LEMMA EntryEqual ==
  /\ \A r, s, x, y : Entry(r, x) = Entry(s, y) <=> r = s /\ x = y
  /\ \A m \in MonitorEntry : m.ref \in Ref /\ m.peer \in Actor
                              /\ m = Entry(m.ref, m.peer)
  /\ \A r, x : Entry(r, x).ref = r /\ Entry(r, x).peer = x
<1>1. \A r, x : Entry(r, x).ref = r /\ Entry(r, x).peer = x
  BY DEF Entry
<1>2. ASSUME NEW m \in MonitorEntry
      PROVE  m.ref \in Ref /\ m.peer \in Actor /\ m = Entry(m.ref, m.peer)
  BY DEF Entry, MonitorEntry
<1> QED
  BY <1>1, <1>2

LEMMA MonitorBonds ==
  ASSUME TypeInv, BondInv, WaitInv, [Next]_vars, NEW a \in Actor, NEW b \in Actor,
         Monitor(a, b)
  PROVE  BondInv' /\ WaitInv'
<1>c. calls \in Nat /\ calls' = calls + 1 /\ calls' \in Nat /\ calls <= calls'
  BY CallsGrow DEF Monitor, Counts
<1>0. /\ Runs(a) /\ UNCHANGED <<place, links, deaf>> /\ place[b] # "unborn"
      /\ stack # <<>> /\ Top \in FrameType
      /\ Top.op \in {"init", "turn", "terminate"}
      /\ Top.op = "terminate" => Top.reason # None
      /\ View(a) = Top
  BY RunsView DEF Monitor
<1>1. CASE EnqueueSelf(a, Top, Down) /\ UNCHANGED <<monOut, monIn>>
  <2> DEFINE g == WithExit(Top, "Error")
  <2>1. /\ g \in FrameType /\ g.actor = Top.actor /\ g.op = Top.op
        /\ g.peers = Top.peers /\ g.watchers = Top.watchers
        /\ g.waits = Top.waits
        /\ g.op \in {"terminate", "telling"} => g.reason # None
    BY <1>0 DEF WithExit, FrameType, ExitReason, None
  <2>2. stack' = Append(Below, Top) \/ stack' = Append(Below, g)
    BY <1>1 DEF EnqueueSelf
  <2> HIDE DEF g
  <2>3. Top.op \in {"terminate", "telling"} => Top.reason # None
    BY <1>0
  <2>4. UNCHANGED <<place, bonds>> /\ deaf \subseteq deaf'
    BY <1>0, <1>1 DEF bonds
  <2>5. CASE stack' = Append(Below, Top)
    BY <1>0, <1>c, <2>3, <2>4, <2>5, QuietSet
  <2>6. CASE stack' = Append(Below, g)
    BY <1>0, <1>c, <2>1, <2>4, <2>6, QuietSet
  <2> QED
    BY <2>2, <2>5, <2>6
<1>2. CASE /\ a = b \/ InTable(b)
           /\ monOut' = [monOut EXCEPT ![a] = @ \cup {Entry(calls', b)}]
           /\ monIn' = [monIn EXCEPT ![b] = @ \cup {Entry(calls', a)}]
           /\ UNCHANGED <<box, stack>>
  <2> USE DEF BondInv
  <2> DEFINE c == calls'
  <2>1. /\ WaitInv'
        /\ \A x : /\ View(x)' = View(x) /\ (Alive(x)' <=> Alive(x))
                  /\ (Stays(x)' <=> Stays(x)) /\ (Leaving(x)' <=> Leaving(x))
    BY <1>0, <1>2, SameViews
  <2>2. /\ Alive(a) /\ ~Leaving(a) /\ View(a).op # "unborn"
        /\ Alive(b) /\ ~Leaving(b) /\ View(b).op # "unborn"
    BY <1>0, <1>2, RunsView, TableView
  <2>3. /\ \A x, y \in Actor : \A r \in Ref :
             /\ Entry(r, y) \in monOut'[x] <=>
                  Entry(r, y) \in monOut[x] \/ (x = a /\ y = b /\ r = c)
             /\ Entry(r, y) \in monIn'[x] <=>
                  Entry(r, y) \in monIn[x] \/ (x = b /\ y = a /\ r = c)
        /\ \A x \in Actor : /\ x # a => monOut'[x] = monOut[x]
                            /\ x # b => monIn'[x] = monIn[x]
    BY <1>2, EntryEqual DEF TypeInv, BondsOK
  <2>4. /\ \A x, y \in Actor : \A r \in Ref :
             /\ Entry(r, y) \in monOut[x] => r # c
             /\ Entry(r, y) \in monIn[x] => r # c
        /\ c \in Nat /\ calls \in Nat /\ calls <= c
    BY <1>c, BoundAssumption DEF RefInv, Ref
  <2> HIDE DEF c
  <2>5. LinkInv'
    BY <1>0, <2>1 DEF LinkInv
  <2>6. MonitorInv'
    BY <2>1, <2>3 DEF MonitorInv
  <2>7. RefInv'
    <3> SUFFICES ASSUME NEW x \in Actor, NEW y \in Actor, NEW r \in Ref
                 PROVE  /\ Entry(r, y) \in monOut'[x] =>
                             r <= c /\ \A z \in Actor : Entry(r, z) \in monIn'[y] => z = x
                        /\ Entry(r, y) \in monIn'[x] => r <= c
      BY DEF RefInv, c, Entry
    <3>1. r \in Nat
      BY BoundAssumption DEF Ref
    <3>2. Entry(r, y) \in monOut'[x] \/ Entry(r, y) \in monIn'[x] => r <= c
      BY <2>3, <2>4, <3>1 DEF RefInv
    <3>3. ASSUME Entry(r, y) \in monOut'[x], NEW z \in Actor,
                 Entry(r, z) \in monIn'[y]
          PROVE  z = x
      BY <2>3, <2>4, <3>3 DEF RefInv
    <3> QED
      BY <3>2, <3>3
  <2>8. CleanInv'
    BY <1>0, <2>1, <2>2, <2>3 DEF CleanInv
  <2>9. HearInv'
    <3> SUFFICES ASSUME NEW x \in Actor, NEW y \in Actor, Alive(x), Leaving(y),
                        x \notin deaf, NEW r \in Ref, Entry(r, y) \in monOut'[x]
                 PROVE  Entry(r, x) \in View(y).watchers
      BY <1>0, <2>1 DEF HearInv, Entry
    <3>1. y # b
      BY <2>2
    <3> QED
      BY <2>3, <3>1 DEF HearInv
  <2> QED
    BY <2>1, <2>5, <2>6, <2>7, <2>8, <2>9
<1> QED
  BY <1>1, <1>2 DEF Monitor, Entry

LEMMA DemonitorBonds ==
  ASSUME TypeInv, BondInv, WaitInv, [Next]_vars, NEW a \in Actor, Demonitor(a)
  PROVE  BondInv' /\ WaitInv'
<1> USE DEF BondInv
<1>c. calls \in Nat /\ calls' \in Nat /\ calls <= calls'
  BY CallsGrow DEF Demonitor
<1>0. PICK m \in monOut[a] :
       /\ monOut' = [monOut EXCEPT ![a] = @ \ {m}]
       /\ monIn' = IF m.peer = a \/ InTable(m.peer)
                   THEN [monIn EXCEPT ![m.peer] = @ \ {Entry(m.ref, a)}]
                   ELSE monIn
  BY DEF Demonitor, Entry
<1>1. /\ Runs(a) /\ UNCHANGED <<stack, place, links, deaf>>
  BY DEF Demonitor
<1>2. /\ WaitInv'
      /\ \A x : /\ View(x)' = View(x) /\ (Alive(x)' <=> Alive(x))
                /\ (Stays(x)' <=> Stays(x)) /\ (Leaving(x)' <=> Leaving(x))
  BY <1>1, SameViews
<1>3. m \in MonitorEntry
  BY <1>0 DEF TypeInv, BondsOK
<1> DEFINE q == m.ref
           p == m.peer
<1>4. m = Entry(q, p) /\ q \in Ref /\ p \in Actor
  BY <1>3, EntryEqual
<1> HIDE DEF q, p
<1>5. \A x, y \in Actor : \A r \in Ref :
        Entry(r, y) \in monOut'[x] <=>
          Entry(r, y) \in monOut[x] /\ ~(x = a /\ y = p /\ r = q)
  BY <1>0, <1>4, EntryEqual DEF TypeInv, BondsOK
<1>6. /\ \A x, y \in Actor : \A r \in Ref :
           /\ Entry(r, y) \in monIn'[x] => Entry(r, y) \in monIn[x]
           /\ Entry(r, y) \in monIn[x] =>
                Entry(r, y) \in monIn'[x] \/ (x = p /\ y = a /\ r = q)
      /\ p = a \/ InTable(p) => Entry(q, a) \notin monIn'[p]
      /\ \A x \in Actor : monIn'[x] \subseteq monIn[x]
  <2>1. CASE p = a \/ InTable(p)
    <3>1. monIn' = [monIn EXCEPT ![p] = @ \ {Entry(q, a)}]
      BY <1>0, <2>1 DEF p, q
    <3> QED
      BY <1>4, <3>1, EntryEqual DEF TypeInv, BondsOK
  <2>2. CASE ~(p = a \/ InTable(p))
    <3>1. monIn' = monIn
      BY <1>0, <2>2 DEF p
    <3> QED
      BY <2>2, <3>1
  <2> QED
    BY <2>1, <2>2
\* A turn is alone on the stack.
<1>7. Stays(a) /\ Alive(p) => p = a \/ InTable(p)
  <2> SUFFICES ASSUME Stays(a), p # a, place[p] = "running" PROVE FALSE
    BY <1>4, ViewPlace DEF Alive, InTable, TypeInv, PlaceOK, Places
  <2>1. Top.op \in {"init", "turn"} /\ stack # <<>> /\ Top.actor = a
    BY <1>1, RunsView DEF Stays
  <2>2. Len(stack) \in DOMAIN stack /\ Top = stack[Len(stack)]
    BY <2>1, RunsTop DEF TypeInv, Top
  <2>3. Len(stack) = 1
    BY <2>1, <2>2 DEF TypeInv, PlaceOK, Shape
  <2>4. DOMAIN stack = 1..1
    <3>1. DOMAIN stack = 1..Len(stack)
      BY LenProperties DEF TypeInv, PlaceOK, Shape
    <3> QED
      BY <2>3, <3>1
  <2>5. PICK i \in DOMAIN stack : stack[i].actor = p
    BY <1>4 DEF TypeInv, PlaceOK, Shape
  <2>6. i = Len(stack)
    BY <2>3, <2>4
  <2> QED
    BY <2>1, <2>2, <2>5, <2>6
<1>8. LinkInv'
  BY <1>1, <1>2 DEF LinkInv
<1>9. MonitorInv'
  <2> SUFFICES ASSUME NEW x \in Actor, NEW y \in Actor, NEW r \in Ref
               PROVE  /\ Alive(x) /\ Alive(y) /\ Entry(r, y) \in monOut'[x]
                            => Entry(r, x) \in monIn'[y]
                      /\ Stays(x) /\ Alive(y) /\ Entry(r, x) \in monIn'[y]
                            => Entry(r, y) \in monOut'[x]
    BY <1>2 DEF MonitorInv, Entry
  <2>1. ASSUME Alive(x), Alive(y), Entry(r, y) \in monOut'[x]
        PROVE  Entry(r, x) \in monIn'[y]
    BY <1>5, <1>6, <2>1 DEF MonitorInv
  <2>2. ASSUME Stays(x), Alive(y), Entry(r, x) \in monIn'[y]
        PROVE  Entry(r, y) \in monOut'[x]
    BY <1>5, <1>6, <1>7, <2>2 DEF MonitorInv
  <2> QED
    BY <2>1, <2>2
<1>10. RefInv'
  <2> SUFFICES ASSUME NEW x \in Actor, NEW y \in Actor, NEW r \in Ref
               PROVE  /\ Entry(r, y) \in monOut'[x] =>
                           r <= calls' /\ \A z \in Actor : Entry(r, z) \in monIn'[y] => z = x
                      /\ Entry(r, y) \in monIn'[x] => r <= calls'
    BY DEF RefInv, Entry
  <2>1. r \in Nat
    BY BoundAssumption DEF Ref
  <2> QED
    BY <1>5, <1>6, <1>c, <2>1 DEF RefInv
<1>11. CleanInv'
  <2>1. \A x \in Actor : monOut'[x] \subseteq monOut[x]
    BY <1>0 DEF TypeInv, BondsOK
  <2> QED
    BY <1>1, <1>2, <1>5, <1>6, <2>1 DEF CleanInv
<1>12. HearInv'
  BY <1>1, <1>2, <1>5 DEF HearInv
<1> QED
  BY <1>2, <1>8, <1>9, <1>10, <1>11, <1>12

\* The frame a caller of shutdown_actor goes on with.
LEMMA ShutdownReturnsFrame ==
  ASSUME TypeInv, NEW a \in Actor, ShutdownReturns(a)
  PROVE  /\ stack # <<>> /\ Top.actor = a /\ Top \in FrameType /\ View(a) = Top
         /\ \E f \in FrameType :
              /\ stack' = Append(Below, f)
              /\ f.actor = Top.actor /\ f.op = Top.op /\ f.peers = Top.peers
              /\ f.watchers = Top.watchers /\ f.waits = None
              /\ f.op \in {"terminate", "telling"} => f.reason # None
<1> DEFINE back == [Top EXCEPT !.waits = None]
<1>1. /\ stack # <<>> /\ Top.actor = a /\ Top \in FrameType /\ View(a) = Top
      /\ Top.op \in {"terminate", "telling"} => Top.reason # None
  BY RunsTop, ViewTop DEF ShutdownReturns, TypeInv
<1>2. /\ back \in FrameType /\ back.actor = Top.actor /\ back.op = Top.op
      /\ back.peers = Top.peers /\ back.watchers = Top.watchers
      /\ back.waits = None /\ back.reason = Top.reason
  BY <1>1 DEF FrameType
<1> HIDE DEF back
<1>3. ASSUME NEW r \in {"Error", "Shutdown"}
      PROVE  LET g == WithExit(back, r) IN
             /\ g \in FrameType /\ g.actor = Top.actor /\ g.op = Top.op
             /\ g.peers = Top.peers /\ g.watchers = Top.watchers
             /\ g.waits = None
             /\ g.op \in {"terminate", "telling"} => g.reason # None
  BY <1>1, <1>2, <1>3 DEF WithExit, FrameType, ExitReason, None
<1>4. \/ stack' = Append(Below, back)
      \/ \E r \in {"Error", "Shutdown"} : stack' = Append(Below, WithExit(back, r))
  BY DEF ShutdownReturns, HandleCurrentExitSignal, EnqueueSelf, back
<1>5. CASE stack' = Append(Below, back)
  BY <1>1, <1>2, <1>5
<1>6. ASSUME NEW r \in {"Error", "Shutdown"},
             stack' = Append(Below, WithExit(back, r))
      PROVE  \E f \in FrameType :
              /\ stack' = Append(Below, f)
              /\ f.actor = Top.actor /\ f.op = Top.op /\ f.peers = Top.peers
              /\ f.watchers = Top.watchers /\ f.waits = None
              /\ f.op \in {"terminate", "telling"} => f.reason # None
  <2> DEFINE g == WithExit(back, r)
  <2>1. /\ g \in FrameType /\ g.actor = Top.actor /\ g.op = Top.op
        /\ g.peers = Top.peers /\ g.watchers = Top.watchers
        /\ g.waits = None
        /\ g.op \in {"terminate", "telling"} => g.reason # None
        /\ stack' = Append(Below, g)
    BY <1>3, <1>6
  <2> HIDE DEF g
  <2> QED
    BY <2>1
<1> QED
  BY <1>1, <1>4, <1>5, <1>6

LEMMA ShutdownReturnsBonds ==
  ASSUME TypeInv, BondInv, WaitInv, [Next]_vars, NEW a \in Actor,
         ShutdownReturns(a)
  PROVE  BondInv' /\ WaitInv'
<1> USE DEF BondInv
<1>c. calls \in Nat /\ calls' \in Nat /\ calls <= calls'
  BY CallsGrow DEF ShutdownReturns
<1>0. PICK b : b = Top.waits
  OBVIOUS
<1>1. PICK f \in FrameType :
              /\ stack' = Append(Below, f)
              /\ f.actor = Top.actor /\ f.op = Top.op /\ f.peers = Top.peers
              /\ f.watchers = Top.watchers /\ f.waits = None
              /\ f.op \in {"terminate", "telling"} => f.reason # None
  BY ShutdownReturnsFrame
<1>2. /\ stack # <<>> /\ Top.actor = a /\ Top \in FrameType /\ View(a) = Top
  BY ShutdownReturnsFrame
<1>3. /\ UNCHANGED <<place, monOut, monIn, deaf>> /\ b # None
      /\ \/ InTable(b) /\ links' = links
         \/ ~InTable(b) /\ links' = [links EXCEPT ![a] = @ \ {b}]
  BY <1>0 DEF ShutdownReturns
<1>4. WaitInv'
  BY <1>1, <1>2, <1>3, WaitSet DEF WaitInv, TypeInv
<1>5. \A x \in Actor : View(x)' = IF x = a THEN f ELSE View(x)
  <2>1. \A x \in Actor : ViewIn(Append(Below, f), place, x)
                               = IF x = Top.actor THEN f ELSE View(x)
    BY <1>1, <1>2, ViewSet DEF TypeInv
  <2>2. \A x : View(x)' = ViewIn(stack', place', x)
    BY DEF View
  <2> QED
    BY <1>1, <1>2, <1>3, <2>1, <2>2
<1>6. b \in Actor /\ place[b] \in {"fresh", "table", "gone"}
  BY <1>0, <1>2, <1>3, WaitTop DEF TypeInv
<1>7. \A x \in Actor :
        /\ (Alive(x)' <=> Alive(x)) /\ (Stays(x)' <=> Stays(x))
        /\ (Leaving(x)' <=> Leaving(x)) /\ View(x)'.op = View(x).op
        /\ View(x)'.peers = View(x).peers /\ View(x)'.watchers = View(x).watchers
        /\ x # a => View(x)'.waits = View(x).waits
  BY <1>1, <1>2, <1>5 DEF Alive, Stays, Leaving
<1>8. CASE InTable(b) /\ links' = links
  <2>1. ~Leaving(b)
    BY <1>6, <1>8, TableView
  <2>2. ASSUME NEW x \in Actor PROVE Calm(x)
    BY <1>0, <1>2, <1>7, <2>1 DEF Calm
  <2>3. UNCHANGED bonds
    BY <1>3, <1>8 DEF bonds
  <2> QED
    BY <1>c, <1>3, <1>4, <2>2, <2>3, BondsQuiet
<1>9. CASE ~InTable(b) /\ links' = [links EXCEPT ![a] = @ \ {b}]
  <2>1. place[b] = "gone" /\ ~Alive(b)
    BY <1>6, <1>9, ViewPlace DEF InTable, Alive, TypeInv
  <2>2. \A x, y \in Actor : y \in links'[x] <=> y \in links[x] /\ ~(x = a /\ y = b)
    BY <1>6, <1>9 DEF TypeInv, BondsOK
  <2>3. LinkInv'
    BY <1>7, <2>1, <2>2 DEF LinkInv
  <2>4. MonitorInv'
    BY <1>3, <1>7 DEF MonitorInv
  <2>5. RefInv'
    BY <1>3, <1>c, BoundAssumption DEF RefInv, Ref
  <2>6. CleanInv'
    <3>1. \A x \in Actor : links'[x] \subseteq links[x]
      BY <1>9 DEF TypeInv, BondsOK
    <3> QED
      BY <1>3, <1>7, <2>2, <3>1 DEF CleanInv
  <2>7. HearInv'
    <3> SUFFICES ASSUME NEW x \in Actor, NEW y \in Actor, Alive(x), Leaving(y),
                        x \notin deaf
                 PROVE  /\ y \in links'[x] => x \in View(y)'.peers \/ View(x)'.waits = y
                        /\ \A r \in Ref : Entry(r, y) \in monOut[x]
                             => Entry(r, x) \in View(y)'.watchers
      BY <1>3, <1>7 DEF HearInv, Entry
    <3>1. \A r \in Ref : Entry(r, y) \in monOut[x]
                             => Entry(r, x) \in View(y)'.watchers
      BY <1>7 DEF HearInv
    <3>2. ASSUME y \in links'[x] PROVE x \in View(y)'.peers \/ View(x)'.waits = y
      <4>1. y \in links[x] /\ (x = a => y # b)
        BY <2>2, <3>2
      <4>2. x \in View(y).peers \/ View(x).waits = y
        BY <4>1 DEF HearInv
      <4> QED
        BY <1>0, <1>2, <1>7, <4>1, <4>2
    <3> QED
      BY <3>1, <3>2
  <2> QED
    BY <1>4, <2>3, <2>4, <2>5, <2>6, <2>7
<1> QED
  BY <1>3, <1>8, <1>9

LEMMA TerminateBonds ==
  ASSUME TypeInv, BondInv, WaitInv, [Next]_vars, NEW a \in Actor,
         TerminateReturns(a)
  PROVE  BondInv' /\ WaitInv'
<1> USE DEF BondInv
<1>c. calls \in Nat /\ calls' \in Nat /\ calls <= calls'
  BY CallsGrow DEF TerminateReturns
<1>1. PICK final \in {Top.reason, "Error"} :
       stack' = Append(Below,
         [Frame(a, "telling", ShutdownLinkReason(a, final)) EXCEPT
            !.watchers = {m \in monIn[a] : m.peer # a},
            !.peers = links[a]])
  BY DEF TerminateReturns
<1>2. /\ Runs(a) /\ Top.op = "terminate" /\ UNCHANGED <<place, deaf>>
      /\ links' = [links EXCEPT ![a] = {}]
      /\ monOut' = [monOut EXCEPT ![a] = {}]
      /\ monIn' = WithoutMonitorsOf(a)
  BY DEF TerminateReturns
<1>3. /\ View(a) = Top /\ Alive(a) /\ stack # <<>> /\ Top.actor = a
      /\ Top.reason \in ExitReason /\ place[a] = "running"
  BY <1>2, RunsView
<1> DEFINE r == ShutdownLinkReason(a, final)
           f == [Frame(a, "telling", r) EXCEPT
                     !.watchers = {m \in monIn[a] : m.peer # a},
                     !.peers = links[a]]
<1>4. r \in ExitReason /\ r # None
  BY <1>3 DEF ShutdownLinkReason, ExitReason, None
<1> HIDE DEF r
<1>5. /\ f \in FrameType /\ f.actor = a /\ f.op = "telling"
      /\ f.reason = r /\ f.waits = None /\ f.peers = links[a]
      /\ f.watchers = {m \in monIn[a] : m.peer # a}
  BY <1>4 DEF Frame, FrameType, TypeInv, BondsOK
<1>6. stack' = Append(Below, f)
  BY <1>1 DEF r
<1> HIDE DEF f
<1>7. WaitInv'
  BY <1>2, <1>3, <1>5, <1>6, WaitSet DEF WaitInv, TypeInv
<1>8. \A x \in Actor : View(x)' = IF x = a THEN f ELSE View(x)
  <2>1. \A x \in Actor : ViewIn(Append(Below, f), place, x)
                               = IF x = Top.actor THEN f ELSE View(x)
    BY <1>3, <1>4, <1>5, ViewSet DEF TypeInv
  <2>2. \A x : View(x)' = ViewIn(stack', place', x)
    BY DEF View
  <2> QED
    BY <1>2, <1>3, <1>6, <2>1, <2>2
<1>9. /\ ~Alive(a)' /\ ~Stays(a)' /\ View(a)'.op # "unborn"
      /\ \A x \in Actor : x # a =>
           /\ View(x)' = View(x) /\ (Alive(x)' <=> Alive(x))
           /\ (Stays(x)' <=> Stays(x)) /\ (Leaving(x)' <=> Leaving(x))
  BY <1>5, <1>8 DEF Alive, Stays, Leaving
<1>10. /\ \A x \in Actor : x # a => links'[x] = links[x] /\ monOut'[x] = monOut[x]
       /\ links'[a] = {} /\ monOut'[a] = {} /\ monIn'[a] = {}
       /\ \A x \in Actor : monIn'[x] \subseteq monIn[x]
       /\ \A x, y \in Actor : \A q \in Ref :
            x # a /\ Entry(q, y) \in monIn[x] /\ Entry(q, x) \notin monOut[a]
              => Entry(q, y) \in monIn'[x]
  <2>1. \A x \in Actor : monIn'[x] =
          IF x = a THEN {}
          ELSE IF InTable(x)
               THEN {m \in monIn[x] : Entry(m.ref, x) \notin monOut[a]}
               ELSE monIn[x]
    BY <1>2 DEF WithoutMonitorsOf, Entry
  <2> QED
    <3>1. /\ \A x \in Actor : x # a => links'[x] = links[x] /\ monOut'[x] = monOut[x]
          /\ links'[a] = {} /\ monOut'[a] = {} /\ monIn'[a] = {}
          /\ \A x \in Actor : monIn'[x] \subseteq monIn[x]
      BY <1>2, <2>1 DEF TypeInv, BondsOK
    <3>2. ASSUME NEW x \in Actor, NEW y \in Actor, NEW q \in Ref,
                 x # a, Entry(q, y) \in monIn[x], Entry(q, x) \notin monOut[a]
          PROVE  Entry(q, y) \in monIn'[x]
      <4>1. Entry(q, y).ref = q
        BY EntryEqual
      <4>2. CASE InTable(x)
        <5>1. monIn'[x] = {m \in monIn[x] : Entry(m.ref, x) \notin monOut[a]}
          BY <2>1, <3>2, <4>2
        <5> QED
          BY <3>2, <4>1, <5>1
      <4>3. CASE ~InTable(x)
        BY <2>1, <3>2, <4>3
      <4> QED
        BY <4>2, <4>3
    <3> QED
      BY <3>1, <3>2
<1>11. LinkInv'
  BY <1>9, <1>10 DEF LinkInv
<1>12. MonitorInv'
  <2> SUFFICES ASSUME NEW x \in Actor, NEW y \in Actor, NEW q \in Ref
               PROVE  /\ Alive(x)' /\ Alive(y)' /\ Entry(q, y) \in monOut'[x]
                            => Entry(q, x) \in monIn'[y]
                      /\ Stays(x)' /\ Alive(y)' /\ Entry(q, x) \in monIn'[y]
                            => Entry(q, y) \in monOut'[x]
    BY DEF MonitorInv, Entry
  <2>1. ASSUME Alive(x)', Alive(y)', Entry(q, y) \in monOut'[x]
        PROVE  Entry(q, x) \in monIn'[y]
    <3>1. /\ x # a /\ y # a /\ Alive(x) /\ Alive(y) /\ Entry(q, y) \in monOut[x]
          /\ Entry(q, x) \in monIn[y]
      BY <1>9, <1>10, <2>1 DEF MonitorInv
    <3>2. Entry(q, y) \notin monOut[a]
      BY <3>1 DEF RefInv
    <3> QED
      BY <1>10, <3>1, <3>2
  <2>2. ASSUME Stays(x)', Alive(y)', Entry(q, x) \in monIn'[y]
        PROVE  Entry(q, y) \in monOut'[x]
    BY <1>9, <1>10, <2>2 DEF MonitorInv
  <2> QED
    BY <2>1, <2>2
<1>13. RefInv'
  <2> SUFFICES ASSUME NEW x \in Actor, NEW y \in Actor, NEW q \in Ref
               PROVE  /\ Entry(q, y) \in monOut'[x] =>
                           q <= calls' /\ \A z \in Actor : Entry(q, z) \in monIn'[y] => z = x
                      /\ Entry(q, y) \in monIn'[x] => q <= calls'
    BY DEF RefInv, Entry
  <2>1. q \in Nat
    BY BoundAssumption DEF Ref
  <2> QED
    BY <1>10, <1>c, <2>1 DEF RefInv
<1>14. CleanInv'
  BY <1>9, <1>10 DEF CleanInv
<1>15. HearInv'
  <2> SUFFICES ASSUME NEW x \in Actor, NEW y \in Actor, Alive(x)', Leaving(y)',
                      x \notin deaf
               PROVE  /\ y \in links'[x] => x \in View(y)'.peers \/ View(x)'.waits = y
                      /\ \A q \in Ref : Entry(q, y) \in monOut'[x]
                           => Entry(q, x) \in View(y)'.watchers
    BY <1>2 DEF HearInv, Entry
  <2>1. x # a /\ Alive(x) /\ links'[x] = links[x] /\ monOut'[x] = monOut[x]
        /\ View(x)' = View(x)
    BY <1>9, <1>10
  <2>2. CASE y = a
    <3>1. /\ a \in links[x] => x \in links[a]
          /\ \A q \in Ref : Entry(q, a) \in monOut[x] => Entry(q, x) \in monIn[a]
      BY <1>3, <2>1 DEF LinkInv, MonitorInv
    <3> QED
      BY <1>5, <1>8, <2>1, <2>2, <3>1, EntryEqual
  <2>3. CASE y # a
    BY <1>9, <2>1, <2>3 DEF HearInv
  <2> QED
    BY <2>2, <2>3
<1> QED
  BY <1>7, <1>11, <1>12, <1>13, <1>14, <1>15

\* One actor more has been told, and perhaps forced out.
LEMMA TellsView ==
  ASSUME TypeInv, WaitInv, NEW a \in Actor, Tells(a), NEW f \in FrameType,
         f.actor = a, f.op = "telling", f.reason = Top.reason,
         f.waits = Top.waits, NEW to \in Actor, Outcome(Append(Below, f), to)
  PROVE  /\ WaitInv' /\ View(a)' = f /\ View(a) = Top
         /\ \A x \in Actor : x # a => Calm(x)
         /\ \A x \in Actor : x # a /\ Leaving(x)' => View(x)' = View(x)
         /\ ~Alive(a) /\ ~Stays(a) /\ ~Alive(a)' /\ ~Stays(a)' /\ Leaving(a)
         /\ View(a)'.op # "unborn" /\ place[a] = "running"
<1>1. /\ stack # <<>> /\ Top.actor = a /\ Top.op = "telling" /\ View(a) = Top
      /\ Top.reason # None /\ place[a] = "running"
  BY RunsTop, ViewTop DEF Tells, TypeInv
<1> DEFINE s == Append(Below, f)
<1>2. /\ Shape(s, place)
      /\ \A x \in Actor : ViewIn(s, place, x) = IF x = a THEN f ELSE View(x)
  BY <1>1, ViewSet DEF TypeInv
<1>3. WaitShape(s, place)
  BY <1>1, WaitSet DEF TypeInv
<1> HIDE DEF s
<1>4. /\ WaitInv'
      /\ \A x \in Actor : x # to => View(x)' = ViewIn(s, place, x)
      /\ \/ View(to)' = ViewIn(s, place, to)
         \/ InTable(to) /\ \E r \in ExitReason :
                             View(to)' = Frame(to, "terminate", r)
  BY <1>2, <1>3, OutcomeView DEF s
<1>5. ~InTable(a)
  BY <1>1 DEF InTable
<1>6. View(a)' = f
  BY <1>2, <1>4, <1>5
<1>7. ASSUME NEW x \in Actor, x # a
      PROVE  Calm(x) /\ (Leaving(x)' => View(x)' = View(x))
  <2>1. CASE View(x)' = View(x)
    BY <2>1, CalmFrame
  <2>2. CASE InTable(x) /\ \E r \in ExitReason :
                             View(x)' = Frame(x, "terminate", r)
    <3>1. View(x)'.op = "terminate"
      BY <2>2 DEF Frame
    <3> QED
      BY <2>2, <3>1, CalmForced DEF TypeInv, Leaving
  <2> QED
    BY <1>2, <1>4, <1>7, <2>1, <2>2
<1> QED
  BY <1>1, <1>4, <1>6, <1>7 DEF Alive, Stays, Leaving

\* An actor on the stack that is passed over is noted.
LEMMA OnStack ==
  ASSUME TypeInv, NEW x \in Actor, Alive(x), ~InTable(x), NEW a
  PROVE  /\ x \in Busy(a, FALSE)
         /\ View(x).waits # a => x \in Busy(a, TRUE)
<1>1. place[x] = "running"
  BY ViewPlace DEF Alive, InTable, TypeInv, PlaceOK, Places
<1>2. PICK i \in DOMAIN stack : stack[i].actor = x /\ View(x) = stack[i]
  BY <1>1, ViewOf DEF View, TypeInv, PlaceOK
<1> QED
  BY <1>2 DEF Busy

LEMMA TellWatcherBonds ==
  ASSUME TypeInv, BondInv, WaitInv, [Next]_vars, NEW a \in Actor,
         TellWatcher(a)
  PROVE  BondInv' /\ WaitInv'
<1> USE DEF BondInv
<1>c. calls \in Nat /\ calls' \in Nat /\ calls <= calls'
  BY CallsGrow DEF TellWatcher
<1>1. PICK m \in Top.watchers :
       LET told == Append(Below, [Top EXCEPT !.watchers = @ \ {m}])
       IN  \/ /\ InTable(m.peer)
              /\ monOut' = [monOut EXCEPT ![m.peer] =
                              @ \ {[ref |-> m.ref, peer |-> a]}]
              /\ EnqueueRuntimeEnvelope(told, m.peer, Down)
              /\ UNCHANGED deaf
           \/ /\ ~InTable(m.peer)
              /\ deaf' = deaf \cup ({m.peer} \cap Busy(a, FALSE))
              /\ stack' = told
              /\ UNCHANGED <<place, box, monOut>>
  BY DEF TellWatcher
<1>2. /\ Tells(a) /\ UNCHANGED <<links, monIn>>
  BY DEF TellWatcher
<1>3. /\ stack # <<>> /\ Top \in FrameType /\ Top.actor = a
      /\ Top.op = "telling" /\ Top.watchers \subseteq MonitorEntry
  BY <1>2, RunsTop DEF Tells, TypeInv, FrameType
<1> DEFINE f == [Top EXCEPT !.watchers = @ \ {m}]
           p == m.peer
           q == m.ref
<1>4. /\ f \in FrameType /\ f.actor = a /\ f.op = "telling"
      /\ f.reason = Top.reason /\ f.waits = Top.waits
      /\ f.peers = Top.peers /\ f.watchers = Top.watchers \ {m}
  BY <1>3 DEF FrameType
<1>5. p \in Actor /\ q \in Ref /\ m = Entry(q, p)
  BY <1>1, <1>3, EntryEqual
<1>6. \/ /\ InTable(p) /\ deaf' = deaf
         /\ monOut' = [monOut EXCEPT ![p] = @ \ {Entry(q, a)}]
         /\ EnqueueRuntimeEnvelope(Append(Below, f), p, Down)
      \/ /\ ~InTable(p) /\ monOut' = monOut
         /\ deaf' = deaf \cup ({p} \cap Busy(a, FALSE))
         /\ stack' = Append(Below, f) /\ UNCHANGED <<place, box>>
  BY <1>1 DEF Entry
<1> HIDE DEF f, p, q
<1>7. Outcome(Append(Below, f), p)
  <2>1. CASE InTable(p) /\ EnqueueRuntimeEnvelope(Append(Below, f), p, Down)
    BY <2>1, EnqueueOutcome, EnvelopesTyped
  <2>2. CASE stack' = Append(Below, f) /\ UNCHANGED <<place, box>>
    BY <2>2 DEF Outcome
  <2> QED
    BY <1>6, <2>1, <2>2
<1>8. /\ WaitInv' /\ View(a)' = f /\ View(a) = Top
      /\ \A x \in Actor : x # a => Calm(x)
      /\ \A x \in Actor : x # a /\ Leaving(x)' => View(x)' = View(x)
      /\ ~Alive(a) /\ ~Stays(a) /\ ~Alive(a)' /\ ~Stays(a)' /\ Leaving(a)
      /\ View(a)'.op # "unborn"
  BY <1>2, <1>4, <1>5, <1>7, TellsView
<1>9. /\ \A x, y \in Actor : \A r \in Ref :
           /\ Entry(r, y) \in monOut'[x] => Entry(r, y) \in monOut[x]
           /\ y # a /\ Entry(r, y) \in monOut[x] => Entry(r, y) \in monOut'[x]
      /\ \A x \in Actor : monOut'[x] \subseteq monOut[x]
      /\ InTable(p) => Entry(q, a) \notin monOut'[p]
  <2>1. CASE InTable(p)
    <3> DEFINE e == Entry(q, a)
    <3>1. /\ monOut' = [monOut EXCEPT ![p] = @ \ {e}]
          /\ \A r, y : y # a => Entry(r, y) # e
      BY <1>6, <2>1, EntryEqual
    <3> HIDE DEF e
    <3>2. \A x \in Actor : monOut'[x] = IF x = p THEN monOut[x] \ {e} ELSE monOut[x]
      BY <1>5, <3>1 DEF TypeInv, BondsOK
    <3>3. e \notin monOut'[p]
      BY <1>5, <3>2
    <3> QED
      BY <3>1, <3>2, <3>3 DEF e
  <2>2. CASE ~InTable(p)
    BY <1>6, <2>2
  <2> QED
    BY <2>1, <2>2
<1>10. \A x \in Actor :
         /\ Alive(x)' => x # a /\ Alive(x)
         /\ Stays(x)' => x # a /\ Stays(x)
         /\ Leaving(x)' => Leaving(x)
         /\ View(x)'.op = "unborn" => View(x).op = "unborn"
  BY <1>8 DEF Calm
<1>11. LinkInv'
  BY <1>2, <1>10 DEF LinkInv
<1>12. MonitorInv'
  BY <1>2, <1>9, <1>10 DEF MonitorInv
<1>13. RefInv'
  <2> SUFFICES ASSUME NEW x \in Actor, NEW y \in Actor, NEW r \in Ref
               PROVE  /\ Entry(r, y) \in monOut'[x] =>
                           r <= calls' /\ \A z \in Actor : Entry(r, z) \in monIn'[y] => z = x
                      /\ Entry(r, y) \in monIn'[x] => r <= calls'
    BY DEF RefInv, Entry
  <2>1. r \in Nat
    BY BoundAssumption DEF Ref
  <2> QED
    BY <1>2, <1>9, <1>c, <2>1 DEF RefInv
<1>14. CleanInv'
  BY <1>2, <1>9, <1>10 DEF CleanInv
<1>15. HearInv'
  <2> SUFFICES ASSUME NEW x \in Actor, NEW y \in Actor, Alive(x)', Leaving(y)',
                      x \notin deaf'
               PROVE  /\ y \in links[x] => x \in View(y)'.peers \/ View(x)'.waits = y
                      /\ \A r \in Ref : Entry(r, y) \in monOut'[x]
                           => Entry(r, x) \in View(y)'.watchers
    BY <1>2 DEF HearInv, Entry
  <2>1. x # a /\ Alive(x) /\ Leaving(y) /\ x \notin deaf
    BY <1>6, <1>10
  <2>2. y \in links[x] => x \in View(y)'.peers \/ View(x)'.waits = y
    <3>1. y \in links[x] => x \in View(y).peers \/ View(x).waits = y
      BY <2>1 DEF HearInv
    <3>2. View(x).waits = y => View(x)'.waits = y
      BY <1>8, <2>1 DEF Calm
    <3>3. View(y)'.peers = View(y).peers
      BY <1>4, <1>8
    <3> QED
      BY <3>1, <3>2, <3>3
  <2>3. ASSUME NEW r \in Ref, Entry(r, y) \in monOut'[x]
        PROVE  Entry(r, x) \in View(y)'.watchers
    <3>1. Entry(r, x) \in View(y).watchers
      BY <1>9, <2>1, <2>3 DEF HearInv
    <3>2. CASE y # a
      BY <1>8, <3>1, <3>2
    <3>3. CASE y = a /\ Entry(r, x) # m
      BY <1>4, <1>8, <3>1, <3>3
    <3>4. CASE y = a /\ Entry(r, x) = m
      <4>1. x = p /\ r = q
        BY <1>5, <3>4, EntryEqual
      <4>2. ~InTable(p)
        BY <1>9, <2>3, <3>4, <4>1
      <4>3. p \in Busy(a, FALSE)
        BY <1>5, <2>1, <4>1, <4>2, OnStack
      <4> QED
        BY <1>6, <4>1, <4>2, <4>3
    <3> QED
      BY <3>2, <3>3, <3>4
  <2> QED
    BY <2>2, <2>3
<1> QED
  BY <1>8, <1>11, <1>12, <1>13, <1>14, <1>15

LEMMA TellPeerBonds ==
  ASSUME TypeInv, BondInv, WaitInv, [Next]_vars, NEW a \in Actor, TellPeer(a)
  PROVE  BondInv' /\ WaitInv'
<1> USE DEF BondInv
<1>c. calls \in Nat /\ calls' \in Nat /\ calls <= calls'
  BY CallsGrow DEF TellPeer
<1>1. PICK b \in Top.peers :
       /\ links' = IF InTable(b) THEN [links EXCEPT ![b] = @ \ {a}] ELSE links
       /\ PropagateLinkExit(Append(Below, [Top EXCEPT !.peers = @ \ {b}]), b,
                            Top.reason)
       /\ deaf' = deaf \cup ({b} \cap Busy(a, TRUE))
  BY DEF TellPeer
<1>2. /\ Tells(a) /\ UNCHANGED <<monOut, monIn>>
  BY DEF TellPeer
<1>3. /\ stack # <<>> /\ Top \in FrameType /\ Top.actor = a
      /\ Top.op = "telling" /\ Top.reason \in ExitReason /\ b \in Actor
  BY <1>1, <1>2, RunsTop DEF Tells, TypeInv, FrameType
<1> DEFINE f == [Top EXCEPT !.peers = @ \ {b}]
<1>4. /\ f \in FrameType /\ f.actor = a /\ f.op = "telling"
      /\ f.reason = Top.reason /\ f.waits = Top.waits
      /\ f.peers = Top.peers \ {b} /\ f.watchers = Top.watchers
  BY <1>3 DEF FrameType
<1>5. PropagateLinkExit(Append(Below, f), b, Top.reason)
  BY <1>1
<1> HIDE DEF f
<1>6. Outcome(Append(Below, f), b)
  BY <1>3, <1>5, PropagateOutcome
<1>7. /\ WaitInv' /\ View(a)' = f /\ View(a) = Top
      /\ \A x \in Actor : x # a => Calm(x)
      /\ \A x \in Actor : x # a /\ Leaving(x)' => View(x)' = View(x)
      /\ ~Alive(a) /\ ~Stays(a) /\ ~Alive(a)' /\ ~Stays(a)' /\ Leaving(a)
      /\ View(a)'.op # "unborn"
  BY <1>2, <1>3, <1>4, <1>6, TellsView
<1>8. /\ \A x, y \in Actor :
           /\ y \in links'[x] => y \in links[x]
           /\ y # a /\ y \in links[x] => y \in links'[x]
      /\ \A x \in Actor : links'[x] \subseteq links[x]
      /\ InTable(b) => a \notin links'[b]
  BY <1>1, <1>3 DEF TypeInv, BondsOK
<1>9. \A x \in Actor :
         /\ Alive(x)' => x # a /\ Alive(x)
         /\ Stays(x)' => x # a /\ Stays(x)
         /\ Leaving(x)' => Leaving(x)
         /\ View(x)'.op = "unborn" => View(x).op = "unborn"
  BY <1>7 DEF Calm
<1>10. LinkInv'
  BY <1>8, <1>9 DEF LinkInv
<1>11. MonitorInv'
  BY <1>2, <1>9 DEF MonitorInv
<1>12. RefInv'
  BY <1>2, <1>c, BoundAssumption DEF RefInv, Ref
<1>13. CleanInv'
  BY <1>2, <1>8, <1>9 DEF CleanInv
<1>14. HearInv'
  <2> SUFFICES ASSUME NEW x \in Actor, NEW y \in Actor, Alive(x)', Leaving(y)',
                      x \notin deaf'
               PROVE  /\ y \in links'[x] => x \in View(y)'.peers \/ View(x)'.waits = y
                      /\ \A r \in Ref : Entry(r, y) \in monOut[x]
                           => Entry(r, x) \in View(y)'.watchers
    BY <1>2 DEF HearInv, Entry
  <2>1. x # a /\ Alive(x) /\ Leaving(y) /\ x \notin deaf
    BY <1>1, <1>9
  <2>2. \A r \in Ref : Entry(r, y) \in monOut[x] => Entry(r, x) \in View(y)'.watchers
    BY <1>4, <1>7, <2>1 DEF HearInv
  <2>3. ASSUME y \in links'[x] PROVE x \in View(y)'.peers \/ View(x)'.waits = y
    <3>1. x \in View(y).peers \/ View(x).waits = y
      BY <1>8, <2>1, <2>3 DEF HearInv
    <3>2. View(x).waits = y => View(x)'.waits = y
      BY <1>7, <2>1 DEF Calm
    <3>3. CASE y # a
      BY <1>7, <3>1, <3>2, <3>3
    <3>4. CASE y = a /\ x # b
      BY <1>4, <1>7, <3>1, <3>2, <3>4
    <3>5. CASE y = a /\ x = b
      <4>1. ~InTable(b)
        BY <1>8, <2>3, <3>5
      <4>2. CASE View(b).waits = a
        BY <3>2, <3>5, <4>2
      <4>3. CASE View(b).waits # a
        <5>1. b \in Busy(a, TRUE)
          BY <2>1, <3>5, <4>1, <4>3, OnStack
        <5> QED
          BY <1>1, <3>5, <5>1
      <4> QED
        BY <4>2, <4>3
    <3> QED
      BY <3>3, <3>4, <3>5
  <2> QED
    BY <2>2, <2>3
<1> QED
  BY <1>7, <1>10, <1>11, <1>12, <1>13, <1>14

LEMMA BondInit == Init => BondInv /\ WaitInv
<1> SUFFICES ASSUME Init PROVE BondInv /\ WaitInv
  OBVIOUS
<1>1. WaitInv
  <2>1. DOMAIN stack = {}
    BY Len(<<>>) = 0 DEF Init
  <2> QED
    BY <2>1 DEF WaitInv, WaitShape
<1>2. \A x \in Actor : View(x).op \in {"fresh", "unborn"}
  BY DEF Init, View, ViewIn, Rest
<1>3. \A x \in Actor : ~Leaving(x) /\ links[x] = {} /\ monOut[x] = {} /\ monIn[x] = {}
  BY <1>2 DEF Init, Leaving
<1> QED
  BY <1>1, <1>3 DEF BondInv, LinkInv, MonitorInv, RefInv, CleanInv, HearInv

LEMMA BondStep ==
  TypeInv /\ BondInv /\ WaitInv /\ [Next]_vars => BondInv' /\ WaitInv'
<1> SUFFICES ASSUME TypeInv, BondInv, WaitInv, [Next]_vars
             PROVE  BondInv' /\ WaitInv'
  OBVIOUS
<1>1. ASSUME NEW a \in Actor, NEW b \in Actor,
             \/ Send(a, b) \/ Link(a, b) \/ Unlink(a, b) \/ Monitor(a, b)
             \/ Demonitor(a) \/ SetTrapExit(a) \/ Spawn(a, b)
             \/ \E reason \in Reason : ExitSelf(a, reason)
             \/ \E policy \in Policy : ShutdownActor(a, b, policy)
      PROVE  BondInv' /\ WaitInv'
  BY <1>1, QuietSteps, LinkBonds, MonitorBonds, DemonitorBonds, SpawnBonds
<1>2. ASSUME NEW a \in Actor,
             \/ ShutdownReturns(a) \/ TurnReturns(a) \/ TurnStops(a)
             \/ TerminateReturns(a) \/ TellWatcher(a) \/ TellPeer(a)
             \/ Finished(a)
      PROVE  BondInv' /\ WaitInv'
  BY <1>2, StageSteps, ShutdownReturnsBonds, TerminateBonds, TellWatcherBonds,
     TellPeerBonds
<1>3. CASE Host
  BY <1>3, QuietSteps DEF Host
<1>4. CASE RunOnce
  <2>1. Head(runQueue) \in Actor
    BY <1>4, TailHas DEF RunOnce, TypeInv, BoxOK
  <2> QED
    BY <1>4, <2>1, StageSteps
<1>5. CASE IngestEvent
  <2>1. Head(channel) \in Actor
    BY <1>5, TailHas DEF IngestEvent, TypeInv, ShutdownOK
  <2> QED
    BY <1>5, <2>1, QuietSteps
<1>6. ASSUME NEW b \in Actor, Elapse(b) PROVE BondInv' /\ WaitInv'
  BY <1>6, QuietSteps
<1>7. CASE UNCHANGED vars
  <2>1. WaitInv' /\ \A x : View(x)' = View(x)
    BY <1>7 DEF vars, WaitInv, View
  <2> QED
    BY <1>7, <2>1
       DEF vars, bonds, BondInv, LinkInv, MonitorInv, RefInv, CleanInv, HearInv,
           Alive, Stays, Leaving
<1> QED
  BY <1>1, <1>2, <1>3, <1>4, <1>5, <1>6, <1>7 DEF Next, UserCode, Unwinds

\* Between actors in the table a link and a monitor have both their sides,
\* after any nesting of forced exits and whatever their hooks did in between:
\* link, monitor, demonitor, detach_links_and_propagate and finish_actor keep
\* the two records in step.
THEOREM BondsKept == Spec => []BondsPaired
<1>1. TypeInv /\ BondInv => BondsPaired
  <2> SUFFICES ASSUME TypeInv, BondInv, NEW a \in Actor, NEW b \in Actor,
                      InTable(a), InTable(b)
               PROVE  /\ b \in links[a] <=> a \in links[b]
                      /\ \A r \in Ref : Entry(r, b) \in monOut[a]
                                          <=> Entry(r, a) \in monIn[b]
    BY DEF BondsPaired, Entry
  <2>1. Alive(a) /\ Stays(a) /\ Alive(b)
    BY TableView
  <2> QED
    BY <2>1 DEF BondInv, LinkInv, MonitorInv
<1> QED
  BY TypeInit, TypeStep, BondInit, BondStep, <1>1, PTL DEF Spec

\* Whoever is in the table and has not been passed over while it was out of it
\* has no bond left to an actor that is gone: notify_incoming_monitors and
\* detach_links_and_propagate reach everybody that finish_actor recorded, and
\* shutdown_actor makes up for the exit it has caused itself.
THEOREM ExitsTold == Spec => []ExitsHeard
<1>1. TypeInv /\ BondInv => ExitsHeard
  <2> SUFFICES ASSUME TypeInv, BondInv, NEW a \in Actor, NEW b \in Actor,
                      InTable(a), a \notin deaf, place[b] = "gone"
               PROVE  b \notin links[a] /\ \A m \in monOut[a] : m.peer # b
    BY DEF ExitsHeard
  <2>1. /\ Alive(a) /\ View(a) = Rest(place[a])
        /\ Leaving(b) /\ View(b) = Rest("gone")
    BY TableView, ViewPlace DEF TypeInv, InTable, Leaving
  <2>2. View(b).peers = {} /\ View(b).watchers = {} /\ View(a).waits # b
    BY <2>1, ActorAssumption DEF Rest
  <2>3. b \notin links[a] /\ \A r \in Ref : Entry(r, b) \notin monOut[a]
    BY <2>1, <2>2 DEF BondInv, HearInv
  <2>4. monOut[a] \subseteq MonitorEntry
    BY DEF TypeInv, BondsOK
  <2> QED
    BY <2>3, <2>4, EntryEqual
<1> QED
  BY TypeInit, TypeStep, BondInit, BondStep, <1>1, PTL DEF Spec
=============================================================================
