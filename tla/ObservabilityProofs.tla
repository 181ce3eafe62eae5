------------------------- MODULE ObservabilityProofs ------------------------
(***************************************************************************)
(* Proofs about what the host sees of a concurrent runtime, for every set  *)
(* of actors, every family of them and every number of messages and        *)
(* requests: its event log and cursors, its introspections and its traces. *)
(***************************************************************************)
EXTENDS Observability, SequenceTheorems, FiniteSetTheorems, TLAPS

\* Removing an entry leaves a queue of the same kind of entries, all of which
\* were there before.
LEMMA RemoveEntryType ==
  ASSUME NEW S, NEW q \in Seq(S), NEW i \in DOMAIN q
  PROVE  /\ RemoveEntry(q, i) \in Seq(S)
         /\ \A j \in DOMAIN RemoveEntry(q, i) :
              \E k \in DOMAIN q : RemoveEntry(q, i)[j] = q[k]
<1>1. /\ Len(q) \in Nat /\ DOMAIN q = 1..Len(q)
      /\ \A k \in 1..Len(q) : q[k] \in S
  BY LenProperties, ElementOfSeq
<1>2. /\ Len(q) - 1 \in Nat
      /\ \A j \in 1..(Len(q) - 1) : (IF j < i THEN j ELSE j + 1) \in 1..Len(q)
  BY <1>1
<1>3. RemoveEntry(q, i) \in [1..(Len(q) - 1) -> S]
  BY <1>1, <1>2 DEF RemoveEntry
<1>4. \A j \in DOMAIN RemoveEntry(q, i) :
        \E k \in DOMAIN q : RemoveEntry(q, i)[j] = q[k]
  BY <1>1, <1>2 DEF RemoveEntry
<1> QED
  BY <1>2, <1>3, <1>4, IsASeq DEF RemoveEntry
-----------------------------------------------------------------------------
(* Types.                                                                  *)

\* What a message, a turn, a mailbox and a task may be.
ControlOp == Request \cup {"TraceOn"}
HandlerOp == ControlOp \cup {"User", "Sending"}

Envelope ==
  [kind : {"User", "System"}, op : ControlOp \cup {"User"}, wanted : Options,
   request : Nat]

PC == {"unborn", "spawned", "loop", "select", "got", "received", "handle",
       "turn", "ended", "park", "parked", "asleep", "exiting", "final",
       "done"}

\* What may be left to do in a turn.
Left(op) ==
  CASE op = "TraceOn"      -> {<<"set", "record", "answer">>,
                               <<"record", "answer">>, <<"answer">>, <<>>}
    [] op = "TraceOff"     -> {<<"read", "record", "set", "answer">>,
                               <<"record", "set", "answer">>,
                               <<"set", "answer">>, <<"answer">>, <<>>}
    [] op = "GetState"     -> {<<"answer", "read", "record">>, <<"answer">>,
                               <<"read", "record">>, <<"record">>, <<>>}
    [] op = "ReplaceState" -> {<<"read", "record", "answer">>,
                               <<"record", "answer">>, <<"answer">>, <<>>}
    [] op = "Sending"      -> {<<b>> : b \in Actor}
    [] OTHER               -> {<<>>}

InitTurn == [op : {"Init"}, todo : {<<>>}]

HandlerTurn ==
  [op : HandlerOp, ok : BOOLEAN, request : Nat, traced : BOOLEAN,
   wanted : Options, options : Options,
   todo : UNION {Left(op) : op \in HandlerOp}]

\* The turn an actor is in, by the place where its task is.
TurnFits(place, t) ==
  /\ place \in {"got", "received", "handle"} => t \in Envelope
  /\ place = "turn" => t \in InitTurn \cup HandlerTurn /\ t.todo \in Left(t.op)
  /\ place \notin {"got", "received", "handle", "turn"} =>
       t.op \in {"none", "Init", "User"}

Turn == {NoTurn} \cup Envelope \cup InitTurn \cup HandlerTurn

TaskOK ==
  /\ pc \in [Actor -> PC]
  /\ present \in [Actor -> BOOLEAN]
  /\ options \in [Actor -> Options]
  /\ turn \in [Actor -> Turn]
  /\ \A a \in Actor : TurnFits(pc[a], turn[a])

MailOK ==
  /\ mailbox \in [Actor -> Seq(Envelope)]
  /\ requests \in Nat

HostOK ==
  host \in [step : {"away"}]
      \cup [step : {"waiting", "ok", "error", "given_up"}, request : Nat,
            op : ControlOp, actor : Actor, since : Nat, traced : BOOLEAN]

TraceKind == {"Received", "Sent", "StateInspected", "StateReplaced",
              "TraceDisabled"}
Kind      == TraceKind \cup {"Spawn", "Exit", "Crash", "TraceEnabled"}
Event     == [seq : Nat, kind : Kind, actor : Actor]

\* The log is numbered by its positions.
LogOK == log \in Seq(Event) /\ \A i \in 1..Len(log) : log[i].seq = i

TypeOK == TaskOK /\ MailOK /\ HostOK /\ LogOK

\* At the start everything has its type.
LEMMA TypeInit == Init => TypeOK
<1> SUFFICES ASSUME Init PROVE TypeOK
  OBVIOUS
<1>1. TaskOK
  BY DEF Init, TaskOK, TurnFits, Turn, PC, Options, NoTurn
<1>2. MailOK
  BY EmptySeq DEF Init, MailOK
<1>3. HostOK
  BY DEF Init, HostOK
<1>4. LogOK
  BY EmptySeq DEF Init, LogOK
<1> QED
  BY <1>1, <1>2, <1>3, <1>4 DEF TypeOK
-----------------------------------------------------------------------------
(* The log grows, and only the task of an actor traces it.                 *)

\* What is recorded comes after what there was, numbered by its positions.
LEMMA RecordedProperties ==
  ASSUME LogOK, NEW events \in Seq([kind : Kind, actor : Actor]),
         log' = Recorded(events)
  PROVE  /\ LogOK'
         /\ Len(log) \in Nat /\ Len(events) \in Nat
         /\ Len(log') = Len(log) + Len(events)
         /\ \A i \in 1..Len(log) : log'[i] = log[i]
         /\ \A i \in 1..Len(events) :
              log'[Len(log) + i] = RuntimeEvent(Len(log) + i, events[i])
<1> DEFINE new == [i \in 1..Len(events) |->
                     RuntimeEvent(Len(log) + i, events[i])]
<1>1. /\ Len(events) \in Nat /\ DOMAIN events = 1..Len(events)
      /\ Len(log) \in Nat /\ log \in Seq(Event)
      /\ \A i \in 1..Len(log) : log[i].seq = i
  BY LenProperties DEF LogOK
<1>2. ASSUME NEW i \in 1..Len(events)
      PROVE  events[i] \in [kind : Kind, actor : Actor]
  BY ElementOfSeq
<1>3. ASSUME NEW i \in 1..Len(events)
      PROVE  RuntimeEvent(Len(log) + i, events[i]) \in Event
  <2>1. Len(log) + i \in Nat
    BY <1>1
  <2> QED
    BY <1>2, <2>1 DEF RuntimeEvent, Event
<1>4. new \in [1..Len(events) -> Event]
  BY <1>3
<1>5. new \in Seq(Event) /\ Len(new) = Len(events)
  BY <1>1, <1>4, <1>3, IsASeq, LenProperties
<1>6. log' = log \o new
  BY <1>1 DEF Recorded
<1>7. \A i \in 1..Len(events) : new[i] = RuntimeEvent(Len(log) + i, events[i])
  OBVIOUS
<1> HIDE DEF new
<1>8. /\ log' \in Seq(Event) /\ Len(log') = Len(log) + Len(events)
      /\ \A i \in 1..(Len(log) + Len(events)) :
           log'[i] = IF i <= Len(log) THEN log[i] ELSE new[i - Len(log)]
  <2>1. /\ log \o new \in Seq(Event)
        /\ Len(log \o new) = Len(log) + Len(new)
        /\ \A i \in 1..(Len(log) + Len(new)) :
             (log \o new)[i] = IF i <= Len(log) THEN log[i]
                                                ELSE new[i - Len(log)]
    BY <1>1, <1>5, ConcatProperties
  <2> QED
    BY <2>1, <1>5, <1>6
<1>9. \A i \in 1..Len(log) : log'[i] = log[i]
  BY <1>1, <1>8
<1>10. \A i \in 1..Len(events) :
         log'[Len(log) + i] = RuntimeEvent(Len(log) + i, events[i])
  <2>1. ASSUME NEW i \in 1..Len(events)
        PROVE  log'[Len(log) + i] = RuntimeEvent(Len(log) + i, events[i])
    <3>1. /\ Len(log) + i \in 1..(Len(log) + Len(events))
          /\ ~(Len(log) + i <= Len(log)) /\ (Len(log) + i) - Len(log) = i
      BY <1>1
    <3> QED
      BY <3>1, <1>7, <1>8
  <2> QED
    BY <2>1
<1>11. \A i \in 1..Len(log') : log'[i].seq = i
  <2>1. ASSUME NEW i \in 1..Len(log') PROVE log'[i].seq = i
    <3>1. CASE i <= Len(log)
      BY <3>1, <1>1, <1>8, <1>9
    <3>2. CASE ~(i <= Len(log))
      <4>1. /\ i - Len(log) \in 1..Len(events)
            /\ Len(log) + (i - Len(log)) = i
        BY <3>2, <1>1, <1>8
      <4>2. log'[i] = RuntimeEvent(i, events[i - Len(log)])
        BY <4>1, <1>10
      <4> QED
        BY <4>2 DEF RuntimeEvent
    <3> QED
      BY <3>1, <3>2
  <2> QED
    BY <2>1
<1> QED
  BY <1>1, <1>8, <1>9, <1>10, <1>11 DEF LogOK

\* One event more.
LEMMA RecordedOne ==
  ASSUME LogOK, NEW kind \in Kind, NEW a \in Actor,
         log' = Recorded(<<[kind |-> kind, actor |-> a]>>)
  PROVE  /\ LogOK'
         /\ Len(log) \in Nat
         /\ Len(log') = Len(log) + 1
         /\ \A i \in 1..Len(log) : log'[i] = log[i]
         /\ log'[Len(log) + 1] =
              [seq |-> Len(log) + 1, kind |-> kind, actor |-> a]
<1>1. /\ <<[kind |-> kind, actor |-> a]>> \in Seq([kind : Kind, actor : Actor])
      /\ Len(<<[kind |-> kind, actor |-> a]>>) = 1
      /\ <<[kind |-> kind, actor |-> a]>>[1] = [kind |-> kind, actor |-> a]
      /\ 1 \in 1..1
  OBVIOUS
<1>2. RuntimeEvent(Len(log) + 1, [kind |-> kind, actor |-> a]) =
        [seq |-> Len(log) + 1, kind |-> kind, actor |-> a]
  BY DEF RuntimeEvent
<1> QED
  BY <1>1, <1>2, RecordedProperties

\* The events a step may add.
Plain(e) == e.kind \in {"Spawn", "Exit", "Crash"}

TracedBy(a, e) ==
  /\ e.actor = a
  /\ \/ TraceReceived(a) /\ e.kind = "Received"
     \/ (\E b \in Actor : HandlerSends(a, b)) /\ e.kind = "Sent"
          /\ options[a] = "all"
     \/ /\ RecordTrace(a) /\ e.kind = EventOf(turn[a].op)
        /\ turn[a].op = "TraceOn" \/ turn[a].options # "none"

LogGrows ==
  /\ LogOK /\ LogOK'
  /\ Len(log) \in Nat /\ Len(log') \in Nat
  /\ Len(log) <= Len(log')
  /\ \A i \in 1..Len(log) : log'[i] = log[i]
  /\ \/ \A i \in (Len(log) + 1)..Len(log') : Plain(log'[i])
     \/ /\ Len(log') = Len(log) + 1
        /\ \E a \in Actor : TracedBy(a, log'[Len(log) + 1])

\* A step that does not touch the log keeps it.
LEMMA LogSame ==
  ASSUME LogOK, UNCHANGED log
  PROVE  LogGrows
<1>1. Len(log) \in Nat
  BY LenProperties DEF LogOK
<1> QED
  BY <1>1 DEF LogGrows, LogOK

\* Lifecycle events and crash reports may be added by anybody.
LEMMA LogPlain ==
  ASSUME LogOK,
         NEW events \in Seq([kind : {"Spawn", "Exit", "Crash"}, actor : Actor]),
         log' = Recorded(events)
  PROVE  LogGrows
<1>1. events \in Seq([kind : Kind, actor : Actor])
  <2> DEFINE S == [kind : {"Spawn", "Exit", "Crash"}, actor : Actor]
             T == [kind : Kind, actor : Actor]
  <2>1. S \subseteq T
    BY DEF Kind
  <2>2. events \in Seq(S)
    OBVIOUS
  <2> HIDE DEF S, T
  <2>3. events \in Seq(T)
    BY <2>1, <2>2, SeqMonotonic
  <2> QED
    BY <2>3 DEF T
<1>2. /\ LogOK'
      /\ Len(log) \in Nat /\ Len(events) \in Nat
      /\ Len(log') = Len(log) + Len(events)
      /\ \A i \in 1..Len(log) : log'[i] = log[i]
      /\ \A i \in 1..Len(events) :
           log'[Len(log) + i] = RuntimeEvent(Len(log) + i, events[i])
  BY <1>1, RecordedProperties
<1>3. ASSUME NEW i \in (Len(log) + 1)..Len(log') PROVE Plain(log'[i])
  <2>1. i - Len(log) \in 1..Len(events) /\ Len(log) + (i - Len(log)) = i
    BY <1>2
  <2>2. events[i - Len(log)] \in [kind : {"Spawn", "Exit", "Crash"},
                                  actor : Actor]
    BY <2>1, ElementOfSeq
  <2>3. log'[i] = RuntimeEvent(i, events[i - Len(log)])
    BY <2>1, <1>2
  <2> QED
    BY <2>2, <2>3 DEF Plain, RuntimeEvent
<1> QED
  BY <1>2, <1>3 DEF LogGrows

\* A trace event is added by the task it is about.
LEMMA LogTraced ==
  ASSUME LogOK, NEW a \in Actor, NEW kind \in Kind,
         log' = Recorded(<<TraceEvent(kind, a)>>),
         \A e : e.actor = a /\ e.kind = kind => TracedBy(a, e)
  PROVE  LogGrows
<1>1. log' = Recorded(<<[kind |-> kind, actor |-> a]>>)
  BY DEF TraceEvent
<1>2. /\ LogOK'
      /\ Len(log) \in Nat
      /\ Len(log') = Len(log) + 1
      /\ \A i \in 1..Len(log) : log'[i] = log[i]
      /\ log'[Len(log) + 1] =
           [seq |-> Len(log) + 1, kind |-> kind, actor |-> a]
  BY <1>1, RecordedOne
<1>3. TracedBy(a, log'[Len(log) + 1])
  BY <1>2
<1> QED
  BY <1>2, <1>3 DEF LogGrows

\* What an actor reports of a control request.
LEMMA EventOfType ==
  /\ \A op \in ControlOp : EventOf(op) \in Kind
  /\ EventOf("TraceOn") = "TraceEnabled"
  /\ EventOf("TraceOff") = "TraceDisabled"
  /\ EventOf("GetState") = "StateInspected"
  /\ EventOf("ReplaceState") = "StateReplaced"
BY DEF ControlOp, Request, EventOf, Kind, TraceKind

\* Where there is something left to do, and the send is not meant, the turn
\* is that of a control request.
LEMMA DoingControl ==
  ASSUME TaskOK, NEW a \in Actor, NEW step, Doing(a, step)
  PROVE  /\ turn[a] \in HandlerTurn /\ turn[a].op \in ControlOp
         /\ turn[a].todo \in Left(turn[a].op)
<1>1. /\ turn[a] \in InitTurn \cup HandlerTurn
      /\ turn[a].todo \in Left(turn[a].op)
      /\ turn[a].todo # <<>> /\ turn[a].op # "Sending"
  BY DEF TaskOK, TurnFits, Doing
<1>2. CASE turn[a] \in InitTurn
  BY <1>1, <1>2 DEF InitTurn
<1>3. CASE turn[a] \in HandlerTurn
  <2>1. turn[a].op \in HandlerOp
    BY <1>3 DEF HandlerTurn
  <2>2. turn[a].op # "User"
    BY <1>1 DEF Left
  <2> QED
    BY <1>1, <1>3, <2>1, <2>2 DEF HandlerOp
<1> QED
  BY <1>1, <1>2, <1>3

\* Every step keeps the log, and adds to it at its end at most.
LEMMA LogStep ==
  ASSUME TypeOK, [Next]_vars
  PROVE  LogGrows
<1> USE DEF TypeOK
<1>1. ASSUME NEW a \in Actor, Spawn(a) PROVE LogGrows
  <2>1. <<LifecycleEvent("Spawn", a)>> \in
          Seq([kind : {"Spawn", "Exit", "Crash"}, actor : Actor])
    BY DEF LifecycleEvent
  <2> QED
    BY <2>1, <1>1, LogPlain DEF Spawn
<1>2. ASSUME NEW a \in Actor, Finalize(a) PROVE LogGrows
  <2>1. PICK abnormal \in BOOLEAN :
          log' = Recorded(<<LifecycleEvent("Exit", a)>>
                            \o IF abnormal THEN <<CrashReport(a)>> ELSE <<>>)
    BY <1>2 DEF Finalize
  <2>2. <<LifecycleEvent("Exit", a)>>
          \o (IF abnormal THEN <<CrashReport(a)>> ELSE <<>>) \in
          Seq([kind : {"Spawn", "Exit", "Crash"}, actor : Actor])
    <3> DEFINE S == [kind : {"Spawn", "Exit", "Crash"}, actor : Actor]
    <3>1. LifecycleEvent("Exit", a) \in S /\ CrashReport(a) \in S
      BY DEF LifecycleEvent, CrashReport
    <3> HIDE DEF S
    <3>2. /\ <<LifecycleEvent("Exit", a)>> \in Seq(S)
          /\ <<CrashReport(a)>> \in Seq(S) /\ <<>> \in Seq(S)
      BY <3>1, EmptySeq
    <3>3. <<LifecycleEvent("Exit", a)>>
            \o (IF abnormal THEN <<CrashReport(a)>> ELSE <<>>) \in Seq(S)
      BY <3>2, ConcatProperties
    <3> QED
      BY <3>3 DEF S
  <2> QED
    BY <2>1, <2>2, LogPlain
<1>3. ASSUME NEW a \in Actor, TraceReceived(a) PROVE LogGrows
  <2>1. log' = Recorded(<<TraceEvent("Received", a)>>)
    BY <1>3 DEF TraceReceived
  <2>2. "Received" \in Kind
    BY DEF Kind, TraceKind
  <2>3. \A e : e.actor = a /\ e.kind = "Received" => TracedBy(a, e)
    BY <1>3 DEF TracedBy
  <2> QED
    BY <2>1, <2>2, <2>3, LogTraced
<1>4. ASSUME NEW a \in Actor, NEW b \in Actor, HandlerSends(a, b)
      PROVE  LogGrows
  <2>1. CASE options[a] = "all"
    <3>1. log' = Recorded(<<TraceEvent("Sent", a)>>)
      BY <1>4, <2>1 DEF HandlerSends
    <3>2. "Sent" \in Kind
      BY DEF Kind, TraceKind
    <3>3. \A e : e.actor = a /\ e.kind = "Sent" => TracedBy(a, e)
      BY <1>4, <2>1 DEF TracedBy
    <3> QED
      BY <3>1, <3>2, <3>3, LogTraced
  <2>2. CASE options[a] # "all"
    BY <1>4, <2>2, LogSame DEF HandlerSends
  <2> QED
    BY <2>1, <2>2
<1>5. ASSUME NEW a \in Actor, RecordTrace(a) PROVE LogGrows
  <2>1. CASE turn[a].op = "TraceOn" \/ turn[a].options # "none"
    <3>1. log' = Recorded(<<TraceEvent(EventOf(turn[a].op), a)>>)
      BY <1>5, <2>1 DEF RecordTrace
    <3>2. PICK kind : kind = EventOf(turn[a].op)
      OBVIOUS
    <3>3. kind \in Kind
      BY <1>5, <3>2, DoingControl, EventOfType DEF RecordTrace
    <3>4. \A e : e.actor = a /\ e.kind = kind => TracedBy(a, e)
      BY <1>5, <2>1, <3>2 DEF TracedBy
    <3> QED
      BY <3>1, <3>2, <3>3, <3>4, LogTraced
  <2>2. CASE ~(turn[a].op = "TraceOn" \/ turn[a].options # "none")
    BY <1>5, <2>2, LogSame DEF RecordTrace
  <2> QED
    BY <2>1, <2>2
<1>6. CASE UNCHANGED log
  BY <1>6, LogSame
<1>7. CASE HostThread
  BY <1>6, <1>7
     DEF HostThread, ControlGivesUp, OpenCursor, EventsSince, Introspect,
         ObserveLive, ObserveCompleted, ObserveQueues, WaitForIdle,
         WaiterChecks
<1>8. CASE UNCHANGED vars
  BY <1>6, <1>8 DEF vars
<1>9. ASSUME NEW a \in Actor, Task(a) PROVE LogGrows
  BY <1>2, <1>3, <1>5, <1>6, <1>9
     DEF Task, InitStarts, LoopTop, Select, Park, NotifyIdle, Wake, TurnStarts,
         HandleStarts, ReadOptions, SetOptions, Answer, HandlerPushes, TurnEnds
<1>10. ASSUME NEW a \in Actor,
              \/ TurnStops(a) \/ SendUser(a) \/ ExitActor(a) \/ WakeActor(a)
              \/ ParkActor(a)
              \/ \E op \in Request : Control(a, op, "none")
              \/ \E o \in Options : Control(a, "TraceOn", o)
       PROVE  LogGrows
  BY <1>6, <1>10
     DEF TurnStops, SendUser, ExitActor, WakeActor, ParkActor, Control
<1> QED
  BY <1>1, <1>4, <1>7, <1>8, <1>9, <1>10 DEF Next
-----------------------------------------------------------------------------
(* Reading the log.                                                        *)

\* Where the cursor may stand, and what has been read with it.
ReaderInv ==
  \/ reader.step = "away"
  \/ /\ reader \in [step : {"open"}, opened : Nat, next : Nat,
                    read : Seq(Event)]
     /\ reader.opened <= reader.next /\ reader.next <= Len(log) + 1
     /\ CursorReadsOnce

\* In a numbered log, the events below a cursor are those before it.
LEMMA BeforeCursor ==
  ASSUME LogOK, NEW next \in Nat, next <= Len(log) + 1
  PROVE  Before(next) = IF next = 0 THEN 0 ELSE next - 1
<1>1. Len(log) \in Nat /\ DOMAIN log = 1..Len(log)
  BY LenProperties DEF LogOK
<1>2. {i \in DOMAIN log : log[i].seq < next} = 1..(next - 1)
  BY <1>1 DEF LogOK
<1>3. CASE next = 0
  <2>1. 1..(next - 1) = {}
    BY <1>3
  <2> QED
    BY <1>2, <1>3, <2>1, FS_EmptySet DEF Before
<1>4. CASE next # 0
  <2>1. 1 \in Int /\ next - 1 \in Int /\ ~(1 > next - 1 + 1)
    BY <1>4
  <2>2. Cardinality(1..(next - 1)) =
          IF 1 > next - 1 THEN 0 ELSE (next - 1) - 1 + 1
    BY <2>1, FS_Interval
  <2>3. (IF 1 > next - 1 THEN 0 ELSE (next - 1) - 1 + 1) = next - 1
    BY <1>4
  <2> QED
    BY <1>2, <1>4, <2>2, <2>3 DEF Before
<1> QED
  BY <1>3, <1>4

\* The read adds what lies between the cursor and the end of the log.
LEMMA ReadOn ==
  ASSUME LogOK, NEW s \in Nat, NEW next \in Nat, s <= next,
         next <= Len(log) + 1,
         NEW from, from = IF s = 0 THEN 1 ELSE s,
         NEW n, n = IF next = 0 THEN 0 ELSE next - 1
  PROVE  SubSeq(log, from, next - 1) \o SubSeq(log, n + 1, Len(log))
           = SubSeq(log, from, Len(log))
<1>1. log \in Seq(Event) /\ Len(log) \in Nat
  BY LenProperties DEF LogOK
<1>2. CASE next = 0
  <2>1. /\ from = 1 /\ n + 1 = 1
        /\ next - 1 \in Int /\ from \in Int /\ next - 1 < from
    BY <1>2
  <2>2. SubSeq(log, from, next - 1) = <<>>
    BY <2>1, SubSeqEmpty
  <2>3. SubSeq(log, 1, Len(log)) = log /\ <<>> \o log = log
    BY <1>1, SubSeqFull, ConcatEmptySeq
  <2>4. SubSeq(log, n + 1, Len(log)) = log /\ SubSeq(log, from, Len(log)) = log
    BY <2>1, <2>3
  <2> QED
    BY <2>2, <2>3, <2>4
<1>3. CASE next # 0
  <2>1. /\ from \in 1..(Len(log) + 1)
        /\ n \in (from - 1)..Len(log)
        /\ Len(log) \in n..Len(log)
        /\ n = next - 1
    BY <1>1, <1>3
  <2>2. SubSeq(log, from, n) \o SubSeq(log, n + 1, Len(log))
          = SubSeq(log, from, Len(log))
    BY <1>1, <2>1, ConcatAdjacentSubSeq
  <2> QED
    BY <2>1, <2>2
<1> QED
  BY <1>2, <1>3

\* Appends do not disturb a cursor, and a read moves it to the end.
LEMMA ReaderStep ==
  ASSUME TypeOK, ReaderInv, [Next]_vars
  PROVE  ReaderInv'
<1>1. LogGrows
  BY LogStep
<1>2. LogOK /\ log \in Seq(Event) /\ Len(log) \in Nat /\ Len(log') \in Nat
  BY <1>1 DEF LogGrows, LogOK
<1>3. CASE UNCHANGED reader
  <2>1. CASE reader.step = "away"
    BY <1>3, <2>1 DEF ReaderInv
  <2>2. CASE reader.step # "away"
    <3>1. /\ reader \in [step : {"open"}, opened : Nat, next : Nat,
                         read : Seq(Event)]
          /\ reader.opened <= reader.next /\ reader.next <= Len(log) + 1
          /\ CursorReadsOnce
      BY <2>2 DEF ReaderInv
    <3>2. PICK from, to :
            /\ from = IF reader.opened = 0 THEN 1 ELSE reader.opened
            /\ to = reader.next - 1
      OBVIOUS
    <3>3. from \in Nat \ {0} /\ to \in Int /\ to <= Len(log)
      BY <3>1, <3>2, <1>2
    <3>4. SubSeq(log, from, to) = SubSeq(log', from, to)
      <4>1. \A i \in from..to : log[i] \in Event /\ log'[i] = log[i]
                                  /\ log'[i] \in Event
        BY <1>1, <1>2, <3>3, ElementOfSeq DEF LogGrows
      <4>2. /\ SubSeq(log, from, to) \in Seq(Event)
            /\ Len(SubSeq(log, from, to)) =
                 IF from <= to THEN to - from + 1 ELSE 0
            /\ \A i \in 1..(to - from + 1) :
                 SubSeq(log, from, to)[i] = log[from + i - 1]
        BY <3>3, <4>1, SubSeqProperties
      <4>3. /\ SubSeq(log', from, to) \in Seq(Event)
            /\ Len(SubSeq(log', from, to)) =
                 IF from <= to THEN to - from + 1 ELSE 0
            /\ \A i \in 1..(to - from + 1) :
                 SubSeq(log', from, to)[i] = log'[from + i - 1]
        BY <3>3, <4>1, SubSeqProperties
      <4>4. \A i \in 1..Len(SubSeq(log, from, to)) :
              /\ i \in 1..(to - from + 1)
              /\ from + i - 1 \in from..to
        BY <3>3, <4>2
      <4> QED
        BY <4>1, <4>2, <4>3, <4>4, SeqEqual
    <3>5. CursorReadsOnce'
      BY <3>1, <3>2, <3>4, <1>3 DEF CursorReadsOnce
    <3> QED
      BY <3>1, <3>5, <1>1, <1>2, <1>3 DEF ReaderInv, LogGrows
  <2> QED
    BY <2>1, <2>2
<1>4. CASE OpenCursor
  <2>1. PICK next \in {0, Len(log) + 1} :
          reader' = [step |-> "open", opened |-> next, next |-> next,
                     read |-> <<>>]
    BY <1>4 DEF OpenCursor
  <2>2. log' = log /\ next \in Nat /\ next <= Len(log) + 1
    BY <1>2, <1>4 DEF OpenCursor, actors, bounds
  <2>3. SubSeq(log, IF next = 0 THEN 1 ELSE next, next - 1) = <<>>
    <3>1. /\ (IF next = 0 THEN 1 ELSE next) \in Int /\ next - 1 \in Int
          /\ next - 1 < (IF next = 0 THEN 1 ELSE next)
      BY <2>2
    <3> QED
      BY <3>1, SubSeqEmpty
  <2>4. CursorReadsOnce'
    BY <2>1, <2>2, <2>3 DEF CursorReadsOnce
  <2> QED
    BY <2>1, <2>2, <2>4, EmptySeq DEF ReaderInv
<1>5. CASE EventsSince
  <2>1. /\ reader \in [step : {"open"}, opened : Nat, next : Nat,
                       read : Seq(Event)]
        /\ reader.opened <= reader.next /\ reader.next <= Len(log) + 1
        /\ CursorReadsOnce
    BY <1>5 DEF ReaderInv, EventsSince
  <2>2. PICK next, n, opened, from :
          /\ next = reader.next /\ opened = reader.opened
          /\ n = IF next = 0 THEN 0 ELSE next - 1
          /\ from = IF opened = 0 THEN 1 ELSE opened
    OBVIOUS
  <2>3. /\ next \in Nat /\ opened \in Nat /\ n \in Nat /\ n <= Len(log)
        /\ opened <= next /\ next <= Len(log) + 1
    BY <2>1, <2>2, <1>2
  <2>4. Before(next) = n
    BY <2>2, <2>3, <1>2, BeforeCursor
  <2>5. PICK pending : pending = SubSeq(log, n + 1, Len(log))
    OBVIOUS
  <2>6. /\ pending # <<>>
        /\ reader' = [reader EXCEPT !.next = Advanced(@, pending),
                                    !.read = @ \o pending]
        /\ log' = log
    BY <1>5, <2>2, <2>4, <2>5 DEF EventsSince
  <2>7. /\ pending \in Seq(Event)
        /\ Len(pending) = IF n + 1 <= Len(log) THEN Len(log) - (n + 1) + 1
                                               ELSE 0
        /\ \A i \in 1..(Len(log) - (n + 1) + 1) :
             pending[i] = log[n + 1 + i - 1]
    <3>1. /\ n + 1 \in Int /\ Len(log) \in Int
          /\ \A i \in (n + 1)..Len(log) : log[i] \in Event
      BY <1>2, <2>3, ElementOfSeq
    <3> QED
      BY <2>5, <3>1, SubSeqProperties
  <2>8. n + 1 <= Len(log) /\ Len(pending) = Len(log) - n
    <3>1. Len(pending) # 0
      BY <2>6, <2>7, EmptySeq
    <3> QED
      BY <3>1, <2>7, <2>3, <1>2
  <2>9. pending[Len(pending)].seq = Len(log)
    <3>1. /\ Len(pending) \in 1..(Len(log) - (n + 1) + 1)
          /\ n + 1 + Len(pending) - 1 = Len(log)
          /\ Len(log) \in 1..Len(log)
      BY <2>8, <2>3, <1>2
    <3>2. pending[Len(pending)] = log[Len(log)]
      BY <2>7, <3>1
    <3> QED
      BY <3>1, <3>2, <1>2 DEF LogOK
  <2>10. reader'.next = Len(log) + 1 /\ reader'.opened = opened
    BY <2>1, <2>2, <2>6, <2>9 DEF Advanced
  <2>11. reader'.read = SubSeq(log, from, Len(log))
    <3>1. reader.read = SubSeq(log, from, next - 1)
      BY <2>1, <2>2 DEF CursorReadsOnce
    <3>2. SubSeq(log, from, next - 1) \o SubSeq(log, n + 1, Len(log))
            = SubSeq(log, from, Len(log))
      <4>1. /\ n = IF next = 0 THEN 0 ELSE next - 1
            /\ from = IF opened = 0 THEN 1 ELSE opened
        BY <2>2
      <4>2. LogOK /\ opened \in Nat /\ next \in Nat /\ opened <= next
            /\ next <= Len(log) + 1
        BY <2>3, <1>2
      <4> QED
        BY <4>1, <4>2, ReadOn
    <3>3. reader'.read = reader.read \o pending
      BY <2>1, <2>6
    <3> QED
      BY <3>1, <3>2, <3>3, <2>5
  <2>12. reader' \in [step : {"open"}, opened : Nat, next : Nat,
                      read : Seq(Event)]
    <3>1. reader.read \o pending \in Seq(Event)
      BY <2>1, <2>7, ConcatProperties
    <3>2. Advanced(reader.next, pending) \in Nat
      BY <2>6, <2>9, <1>2 DEF Advanced
    <3> QED
      BY <3>1, <3>2, <2>1, <2>6
  <2>13. CursorReadsOnce'
    <3>1. reader'.next - 1 = Len(log)
      BY <2>10, <1>2
    <3> QED
      BY <3>1, <2>2, <2>6, <2>10, <2>11 DEF CursorReadsOnce
  <2> QED
    BY <2>3, <2>6, <2>10, <2>12, <2>13, <1>2 DEF ReaderInv
<1> QED
  BY <1>3, <1>4, <1>5
     DEF Next, vars, Spawn, Task, TurnStops, SendUser, ExitActor, WakeActor,
         ParkActor, HandlerSends, Control, HostThread, InitStarts, LoopTop,
         Select, Park, NotifyIdle, Wake, TurnStarts, TraceReceived,
         HandleStarts, ReadOptions, SetOptions, RecordTrace, Answer,
         HandlerPushes, TurnEnds, Finalize, ControlGivesUp, Introspect,
         ObserveLive, ObserveCompleted, ObserveQueues, WaitForIdle,
         WaiterChecks, actors, bounds
-----------------------------------------------------------------------------
(* Introspection.                                                          *)

ToObserve == {<<"live", "completed", "queues">>, <<"completed", "queues">>,
              <<"queues">>, <<>>}

\* Nobody who is known is forgotten, and an introspection in progress has
\* everybody it found, as live or as completed.
ObservedSoFar ==
  /\ observer \in [step : {"busy"}, todo : ToObserve, known : SUBSET Known,
                   live : SUBSET Actor, completed : Nat, queued : Nat]
  /\ IsFiniteSet(observer.live)
  /\ observer.todo = <<"completed", "queues">> =>
       observer.known \subseteq observer.live \cup completed
  /\ observer.todo \in {<<"queues">>, <<>>} =>
       Cardinality(observer.live) + observer.completed
         >= Cardinality(observer.known)
  /\ observer.todo = <<>> => observer.queued <= Cardinality(Known)

ObserverInv ==
  /\ IsFiniteSet(Known)
  /\ observer.step = "away" \/ ObservedSoFar

\* An actor that leaves the table is among the completed at once.
LEMMA KnownGrows ==
  ASSUME TypeOK, IsFiniteSet(Known), [Next]_vars
  PROVE  IsFiniteSet(Known') /\ Known \subseteq Known'
           /\ completed \subseteq completed'
<1>1. present \in [Actor -> BOOLEAN]
  BY DEF TypeOK, TaskOK
<1>2. ASSUME NEW a \in Actor, Known' = Known \cup {a}
      PROVE  IsFiniteSet(Known') /\ Known \subseteq Known'
  BY <1>2, FS_AddElement
<1>3. ASSUME NEW a \in Actor, Spawn(a)
      PROVE  IsFiniteSet(Known') /\ Known \subseteq Known'
               /\ completed \subseteq completed'
  <2>1. Known' = Known \cup {a} /\ completed' = completed
    BY <1>1, <1>3 DEF Spawn, Known, Live
  <2> QED
    BY <2>1, <1>2
<1>4. ASSUME NEW a \in Actor, Finalize(a)
      PROVE  IsFiniteSet(Known') /\ Known \subseteq Known'
               /\ completed \subseteq completed'
  <2>1. Known' = Known \cup {a} /\ completed' = completed \cup {a}
    BY <1>1, <1>4 DEF Finalize, Known, Live
  <2> QED
    BY <2>1, <1>2
<1>5. CASE UNCHANGED <<present, completed>>
  BY <1>5 DEF Known, Live
<1> QED
  BY <1>3, <1>4, <1>5
     DEF Next, vars, Task, TurnStops, SendUser, ExitActor, WakeActor,
         ParkActor, HandlerSends, Control, HostThread, InitStarts, LoopTop,
         Select, Park, NotifyIdle, Wake, TurnStarts, TraceReceived,
         HandleStarts, ReadOptions, SetOptions, RecordTrace, Answer,
         HandlerPushes, TurnEnds, ControlGivesUp, OpenCursor, EventsSince,
         Introspect, ObserveLive, ObserveCompleted, ObserveQueues,
         WaitForIdle, WaiterChecks, actors, bounds

\* Two sets that cover a third have as many elements together.
LEMMA CoverCounts ==
  ASSUME NEW S, NEW T, NEW U, IsFiniteSet(S), IsFiniteSet(T),
         U \subseteq S \cup T
  PROVE  /\ Cardinality(S) \in Nat /\ Cardinality(T) \in Nat
         /\ Cardinality(U) \in Nat
         /\ Cardinality(S) + Cardinality(T) >= Cardinality(U)
<1>1. /\ IsFiniteSet(S \cup T)
      /\ Cardinality(S \cup T) =
           Cardinality(S) + Cardinality(T) - Cardinality(S \cap T)
  BY FS_Union
<1>2. IsFiniteSet(U) /\ Cardinality(U) <= Cardinality(S \cup T)
  BY <1>1, FS_Subset
<1>3. IsFiniteSet(S \cap T)
  BY FS_Intersection
<1> QED
  BY <1>1, <1>2, <1>3, FS_CardinalityType

\* No step between two reads of an introspection loses anybody.
LEMMA ObserverStep ==
  ASSUME TypeOK, ObserverInv, [Next]_vars
  PROVE  ObserverInv'
<1>1. /\ IsFiniteSet(Known) /\ IsFiniteSet(Known') /\ Known \subseteq Known'
      /\ completed \subseteq completed'
  BY KnownGrows DEF ObserverInv
<1>2. /\ Cardinality(Known) \in Nat /\ Cardinality(Known') \in Nat
      /\ Cardinality(Known) <= Cardinality(Known')
  BY <1>1, FS_Subset, FS_CardinalityType
<1>3. IsFiniteSet(completed) /\ IsFiniteSet(Live)
  BY <1>1, FS_Subset DEF Known
<1>4. CASE UNCHANGED observer
  <2>1. CASE observer.step = "away"
    BY <1>1, <1>4, <2>1 DEF ObserverInv
  <2>2. CASE ObservedSoFar
    <3>1. observer' \in [step : {"busy"}, todo : ToObserve,
                         known : SUBSET Known', live : SUBSET Actor,
                         completed : Nat, queued : Nat]
      BY <1>1, <1>4, <2>2 DEF ObservedSoFar
    <3>2. observer'.queued \in Nat
      BY <3>1
    <3> QED
      BY <1>1, <1>2, <1>4, <2>2, <3>1, <3>2 DEF ObservedSoFar, ObserverInv
  <2> QED
    BY <2>1, <2>2 DEF ObserverInv
<1>5. CASE Introspect
  <2>1. Known' = Known
    BY <1>5 DEF Introspect, actors, Known, Live
  <2>2. observer' = [step |-> "busy", todo |-> <<"live", "completed", "queues">>,
                     known |-> Known, live |-> {}, completed |-> 0,
                     queued |-> 0]
    BY <1>5 DEF Introspect, RuntimeIntrospection, Observation
  <2> QED
    BY <1>1, <2>1, <2>2, FS_EmptySet DEF ObservedSoFar, ObserverInv, ToObserve
<1>6. ASSUME NEW step, Observing(step)
      PROVE  /\ ObservedSoFar
             /\ observer.todo \in ToObserve \ {<<>>}
             /\ step = "live" => observer.todo = <<"live", "completed", "queues">>
             /\ step = "completed" => observer.todo = <<"completed", "queues">>
             /\ step = "queues" => observer.todo = <<"queues">>
  <2>1. ObservedSoFar /\ observer.todo # <<>> /\ Head(observer.todo) = step
    BY <1>6 DEF Observing, ObserverInv
  <2> QED
    BY <2>1 DEF ObservedSoFar, ToObserve
<1>7. CASE ObserveLive
  <2>1. /\ ObservedSoFar /\ observer.todo = <<"live", "completed", "queues">>
        /\ observer' = [observer EXCEPT !.todo = Tail(@), !.live = Live]
        /\ Known' = Known /\ completed' = completed
    BY <1>6, <1>7 DEF ObserveLive, actors, Known, Live
  <2>2. observer'.todo = <<"completed", "queues">> /\ observer'.live = Live
    BY <2>1 DEF ObservedSoFar
  <2>3. Live \subseteq Actor
    BY DEF Live
  <2>4. observer' \in [step : {"busy"}, todo : ToObserve,
                       known : SUBSET Known', live : SUBSET Actor,
                       completed : Nat, queued : Nat]
    BY <2>1, <2>2, <2>3 DEF ObservedSoFar, ToObserve
  <2>5. observer'.known \subseteq observer'.live \cup completed'
    BY <2>1, <2>2, <2>4 DEF Known
  <2> QED
    BY <1>1, <1>3, <2>2, <2>4, <2>5 DEF ObservedSoFar, ObserverInv
<1>8. CASE ObserveCompleted
  <2>1. /\ ObservedSoFar /\ observer.todo = <<"completed", "queues">>
        /\ observer' = [observer EXCEPT !.todo = Tail(@),
                                        !.completed = Cardinality(completed)]
        /\ Known' = Known /\ completed' = completed
    BY <1>6, <1>8 DEF ObserveCompleted, actors, Known, Live
  <2>2. /\ observer'.todo = <<"queues">>
        /\ observer'.completed = Cardinality(completed)
        /\ observer'.live = observer.live /\ observer'.known = observer.known
    BY <2>1 DEF ObservedSoFar
  <2>3. /\ Cardinality(completed) \in Nat
        /\ Cardinality(observer.live) + Cardinality(completed)
             >= Cardinality(observer.known)
    BY <1>3, <2>1, CoverCounts DEF ObservedSoFar
  <2>4. observer' \in [step : {"busy"}, todo : ToObserve,
                       known : SUBSET Known', live : SUBSET Actor,
                       completed : Nat, queued : Nat]
    BY <2>1, <2>2, <2>3 DEF ObservedSoFar, ToObserve
  <2> QED
    BY <1>1, <2>1, <2>2, <2>3, <2>4 DEF ObservedSoFar, ObserverInv
<1>9. CASE ObserveQueues
  <2>1. PICK queues :
          /\ queues = {a \in Live : status[a] # "Exiting"}
          /\ observer' = [observer EXCEPT !.todo = Tail(@),
                                          !.queued = Cardinality(queues)]
    BY <1>9 DEF ObserveQueues
  <2>2. /\ ObservedSoFar /\ observer.todo = <<"queues">>
        /\ Known' = Known /\ completed' = completed
    BY <1>6, <1>9 DEF ObserveQueues, actors, Known, Live
  <2>3. /\ Cardinality(queues) \in Nat
        /\ Cardinality(queues) <= Cardinality(Known)
    <3>1. queues \subseteq Known
      BY <2>1 DEF Known
    <3> QED
      BY <3>1, <1>1, FS_Subset, FS_CardinalityType
  <2>4. /\ observer'.todo = <<>> /\ observer'.queued = Cardinality(queues)
        /\ observer'.completed = observer.completed
        /\ observer'.live = observer.live /\ observer'.known = observer.known
    BY <2>1, <2>2 DEF ObservedSoFar
  <2>5. observer' \in [step : {"busy"}, todo : ToObserve,
                       known : SUBSET Known', live : SUBSET Actor,
                       completed : Nat, queued : Nat]
    BY <2>1, <2>2, <2>3, <2>4 DEF ObservedSoFar, ToObserve
  <2> QED
    BY <1>1, <2>2, <2>3, <2>4, <2>5 DEF ObservedSoFar, ObserverInv
<1> QED
  BY <1>4, <1>5, <1>7, <1>8, <1>9
     DEF Next, vars, Spawn, Task, TurnStops, SendUser, ExitActor, WakeActor,
         ParkActor, HandlerSends, Control, HostThread, InitStarts, LoopTop,
         Select, Park, NotifyIdle, Wake, TurnStarts, TraceReceived,
         HandleStarts, ReadOptions, SetOptions, RecordTrace, Answer,
         HandlerPushes, TurnEnds, Finalize, ControlGivesUp, OpenCursor,
         EventsSince, WaitForIdle, WaiterChecks, actors, bounds

\* What has been gathered is what ObservedAll says, and the tree follows from
\* how it is built: a child has the one parent, a root has none in the tree.
LEMMA ObservedImplied ==
  ASSUME ObserverInv
  PROVE  ObservedAll
<1> SUFFICES ASSUME observer.step = "busy", observer.todo = <<>>
             PROVE  /\ Cardinality(observer.live) + observer.completed
                         >= Cardinality(observer.known)
                    /\ observer.queued <= Cardinality(Known)
                    /\ \A a \in observer.live :
                         IF a \in Roots(observer.live)
                         THEN \A b \in observer.live :
                                a \notin Children(observer.live, b)
                         ELSE Cardinality({b \in observer.live :
                                a \in Children(observer.live, b)}) = 1
  BY DEF ObservedAll
<1>1. ObservedSoFar
  BY DEF ObserverInv
<1>2. ASSUME NEW a \in observer.live
      PROVE  IF a \in Roots(observer.live)
             THEN \A b \in observer.live : a \notin Children(observer.live, b)
             ELSE Cardinality({b \in observer.live :
                                 a \in Children(observer.live, b)}) = 1
  <2>1. CASE a \in Roots(observer.live)
    BY <2>1 DEF Roots, Children
  <2>2. CASE a \notin Roots(observer.live)
    <3>1. {b \in observer.live : a \in Children(observer.live, b)}
            = {Parent[a]}
      BY <2>2 DEF Roots, Children
    <3> QED
      BY <2>2, <3>1, FS_Singleton
  <2> QED
    BY <2>1, <2>2
<1> QED
  BY <1>1, <1>2 DEF ObservedSoFar
-----------------------------------------------------------------------------
(* The types are kept.                                                     *)

\* A task that moves, to a turn that fits where it goes.
LEMMA TaskMoves ==
  ASSUME TaskOK, NEW a \in Actor, NEW p \in PC, NEW t \in Turn,
         TurnFits(p, t),
         pc' = [pc EXCEPT ![a] = p], turn' = [turn EXCEPT ![a] = t],
         present' \in [Actor -> BOOLEAN], options' \in [Actor -> Options]
  PROVE  TaskOK'
<1>1. /\ pc' \in [Actor -> PC] /\ turn' \in [Actor -> Turn]
      /\ pc'[a] = p /\ turn'[a] = t
      /\ \A b \in Actor \ {a} : pc'[b] = pc[b] /\ turn'[b] = turn[b]
  BY DEF TaskOK
<1>2. \A b \in Actor : TurnFits(pc'[b], turn'[b])
  BY <1>1 DEF TaskOK
<1> QED
  BY <1>1, <1>2 DEF TaskOK

\* A task that goes on, its turn as it is.
LEMMA TaskGoes ==
  ASSUME TaskOK, NEW a \in Actor, NEW from, NEW to \in PC, Goes(a, from, to),
         TurnFits(to, turn[a]), UNCHANGED <<turn, options>>,
         present' \in [Actor -> BOOLEAN]
  PROVE  TaskOK'
<1>1. /\ pc' = [pc EXCEPT ![a] = to] /\ turn' = [turn EXCEPT ![a] = turn[a]]
      /\ turn[a] \in Turn /\ options' \in [Actor -> Options]
  BY DEF Goes, TaskOK
<1> QED
  BY <1>1, TaskMoves

\* A turn that goes on, its task where it is.
LEMMA TurnGoes ==
  ASSUME TaskOK, NEW a \in Actor, NEW t \in HandlerTurn, t.todo \in Left(t.op),
         pc[a] = "turn", turn' = [turn EXCEPT ![a] = t],
         UNCHANGED <<pc, present>>, options' \in [Actor -> Options]
  PROVE  TaskOK'
<1>1. /\ pc' = [pc EXCEPT ![a] = "turn"] /\ t \in Turn /\ TurnFits("turn", t)
      /\ "turn" \in PC /\ present' \in [Actor -> BOOLEAN]
  BY DEF TaskOK, TurnFits, Turn, PC
<1> QED
  BY <1>1, TaskMoves

\* What is left of a control request gets shorter.
LEMMA LeftTails ==
  ASSUME NEW op \in ControlOp, NEW todo \in Left(op)
  PROVE  /\ <<>> \in Left(op) /\ Plan(op) \in Left(op)
         /\ todo # <<>> => Tail(todo) \in Left(op)
<1>1. /\ Tail(<<"set", "record", "answer">>) = <<"record", "answer">>
      /\ Tail(<<"record", "answer">>) = <<"answer">>
      /\ Tail(<<"answer">>) = <<>>
      /\ Tail(<<"read", "record", "set", "answer">>) = <<"record", "set", "answer">>
      /\ Tail(<<"record", "set", "answer">>) = <<"set", "answer">>
      /\ Tail(<<"set", "answer">>) = <<"answer">>
      /\ Tail(<<"answer", "read", "record">>) = <<"read", "record">>
      /\ Tail(<<"read", "record">>) = <<"record">>
      /\ Tail(<<"record">>) = <<>>
      /\ Tail(<<"read", "record", "answer">>) = <<"record", "answer">>
  OBVIOUS
<1>2. CASE op = "TraceOn"
  <2>1. /\ Left(op) = {<<"set", "record", "answer">>,
                       <<"record", "answer">>,
                       <<"answer">>,
                       <<>>}
        /\ Plan(op) = <<"set", "record", "answer">>
    BY <1>2 DEF Left, Plan
  <2> QED
    BY <2>1, <1>1
<1>3. CASE op = "TraceOff"
  <2>1. /\ Left(op) = {<<"read", "record", "set", "answer">>,
                       <<"record", "set", "answer">>,
                       <<"set", "answer">>,
                       <<"answer">>,
                       <<>>}
        /\ Plan(op) = <<"read", "record", "set", "answer">>
    BY <1>3 DEF Left, Plan
  <2> QED
    BY <2>1, <1>1
<1>4. CASE op = "GetState"
  <2>1. /\ Left(op) = {<<"answer", "read", "record">>,
                       <<"answer">>,
                       <<"read", "record">>,
                       <<"record">>,
                       <<>>}
        /\ Plan(op) = <<"answer", "read", "record">>
    BY <1>4 DEF Left, Plan
  <2> QED
    BY <2>1, <1>1
<1>5. CASE op = "ReplaceState"
  <2>1. /\ Left(op) = {<<"read", "record", "answer">>,
                       <<"record", "answer">>,
                       <<"answer">>,
                       <<>>}
        /\ Plan(op) = <<"read", "record", "answer">>
    BY <1>5 DEF Left, Plan
  <2> QED
    BY <2>1, <1>1
<1> QED
  BY <1>2, <1>3, <1>4, <1>5 DEF ControlOp, Request

\* A step of a control request leaves a turn of its kind.
LEMMA DoingKeepsTask ==
  ASSUME TaskOK, NEW a \in Actor, NEW step, Doing(a, step), NEW todo,
         todo = <<>> \/ todo = Tail(turn[a].todo), NEW o \in Options,
         turn' = [turn EXCEPT ![a].options = o, ![a].todo = todo],
         UNCHANGED <<pc, present>>, options' \in [Actor -> Options]
  PROVE  TaskOK'
<1>1. /\ turn[a] \in HandlerTurn /\ turn[a].op \in ControlOp
      /\ turn[a].todo \in Left(turn[a].op) /\ turn[a].todo # <<>>
      /\ pc[a] = "turn"
  BY DoingControl DEF Doing
<1>2. todo \in Left(turn[a].op)
  BY <1>1, LeftTails
<1>3. todo \in UNION {Left(op) : op \in HandlerOp}
  BY <1>1, <1>2 DEF HandlerOp
<1>4. PICK t : t = [turn[a] EXCEPT !.options = o, !.todo = todo]
  OBVIOUS
<1>5. t \in HandlerTurn /\ t.op = turn[a].op /\ t.todo = todo
  BY <1>1, <1>3, <1>4 DEF HandlerTurn
<1>6. turn' = [turn EXCEPT ![a] = t]
  BY <1>4 DEF TaskOK
<1> QED
  BY <1>1, <1>2, <1>5, <1>6, TurnGoes

\* Every step keeps the types of the tasks.
LEMMA TaskStep ==
  ASSUME TypeOK, [Next]_vars
  PROVE  TaskOK'
<1>1. /\ TaskOK
      /\ \A a \in Actor : /\ pc[a] \in PC /\ turn[a] \in Turn
                          /\ TurnFits(pc[a], turn[a]) /\ options[a] \in Options
      /\ options \in [Actor -> Options] /\ present \in [Actor -> BOOLEAN]
      /\ mailbox \in [Actor -> Seq(Envelope)]
  BY DEF TypeOK, TaskOK, MailOK
<1>2. CASE UNCHANGED <<pc, present, options, turn>>
  BY <1>1, <1>2 DEF TaskOK
<1> DEFINE Moves(a) == \E from, to \in PC :
             /\ Goes(a, from, to) /\ TurnFits(to, turn[a])
             /\ UNCHANGED <<turn, options>> /\ present' \in [Actor -> BOOLEAN]
<1>3. ASSUME NEW a \in Actor, Moves(a) PROVE TaskOK'
  BY <1>1, <1>3, TaskGoes
<1>4. ASSUME NEW a \in Actor,
             \/ Spawn(a) \/ LoopTop(a) \/ Park(a) \/ NotifyIdle(a) \/ Wake(a)
             \/ TurnStarts(a) \/ TraceReceived(a) \/ TurnStops(a)
             \/ WakeActor(a)
      PROVE  TaskOK'
  <2>1. CASE Spawn(a)
    <3>1. TurnFits("spawned", turn[a]) /\ present' \in [Actor -> BOOLEAN]
      BY <1>1, <2>1 DEF Spawn, Goes, TurnFits
    <3> QED
      BY <1>3, <2>1, <3>1 DEF Spawn, PC
  <2>2. CASE LoopTop(a)
    <3>1. /\ TurnFits("exiting", turn[a]) /\ TurnFits("select", turn[a])
          /\ (IF forced[a] THEN "exiting" ELSE "select") \in
               {"exiting", "select"}
      BY <1>1, <2>2 DEF LoopTop, Goes, TurnFits
    <3> QED
      BY <1>1, <1>3, <2>2, <3>1 DEF LoopTop, PC
  <2>3. CASE Park(a) \/ NotifyIdle(a) \/ Wake(a) \/ WakeActor(a)
    <3>1. TurnFits("loop", turn[a]) /\ TurnFits("done", turn[a])
            /\ TurnFits("parked", turn[a]) /\ TurnFits("asleep", turn[a])
      BY <1>1, <2>3 DEF Park, NotifyIdle, Wake, WakeActor, Goes, TurnFits
    <3> QED
      BY <1>1, <1>3, <2>3, <3>1 DEF Park, NotifyIdle, Wake, WakeActor, PC
  <2>4. CASE TurnStarts(a) \/ TraceReceived(a)
    <3>1. /\ TurnFits("received", turn[a]) /\ TurnFits("handle", turn[a])
          /\ (IF options[a] = "all" THEN "received" ELSE "handle") \in
               {"received", "handle"}
      BY <1>1, <2>4 DEF TurnStarts, TraceReceived, Goes, TurnFits
    <3> QED
      BY <1>1, <1>3, <2>4, <3>1 DEF TurnStarts, TraceReceived, PC
  <2>5. CASE TurnStops(a)
    <3>1. TurnFits("exiting", turn[a])
      BY <1>1, <2>5 DEF TurnStops, TurnFits
    <3> QED
      BY <1>1, <1>3, <2>5, <3>1 DEF TurnStops, PC
  <2> QED
    BY <1>4, <2>1, <2>2, <2>3, <2>4, <2>5
<1>5. ASSUME NEW a \in Actor, InitStarts(a) PROVE TaskOK'
  <2>1. PICK t : t = [op |-> "Init", todo |-> <<>>]
    OBVIOUS
  <2>2. t \in Turn /\ TurnFits("turn", t) /\ "turn" \in PC
    BY <2>1 DEF Turn, InitTurn, TurnFits, PC, Left
  <2> QED
    BY <1>1, <1>5, <2>1, <2>2, TaskMoves DEF InitStarts, Goes
<1>6. ASSUME NEW a \in Actor, Select(a) PROVE TaskOK'
  <2>1. CASE Goes(a, "select", "park") /\ UNCHANGED turn
    <3>1. TurnFits("park", turn[a])
      BY <1>1, <2>1 DEF Goes, TurnFits
    <3> QED
      BY <1>1, <1>3, <1>6, <2>1, <3>1 DEF Select, PC
  <2>2. ASSUME NEW i \in DOMAIN mailbox[a],
               turn' = [turn EXCEPT ![a] = mailbox[a][i]],
               Goes(a, "select", "got")
        PROVE  TaskOK'
    <3>1. PICK t : t = mailbox[a][i]
      OBVIOUS
    <3>2. mailbox[a] \in Seq(Envelope)
      BY <1>1
    <3>3. t \in Envelope
      BY <3>1, <3>2, LenProperties, ElementOfSeq
    <3>4. t \in Turn /\ TurnFits("got", t) /\ "got" \in PC
      BY <3>3 DEF Turn, TurnFits, PC
    <3> QED
      BY <1>1, <1>6, <2>2, <3>1, <3>4, TaskMoves DEF Select, Goes
  <2> QED
    BY <1>6, <2>1, <2>2 DEF Select
<1>7. ASSUME NEW a \in Actor, HandleStarts(a) PROVE TaskOK'
  <2>1. PICK op, ok, t :
          /\ op = turn[a].op
          /\ ok \in IF op \in {"GetState", "ReplaceState"} THEN BOOLEAN
                                                           ELSE {TRUE}
          /\ t = [op |-> op, ok |-> ok, request |-> turn[a].request,
                  traced |-> options[a] # "none", wanted |-> turn[a].wanted,
                  options |-> turn[a].wanted,
                  todo |-> IF ok THEN Plan(op) ELSE <<"answer">>]
          /\ turn' = [turn EXCEPT ![a] = t]
    BY <1>7 DEF HandleStarts
  <2>2. turn[a] \in Envelope
    BY <1>1, <1>7 DEF HandleStarts, Goes, TurnFits
  <2>3. ok \in BOOLEAN /\ op \in ControlOp \cup {"User"}
    BY <2>1, <2>2 DEF Envelope
  <2>4. t.todo \in Left(op)
    <3>1. CASE ok
      <4>1. CASE op = "User"
        BY <2>1, <3>1, <4>1 DEF Plan, Left
      <4>2. CASE op # "User"
        <5>1. op \in ControlOp /\ <<>> \in Left(op)
          BY <2>3, <4>2 DEF Left, ControlOp, Request
        <5> QED
          BY <2>1, <3>1, <5>1, LeftTails
      <4> QED
        BY <4>1, <4>2
    <3>2. CASE ~ok
      BY <2>1, <3>2 DEF Left
    <3> QED
      BY <3>1, <3>2
  <2>5. t \in HandlerTurn /\ t.op = op
    <3>1. t.todo \in UNION {Left(o) : o \in HandlerOp}
      BY <2>3, <2>4 DEF HandlerOp
    <3> QED
      BY <2>1, <2>2, <2>3, <3>1 DEF HandlerTurn, HandlerOp, Envelope
  <2>6. t \in Turn /\ TurnFits("turn", t) /\ "turn" \in PC
    BY <2>4, <2>5 DEF Turn, TurnFits, PC
  <2> QED
    BY <1>1, <1>7, <2>1, <2>6, TaskMoves DEF HandleStarts, Goes
<1>8. ASSUME NEW a \in Actor,
             ReadOptions(a) \/ SetOptions(a) \/ RecordTrace(a) \/ Answer(a)
      PROVE  TaskOK'
  <2>1. PICK step, o, todo :
          /\ Doing(a, step)
          /\ o \in Options
          /\ todo = <<>> \/ todo = Tail(turn[a].todo)
          /\ turn' = [turn EXCEPT ![a].options = o, ![a].todo = todo]
          /\ UNCHANGED <<pc, present>> /\ options' \in [Actor -> Options]
    <3>1. ASSUME NEW step, Doing(a, step)
          PROVE  /\ turn[a] \in HandlerTurn
                 /\ turn[a].options \in Options /\ turn[a].wanted \in Options
                 /\ \A todo : [turn EXCEPT ![a].todo = todo] =
                      [turn EXCEPT ![a].options = turn[a].options,
                                   ![a].todo = todo]
      <4>1. turn[a] \in HandlerTurn
        BY <1>1, <3>1, DoingControl
      <4>2. turn \in [Actor -> Turn]
        BY <1>1 DEF TaskOK
      <4> QED
        BY <4>1, <4>2 DEF HandlerTurn
    <3>2. CASE ReadOptions(a)
      BY <1>1, <3>2 DEF ReadOptions
    <3>3. CASE SetOptions(a)
      BY <1>1, <3>1, <3>3 DEF SetOptions
    <3>4. CASE RecordTrace(a)
      BY <1>1, <3>1, <3>4 DEF RecordTrace
    <3>5. CASE Answer(a)
      BY <1>1, <3>1, <3>5 DEF Answer
    <3> QED
      BY <1>8, <3>2, <3>3, <3>4, <3>5
  <2> QED
    BY <1>1, <2>1, DoingKeepsTask
<1>9. ASSUME NEW a \in Actor, turn[a].op \in {"User", "Sending"},
             pc[a] = "turn", NEW op \in {"User", "Sending"},
             NEW todo \in Left(op),
             turn' = [turn EXCEPT ![a].op = op, ![a].todo = todo],
             UNCHANGED <<pc, present, options>>
      PROVE  TaskOK'
  <2>1. turn[a] \in HandlerTurn
    BY <1>1, <1>9 DEF TurnFits, InitTurn
  <2>2. PICK t : t = [turn[a] EXCEPT !.op = op, !.todo = todo]
    OBVIOUS
  <2>3. todo \in UNION {Left(o) : o \in HandlerOp} /\ op \in HandlerOp
    BY DEF HandlerOp
  <2>4. t \in HandlerTurn /\ t.todo = todo /\ t.op = op
    BY <2>1, <2>2, <2>3 DEF HandlerTurn
  <2>5. turn' = [turn EXCEPT ![a] = t]
    BY <1>9, <2>2 DEF TaskOK
  <2> QED
    BY <1>1, <1>9, <2>4, <2>5, TurnGoes
<1>10. ASSUME NEW a \in Actor, NEW b \in Actor, HandlerSends(a, b)
       PROVE  TaskOK'
  <2>1. <<b>> \in Left("Sending")
    BY DEF Left
  <2> QED
    BY <1>9, <1>10, <2>1 DEF HandlerSends
<1>11. ASSUME NEW a \in Actor, HandlerPushes(a) PROVE TaskOK'
  <2>1. <<>> \in Left("User") /\ UNCHANGED present
    BY <1>11 DEF Left, HandlerPushes
  <2> QED
    BY <1>9, <1>11, <2>1 DEF HandlerPushes
<1>12. ASSUME NEW a \in Actor, TurnEnds(a) \/ Finalize(a) PROVE TaskOK'
  <2>1. /\ NoTurn \in Turn /\ TurnFits("ended", NoTurn)
        /\ TurnFits("final", NoTurn) /\ "ended" \in PC /\ "final" \in PC
    BY DEF NoTurn, Turn, TurnFits, PC
  <2>2. present' \in [Actor -> BOOLEAN]
    BY <1>1, <1>12 DEF TurnEnds, Finalize
  <2> QED
    BY <1>1, <1>12, <2>1, <2>2, TaskMoves DEF TurnEnds, Finalize, Goes
<1> QED
  BY <1>2, <1>4, <1>5, <1>6, <1>7, <1>8, <1>10, <1>11, <1>12
     DEF Next, vars, Task, SendUser, ExitActor, ParkActor, Control,
         HostThread, ControlGivesUp, OpenCursor, EventsSince, Introspect,
         ObserveLive, ObserveCompleted, ObserveQueues, WaitForIdle,
         WaiterChecks, actors, bounds
\* A message that is pushed, and where.
LEMMA PushedMail ==
  ASSUME TypeOK, NEW a \in Actor, NEW op \in ControlOp \cup {"User"},
         NEW wanted \in Options, requests' \in Nat,
         Pushed(a, Message(op, wanted))
  PROVE  /\ mailbox' \in [Actor -> Seq(Envelope)]
         /\ \A b \in Actor : \A i \in DOMAIN mailbox'[b] :
              \/ i \in DOMAIN mailbox[b] /\ mailbox'[b][i] = mailbox[b][i]
              \/ b = a /\ mailbox'[b][i] = Message(op, wanted)
<1>1. mailbox \in [Actor -> Seq(Envelope)]
  BY DEF TypeOK, MailOK
<1>2. PICK m : m = Message(op, wanted)
  OBVIOUS
<1>3. m \in Envelope
  BY <1>2 DEF Message, Envelope
<1>4. mailbox' = [mailbox EXCEPT ![a] = Append(@, m)]
  BY <1>2 DEF Pushed
<1>5. /\ mailbox[a] \in Seq(Envelope)
      /\ Append(mailbox[a], m) \in Seq(Envelope)
      /\ Len(Append(mailbox[a], m)) = Len(mailbox[a]) + 1
      /\ \A i \in 1..Len(mailbox[a]) : Append(mailbox[a], m)[i] = mailbox[a][i]
      /\ Append(mailbox[a], m)[Len(mailbox[a]) + 1] = m
  BY <1>1, <1>3, AppendProperties
<1>6. /\ Len(mailbox[a]) \in Nat /\ DOMAIN mailbox[a] = 1..Len(mailbox[a])
      /\ DOMAIN Append(mailbox[a], m) = 1..(Len(mailbox[a]) + 1)
  BY <1>5, LenProperties
<1>7. /\ mailbox'[a] = Append(mailbox[a], m)
      /\ \A b \in Actor \ {a} : mailbox'[b] = mailbox[b]
  BY <1>1, <1>4
<1>8. \A i \in DOMAIN mailbox'[a] :
        \/ i \in DOMAIN mailbox[a] /\ mailbox'[a][i] = mailbox[a][i]
        \/ mailbox'[a][i] = m
  BY <1>5, <1>6, <1>7
<1>9. mailbox' \in [Actor -> Seq(Envelope)]
  BY <1>1, <1>4, <1>5
<1> QED
  BY <1>2, <1>7, <1>8, <1>9

\* An entry that is selected leaves the mailbox, the others stay.
LEMMA SelectedMail ==
  ASSUME TypeOK, NEW a \in Actor, NEW i \in DOMAIN mailbox[a],
         mailbox' = [mailbox EXCEPT ![a] = RemoveEntry(@, i)]
  PROVE  /\ mailbox' \in [Actor -> Seq(Envelope)]
         /\ \A b \in Actor : \A j \in DOMAIN mailbox'[b] :
              \E k \in DOMAIN mailbox[b] : mailbox'[b][j] = mailbox[b][k]
<1>1. /\ mailbox \in [Actor -> Seq(Envelope)]
      /\ mailbox[a] \in Seq(Envelope)
  BY DEF TypeOK, MailOK
<1>2. /\ RemoveEntry(mailbox[a], i) \in Seq(Envelope)
      /\ \A j \in DOMAIN RemoveEntry(mailbox[a], i) :
           \E k \in DOMAIN mailbox[a] :
             RemoveEntry(mailbox[a], i)[j] = mailbox[a][k]
  BY <1>1, RemoveEntryType
<1>3. /\ mailbox'[a] = RemoveEntry(mailbox[a], i)
      /\ \A b \in Actor \ {a} : mailbox'[b] = mailbox[b]
      /\ mailbox' \in [Actor -> Seq(Envelope)]
  BY <1>1, <1>2
<1> QED
  BY <1>2, <1>3

\* What a step may do to the mailboxes.
LEMMA MailCases ==
  ASSUME TypeOK, [Next]_vars
  PROVE  \/ UNCHANGED <<mailbox, requests>>
         \/ \E a \in Actor : Select(a) \/ Finalize(a) \/ SendUser(a)
                               \/ HandlerPushes(a)
         \/ \E a \in Actor : \E op \in ControlOp : \E o \in Options :
              Control(a, op, o) /\ (op \in Request => o = "none")
<1>1. ASSUME NEW a \in Actor,
             \/ \E op \in Request : Control(a, op, "none")
             \/ \E o \in Options : Control(a, "TraceOn", o)
      PROVE  \E op \in ControlOp : \E o \in Options :
               Control(a, op, o) /\ (op \in Request => o = "none")
  BY <1>1 DEF ControlOp, Options, Request
<1> QED
  BY <1>1
     DEF Next, vars, Spawn, Task, TurnStops, ExitActor, WakeActor,
         ParkActor, HandlerSends, HostThread, InitStarts, LoopTop,
         Park, NotifyIdle, Wake, TurnStarts, TraceReceived,
         HandleStarts, ReadOptions, SetOptions, RecordTrace, Answer,
         TurnEnds, ControlGivesUp, OpenCursor, EventsSince, Introspect,
         ObserveLive, ObserveCompleted, ObserveQueues, WaitForIdle,
         WaiterChecks, actors, bounds

\* Every step keeps the types of the mailboxes.
LEMMA MailStep ==
  ASSUME TypeOK, [Next]_vars
  PROVE  MailOK'
<1>1. mailbox \in [Actor -> Seq(Envelope)] /\ requests \in Nat
  BY DEF TypeOK, MailOK
<1>2. CASE UNCHANGED <<mailbox, requests>>
  BY <1>1, <1>2 DEF MailOK
<1>3. ASSUME NEW a \in Actor, Select(a) PROVE MailOK'
  BY <1>1, <1>3, SelectedMail DEF Select, MailOK, bounds
<1>4. ASSUME NEW a \in Actor, Finalize(a) PROVE MailOK'
  BY <1>1, <1>4, EmptySeq DEF Finalize, MailOK, bounds
<1>5. "none" \in Options
  BY DEF Options
<1>6. ASSUME NEW a \in Actor, SendUser(a) PROVE MailOK'
  BY <1>1, <1>5, <1>6, PushedMail DEF SendUser, MailOK
<1>7. ASSUME NEW a \in Actor, HandlerPushes(a) PROVE MailOK'
  <2>1. requests' = requests
    BY <1>7 DEF HandlerPushes
  <2>2. CASE present[Head(turn[a].todo)]
    <3>1. Head(turn[a].todo) \in Actor
      <4>1. turn[a].todo \in Left("Sending")
        BY <1>7 DEF HandlerPushes, TypeOK, TaskOK, TurnFits
      <4> QED
        BY <4>1 DEF Left
    <3> QED
      BY <1>1, <1>5, <1>7, <2>1, <2>2, <3>1, PushedMail
         DEF HandlerPushes, MailOK
  <2>3. CASE ~present[Head(turn[a].todo)]
    BY <1>1, <1>7, <2>1, <2>3 DEF HandlerPushes, MailOK
  <2> QED
    BY <2>2, <2>3
<1>8. ASSUME NEW a \in Actor, NEW op \in ControlOp, NEW o \in Options,
             Control(a, op, o)
      PROVE  MailOK'
  <2>1. requests' \in Nat
    BY <1>1, <1>8 DEF Control
  <2> QED
    BY <1>8, <2>1, PushedMail DEF Control, MailOK
<1> QED
  BY <1>2, <1>3, <1>4, <1>6, <1>7, <1>8, MailCases

\* What a step may do to the request of the host.
LEMMA HostCases ==
  ASSUME TypeOK, [Next]_vars
  PROVE  \/ UNCHANGED host
         \/ ControlGivesUp
         \/ \E a \in Actor : Answer(a)
         \/ \E a \in Actor : \E op \in ControlOp : \E o \in Options :
              Control(a, op, o) /\ (op \in Request => o = "none")
<1>1. ASSUME NEW a \in Actor,
             \/ \E op \in Request : Control(a, op, "none")
             \/ \E o \in Options : Control(a, "TraceOn", o)
      PROVE  \E op \in ControlOp : \E o \in Options :
               Control(a, op, o) /\ (op \in Request => o = "none")
  BY <1>1 DEF ControlOp, Options, Request
<1> QED
  BY <1>1
     DEF Next, vars, Spawn, Task, TurnStops, SendUser, ExitActor, WakeActor,
         ParkActor, HandlerSends, HostThread, InitStarts, LoopTop, Select,
         Park, NotifyIdle, Wake, TurnStarts, TraceReceived,
         HandleStarts, ReadOptions, SetOptions, RecordTrace, HandlerPushes,
         TurnEnds, Finalize, OpenCursor, EventsSince, Introspect,
         ObserveLive, ObserveCompleted, ObserveQueues, WaitForIdle,
         WaiterChecks, actors, bounds

\* Every step keeps the type of the host's request.
LEMMA HostStep ==
  ASSUME TypeOK, [Next]_vars
  PROVE  HostOK'
<1>1. HostOK /\ Len(log) \in Nat /\ requests \in Nat /\ TaskOK
  BY LenProperties DEF TypeOK, LogOK, MailOK
<1>2. CASE UNCHANGED host
  BY <1>1, <1>2 DEF HostOK
<1>3. CASE ControlGivesUp
  BY <1>1, <1>3 DEF ControlGivesUp, HostOK
<1>4. ASSUME NEW a \in Actor, Answer(a) PROVE HostOK'
  <2>1. turn[a].traced \in BOOLEAN
    BY <1>1, <1>4, DoingControl DEF Answer, HandlerTurn
  <2> QED
    BY <1>1, <1>4, <2>1 DEF Answer, HostOK
<1>5. ASSUME NEW a \in Actor, NEW op \in ControlOp, NEW o \in Options,
             Control(a, op, o)
      PROVE  HostOK'
  <2>1. /\ host' = [step |-> "waiting", request |-> requests', op |-> op,
                    actor |-> a, since |-> Len(log), traced |-> FALSE]
        /\ requests' \in Nat
    BY <1>1, <1>5 DEF Control
  <2> QED
    BY <1>1, <2>1 DEF HostOK
<1> QED
  BY <1>2, <1>3, <1>4, <1>5, HostCases

\* Every step keeps the types.
LEMMA TypeStep == TypeOK /\ [Next]_vars => TypeOK'
BY TaskStep, MailStep, HostStep, LogStep DEF TypeOK, LogGrows
-----------------------------------------------------------------------------
(* Traces stand between their marks.                                       *)

\* Up to a place in the log, the traces of an actor are on.
Enabled(a, n) ==
  \E j \in 1..n :
    /\ log[j].kind = "TraceEnabled" /\ log[j].actor = a
    /\ \A k \in (j + 1)..n :
         ~(log[k].kind = "TraceDisabled" /\ log[k].actor = a)

InTurn(a, op, todo) ==
  pc[a] = "turn" /\ turn[a].op = op /\ turn[a].todo = todo

\* An actor that has trace options is traced, but for two moments: between the
\* options and the mark of TraceOn, and between the mark and the options of
\* TraceOff.  An actor about to report something is traced.
TraceOf(a) ==
  /\ options[a] # "none" =>
       \/ Enabled(a, Len(log))
       \/ InTurn(a, "TraceOn", <<"record", "answer">>)
       \/ InTurn(a, "TraceOff", <<"set", "answer">>)
  /\ pc[a] = "received" => Enabled(a, Len(log))
  /\ (Doing(a, "record") /\ turn[a].op \in Request /\ turn[a].options # "none")
       => Enabled(a, Len(log))

\* Every event of a trace is between its marks, and the next one will be.
TraceInv ==
  /\ \A i \in 1..Len(log) : IsTrace(log[i]) => Enabled(log[i].actor, i - 1)
  /\ \A a \in Actor : TraceOf(a)

\* What is left to do, by what comes first.
LEMMA LeftHeads ==
  ASSUME NEW op \in ControlOp, NEW todo \in Left(op), todo # <<>>
  PROVE  /\ Head(todo) = "set" =>
              \/ op = "TraceOn" /\ todo = <<"set", "record", "answer">>
              \/ op = "TraceOff" /\ todo = <<"set", "answer">>
         /\ Head(todo) = "record" =>
              \/ op = "TraceOn" /\ todo = <<"record", "answer">>
              \/ op = "TraceOff" /\ todo = <<"record", "set", "answer">>
              \/ op = "GetState" /\ todo = <<"record">>
              \/ op = "ReplaceState" /\ todo = <<"record", "answer">>
         /\ Head(todo) = "read" =>
              \/ op = "TraceOff" /\ todo = <<"read", "record", "set", "answer">>
              \/ op = "GetState" /\ todo = <<"read", "record">>
              \/ op = "ReplaceState" /\ todo = <<"read", "record", "answer">>
         /\ Head(todo) = "answer" =>
              \/ todo = <<"answer">>
              \/ op = "GetState" /\ todo = <<"answer", "read", "record">>
         /\ Head(todo) \in {"set", "record", "read", "answer"}
<1>1. CASE op = "TraceOn"
  BY <1>1 DEF Left
<1>2. CASE op = "TraceOff"
  BY <1>2 DEF Left
<1>3. CASE op = "GetState"
  BY <1>3 DEF Left
<1>4. CASE op = "ReplaceState"
  BY <1>4 DEF Left
<1> QED
  BY <1>1, <1>2, <1>3, <1>4 DEF ControlOp, Request

\* What the log says up to a place does not change.
LEMMA EnabledKept ==
  ASSUME LogGrows, NEW a, NEW n \in 0..Len(log), Enabled(a, n)
  PROVE  Enabled(a, n)'
<1>1. PICK j \in 1..n :
        /\ log[j].kind = "TraceEnabled" /\ log[j].actor = a
        /\ \A k \in (j + 1)..n :
             ~(log[k].kind = "TraceDisabled" /\ log[k].actor = a)
  BY DEF Enabled
<1>2. Len(log) \in Nat /\ \A i \in 1..Len(log) : log'[i] = log[i]
  BY DEF LogGrows
<1>3. j \in 1..Len(log) /\ \A k \in (j + 1)..n : k \in 1..Len(log)
  BY <1>2
<1> QED
  BY <1>1, <1>2, <1>3 DEF Enabled

\* Only the task of an actor turns its traces off.
LEMMA EnabledStays ==
  ASSUME TypeOK, LogGrows, NEW a \in Actor, Enabled(a, Len(log)),
         ~(RecordTrace(a) /\ turn[a].op = "TraceOff")
  PROVE  Enabled(a, Len(log))'
<1>1. PICK j \in 1..Len(log) :
        /\ log[j].kind = "TraceEnabled" /\ log[j].actor = a
        /\ \A k \in (j + 1)..Len(log) :
             ~(log[k].kind = "TraceDisabled" /\ log[k].actor = a)
  BY DEF Enabled
<1>2. /\ Len(log) \in Nat /\ Len(log') \in Nat /\ Len(log) <= Len(log')
      /\ \A i \in 1..Len(log) : log'[i] = log[i]
  BY DEF LogGrows
<1>3. ASSUME NEW k \in (Len(log) + 1)..Len(log'),
             log'[k].kind = "TraceDisabled", log'[k].actor = a
      PROVE  FALSE
  <2>1. ~Plain(log'[k])
    BY <1>3 DEF Plain
  <2>2. PICK b \in Actor : /\ Len(log') = Len(log) + 1
                           /\ TracedBy(b, log'[Len(log) + 1])
    BY <2>1 DEF LogGrows
  <2>3. k = Len(log) + 1
    BY <2>2, <1>2
  <2>4. b = a /\ RecordTrace(a) /\ EventOf(turn[a].op) = "TraceDisabled"
    BY <1>3, <2>2, <2>3 DEF TracedBy
  <2>5. turn[a].op \in ControlOp
    BY <2>4, DoingControl DEF TypeOK, RecordTrace
  <2> QED
    BY <2>4, <2>5, EventOfType DEF ControlOp, Request
<1>4. j \in 1..Len(log') /\ log'[j] = log[j]
  BY <1>2
<1>5. \A k \in (j + 1)..Len(log') :
        ~(log'[k].kind = "TraceDisabled" /\ log'[k].actor = a)
  <2>1. \A k \in (j + 1)..Len(log') :
          \/ k \in (j + 1)..Len(log) /\ log'[k] = log[k]
          \/ k \in (Len(log) + 1)..Len(log')
    BY <1>2
  <2> QED
    BY <2>1, <1>1, <1>3
<1> QED
  BY <1>1, <1>4, <1>5 DEF Enabled

\* The events of the log are where they may be.
LEMMA EventsStand ==
  ASSUME TypeOK, TraceInv, [Next]_vars
  PROVE  \A i \in 1..Len(log') :
           IsTrace(log'[i]) => Enabled(log[i].actor, i - 1)'
<1>1. LogGrows
  BY LogStep
<1>2. /\ Len(log) \in Nat /\ Len(log') \in Nat /\ Len(log) <= Len(log')
      /\ \A i \in 1..Len(log) : log'[i] = log[i]
      /\ \/ \A i \in (Len(log) + 1)..Len(log') : Plain(log'[i])
         \/ /\ Len(log') = Len(log) + 1
            /\ \E a \in Actor : TracedBy(a, log'[Len(log) + 1])
  BY <1>1 DEF LogGrows
<1>3. ASSUME NEW i \in 1..Len(log), IsTrace(log'[i])
      PROVE  Enabled(log[i].actor, i - 1)'
  <2>1. PICK a : a = log[i].actor
    OBVIOUS
  <2>2. log'[i] = log[i] /\ i - 1 \in 0..Len(log)
    BY <1>2
  <2>3. Enabled(a, i - 1)
    BY <1>3, <2>1, <2>2 DEF TraceInv
  <2>4. Enabled(a, i - 1)'
    BY <1>1, <2>2, <2>3, EnabledKept
  <2> QED
    BY <2>1, <2>2, <2>4 DEF Enabled
<1>4. ASSUME NEW i \in (Len(log) + 1)..Len(log'), IsTrace(log'[i])
      PROVE  Enabled(log[i].actor, i - 1)'
  <2>1. ~Plain(log'[i])
    BY <1>4 DEF Plain, IsTrace
  <2>2. PICK a \in Actor : /\ Len(log') = Len(log) + 1
                           /\ TracedBy(a, log'[Len(log) + 1])
    BY <1>2, <2>1
  <2>3. i = Len(log) + 1 /\ i - 1 = Len(log) /\ log'[i].actor = a
    BY <1>2, <2>2 DEF TracedBy
  <2>4. TraceOf(a)
    BY DEF TraceInv
  <2>5. Enabled(a, Len(log))
    <3>1. CASE TraceReceived(a)
      BY <2>4, <3>1 DEF TraceOf, TraceReceived, Goes
    <3>2. CASE (\E b \in Actor : HandlerSends(a, b)) /\ options[a] = "all"
      BY <2>4, <3>2 DEF TraceOf, HandlerSends, InTurn
    <3>3. CASE RecordTrace(a) /\ log'[i].kind = EventOf(turn[a].op)
                 /\ (turn[a].op = "TraceOn" \/ turn[a].options # "none")
      <4>1. Doing(a, "record") /\ turn[a].op \in ControlOp
        BY <3>3, DoingControl DEF RecordTrace, TypeOK
      <4>2. turn[a].op # "TraceOn"
        BY <1>4, <3>3, EventOfType DEF IsTrace
      <4> QED
        BY <2>4, <3>3, <4>1, <4>2 DEF TraceOf, ControlOp
    <3> QED
      BY <2>2, <2>3, <3>1, <3>2, <3>3 DEF TracedBy
  <2>6. PICK n : n = Len(log)
    OBVIOUS
  <2>7. Enabled(a, n)'
    BY <1>1, <1>2, <2>5, <2>6, EnabledKept
  <2> QED
    BY <2>3, <2>6, <2>7 DEF Enabled
<1> QED
  BY <1>2, <1>3, <1>4

\* Nothing of an actor's tracing changes.
Quiet(a) == UNCHANGED <<pc[a], turn[a], options[a]>>

\* The task of an actor goes on, but not towards an event.
Aside(a) ==
  /\ UNCHANGED options[a]
  /\ ~InTurn(a, "TraceOn", <<"record", "answer">>)
  /\ ~InTurn(a, "TraceOff", <<"set", "answer">>)
  /\ pc'[a] # "received" /\ ~Doing(a, "record")'

\* The steps of a task that do not touch its traces.
LEMMA SideSteps ==
  ASSUME TypeOK, NEW a \in Actor,
         \/ Spawn(a) \/ InitStarts(a) \/ LoopTop(a) \/ Select(a) \/ Park(a)
         \/ NotifyIdle(a) \/ Wake(a) \/ TraceReceived(a) \/ HandleStarts(a)
         \/ Answer(a) \/ HandlerPushes(a) \/ TurnEnds(a) \/ TurnStops(a)
         \/ Finalize(a) \/ WakeActor(a) \/ \E b \in Actor : HandlerSends(a, b)
  PROVE  Aside(a)
<1>1. /\ TaskOK /\ pc \in [Actor -> PC] /\ turn \in [Actor -> Turn]
      /\ TurnFits(pc[a], turn[a])
  BY DEF TypeOK, TaskOK
<1>2. CASE \/ Spawn(a) \/ LoopTop(a) \/ Select(a) \/ Park(a) \/ NotifyIdle(a)
           \/ Wake(a) \/ TraceReceived(a) \/ Finalize(a) \/ WakeActor(a)
  BY <1>1, <1>2
     DEF Spawn, LoopTop, Select, Park, NotifyIdle, Wake, TraceReceived,
         Finalize, WakeActor, Goes, Aside, InTurn, Doing
<1>3. CASE InitStarts(a)
  BY <1>1, <1>3 DEF InitStarts, Goes, Aside, InTurn, Doing
<1>4. CASE TurnEnds(a) \/ TurnStops(a)
  <2>1. turn[a].todo = <<>> \/ turn[a].op \in {"User", "Init"}
    BY <1>4 DEF TurnEnds, TurnStops
  <2>2. pc'[a] \in {"ended", "exiting"} /\ UNCHANGED options
    BY <1>1, <1>4 DEF TurnEnds, TurnStops, Goes
  <2>3. <<>> # <<"record", "answer">> /\ <<>> # <<"set", "answer">>
    OBVIOUS
  <2> QED
    BY <2>1, <2>2, <2>3 DEF Aside, InTurn, Doing
<1>5. CASE HandleStarts(a)
  <2>1. PICK op, ok :
          /\ op = turn[a].op /\ ok \in BOOLEAN
          /\ turn'[a].op = op
          /\ turn'[a].todo = IF ok THEN Plan(op) ELSE <<"answer">>
    <3>1. PICK ok \in BOOLEAN :
            turn' = [turn EXCEPT ![a] =
              [op |-> turn[a].op, ok |-> ok, request |-> turn[a].request,
               traced |-> options[a] # "none", wanted |-> turn[a].wanted,
               options |-> turn[a].wanted,
               todo |-> IF ok THEN Plan(turn[a].op) ELSE <<"answer">>]]
      BY <1>5 DEF HandleStarts
    <3> QED
      BY <1>1, <3>1
  <2>2. op \in ControlOp \cup {"User"}
    BY <1>1, <1>5, <2>1 DEF HandleStarts, Goes, TurnFits, Envelope
  <2>3. Plan(op) = <<>> \/ Head(Plan(op)) # "record"
    BY <2>2 DEF Plan, ControlOp, Request
  <2>4. ~Doing(a, "record")'
    BY <2>1, <2>3 DEF Doing
  <2> QED
    BY <1>1, <1>5, <2>4 DEF HandleStarts, Goes, Aside, InTurn
<1>6. CASE Answer(a)
  <2>1. /\ turn[a] \in HandlerTurn /\ turn[a].op \in ControlOp
        /\ turn[a].todo \in Left(turn[a].op) /\ turn[a].todo # <<>>
        /\ Head(turn[a].todo) = "answer"
    BY <1>1, <1>6, DoingControl DEF Answer, Doing
  <2>2. turn'[a].todo = <<>> \/ turn'[a].todo = Tail(turn[a].todo)
    <3>1. PICK todo : /\ todo = <<>> \/ todo = Tail(turn[a].todo)
                      /\ turn' = [turn EXCEPT ![a].todo = todo]
      BY <1>6 DEF Answer
    <3> QED
      BY <1>1, <2>1, <3>1 DEF HandlerTurn
  <2>3. turn[a].todo = <<"answer">> \/ turn[a].todo = <<"answer", "read", "record">>
    <3>1. PICK op, todo : op = turn[a].op /\ todo = turn[a].todo
      OBVIOUS
    <3> QED
      BY <2>1, <3>1, LeftHeads
  <2>4. ~Doing(a, "record")'
    <3>1. /\ Tail(<<"answer">>) = <<>>
          /\ Tail(<<"answer", "read", "record">>) = <<"read", "record">>
          /\ Head(<<"read", "record">>) = "read"
      OBVIOUS
    <3>2. turn'[a].todo = <<>> \/ turn'[a].todo = <<"read", "record">>
      BY <2>2, <2>3, <3>1
    <3> QED
      BY <3>1, <3>2 DEF Doing
  <2>5. /\ <<"answer">> # <<"record", "answer">>
        /\ <<"answer">> # <<"set", "answer">>
        /\ <<"answer", "read", "record">> # <<"record", "answer">>
        /\ <<"answer", "read", "record">> # <<"set", "answer">>
    OBVIOUS
  <2>6. pc'[a] = "turn" /\ UNCHANGED options
    BY <1>6 DEF Answer, Doing
  <2> QED
    BY <2>3, <2>4, <2>5, <2>6 DEF Aside, InTurn
<1>7. CASE HandlerPushes(a) \/ \E b \in Actor : HandlerSends(a, b)
  <2>1. turn[a] \in HandlerTurn /\ turn[a].op \in {"User", "Sending"}
    BY <1>1, <1>7 DEF HandlerPushes, HandlerSends, TurnFits, InitTurn
  <2>2. turn'[a].op = "Sending" \/ turn'[a].todo = <<>>
    BY <1>1, <1>7, <2>1 DEF HandlerPushes, HandlerSends, HandlerTurn
  <2>3. ~Doing(a, "record")'
    BY <2>2 DEF Doing
  <2> QED
    BY <1>1, <1>7, <2>1, <2>3 DEF HandlerPushes, HandlerSends, Aside, InTurn
<1> QED
  BY <1>2, <1>3, <1>4, <1>5, <1>6, <1>7

\* A step is one of the actor's, or leaves its tracing alone.
OwnStep(a) ==
  \/ Task(a) \/ Spawn(a) \/ TurnStops(a) \/ WakeActor(a)
  \/ \E b \in Actor : HandlerSends(a, b)

\* The step of another task leaves the tracing of an actor alone.
LEMMA OthersQuiet ==
  ASSUME TypeOK, [Next]_vars, NEW a \in Actor
  PROVE  Quiet(a) \/ OwnStep(a)
<1>1. /\ pc \in [Actor -> PC] /\ turn \in [Actor -> Turn]
      /\ options \in [Actor -> Options]
  BY DEF TypeOK, TaskOK
<1>2. CASE UNCHANGED <<pc, turn, options>>
  BY <1>2 DEF Quiet
<1>3. ASSUME NEW x \in Actor \ {a},
             \/ InitStarts(x) \/ LoopTop(x) \/ Select(x) \/ Park(x)
             \/ NotifyIdle(x) \/ Wake(x) \/ TurnStarts(x) \/ TraceReceived(x)
             \/ HandleStarts(x)
      PROVE  Quiet(a)
  BY <1>1, <1>3
     DEF InitStarts, LoopTop, Select, Park, NotifyIdle, Wake, TurnStarts,
         TraceReceived, HandleStarts, Goes, Quiet
<1>4. ASSUME NEW x \in Actor \ {a},
             \/ ReadOptions(x) \/ SetOptions(x) \/ RecordTrace(x) \/ Answer(x)
             \/ HandlerPushes(x) \/ TurnEnds(x) \/ Finalize(x)
      PROVE  Quiet(a)
  BY <1>1, <1>4
     DEF ReadOptions, SetOptions, RecordTrace, Answer, HandlerPushes,
         TurnEnds, Finalize, Goes, Quiet
<1>5. ASSUME NEW x \in Actor \ {a},
             \/ Spawn(x) \/ TurnStops(x) \/ WakeActor(x)
             \/ \E b \in Actor : HandlerSends(x, b)
      PROVE  Quiet(a)
  BY <1>1, <1>5 DEF Spawn, TurnStops, WakeActor, HandlerSends, Goes, Quiet
<1>6. ASSUME NEW x \in Actor,
             \/ SendUser(x) \/ ExitActor(x) \/ ParkActor(x)
             \/ \E op \in Request : Control(x, op, "none")
             \/ \E o \in Options : Control(x, "TraceOn", o)
      PROVE  UNCHANGED <<pc, turn, options>>
  BY <1>6 DEF SendUser, ExitActor, ParkActor, Control
<1>7. CASE HostThread \/ UNCHANGED vars
  <2>1. UNCHANGED <<pc, turn, options>>
    BY <1>7
       DEF HostThread, ControlGivesUp, OpenCursor, EventsSince, Introspect,
           ObserveLive, ObserveCompleted, ObserveQueues, WaitForIdle,
           WaiterChecks, actors, vars
  <2> QED
    BY <1>2, <2>1
<1>8. ASSUME NEW x \in Actor, OwnStep(x) PROVE Quiet(a) \/ OwnStep(a)
  <2>1. CASE x = a
    BY <1>8, <2>1
  <2>2. CASE x # a
    BY <1>3, <1>4, <1>5, <1>8, <2>2 DEF Task, OwnStep
  <2> QED
    BY <2>1, <2>2
<1> QED
  BY <1>2, <1>6, <1>7, <1>8 DEF Next, OwnStep

\* What a step does to the tracing of an actor.
LEMMA TraceCases ==
  ASSUME TypeOK, [Next]_vars, NEW a \in Actor
  PROVE  Quiet(a) \/ Aside(a) \/ TurnStarts(a) \/ ReadOptions(a)
           \/ SetOptions(a) \/ RecordTrace(a)
BY OthersQuiet, SideSteps DEF OwnStep, Task

\* What a step does to the turn of an actor.
Apart(a) ==
  \/ turn'[a].op \notin ControlOp
  \/ pc'[a] # "turn" /\ (UNCHANGED turn[a] \/ Select(a))

\* What a step does to the turn of an actor, by what goes on in it.
LEMMA TurnCases ==
  ASSUME TypeOK, [Next]_vars, NEW a \in Actor
  PROVE  Quiet(a) \/ Apart(a) \/ HandleStarts(a) \/ ReadOptions(a)
           \/ SetOptions(a) \/ RecordTrace(a) \/ Answer(a)
<1>1. /\ pc \in [Actor -> PC] /\ turn \in [Actor -> Turn]
      /\ TurnFits(pc[a], turn[a])
  BY DEF TypeOK, TaskOK
<1>2. CASE \/ Spawn(a) \/ LoopTop(a) \/ Park(a) \/ NotifyIdle(a) \/ Wake(a)
           \/ TurnStarts(a) \/ TraceReceived(a) \/ TurnStops(a) \/ WakeActor(a)
  <2>1. UNCHANGED turn[a] /\ pc'[a] # "turn"
    BY <1>1, <1>2
       DEF Spawn, LoopTop, Park, NotifyIdle, Wake, TurnStarts, TraceReceived,
           TurnStops, WakeActor, Goes
  <2> QED
    BY <2>1 DEF Apart
<1>3. CASE Select(a)
  <2>1. pc'[a] # "turn"
    BY <1>1, <1>3 DEF Select, Goes
  <2> QED
    BY <1>3, <2>1 DEF Apart
<1>4. CASE InitStarts(a) \/ TurnEnds(a) \/ Finalize(a)
  <2>1. turn'[a].op \in {"Init", "none"}
    BY <1>1, <1>4 DEF InitStarts, TurnEnds, Finalize, NoTurn
  <2> QED
    BY <2>1 DEF Apart, ControlOp, Request
<1>5. CASE HandlerPushes(a) \/ \E b \in Actor : HandlerSends(a, b)
  <2>1. turn[a] \in HandlerTurn
    BY <1>1, <1>5 DEF HandlerPushes, HandlerSends, TurnFits, InitTurn
  <2>2. turn'[a].op \in {"User", "Sending"}
    BY <1>1, <1>5, <2>1 DEF HandlerPushes, HandlerSends, HandlerTurn
  <2> QED
    BY <2>2 DEF Apart, ControlOp, Request
<1> QED
  BY <1>2, <1>3, <1>4, <1>5, OthersQuiet DEF OwnStep, Task
-----------------------------------------------------------------------------
(* Requests of the host.                                                   *)

\* A message of the host's current request is the one the host has sent.
Sound(a, m) ==
  /\ m.request <= requests
  /\ m.op \in Request => m.wanted = "none"
  /\ (m.op \in ControlOp /\ host.step = "waiting" /\ m.request = host.request)
       => m.op = host.op /\ a = host.actor

\* Requests are numbered, and the host waits for one of its own.
RequestInv ==
  /\ host.step # "away" => host.request <= requests /\ host.since <= Len(log)
  /\ \A a \in Actor : \A i \in DOMAIN mailbox[a] : Sound(a, mailbox[a][i])
  /\ \A a \in Actor : turn[a].op \in ControlOp => Sound(a, turn[a])

\* The host waits for the request it waited for, or for a new one.
LEMMA HostMoves ==
  ASSUME TypeOK, RequestInv, [Next]_vars
  PROVE  /\ requests \in Nat /\ requests' \in Nat /\ requests <= requests'
         /\ host'.step = "waiting" =>
              host' = host \/ host'.request > requests
         /\ host'.step # "away" =>
              host'.request <= requests' /\ host'.since <= Len(log')
<1>1. /\ requests \in Nat /\ HostOK /\ LogGrows /\ TypeOK'
      /\ Len(log) \in Nat /\ Len(log') \in Nat /\ Len(log) <= Len(log')
      /\ host.step # "away" =>
           /\ host.request <= requests /\ host.since <= Len(log)
           /\ host.request \in Nat /\ host.since \in Nat
  BY LogStep, TypeStep DEF TypeOK, MailOK, HostOK, LogGrows, RequestInv
<1>2. requests' \in Nat /\ requests <= requests'
  <2>1. ASSUME NEW a \in Actor,
               Select(a) \/ Finalize(a) \/ SendUser(a) \/ HandlerPushes(a)
        PROVE  requests' = requests
    BY <2>1 DEF Select, Finalize, SendUser, HandlerPushes, bounds
  <2>2. ASSUME NEW a \in Actor, NEW op \in ControlOp, NEW o \in Options,
               Control(a, op, o)
        PROVE  requests' = requests + 1
    BY <2>2 DEF Control
  <2>3. requests' = requests \/ requests' = requests + 1
    BY <2>1, <2>2, MailCases
  <2> QED
    BY <1>1, <2>3
<1>3. CASE UNCHANGED host
  BY <1>1, <1>2, <1>3
<1>4. CASE ControlGivesUp
  <2>1. /\ host'.step = "given_up" /\ host.step = "waiting"
        /\ host'.request = host.request /\ host'.since = host.since
    BY <1>1, <1>4 DEF ControlGivesUp, HostOK
  <2> QED
    BY <1>1, <1>2, <2>1
<1>5. ASSUME NEW a \in Actor, Answer(a), ~UNCHANGED host
      PROVE  /\ host'.step \in {"ok", "error"} /\ host.step = "waiting"
             /\ host'.request = host.request /\ host'.since = host.since
  <2>1. PICK outcome, traced :
          /\ outcome \in {"ok", "error"} /\ host.step = "waiting"
          /\ host' = [host EXCEPT !.step = outcome, !.traced = traced]
    <3>1. host.step = "waiting"
      BY <1>5 DEF Answer
    <3>2. CASE turn[a].ok
      <4>1. host' = [host EXCEPT !.step = "ok", !.traced = turn[a].traced]
        BY <1>5, <3>2 DEF Answer
      <4> QED
        BY <3>1, <4>1
    <3>3. CASE ~turn[a].ok
      <4>1. host' = [host EXCEPT !.step = "error", !.traced = turn[a].traced]
        BY <1>5, <3>3 DEF Answer
      <4> QED
        BY <3>1, <4>1
    <3> QED
      BY <3>2, <3>3
  <2> QED
    BY <1>1, <2>1 DEF HostOK
<1>6. ASSUME NEW a \in Actor, NEW op \in ControlOp, NEW o \in Options,
             Control(a, op, o)
      PROVE  /\ host'.request = requests' /\ requests' = requests + 1
             /\ host'.since = Len(log)
  BY <1>6 DEF Control
<1> QED
  BY <1>1, <1>2, <1>3, <1>4, <1>5, <1>6, HostCases

\* A sound message stays sound: the host's later requests are others.
LEMMA SoundKept ==
  ASSUME TypeOK, RequestInv, [Next]_vars, NEW a \in Actor, NEW m,
         m.request \in Nat, Sound(a, m)
  PROVE  Sound(a, m)'
<1>1. /\ requests \in Nat /\ requests' \in Nat /\ requests <= requests'
      /\ host'.step = "waiting" => host' = host \/ host'.request > requests
      /\ host'.step = "waiting" => host'.request \in Nat
  <2>1. HostOK'
    BY TypeStep DEF TypeOK
  <2> QED
    BY <2>1, HostMoves DEF HostOK
<1> QED
  BY <1>1 DEF Sound

\* Where a message that is being handled comes from.
LEMMA TurnSource ==
  ASSUME TypeOK, [Next]_vars, NEW a \in Actor, turn'[a].op \in ControlOp
  PROVE  \/ /\ turn[a].op = turn'[a].op /\ turn[a].request = turn'[a].request
            /\ turn[a].wanted = turn'[a].wanted
         \/ \E i \in DOMAIN mailbox[a] : turn'[a] = mailbox[a][i]
<1>1. /\ TaskOK /\ pc \in [Actor -> PC] /\ turn \in [Actor -> Turn]
      /\ TurnFits(pc[a], turn[a])
  BY DEF TypeOK, TaskOK
<1>2. CASE UNCHANGED turn[a]
  BY <1>2
<1>3. CASE Select(a)
  BY <1>1, <1>3 DEF Select
<1>4. CASE HandleStarts(a)
  <2>1. PICK ok, todo :
          turn' = [turn EXCEPT ![a] =
             [op |-> turn[a].op, ok |-> ok, request |-> turn[a].request,
              traced |-> options[a] # "none", wanted |-> turn[a].wanted,
              options |-> turn[a].wanted, todo |-> todo]]
    BY <1>4 DEF HandleStarts
  <2> QED
    BY <1>1, <2>1
<1>5. CASE ReadOptions(a) \/ SetOptions(a) \/ RecordTrace(a) \/ Answer(a)
  <2>1. PICK step : Doing(a, step)
    BY <1>5 DEF ReadOptions, SetOptions, RecordTrace, Answer
  <2>2. turn[a] \in HandlerTurn
    BY <1>1, <2>1, DoingControl
  <2>3. PICK o, todo :
          \/ turn' = [turn EXCEPT ![a].todo = todo]
          \/ turn' = [turn EXCEPT ![a].options = o, ![a].todo = todo]
    BY <1>5 DEF ReadOptions, SetOptions, RecordTrace, Answer
  <2> QED
    BY <1>1, <2>2, <2>3 DEF HandlerTurn
<1> QED
  BY <1>2, <1>3, <1>4, <1>5, TurnCases DEF Quiet, Apart

\* Every step keeps the requests apart.
LEMMA RequestStep ==
  ASSUME TypeOK, RequestInv, [Next]_vars
  PROVE  RequestInv'
<1>1. /\ mailbox \in [Actor -> Seq(Envelope)] /\ requests \in Nat
      /\ requests' \in Nat /\ turn \in [Actor -> Turn]
      /\ "none" \in Options
  BY HostMoves DEF TypeOK, MailOK, TaskOK, Options
<1>2. ASSUME NEW a \in Actor, NEW i \in DOMAIN mailbox[a]
      PROVE  Sound(a, mailbox[a][i]) /\ mailbox[a][i].request \in Nat
  <2>1. mailbox[a] \in Seq(Envelope)
    BY <1>1
  <2>2. mailbox[a][i] \in Envelope
    BY <2>1, LenProperties, ElementOfSeq
  <2> QED
    BY <2>2 DEF RequestInv, Envelope
<1>3. ASSUME NEW a \in Actor, NEW m,
             \E i \in DOMAIN mailbox[a] : m = mailbox[a][i]
      PROVE  Sound(a, m)'
  BY <1>2, <1>3, SoundKept
<1>4. ASSUME NEW a \in Actor, NEW i \in DOMAIN mailbox'[a]
      PROVE  Sound(a, mailbox[a][i])'
  <2>1. PICK m : m = mailbox'[a][i]
    OBVIOUS
  <2> SUFFICES Sound(a, m)'
    BY <2>1 DEF Sound
  <2>2. CASE UNCHANGED <<mailbox, requests>>
    BY <1>3, <2>1, <2>2
  <2>3. ASSUME NEW b \in Actor, Select(b) PROVE Sound(a, m)'
    <3>1. \/ mailbox' = mailbox
          \/ \E k \in DOMAIN mailbox[b] :
               mailbox' = [mailbox EXCEPT ![b] = RemoveEntry(@, k)]
      BY <2>3 DEF Select
    <3>2. \E k \in DOMAIN mailbox[a] : m = mailbox[a][k]
      BY <2>1, <3>1, SelectedMail
    <3> QED
      BY <1>3, <3>2
  <2>4. ASSUME NEW b \in Actor, Finalize(b) PROVE Sound(a, m)'
    <3>1. a # b /\ mailbox'[a] = mailbox[a]
      BY <1>1, <1>4, <2>4 DEF Finalize
    <3> QED
      BY <1>3, <2>1, <3>1
  <2>5. ASSUME NEW b \in Actor, NEW op \in ControlOp \cup {"User"},
               NEW wanted \in Options, Pushed(b, Message(op, wanted)),
               op \in Request => wanted = "none",
               op \in ControlOp => host'.op = op /\ host'.actor = b
        PROVE  Sound(a, m)'
    <3>1. \/ i \in DOMAIN mailbox[a] /\ m = mailbox[a][i]
          \/ b = a /\ m = Message(op, wanted)
      BY <1>1, <2>1, <2>5, PushedMail
    <3>2. CASE b = a /\ m = Message(op, wanted)
      <4>1. m.op = op /\ m.wanted = wanted /\ m.request = requests'
        BY <3>2 DEF Message
      <4> QED
        BY <1>1, <2>5, <3>2, <4>1 DEF Sound
    <3> QED
      BY <1>3, <3>1, <3>2
  <2>6. "User" \notin ControlOp /\ "User" \notin Request
    BY DEF ControlOp, Request
  <2>7. ASSUME NEW b \in Actor, SendUser(b) \/ HandlerPushes(b)
        PROVE  Sound(a, m)'
    <3>1. CASE SendUser(b)
      BY <1>1, <2>5, <2>6, <3>1 DEF SendUser
    <3>2. CASE HandlerPushes(b)
      <4>1. Head(turn[b].todo) \in Actor
        <5>1. turn[b].todo \in Left("Sending")
          BY <3>2 DEF HandlerPushes, TypeOK, TaskOK, TurnFits
        <5> QED
          BY <5>1 DEF Left
      <4> QED
        BY <1>1, <2>2, <2>5, <2>6, <3>2, <4>1 DEF HandlerPushes
    <3> QED
      BY <2>7, <3>1, <3>2
  <2>8. ASSUME NEW b \in Actor, NEW op \in ControlOp, NEW o \in Options,
               Control(b, op, o), op \in Request => o = "none"
        PROVE  Sound(a, m)'
    <3>1. Pushed(b, Message(op, o)) /\ host'.op = op /\ host'.actor = b
      BY <2>8 DEF Control
    <3> QED
      BY <2>5, <2>8, <3>1
  <2> QED
    BY <2>2, <2>3, <2>4, <2>7, <2>8, MailCases
<1>5. ASSUME NEW a \in Actor, turn'[a].op \in ControlOp
      PROVE  Sound(a, turn[a])'
  <2>1. CASE /\ turn[a].op = turn'[a].op
             /\ turn[a].request = turn'[a].request
             /\ turn[a].wanted = turn'[a].wanted
    <3>1. PICK m : m = turn[a]
      OBVIOUS
    <3>2. Sound(a, m)
      BY <1>5, <2>1, <3>1 DEF RequestInv
    <3>3. m.request \in Nat
      BY <1>1, <1>5, <2>1, <3>1
         DEF Turn, NoTurn, InitTurn, Envelope, HandlerTurn, ControlOp, Request
    <3>4. Sound(a, m)'
      BY <3>2, <3>3, SoundKept
    <3> QED
      BY <2>1, <3>1, <3>4 DEF Sound
  <2>2. CASE \E i \in DOMAIN mailbox[a] : turn'[a] = mailbox[a][i]
    <3>1. PICK m : m = turn'[a]
      OBVIOUS
    <3>2. Sound(a, m)'
      BY <1>3, <2>2, <3>1
    <3> QED
      BY <3>1, <3>2 DEF Sound
  <2> QED
    BY <1>5, <2>1, <2>2, TurnSource
<1> QED
  BY <1>4, <1>5, HostMoves DEF RequestInv
-----------------------------------------------------------------------------
(* The invariant of the traces.                                            *)

\* Every step keeps an actor that may be traced in its marks.
LEMMA TraceOfStep ==
  ASSUME TypeOK, RequestInv, TraceInv, [Next]_vars, NEW a \in Actor
  PROVE  TraceOf(a)'
<1>1. /\ LogGrows /\ TaskOK /\ TraceOf(a)
      /\ pc \in [Actor -> PC] /\ turn \in [Actor -> Turn]
      /\ options \in [Actor -> Options]
      /\ Len(log) \in Nat
  BY LogStep DEF TypeOK, TaskOK, TraceInv, LogGrows
<1>2. (Enabled(a, Len(log)) /\ ~(RecordTrace(a) /\ turn[a].op = "TraceOff"))
        => Enabled(a, Len(log))'
  BY <1>1, EnabledStays
<1>3. ASSUME NEW step, Doing(a, step)
      PROVE  /\ turn[a] \in HandlerTurn /\ turn[a].op \in ControlOp
             /\ turn[a].todo \in Left(turn[a].op) /\ turn[a].todo # <<>>
             /\ Head(turn[a].todo) = step /\ pc[a] = "turn"
  BY <1>1, <1>3, DoingControl DEF Doing
<1>4. CASE RecordTrace(a)
  <2>1. PICK op, todo : op = turn[a].op /\ todo = turn[a].todo
    OBVIOUS
  <2>2. /\ op \in ControlOp /\ todo \in Left(op) /\ todo # <<>>
        /\ Head(todo) = "record" /\ pc[a] = "turn"
        /\ turn[a] \in HandlerTurn
    BY <1>3, <1>4, <2>1 DEF RecordTrace
  <2>3. \/ op = "TraceOn" /\ todo = <<"record", "answer">>
        \/ op = "TraceOff" /\ todo = <<"record", "set", "answer">>
        \/ op = "GetState" /\ todo = <<"record">>
        \/ op = "ReplaceState" /\ todo = <<"record", "answer">>
    BY <2>2, LeftHeads
  <2>4. /\ pc' = pc /\ options' = options /\ turn'[a].op = op
        /\ turn'[a].todo = Tail(todo)
    BY <1>1, <1>4, <2>1, <2>2 DEF RecordTrace, HandlerTurn
  <2>5. /\ Tail(<<"record", "answer">>) = <<"answer">>
        /\ Tail(<<"record", "set", "answer">>) = <<"set", "answer">>
        /\ Tail(<<"record">>) = <<>>
        /\ Head(<<"set", "answer">>) = "set" /\ Head(<<"answer">>) = "answer"
        /\ <<"record">> # <<"set", "answer">>
        /\ <<"record", "answer">> # <<"set", "answer">>
    OBVIOUS
  <2>6. ~Doing(a, "record")' /\ pc'[a] = "turn"
    BY <2>2, <2>3, <2>4, <2>5 DEF Doing
  <2>7. CASE op = "TraceOn"
    <3>1. log' = Recorded(<<TraceEvent("TraceEnabled", a)>>)
      BY <1>4, <2>1, <2>7, EventOfType DEF RecordTrace
    <3>2. /\ Len(log') = Len(log) + 1
          /\ log'[Len(log) + 1] =
               [seq |-> Len(log) + 1, kind |-> "TraceEnabled", actor |-> a]
      BY <1>1, <3>1, RecordedOne DEF TraceEvent, Kind, LogGrows
    <3>3. Enabled(a, Len(log))'
      <4>1. /\ Len(log) + 1 \in 1..Len(log')
            /\ \A k \in (Len(log) + 1 + 1)..Len(log') : FALSE
        BY <1>1, <3>2
      <4> QED
        BY <3>2, <4>1 DEF Enabled
    <3> QED
      BY <2>6, <3>3 DEF TraceOf
  <2>8. CASE op = "TraceOff"
    <3>1. InTurn(a, "TraceOff", <<"set", "answer">>)'
      BY <2>2, <2>3, <2>4, <2>5, <2>8 DEF InTurn
    <3> QED
      BY <2>6, <3>1 DEF TraceOf
  <2>9. CASE op \in {"GetState", "ReplaceState"}
    <3>1. ~InTurn(a, "TraceOn", <<"record", "answer">>)
            /\ ~InTurn(a, "TraceOff", <<"set", "answer">>)
      BY <2>1, <2>9 DEF InTurn
    <3>2. Enabled(a, Len(log)) => Enabled(a, Len(log))'
      BY <1>2, <2>1, <2>9
    <3> QED
      BY <1>1, <2>4, <2>6, <3>1, <3>2 DEF TraceOf
  <2> QED
    BY <2>2, <2>7, <2>8, <2>9 DEF ControlOp, Request
<1>5. CASE ~RecordTrace(a) /\ Quiet(a)
  <2>1. Enabled(a, Len(log)) => Enabled(a, Len(log))'
    BY <1>2, <1>5
  <2> QED
    BY <1>1, <1>5, <2>1 DEF Quiet, TraceOf, InTurn, Doing
<1>6. CASE ~RecordTrace(a) /\ Aside(a)
  <2>1. Enabled(a, Len(log)) => Enabled(a, Len(log))'
    BY <1>2, <1>6
  <2> QED
    BY <1>1, <1>6, <2>1 DEF Aside, TraceOf
<1>7. CASE ~RecordTrace(a) /\ TurnStarts(a)
  <2>1. Enabled(a, Len(log)) => Enabled(a, Len(log))'
    BY <1>2, <1>7
  <2>2. /\ pc[a] = "got" /\ options' = options
        /\ pc'[a] = IF options[a] = "all" THEN "received" ELSE "handle"
    BY <1>1, <1>7 DEF TurnStarts, Goes
  <2>3. options[a] # "none" => Enabled(a, Len(log))'
    BY <1>1, <2>1, <2>2 DEF TraceOf, InTurn
  <2>4. ~Doing(a, "record")'
    BY <2>2 DEF Doing
  <2> QED
    BY <2>2, <2>3, <2>4 DEF TraceOf
<1>8. CASE ~RecordTrace(a) /\ ReadOptions(a)
  <2>1. Enabled(a, Len(log)) => Enabled(a, Len(log))'
    BY <1>2, <1>8
  <2>2. PICK op, todo : op = turn[a].op /\ todo = turn[a].todo
    OBVIOUS
  <2>3. /\ op \in ControlOp /\ todo \in Left(op) /\ todo # <<>>
        /\ Head(todo) = "read" /\ pc[a] = "turn" /\ turn[a] \in HandlerTurn
    BY <1>3, <1>8, <2>2 DEF ReadOptions
  <2>4. /\ op \in Request
        /\ todo \in {<<"read", "record", "set", "answer">>,
                     <<"read", "record">>, <<"read", "record", "answer">>}
    BY <2>3, LeftHeads DEF Request
  <2>5. /\ pc' = pc /\ options' = options
        /\ turn'[a].options = options[a]
    BY <1>1, <1>8, <2>3 DEF ReadOptions, HandlerTurn
  <2>6. ~InTurn(a, "TraceOn", <<"record", "answer">>)
          /\ ~InTurn(a, "TraceOff", <<"set", "answer">>)
    <3>1. /\ Head(<<"record", "answer">>) # "read"
          /\ Head(<<"set", "answer">>) # "read"
      OBVIOUS
    <3> QED
      BY <2>2, <2>3, <3>1 DEF InTurn
  <2>7. options[a] # "none" => Enabled(a, Len(log))'
    BY <1>1, <2>1, <2>6 DEF TraceOf
  <2> QED
    BY <2>3, <2>5, <2>7 DEF TraceOf
<1>9. CASE ~RecordTrace(a) /\ SetOptions(a)
  <2>1. PICK op, todo : op = turn[a].op /\ todo = turn[a].todo
    OBVIOUS
  <2>2. /\ op \in ControlOp /\ todo \in Left(op) /\ todo # <<>>
        /\ Head(todo) = "set" /\ pc[a] = "turn" /\ turn[a] \in HandlerTurn
    BY <1>3, <1>9, <2>1 DEF SetOptions
  <2>3. \/ op = "TraceOn" /\ todo = <<"set", "record", "answer">>
        \/ op = "TraceOff" /\ todo = <<"set", "answer">>
    BY <2>2, LeftHeads
  <2>4. /\ pc' = pc /\ options'[a] = turn[a].wanted
        /\ turn'[a].op = op /\ turn'[a].todo = Tail(todo)
    BY <1>1, <1>9, <2>1, <2>2 DEF SetOptions, HandlerTurn
  <2>5. /\ Tail(<<"set", "record", "answer">>) = <<"record", "answer">>
        /\ Tail(<<"set", "answer">>) = <<"answer">>
        /\ Head(<<"answer">>) = "answer"
    OBVIOUS
  <2>6. CASE op = "TraceOn"
    <3>1. InTurn(a, "TraceOn", <<"record", "answer">>)'
      BY <2>2, <2>3, <2>4, <2>5, <2>6 DEF InTurn
    <3>2. turn'[a].op \notin Request
      BY <2>4, <2>6 DEF Request
    <3> QED
      BY <2>2, <2>4, <3>1, <3>2 DEF TraceOf
  <2>7. CASE op = "TraceOff"
    <3>1. options'[a] = "none"
      <4>1. Sound(a, turn[a])
        BY <2>1, <2>2 DEF RequestInv
      <4> QED
        BY <2>1, <2>4, <2>7, <4>1 DEF Sound, Request
    <3>2. ~Doing(a, "record")'
      BY <2>3, <2>4, <2>5, <2>7 DEF Doing
    <3> QED
      BY <2>2, <2>4, <3>1, <3>2 DEF TraceOf
  <2> QED
    BY <2>3, <2>6, <2>7
<1> QED
  BY <1>4, <1>5, <1>6, <1>7, <1>8, <1>9, TraceCases

\* Every step keeps the traces in their marks.
LEMMA TraceStep ==
  ASSUME TypeOK, RequestInv, TraceInv, [Next]_vars
  PROVE  TraceInv'
BY EventsStand, TraceOfStep DEF TraceInv
-----------------------------------------------------------------------------
(* The host that has its answer finds the event.                           *)

\* An actor has reported to the log, after a place in it.
Noted(op, a, n) ==
  \E i \in (n + 1)..Len(log) :
    log[i].kind = EventOf(op) /\ log[i].actor = a

Reported == {"TraceOn", "TraceOff", "ReplaceState"}

\* A turn that has still to report something knows if the actor is traced.
Knowing(a) ==
  turn[a].op \in {"TraceOff", "ReplaceState"} =>
    /\ Doing(a, "read") => (turn[a].traced <=> options[a] # "none")
    /\ Doing(a, "record") => (turn[a].traced <=> turn[a].options # "none")

\* A turn that has nothing left to report has reported what it had to.
Reporting(a) ==
  (/\ pc[a] = "turn" /\ turn[a].op \in Reported
   /\ turn[a].ok /\ turn[a].todo \in {<<"answer">>, <<"set", "answer">>}
   /\ turn[a].op = "TraceOn" \/ turn[a].traced
   /\ host.step = "waiting" /\ host.request = turn[a].request)
    => Noted(turn[a].op, a, host.since)

\* An answer follows the report, in the turn and at the host.
AnswerInv ==
  /\ \A a \in Actor : Knowing(a) /\ Reporting(a)
  /\ (host.step = "ok" /\ host.op \in Reported
        /\ (host.op = "TraceOn" \/ host.traced)) =>
       Noted(host.op, host.actor, host.since)

\* What has been reported stays reported.
LEMMA NotedStays ==
  ASSUME LogGrows, NEW op, NEW a, NEW n \in Nat, Noted(op, a, n)
  PROVE  Noted(op, a, n)'
<1>1. PICK i \in (n + 1)..Len(log) :
        log[i].kind = EventOf(op) /\ log[i].actor = a
  BY DEF Noted
<1>2. i \in 1..Len(log) /\ i \in (n + 1)..Len(log')
  BY DEF LogGrows
<1> QED
  BY <1>1, <1>2 DEF Noted, LogGrows

\* A turn goes on with what is left to do, and its request stays what it was.
LEMMA TurnContinues ==
  ASSUME TypeOK, NEW a \in Actor,
         ReadOptions(a) \/ SetOptions(a) \/ RecordTrace(a) \/ Answer(a)
  PROVE  /\ turn[a] \in HandlerTurn /\ turn[a].op \in ControlOp
         /\ turn[a].todo \in Left(turn[a].op) /\ turn[a].todo # <<>>
         /\ pc[a] = "turn"
         /\ turn'[a].op = turn[a].op /\ turn'[a].request = turn[a].request
         /\ turn'[a].ok = turn[a].ok /\ turn'[a].traced = turn[a].traced
         /\ turn'[a].todo = <<>> \/ turn'[a].todo = Tail(turn[a].todo)
         /\ turn'[a].options = turn[a].options
              \/ (ReadOptions(a) /\ turn'[a].options = options[a])
<1>1. TaskOK /\ turn \in [Actor -> Turn]
  BY DEF TypeOK, TaskOK
<1>2. PICK step : Doing(a, step)
  BY DEF ReadOptions, SetOptions, RecordTrace, Answer
<1>3. /\ turn[a] \in HandlerTurn /\ turn[a].op \in ControlOp
      /\ turn[a].todo \in Left(turn[a].op) /\ turn[a].todo # <<>>
      /\ pc[a] = "turn"
  BY <1>1, <1>2, DoingControl DEF Doing
<1>4. PICK o, rest :
        /\ o = turn[a].options \/ (ReadOptions(a) /\ o = options[a])
        /\ rest = <<>> \/ rest = Tail(turn[a].todo)
        /\ turn' = [turn EXCEPT ![a].options = o, ![a].todo = rest]
  <2>1. CASE ReadOptions(a)
    <3>1. turn' = [turn EXCEPT ![a].options = options[a],
                               ![a].todo = Tail(turn[a].todo)]
      BY <1>1, <1>3, <2>1 DEF ReadOptions, HandlerTurn
    <3> QED
      BY <2>1, <3>1
  <2>2. CASE SetOptions(a) \/ RecordTrace(a)
    <3>1. turn' = [turn EXCEPT ![a].options = turn[a].options,
                               ![a].todo = Tail(turn[a].todo)]
      BY <1>1, <1>3, <2>2 DEF SetOptions, RecordTrace, HandlerTurn
    <3> QED
      BY <3>1
  <2>3. CASE Answer(a)
    <3>1. PICK r : /\ r = <<>> \/ r = Tail(turn[a].todo)
                   /\ turn' = [turn EXCEPT ![a].todo = r]
      BY <2>3 DEF Answer
    <3>2. turn' = [turn EXCEPT ![a].options = turn[a].options, ![a].todo = r]
      BY <1>1, <1>3, <3>1 DEF HandlerTurn
    <3> QED
      BY <3>1, <3>2
  <2> QED
    BY <2>1, <2>2, <2>3
<1> QED
  BY <1>1, <1>3, <1>4 DEF HandlerTurn

\* A turn reads the options before they change: only it changes them.
LEMMA KnowingStep ==
  ASSUME TypeOK, AnswerInv, [Next]_vars, NEW a \in Actor
  PROVE  Knowing(a)'
<1>1. /\ TaskOK /\ Knowing(a) /\ TurnFits(pc[a], turn[a])
      /\ pc \in [Actor -> PC] /\ turn \in [Actor -> Turn]
      /\ options \in [Actor -> Options]
  BY DEF TypeOK, TaskOK, AnswerInv
<1>2. ASSUME NEW step, Doing(a, step)
      PROVE  /\ turn[a] \in HandlerTurn /\ turn[a].op \in ControlOp
             /\ turn[a].todo \in Left(turn[a].op) /\ turn[a].todo # <<>>
             /\ Head(turn[a].todo) = step /\ pc[a] = "turn"
  BY <1>1, <1>2, DoingControl DEF Doing
<1>3. CASE Quiet(a)
  BY <1>1, <1>3 DEF Quiet, Knowing, Doing
<1>4. CASE Apart(a)
  BY <1>4 DEF Apart, Knowing, Doing, ControlOp, Request
<1>5. CASE HandleStarts(a)
  <2>1. PICK op, ok :
          /\ ok \in BOOLEAN
          /\ turn' = [turn EXCEPT ![a] =
               [op |-> op, ok |-> ok, request |-> turn[a].request,
                traced |-> options[a] # "none", wanted |-> turn[a].wanted,
                options |-> turn[a].wanted,
                todo |-> IF ok THEN Plan(op) ELSE <<"answer">>]]
    BY <1>5 DEF HandleStarts
  <2>2. /\ turn'[a].op = op /\ turn'[a].traced = (options[a] # "none")
        /\ turn'[a].todo = IF ok THEN Plan(op) ELSE <<"answer">>
        /\ options' = options
    BY <1>1, <1>5, <2>1 DEF HandleStarts
  <2>3. op \in {"TraceOff", "ReplaceState"} =>
          Head(Plan(op)) = "read" /\ Head(<<"answer">>) = "answer"
    BY DEF Plan
  <2> QED
    BY <2>1, <2>2, <2>3 DEF Knowing, Doing
<1>6. CASE ReadOptions(a) \/ SetOptions(a) \/ RecordTrace(a) \/ Answer(a)
  <2>1. PICK op, todo, rest, step :
          /\ op = turn[a].op /\ todo = turn[a].todo /\ rest = turn'[a].todo
          /\ Doing(a, step) /\ (step = "read" <=> ReadOptions(a))
    <3>1. PICK step : Doing(a, step)
      BY <1>6 DEF ReadOptions, SetOptions, RecordTrace, Answer
    <3>2. step = "read" <=> ReadOptions(a)
      BY <1>6, <3>1 DEF ReadOptions, SetOptions, RecordTrace, Answer, Doing
    <3> QED
      BY <3>1, <3>2
  <2>2. /\ op \in ControlOp /\ todo \in Left(op) /\ todo # <<>>
        /\ Head(todo) = step
    BY <2>1, <1>2
  <2>3. rest = <<>> \/ rest = Tail(todo)
    BY <1>6, <2>1, TurnContinues
  <2>4. turn'[a].op = op /\ turn'[a].traced = turn[a].traced
    BY <1>6, <2>1, TurnContinues
  <2>5. CASE op \in {"TraceOff", "ReplaceState"}
    <3>1. /\ Tail(<<"set", "answer">>) = <<"answer">>
          /\ Tail(<<"answer">>) = <<>>
          /\ Tail(<<"record", "answer">>) = <<"answer">>
          /\ Tail(<<"record", "set", "answer">>) = <<"set", "answer">>
          /\ Head(<<"answer">>) = "answer" /\ Head(<<"set", "answer">>) = "set"
      OBVIOUS
    <3>2. CASE step = "read"
      <4>1. ReadOptions(a) /\ options' = options
        BY <2>1, <3>2 DEF ReadOptions
      <4>2. /\ turn[a].traced <=> options[a] # "none"
            /\ Doing(a, "read")
        BY <1>1, <2>1, <2>5, <3>2 DEF Knowing
      <4>3. todo \in {<<"read", "record", "set", "answer">>,
                      <<"read", "record", "answer">>}
        BY <2>2, <2>5, <3>2, LeftHeads
      <4>4. rest = <<>> \/ Head(rest) = "record"
        <5>1. /\ Tail(<<"read", "record", "set", "answer">>) =
                   <<"record", "set", "answer">>
              /\ Tail(<<"read", "record", "answer">>) = <<"record", "answer">>
              /\ Head(<<"record", "set", "answer">>) = "record"
              /\ Head(<<"record", "answer">>) = "record"
          OBVIOUS
        <5> QED
          BY <2>3, <4>3, <5>1
      <4>5. turn'[a].options = options[a]
        <5>1. turn[a] \in HandlerTurn
          BY <1>6, TurnContinues
        <5> QED
          BY <1>1, <4>1, <5>1 DEF ReadOptions, HandlerTurn
      <4> QED
        BY <2>1, <2>4, <4>1, <4>2, <4>4, <4>5 DEF Knowing, Doing
    <3>3. CASE step # "read"
      <4>1. todo \in {<<"set", "answer">>, <<"answer">>,
                      <<"record", "answer">>, <<"record", "set", "answer">>}
        BY <2>2, <2>5, <3>3, LeftHeads
      <4>2. rest = <<>> \/ Head(rest) \in {"answer", "set"}
        BY <2>3, <3>1, <4>1
      <4> QED
        BY <2>1, <2>4, <4>2 DEF Knowing, Doing
    <3> QED
      BY <3>2, <3>3
  <2>6. CASE op \notin {"TraceOff", "ReplaceState"}
    BY <2>4, <2>6 DEF Knowing
  <2> QED
    BY <2>5, <2>6
<1> QED
  BY <1>3, <1>4, <1>5, <1>6, TurnCases
\* Who waits for the request of a turn has waited for it all the time.
LEMMA HostWaited ==
  ASSUME TypeOK, RequestInv, [Next]_vars, NEW a \in Actor,
         turn[a].op \in ControlOp, turn[a].request \in Nat,
         host'.step = "waiting", host'.request = turn[a].request
  PROVE  host' = host /\ host.since \in Nat /\ host.since <= Len(log)
<1>1. turn[a].request <= requests
  BY DEF RequestInv, Sound
<1>2. host' = host
  BY <1>1, HostMoves
<1> QED
  BY <1>2 DEF TypeOK, HostOK, RequestInv

\* A turn gets to its answer over its report.
LEMMA ReportingStep ==
  ASSUME TypeOK, RequestInv, AnswerInv, [Next]_vars, NEW a \in Actor
  PROVE  Reporting(a)'
<1> SUFFICES ASSUME pc'[a] = "turn", turn'[a].op \in Reported, turn'[a].ok,
                    turn'[a].todo \in {<<"answer">>, <<"set", "answer">>},
                    turn'[a].op = "TraceOn" \/ turn'[a].traced,
                    host'.step = "waiting", host'.request = turn'[a].request
             PROVE  Noted(turn[a].op, a, host.since)'
  BY DEF Reporting
<1>1. /\ LogGrows /\ TaskOK /\ Knowing(a) /\ Reporting(a)
      /\ pc \in [Actor -> PC] /\ turn \in [Actor -> Turn]
      /\ Reported \subseteq ControlOp
  BY LogStep
     DEF TypeOK, TaskOK, AnswerInv, Reported, ControlOp, Request
<1>2. turn'[a].request \in Nat
  <2>1. TurnFits(pc[a], turn[a])'
    BY TypeStep DEF TypeOK, TaskOK
  <2> QED
    BY <2>1 DEF TurnFits, HandlerTurn, InitTurn, Reported
<1>3. ASSUME turn'[a].op = turn[a].op, turn'[a].request = turn[a].request
      PROVE  /\ host' = host /\ host.since \in Nat /\ host.since <= Len(log)
             /\ Noted(turn[a].op, a, host.since)
                  => Noted(turn[a].op, a, host.since)'
  <2>1. host' = host /\ host.since \in Nat /\ host.since <= Len(log)
    BY <1>1, <1>2, <1>3, HostWaited
  <2>2. PICK op, n : op = turn[a].op /\ n = host.since
    OBVIOUS
  <2>3. Noted(op, a, n) => Noted(op, a, n)'
    BY <1>1, <2>1, <2>2, NotedStays
  <2>4. op = turn'[a].op /\ n = host'.since
    BY <1>3, <2>1, <2>2
  <2>5. Noted(op, a, n)' => Noted(turn[a].op, a, host.since)'
    BY <2>4 DEF Noted
  <2> QED
    BY <2>1, <2>2, <2>3, <2>5
<1>4. CASE Quiet(a)
  <2>1. turn'[a] = turn[a] /\ pc'[a] = pc[a]
    BY <1>4 DEF Quiet
  <2>2. Noted(turn[a].op, a, host.since)
    BY <1>1, <1>3, <2>1 DEF Reporting
  <2> QED
    BY <1>3, <2>1, <2>2
<1>5. CASE Apart(a)
  BY <1>1, <1>5 DEF Apart
<1>6. CASE HandleStarts(a)
  <2>1. PICK ok \in BOOLEAN :
          turn' = [turn EXCEPT ![a] =
             [op |-> turn[a].op, ok |-> ok, request |-> turn[a].request,
              traced |-> options[a] # "none", wanted |-> turn[a].wanted,
              options |-> turn[a].wanted,
              todo |-> IF ok THEN Plan(turn[a].op) ELSE <<"answer">>]]
    BY <1>6 DEF HandleStarts
  <2>2. PICK op : op = turn[a].op
    OBVIOUS
  <2>3. turn'[a].op = op /\ turn'[a].todo = Plan(op)
    BY <1>1, <2>1, <2>2
  <2>4. op \in Reported => Plan(op) \notin {<<"answer">>, <<"set", "answer">>}
    BY DEF Plan, Reported
  <2> QED
    BY <2>3, <2>4
<1>7. CASE ReadOptions(a) \/ SetOptions(a) \/ RecordTrace(a) \/ Answer(a)
  <2>1. PICK op, todo, rest :
          op = turn[a].op /\ todo = turn[a].todo /\ rest = turn'[a].todo
    OBVIOUS
  <2>2. /\ op \in Reported /\ op \in ControlOp /\ todo \in Left(op)
        /\ todo # <<>> /\ pc[a] = "turn" /\ turn[a].ok
        /\ rest = Tail(todo) /\ turn'[a].op = turn[a].op
        /\ turn'[a].request = turn[a].request
        /\ op = "TraceOn" \/ turn[a].traced
        /\ turn[a] \in HandlerTurn
    <3>1. <<>> # <<"answer">> /\ <<>> # <<"set", "answer">>
      OBVIOUS
    <3> QED
      BY <1>7, <2>1, <3>1, TurnContinues
  <2>3. /\ host' = host /\ host.since \in Nat /\ host.since <= Len(log)
        /\ Noted(op, a, host.since) => Noted(turn[a].op, a, host.since)'
    BY <1>3, <2>1, <2>2
  <2>4. CASE ReadOptions(a)
    <3>1. Head(todo) = "read"
      BY <2>1, <2>4 DEF ReadOptions, Doing
    <3>2. todo \in {<<"read", "record", "set", "answer">>,
                    <<"read", "record", "answer">>}
      BY <2>2, <3>1, LeftHeads DEF Reported
    <3>3. /\ Tail(<<"read", "record", "set", "answer">>)
               \notin {<<"answer">>, <<"set", "answer">>}
          /\ Tail(<<"read", "record", "answer">>)
               \notin {<<"answer">>, <<"set", "answer">>}
      OBVIOUS
    <3> QED
      BY <2>1, <2>2, <3>2, <3>3
  <2>5. CASE SetOptions(a)
    <3>1. Head(todo) = "set"
      BY <2>1, <2>5 DEF SetOptions, Doing
    <3>2. todo \in {<<"set", "record", "answer">>, <<"set", "answer">>}
      BY <2>2, <3>1, LeftHeads
    <3>3. Tail(<<"set", "record", "answer">>)
            \notin {<<"answer">>, <<"set", "answer">>}
      OBVIOUS
    <3>4. todo = <<"set", "answer">>
      BY <2>1, <2>2, <3>2, <3>3
    <3>5. Noted(op, a, host.since)
      BY <1>1, <2>1, <2>2, <2>3, <3>4 DEF Reporting
    <3> QED
      BY <2>3, <3>5
  <2>6. CASE RecordTrace(a)
    <3>1. log' = Recorded(<<[kind |-> EventOf(op), actor |-> a]>>)
      <4>1. Doing(a, "record")
        BY <2>6 DEF RecordTrace
      <4>2. op = "TraceOn" \/ turn[a].options # "none"
        BY <1>1, <2>1, <2>2, <4>1 DEF Knowing, Reported
      <4> QED
        BY <2>1, <2>6, <4>2 DEF RecordTrace, TraceEvent
    <3>2. /\ Len(log') = Len(log) + 1 /\ Len(log) \in Nat
          /\ log'[Len(log) + 1].kind = EventOf(op)
          /\ log'[Len(log) + 1].actor = a
      <4>1. PICK kind \in Kind : kind = EventOf(op)
        BY <2>2, EventOfType
      <4>2. log' = Recorded(<<[kind |-> kind, actor |-> a]>>) /\ LogOK
        BY <3>1, <4>1 DEF TypeOK
      <4>3. /\ Len(log') = Len(log) + 1 /\ Len(log) \in Nat
            /\ log'[Len(log) + 1] =
                 [seq |-> Len(log) + 1, kind |-> kind, actor |-> a]
        BY <4>2, RecordedOne
      <4> QED
        BY <4>1, <4>3
    <3>3. PICK n : n = host.since
      OBVIOUS
    <3>4. Len(log) + 1 \in (n + 1)..Len(log')
      BY <2>3, <3>2, <3>3
    <3>5. Noted(op, a, n)'
      BY <3>2, <3>4 DEF Noted
    <3>6. op = turn'[a].op /\ n = host'.since
      BY <2>1, <2>2, <2>3, <3>3
    <3> QED
      BY <3>5, <3>6 DEF Noted
  <2>7. CASE Answer(a)
    <3>1. Head(todo) = "answer"
      BY <2>1, <2>7 DEF Answer, Doing
    <3>2. todo = <<"answer">>
      BY <2>2, <3>1, LeftHeads DEF Reported
    <3>3. Tail(<<"answer">>) = <<>> /\ <<>> # <<"answer">>
            /\ <<>> # <<"set", "answer">>
      OBVIOUS
    <3> QED
      BY <2>1, <2>2, <3>2, <3>3
  <2> QED
    BY <1>7, <2>4, <2>5, <2>6, <2>7
<1> QED
  BY <1>4, <1>5, <1>6, <1>7, TurnCases
\* The host has its answer once the turn has nothing left to report.
LEMMA HeardStep ==
  ASSUME TypeOK, RequestInv, AnswerInv, [Next]_vars,
         host'.step = "ok", host'.op \in Reported,
         host'.op = "TraceOn" \/ host'.traced
  PROVE  Noted(host.op, host.actor, host.since)'
<1>1. LogGrows /\ HostOK /\ TaskOK
  BY LogStep DEF TypeOK
<1>2. ASSUME host.op = host'.op, host.actor = host'.actor,
             host.since = host'.since, host.since \in Nat,
             Noted(host.op, host.actor, host.since)
      PROVE  Noted(host.op, host.actor, host.since)'
  <2>1. PICK op, a, n : op = host.op /\ a = host.actor /\ n = host.since
    OBVIOUS
  <2>2. Noted(op, a, n)'
    BY <1>1, <1>2, <2>1, NotedStays
  <2>3. op = host'.op /\ a = host'.actor /\ n = host'.since
    BY <1>2, <2>1
  <2> QED
    BY <2>2, <2>3 DEF Noted
<1>3. CASE UNCHANGED host
  <2>1. host.since \in Nat
    BY <1>1, <1>3 DEF HostOK
  <2> QED
    BY <1>2, <1>3, <2>1 DEF AnswerInv
<1>4. ASSUME NEW a \in Actor, Answer(a), ~UNCHANGED host
      PROVE  Noted(host.op, host.actor, host.since)'
  <2>1. /\ host.step = "waiting" /\ host.request = turn[a].request
        /\ turn[a].ok
        /\ host' = [host EXCEPT !.step = "ok", !.traced = turn[a].traced]
        /\ Doing(a, "answer")
    <3>1. /\ host.step = "waiting" /\ host.request = turn[a].request
          /\ Doing(a, "answer")
      BY <1>4 DEF Answer
    <3>2. CASE turn[a].ok
      BY <1>4, <3>1, <3>2 DEF Answer
    <3>3. CASE ~turn[a].ok
      <4>1. host' = [host EXCEPT !.step = "error", !.traced = turn[a].traced]
        BY <1>4, <3>1, <3>3 DEF Answer
      <4>2. host'.step = "error"
        BY <1>1, <3>1, <4>1 DEF HostOK
      <4> QED
        BY <4>2
    <3> QED
      BY <3>2, <3>3
  <2>2. /\ host'.op = host.op /\ host'.actor = host.actor
        /\ host'.since = host.since /\ host'.traced = turn[a].traced
        /\ host.since \in Nat
    BY <1>1, <2>1 DEF HostOK
  <2>3. /\ turn[a].op \in ControlOp /\ turn[a].todo \in Left(turn[a].op)
        /\ turn[a].todo # <<>> /\ Head(turn[a].todo) = "answer"
        /\ pc[a] = "turn"
    BY <1>1, <2>1, DoingControl DEF Doing
  <2>4. turn[a].op = host.op /\ a = host.actor
    BY <2>1, <2>3 DEF RequestInv, Sound
  <2>5. turn[a].todo = <<"answer">>
    <3>1. PICK op, todo : op = turn[a].op /\ todo = turn[a].todo
      OBVIOUS
    <3>2. op # "GetState"
      BY <2>2, <2>4, <3>1 DEF Reported
    <3> QED
      BY <2>3, <3>1, <3>2, LeftHeads
  <2>6. Noted(turn[a].op, a, host.since)
    BY <2>1, <2>2, <2>3, <2>4, <2>5 DEF AnswerInv, Reporting
  <2> QED
    BY <1>2, <2>2, <2>4, <2>6
<1>5. CASE ControlGivesUp
  <2>1. host'.step = "given_up"
    BY <1>1, <1>5 DEF ControlGivesUp, HostOK
  <2> QED
    BY <2>1
<1>6. ASSUME NEW a \in Actor, NEW op \in ControlOp, NEW o \in Options,
             Control(a, op, o)
      PROVE  FALSE
  BY <1>6 DEF Control
<1> QED
  BY <1>3, <1>4, <1>5, <1>6, HostCases

\* Every step keeps answers behind their reports.
LEMMA AnswerStep ==
  ASSUME TypeOK, RequestInv, AnswerInv, [Next]_vars
  PROVE  AnswerInv'
BY KnowingStep, ReportingStep, HeardStep DEF AnswerInv
-----------------------------------------------------------------------------
(* The theorems.                                                           *)

IInv ==
  TypeOK /\ ReaderInv /\ ObserverInv /\ RequestInv /\ TraceInv /\ AnswerInv

\* The inductive invariant holds at the start,
LEMMA InitInv == Init => IInv
<1> SUFFICES ASSUME Init PROVE IInv
  OBVIOUS
<1>1. TypeOK
  BY TypeInit
<1>2. ReaderInv
  BY DEF Init, ReaderInv
<1>3. ObserverInv
  <2>1. Known = {}
    BY DEF Init, Known, Live
  <2> QED
    BY <2>1, FS_EmptySet DEF Init, ObserverInv
<1>4. RequestInv
  BY DEF Init, RequestInv, NoTurn, ControlOp, Request
<1>5. TraceInv
  <2>1. \A i \in 1..Len(log) : FALSE
    BY DEF Init
  <2> QED
    BY <2>1 DEF Init, TraceInv, TraceOf, Doing
<1>6. AnswerInv
  BY DEF Init, AnswerInv, Knowing, Reporting, NoTurn
<1> QED
  BY <1>1, <1>2, <1>3, <1>4, <1>5, <1>6 DEF IInv

\* and every step keeps it.
LEMMA StepInv == IInv /\ [Next]_vars => IInv'
BY TypeStep, ReaderStep, ObserverStep, RequestStep, TraceStep, AnswerStep
   DEF IInv

\* The inductive invariant: types, cursors, introspections, requests, traces
\* and answers hold together in every state.
THEOREM Invariance == Spec => []IInv
BY InitInv, StepInv, PTL DEF Spec

\* The variables have their types: what a task is in the middle of fits where
\* it is, what is left of a control request is a rest of what
\* handle_reserved_system_message does for it, and the events of the log are
\* numbered by their positions.
THEOREM TypeCorrect == Spec => []TypeOK
<1>1. IInv => TypeOK
  BY DEF IInv
<1> QED
  BY <1>1, Invariance, PTL

\* Whatever is appended between two calls of events_since, a cursor has
\* returned the events of the log from where it was opened up to where it
\* stands, each once and in their order.
THEOREM CursorSound == Spec => []CursorReadsOnce
<1>1. IInv => CursorReadsOnce
  BY DEF IInv, ReaderInv, CursorReadsOnce
<1> QED
  BY <1>1, Invariance, PTL

\* An introspection whose locks are taken one after the other counts every
\* actor that was known when it began, and gives each live actor it has seen
\* one place in the tree of build_actor_tree.
THEOREM IntrospectionComplete == Spec => []ObservedAll
<1>1. IInv => ObservedAll
  BY ObservedImplied DEF IInv
<1> QED
  BY <1>1, Invariance, PTL

\* The invariants of the traces say what TraceIsTrue says.
LEMMA TracesImplied ==
  ASSUME IInv
  PROVE  TraceIsTrue
<1>1. /\ log \in Seq(Event) /\ Len(log) \in Nat /\ DOMAIN log = 1..Len(log)
      /\ \A i \in 1..Len(log) : log[i].seq = i
      /\ HostOK
  BY LenProperties DEF IInv, TypeOK, LogOK
<1>2. ASSUME NEW i \in DOMAIN log, IsTrace(log[i])
      PROVE  \E j \in 1..(i - 1) :
               /\ log[j] = [seq |-> j, kind |-> "TraceEnabled",
                            actor |-> log[i].actor]
               /\ \A k \in (j + 1)..(i - 1) :
                    ~(log[k].kind = "TraceDisabled"
                        /\ log[k].actor = log[i].actor)
  <2>1. Enabled(log[i].actor, i - 1)
    BY <1>1, <1>2 DEF IInv, TraceInv
  <2>2. PICK j \in 1..(i - 1) :
          /\ log[j].kind = "TraceEnabled" /\ log[j].actor = log[i].actor
          /\ \A k \in (j + 1)..(i - 1) :
               ~(log[k].kind = "TraceDisabled" /\ log[k].actor = log[i].actor)
    BY <2>1 DEF Enabled
  <2>3. j \in 1..Len(log)
    BY <1>1, <1>2
  <2>4. log[j] \in Event /\ log[j].seq = j
    BY <1>1, <2>3, ElementOfSeq
  <2>5. log[j] = [seq |-> j, kind |-> "TraceEnabled",
                  actor |-> log[i].actor]
    BY <2>2, <2>4 DEF Event
  <2> QED
    BY <2>2, <2>5
<1>3. ASSUME host.step = "ok", host.op # "GetState",
             host.op = "TraceOn" \/ host.traced
      PROVE  \E i \in (host.since + 1)..Len(log) :
               log[i].kind = EventOf(host.op) /\ log[i].actor = host.actor
  <2>1. host.op \in Reported
    BY <1>1, <1>3 DEF HostOK, Reported, ControlOp, Request
  <2> QED
    BY <1>3, <2>1 DEF IInv, AnswerInv, Noted
<1> QED
  BY <1>2, <1>3 DEF TraceIsTrue

\* Although a task reads and writes its trace options and records its events
\* under separate locks, with other tasks recording in between, no event of
\* its trace stands outside a TraceEnabled and the next TraceDisabled, and a
\* host that has its answer finds what was to be reported in the log.
THEOREM TracesTrue == Spec => []TraceIsTrue
<1>1. IInv => TraceIsTrue
  BY TracesImplied
<1> QED
  BY <1>1, Invariance, PTL
=============================================================================
