---------------------- MODULE ConcurrentRuntimeProofs -----------------------
(***************************************************************************)
(* Proofs about the concurrent runtime for every set of actors, roots,     *)
(* trapping actors and reasons, every capacity and every number of calls.  *)
(***************************************************************************)
EXTENDS ConcurrentRuntime, SequenceTheorems, TLAPS

\* Removing an entry leaves a queue of the same kind of entries.
LEMMA RemoveEntryType ==
  ASSUME NEW S, NEW q \in Seq(S), NEW i \in DOMAIN q
  PROVE  RemoveEntry(q, i) \in Seq(S)
<1>1. /\ Len(q) \in Nat /\ DOMAIN q = 1..Len(q)
      /\ \A k \in 1..Len(q) : q[k] \in S
  BY LenProperties, ElementOfSeq
<1>2. /\ Len(q) - 1 \in Nat
      /\ \A j \in 1..(Len(q) - 1) : (IF j < i THEN j ELSE j + 1) \in 1..Len(q)
  BY <1>1
<1>3. RemoveEntry(q, i) \in [1..(Len(q) - 1) -> S]
  BY <1>1, <1>2 DEF RemoveEntry
<1> QED
  BY <1>2, <1>3, IsASeq DEF RemoveEntry
-----------------------------------------------------------------------------
\* Where an actor is in its life decides what its record holds: an actor that
\* is not yet or no longer in the table has no links and no monitors, only one
\* that is being finalized has anybody to tell, and it has a reason to tell.
Lifecycle ==
  \A a \in Actor :
    /\ present[a] <=> pc[a] \notin {"unborn", "final", "done"}
    /\ ~present[a] => links[a] = {} /\ monOut[a] = {} /\ monIn[a] = {}
    /\ pc[a] \notin {"final", "done"} => fin[a] = Nothing
    /\ pc[a] \in {"exiting", "final"} => exit[a] # None

TypeInv == TypeOK /\ Lifecycle

LEMMA TypeInit == Init => TypeInv
<1> SUFFICES ASSUME Init PROVE TypeInv
  OBVIOUS
<1>1. TypeOK
  BY ActorAssumption, CapacityAssumption, EmptySeq
     DEF Init, TypeOK, PC, RuntimeCall, NoCall, Monitors, ExitReason, None,
         Nothing, Ref
<1>2. Lifecycle
  BY DEF Init, Lifecycle
<1> QED
  BY <1>1, <1>2 DEF TypeInv

\* What a call in progress carries, and the calls there are.
LEMMA CallParts ==
  ASSUME NEW c \in RuntimeCall
  PROVE  /\ c.step = "signal" => /\ c.to \in Actor /\ c.env \in Envelope
                                 /\ c.env.reason \in ExitReason
         /\ c.step \in {"enqueue", "self"} => c.to \in Actor /\ c.env \in Envelope
         /\ c.step = "force" => c.to \in Actor /\ c.reason \in ExitReason
         /\ c.step = "notify" => c.to \in Actor /\ c = Notify(c.to)
<1>1. CASE c = NoCall
  BY <1>1 DEF NoCall
<1>2. CASE c \in [step : {"signal"}, to : Actor,
          env : [kind : {"Exit"}, from : Actor, reason : ExitReason]]
  BY <1>2 DEF Envelope
<1>3. CASE c \in [step : {"enqueue", "self"}, to : Actor, env : Envelope]
  BY <1>3
<1>4. CASE c \in [step : {"force"}, to : Actor, reason : ExitReason]
  BY <1>4
<1>5. CASE c \in [step : {"notify"}, to : Actor]
  BY <1>5 DEF Notify
<1> QED
  BY <1>1, <1>2, <1>3, <1>4, <1>5 DEF RuntimeCall

LEMMA CallsTyped ==
  /\ NoCall \in RuntimeCall
  /\ \A to \in Actor :
       /\ Notify(to) \in RuntimeCall
       /\ \A env \in Envelope : /\ Enqueue(to, env) \in RuntimeCall
                                /\ EnqueueSelf(to, env) \in RuntimeCall
       /\ \A r \in ExitReason : ForceOut(to, r) \in RuntimeCall
       /\ \A b \in Actor : \A r \in ExitReason :
            Signal(to, Exit(b, r)) \in RuntimeCall
  /\ \A b \in Actor : /\ User(b) \in Envelope
                      /\ \A r \in Ref : Down(b, r) \in Envelope
BY DEF NoCall, Notify, Enqueue, EnqueueSelf, ForceOut, Signal, Exit, User, Down,
       RuntimeCall, Envelope

LEMMA PushType ==
  ASSUME TypeOK, NEW to \in Actor, NEW env \in Envelope, Push(to, env)
  PROVE  /\ mailbox' \in [Actor -> Seq(Envelope)]
         /\ status' \in [Actor -> {"Starting", "Runnable", "Running", "Waiting",
                           "Exiting", "Dead"}]
<1>1. Append(mailbox[to], env) \in Seq(Envelope)
  BY AppendProperties DEF TypeOK
<1> QED
  BY <1>1 DEF Push, TypeOK

\* What finalize_actor has still to do only shrinks.
LEMMA FinShrinks ==
  ASSUME TypeOK, NEW a \in Actor, NEW x
  PROVE  LET F == [Actor -> [mons : Monitors, watchers : Monitors,
                             peers : SUBSET Actor]]
         IN  /\ [fin EXCEPT ![a].mons = @ \ {x}] \in F
             /\ [fin EXCEPT ![a].watchers = @ \ {x}] \in F
             /\ [fin EXCEPT ![a].peers = @ \ {x}] \in F
<1> DEFINE R == [mons : Monitors, watchers : Monitors, peers : SUBSET Actor]
<1>1. fin \in [Actor -> R] /\ fin[a] \in R
  BY DEF TypeOK
<1>2. \A S \in Monitors : S \ {x} \in Monitors
  BY DEF Monitors
<1>3. /\ [fin[a] EXCEPT !.mons = @ \ {x}] \in R
      /\ [fin[a] EXCEPT !.watchers = @ \ {x}] \in R
      /\ [fin[a] EXCEPT !.peers = @ \ {x}] \in R
  BY <1>1, <1>2
<1> HIDE DEF R
<1>4. /\ [fin EXCEPT ![a] = [fin[a] EXCEPT !.mons = @ \ {x}]] \in [Actor -> R]
      /\ [fin EXCEPT ![a] = [fin[a] EXCEPT !.watchers = @ \ {x}]] \in [Actor -> R]
      /\ [fin EXCEPT ![a] = [fin[a] EXCEPT !.peers = @ \ {x}]] \in [Actor -> R]
  BY <1>1, <1>3
<1> QED
  BY <1>4 DEF R

LEMMA CallType ==
  ASSUME TypeInv, NEW a \in Actor, Call(a)
  PROVE  TypeInv'
<1> USE DEF TypeInv
<1> DEFINE to == call[a].to
           env == call[a].env
<1>0. /\ TypeOK
      /\ call \in [Actor -> RuntimeCall]
      /\ call[a].step = "signal" => to \in Actor /\ env \in Envelope
                                    /\ env.reason \in ExitReason
      /\ call[a].step \in {"enqueue", "self"} => to \in Actor /\ env \in Envelope
      /\ call[a].step = "force" => to \in Actor /\ call[a].reason \in ExitReason
      /\ call[a].step = "notify" => to \in Actor
  BY CallParts DEF TypeOK
<1>1. CASE CallSignal(a)
  <2>1. call' \in [Actor -> RuntimeCall]
    BY <1>0, <1>1, CallsTyped DEF CallSignal
  <2>2. UNCHANGED <<pc, record, permit, exit, fin, calls, downs, orphans>>
    BY <1>1 DEF CallSignal
  <2> QED
    BY <2>1, <2>2 DEF TypeOK, Lifecycle, record
<1>2. CASE CallEnqueue(a)
  <2>1. call' \in [Actor -> RuntimeCall]
    BY <1>0, <1>2, CallsTyped DEF CallEnqueue, ExitReason
  <2>2. /\ mailbox' \in [Actor -> Seq(Envelope)]
        /\ status' \in [Actor -> {"Starting", "Runnable", "Running", "Waiting",
                           "Exiting", "Dead"}]
    BY <1>0, <1>2, PushType DEF CallEnqueue, TypeOK
  <2>3. UNCHANGED <<pc, present, permit, forced, trap, links, monOut, monIn,
                    exit, fin, calls, downs, orphans>>
    BY <1>2 DEF CallEnqueue
  <2> QED
    BY <2>1, <2>2, <2>3 DEF TypeOK, Lifecycle
<1>3. CASE CallEnqueueSelf(a)
  <2>1. call' \in [Actor -> RuntimeCall]
    BY <1>0, <1>3, CallsTyped DEF CallEnqueueSelf
  <2>2. /\ mailbox' \in [Actor -> Seq(Envelope)]
        /\ status' \in [Actor -> {"Starting", "Runnable", "Running", "Waiting",
                           "Exiting", "Dead"}]
    BY <1>0, <1>3, PushType DEF CallEnqueueSelf, TypeOK
  <2>3. /\ exit' \in [Actor -> ExitReason \cup {None}]
        /\ \A b \in Actor : exit[b] # None => exit'[b] # None
    BY <1>3 DEF CallEnqueueSelf, TypeOK, ExitReason, None
  <2>4. UNCHANGED <<pc, present, permit, forced, trap, links, monOut, monIn,
                    fin, calls, downs, orphans>>
    BY <1>3 DEF CallEnqueueSelf
  <2> QED
    BY <2>1, <2>2, <2>3, <2>4 DEF TypeOK, Lifecycle
<1>4. CASE CallForce(a)
  <2>1. call' \in [Actor -> RuntimeCall]
    BY <1>0, <1>4, CallsTyped DEF CallForce
  <2> QED
    BY <1>0, <1>4, <2>1 DEF CallForce, TypeOK, Lifecycle
<1>5. CASE CallNotify(a)
  <2>1. call' \in [Actor -> RuntimeCall]
    BY <1>0, <1>5, CallsTyped DEF CallNotify
  <2> QED
    BY <1>5, <2>1 DEF CallNotify, TypeOK, Lifecycle, record
<1> QED
  BY <1>1, <1>2, <1>3, <1>4, <1>5 DEF Call

LEMMA UserCallType ==
  ASSUME TypeInv, NEW a \in Actor, UserCall(a)
  PROVE  TypeInv'
<1> USE DEF TypeInv
<1>0. /\ TypeOK /\ Lifecycle
      /\ calls \in Nat /\ MaxCalls \in Nat
      /\ calls < MaxCalls /\ calls' = calls + 1
         => calls' \in 0..MaxCalls /\ calls' \in Ref
  BY CapacityAssumption DEF TypeOK, Ref
<1>1. ASSUME NEW b \in Actor, Link(a, b)
      PROVE  TypeInv'
  BY <1>0, <1>1 DEF Link, Runs, TypeOK, Lifecycle
<1>2. ASSUME NEW b \in Actor, Unlink(a, b)
      PROVE  TypeInv'
  BY <1>0, <1>2 DEF Unlink, Runs, TypeOK, Lifecycle
<1>3. ASSUME NEW b \in Actor, Monitor(a, b)
      PROVE  TypeInv'
  <2>1. /\ calls' \in 0..MaxCalls /\ calls' \in Ref
        /\ present[a]
    BY <1>0, <1>3 DEF Monitor, Runs, Lifecycle
  <2>2. CASE present[b]
    <3>1. /\ [ref |-> calls', peer |-> b] \in [ref : Ref, peer : Actor]
          /\ [ref |-> calls', peer |-> a] \in [ref : Ref, peer : Actor]
      BY <2>1
    <3> QED
      <4>1. /\ monOut' = [monOut EXCEPT ![a] =
                            @ \cup {[ref |-> calls', peer |-> b]}]
            /\ monIn' = [monIn EXCEPT ![b] =
                            @ \cup {[ref |-> calls', peer |-> a]}]
            /\ UNCHANGED <<pc, present, status, mailbox, permit, forced, trap,
                           links, call, exit, fin, downs, orphans>>
        BY <1>3, <2>2 DEF Monitor
      <4>2. monOut' \in [Actor -> Monitors] /\ monIn' \in [Actor -> Monitors]
        BY <1>0, <3>1, <4>1 DEF TypeOK, Monitors
      <4> QED
        BY <1>0, <2>1, <2>2, <4>1, <4>2 DEF TypeOK, Lifecycle
  <2>3. CASE ~present[b]
    <3>1. /\ call' = [call EXCEPT ![a] = EnqueueSelf(a, Down(b, calls'))]
          /\ downs' = [downs EXCEPT ![calls'] = @ + 1]
          /\ UNCHANGED <<pc, present, status, mailbox, permit, forced, trap,
                         links, monOut, monIn, exit, fin, orphans>>
      BY <1>3, <2>3 DEF Monitor
    <3>2. EnqueueSelf(a, Down(b, calls')) \in RuntimeCall
      BY <2>1, CallsTyped
    <3> QED
      BY <1>0, <2>1, <3>1, <3>2 DEF TypeOK, Lifecycle
  <2> QED
    BY <2>2, <2>3
<1>4. ASSUME NEW b \in Actor, Send(a, b)
      PROVE  TypeInv'
  BY <1>0, <1>4, CallsTyped DEF Send, Runs, record, TypeOK, Lifecycle
<1>5. ASSUME NEW b \in Actor, Spawn(a, b)
      PROVE  TypeInv'
  <2>1. Notify(b) \in RuntimeCall
    BY CallsTyped
  <2>2. /\ calls' \in 0..MaxCalls
        /\ pc[a] \in {"turn", "exiting"} /\ pc[b] = "unborn"
        /\ present' = [present EXCEPT ![b] = TRUE]
        /\ pc' = [pc EXCEPT ![b] = "spawned"]
        /\ call' = [call EXCEPT ![a] = Notify(b)]
        /\ UNCHANGED <<status, mailbox, permit, forced, trap, monOut, monIn,
                       exit, fin, downs>>
        /\ (\E p \in Actor : LinkToParent(b, p)) \/ UNCHANGED <<links, orphans>>
    BY <1>0, <1>5 DEF Spawn, SpawnActor, Runs
  <2>3. TypeOK'
    <3>1. call' \in [Actor -> RuntimeCall]
      BY <1>0, <2>1, <2>2 DEF TypeOK
    <3>2. links' \in [Actor -> SUBSET Actor] /\ orphans' \subseteq Actor \X Actor
      <4>1. CASE UNCHANGED <<links, orphans>>
        BY <1>0, <4>1 DEF TypeOK
      <4>2. ASSUME NEW p \in Actor, LinkToParent(b, p)
            PROVE  /\ links' \in [Actor -> SUBSET Actor]
                   /\ orphans' \subseteq Actor \X Actor
        <5>1. /\ links \in [Actor -> SUBSET Actor]
              /\ {p} \in SUBSET Actor
              /\ \A S \in SUBSET Actor : S \cup {b} \in SUBSET Actor
              /\ {<<b, p>>} \subseteq Actor \X Actor
          BY <1>0 DEF TypeOK
        <5>2. links' \in [Actor -> SUBSET Actor]
          BY <4>2, <5>1 DEF LinkToParent
        <5>3. orphans' \subseteq Actor \X Actor
          BY <1>0, <4>2, <5>1 DEF LinkToParent, TypeOK
        <5> QED
          BY <5>2, <5>3
      <4> QED
        BY <2>2, <4>1, <4>2
    <3>3. pc' \in [Actor -> PC] /\ present' \in [Actor -> BOOLEAN]
      BY <1>0, <2>2 DEF TypeOK, PC
    <3> QED
      BY <1>0, <2>2, <3>1, <3>2, <3>3 DEF TypeOK
  <2>4. Lifecycle'
    <3>1. \A x \in Actor : ~present'[x] => links'[x] = {}
      <4>1. \A x \in Actor : ~present'[x] => x # b /\ ~present[x] /\ links[x] = {}
        BY <1>0, <2>2 DEF TypeOK, Lifecycle
      <4>2. ASSUME NEW p \in Actor, LinkToParent(b, p)
            PROVE  \A x \in Actor : x # b /\ ~present[x] => links'[x] = links[x]
        BY <1>0, <4>2 DEF LinkToParent, TypeOK
      <4> QED
        BY <2>2, <4>1, <4>2
    <3> QED
      BY <1>0, <2>2, <3>1 DEF TypeOK, Lifecycle
  <2> QED
    BY <2>3, <2>4
<1>6. CASE Demonitor(a)
  BY <1>0, <1>6 DEF Demonitor, Runs, TypeOK, Lifecycle, Monitors
<1>7. CASE SetTrapExit(a)
  BY <1>0, <1>7 DEF SetTrapExit, Runs, TypeOK, Lifecycle
<1>8. ASSUME NEW r \in Reason, ExitSelf(a, r)
      PROVE  TypeInv'
  <2>1. r \in ExitReason /\ r # None
    BY ReasonAssumption DEF ExitReason, None
  <2> QED
    BY <1>0, <1>8, <2>1 DEF ExitSelf, Runs, record, TypeOK, Lifecycle
<1> QED
  BY <1>1, <1>2, <1>3, <1>4, <1>5, <1>6, <1>7, <1>8 DEF UserCall

LEMMA TaskType ==
  ASSUME TypeInv, NEW a \in Actor, Task(a)
  PROVE  TypeInv'
<1> USE DEF TypeInv
<1>0. TypeOK /\ Lifecycle
  OBVIOUS
<1>1. CASE TaskStarts(a)
  BY <1>0, <1>1 DEF TaskStarts, TypeOK, Lifecycle, PC
<1>2. CASE LoopTop(a)
  <2>1. TypeOK'
    BY <1>0, <1>2 DEF LoopTop, TypeOK, PC
  <2>2. Lifecycle'
    BY <1>0, <1>2 DEF LoopTop, TypeOK, Lifecycle
  <2> QED
    BY <2>1, <2>2
<1>3. CASE Select(a)
  <2>1. ASSUME NEW i \in DOMAIN mailbox[a],
               mailbox' = [mailbox EXCEPT ![a] = RemoveEntry(@, i)]
        PROVE  mailbox' \in [Actor -> Seq(Envelope)]
    BY <1>0, <2>1, RemoveEntryType DEF TypeOK
  <2>2. mailbox' \in [Actor -> Seq(Envelope)]
    BY <1>0, <1>3, <2>1 DEF Select, TypeOK
  <2>3. pc' \in {[pc EXCEPT ![a] = "got"], [pc EXCEPT ![a] = "park"]}
    BY <1>3 DEF Select
  <2>4. /\ pc[a] = "select"
        /\ UNCHANGED <<present, status, permit, forced, trap, links, monOut,
                       monIn, call, exit, fin, calls, downs, orphans>>
    BY <1>3 DEF Select
  <2> QED
    BY <1>0, <2>2, <2>3, <2>4 DEF TypeOK, Lifecycle, PC
<1>4. CASE SelectStops(a)
  <2>1. \E r \in ExitReason : exit' = [exit EXCEPT ![a] = r] /\ r # None
    BY <1>0, <1>4, ReasonAssumption DEF SelectStops, TypeOK, ExitReason, None
  <2>2. TypeOK'
    BY <1>0, <1>4, <2>1 DEF SelectStops, TypeOK, PC
  <2>3. Lifecycle'
    BY <1>0, <1>4, <2>1 DEF SelectStops, TypeOK, Lifecycle
  <2> QED
    BY <2>2, <2>3
<1>5. CASE Park(a)
  BY <1>0, <1>5 DEF Park, TypeOK, Lifecycle, PC
<1>6. CASE Wake(a)
  BY <1>0, <1>6 DEF Wake, record, TypeOK, Lifecycle, PC
<1>7. CASE TurnStarts(a)
  BY <1>0, <1>7 DEF TurnStarts, TypeOK, Lifecycle, PC
<1>8. CASE TurnEnds(a)
  BY <1>0, <1>8 DEF TurnEnds, TypeOK, Lifecycle, PC
<1>9. CASE TurnStops(a)
  <2>1. \E r \in ExitReason : exit' = [exit EXCEPT ![a] = r] /\ r # None
    BY <1>0, <1>9, ReasonAssumption DEF TurnStops, TypeOK, ExitReason, None
  <2>2. TypeOK'
    BY <1>0, <1>9, <2>1 DEF TurnStops, TypeOK, PC
  <2>3. Lifecycle'
    BY <1>0, <1>9, <2>1 DEF TurnStops, TypeOK, Lifecycle
  <2> QED
    BY <2>2, <2>3
<1>10. CASE Finalize(a)
  <2>1. TypeOK'
    <3>1. fin' \in [Actor -> [mons : Monitors, watchers : Monitors,
                              peers : SUBSET Actor]]
      <4>1. /\ {m \in monOut[a] : m.peer # a} \in Monitors
            /\ {m \in monIn[a] : m.peer # a} \in Monitors
            /\ links[a] \in SUBSET Actor
        BY <1>0 DEF TypeOK, Monitors
      <4> QED
        BY <1>0, <1>10, <4>1 DEF Finalize, TypeOK
    <3>2. /\ links' \in [Actor -> SUBSET Actor]
          /\ monOut' \in [Actor -> Monitors] /\ monIn' \in [Actor -> Monitors]
      BY <1>0, <1>10 DEF Finalize, TypeOK, Monitors
    <3>3. exit' \in [Actor -> ExitReason \cup {None}]
      BY <1>0, <1>10 DEF Finalize, TypeOK, ExitReason
    <3>4. /\ pc' \in [Actor -> PC] /\ present' \in [Actor -> BOOLEAN]
          /\ mailbox' \in [Actor -> Seq(Envelope)]
          /\ status' \in [Actor -> {"Starting", "Runnable", "Running",
                                    "Waiting", "Exiting", "Dead"}]
          /\ UNCHANGED <<permit, forced, trap, call, calls, downs, orphans>>
      BY <1>0, <1>10, EmptySeq DEF Finalize, TypeOK, PC
    <3> QED
      BY <1>0, <3>1, <3>2, <3>3, <3>4 DEF TypeOK
  <2>2. Lifecycle'
    <3>1. /\ pc' = [pc EXCEPT ![a] = "final"]
          /\ present' = [present EXCEPT ![a] = FALSE]
          /\ links' = [links EXCEPT ![a] = {}]
          /\ monOut' = [monOut EXCEPT ![a] = {}]
          /\ monIn' = [monIn EXCEPT ![a] = {}]
          /\ \A x \in Actor : x # a => fin'[x] = fin[x]
      BY <1>0, <1>10 DEF Finalize, TypeOK
    <3>2. exit'[a] # None /\ \A x \in Actor : x # a => exit'[x] = exit[x]
      BY <1>0, <1>10 DEF Finalize, TypeOK, Lifecycle, None
    <3> QED
      BY <1>0, <3>1, <3>2 DEF TypeOK, Lifecycle
  <2> QED
    BY <2>1, <2>2
<1>11. CASE FinalizeMonitoring(a)
  <2>1. TypeOK'
    <3>1. PICK m \in fin[a].mons :
            /\ fin' = [fin EXCEPT ![a].mons = @ \ {m}]
            /\ monIn' = IF present[m.peer]
                   THEN [monIn EXCEPT ![m.peer] =
                           @ \ {[ref |-> m.ref, peer |-> a]}]
                   ELSE monIn
      BY <1>11 DEF FinalizeMonitoring
    <3>2. fin' \in [Actor -> [mons : Monitors, watchers : Monitors,
                              peers : SUBSET Actor]]
      BY <1>0, <3>1, FinShrinks
    <3>3. monIn' \in [Actor -> Monitors]
      BY <1>0, <3>1 DEF TypeOK, Monitors
    <3> QED
      BY <1>0, <1>11, <3>2, <3>3 DEF FinalizeMonitoring, TypeOK
  <2>2. Lifecycle'
    BY <1>0, <1>11 DEF FinalizeMonitoring, TypeOK, Lifecycle
  <2> QED
    BY <2>1, <2>2
<1>12. CASE FinalizeWatcher(a)
  <2>1. TypeOK'
    <3>1. PICK m \in fin[a].watchers :
            /\ fin' = [fin EXCEPT ![a].watchers = @ \ {m}]
            /\ monOut' = IF present[m.peer]
                    THEN [monOut EXCEPT ![m.peer] =
                            @ \ {[ref |-> m.ref, peer |-> a]}]
                    ELSE monOut
            /\ call' = [call EXCEPT ![a] = Enqueue(m.peer, Down(a, m.ref))]
            /\ downs' = [downs EXCEPT ![m.ref] = @ + 1]
      BY <1>12 DEF FinalizeWatcher
    <3>2. m \in [ref : Ref, peer : Actor]
      BY <1>0, <3>1 DEF TypeOK, Monitors
    <3>3. fin' \in [Actor -> [mons : Monitors, watchers : Monitors,
                              peers : SUBSET Actor]]
      BY <1>0, <3>1, FinShrinks
    <3>4. monOut' \in [Actor -> Monitors]
      BY <1>0, <3>1 DEF TypeOK, Monitors
    <3>5. Enqueue(m.peer, Down(a, m.ref)) \in RuntimeCall
      BY <3>2, CallsTyped
    <3>6. /\ call' \in [Actor -> RuntimeCall]
          /\ downs' \in [Ref -> Nat]
      BY <1>0, <3>1, <3>2, <3>5 DEF TypeOK
    <3>7. UNCHANGED <<pc, present, status, mailbox, permit, forced, trap, links,
                      monIn, exit, calls, orphans>>
      BY <1>12 DEF FinalizeWatcher
    <3> QED
      BY <1>0, <3>3, <3>4, <3>6, <3>7 DEF TypeOK
  <2>2. Lifecycle'
    BY <1>0, <1>12 DEF FinalizeWatcher, TypeOK, Lifecycle
  <2> QED
    BY <2>1, <2>2
<1>13. CASE FinalizeLink(a)
  <2>1. TypeOK'
    <3>1. PICK b \in fin[a].peers :
            /\ fin' = [fin EXCEPT ![a].peers = @ \ {b}]
            /\ links' = IF present[b] THEN [links EXCEPT ![b] = @ \ {a}]
                                      ELSE links
            /\ call' = [call EXCEPT ![a] = Signal(b, Exit(a, exit[a]))]
      BY <1>13 DEF FinalizeLink
    <3>2. b \in Actor /\ exit[a] \in ExitReason
      BY <1>0, <1>13, <3>1 DEF FinalizeLink, TypeOK, Lifecycle
    <3>3. fin' \in [Actor -> [mons : Monitors, watchers : Monitors,
                              peers : SUBSET Actor]]
      BY <1>0, <3>1, FinShrinks
    <3>4. links' \in [Actor -> SUBSET Actor]
      BY <1>0, <3>1 DEF TypeOK
    <3>5. Signal(b, Exit(a, exit[a])) \in RuntimeCall
      BY <3>2, CallsTyped
    <3>6. UNCHANGED <<pc, present, status, mailbox, permit, forced, trap,
                      monOut, monIn, exit, calls, downs, orphans>>
      BY <1>13 DEF FinalizeLink
    <3> QED
      BY <1>0, <3>1, <3>3, <3>4, <3>5, <3>6 DEF TypeOK
  <2>2. Lifecycle'
    BY <1>0, <1>13 DEF FinalizeLink, TypeOK, Lifecycle
  <2> QED
    BY <2>1, <2>2
<1>14. CASE TaskEnds(a)
  BY <1>0, <1>14 DEF TaskEnds, record, TypeOK, Lifecycle, PC
<1>15. CASE Call(a)
  BY <1>15, CallType
<1> QED
  BY <1>1, <1>2, <1>3, <1>4, <1>5, <1>6, <1>7, <1>8, <1>9, <1>10, <1>11,
     <1>12, <1>13, <1>14, <1>15 DEF Task

LEMMA TypeInductive == TypeInv /\ [Next]_vars => TypeInv'
<1> SUFFICES ASSUME TypeInv, [Next]_vars PROVE TypeInv'
  OBVIOUS
<1>1. CASE UNCHANGED vars
  BY <1>1 DEF TypeInv, TypeOK, Lifecycle, vars, record
<1> QED
  BY <1>1, TaskType, UserCallType DEF Next

\* Every variable keeps its type, and the record of an actor fits its place in
\* the actor's life.
THEOREM TypeCorrect == Spec => [](TypeOK /\ Lifecycle)
<1>1. Init => TypeInv
  BY TypeInit
<1>2. TypeInv /\ [Next]_vars => TypeInv'
  BY TypeInductive
<1> QED
  BY <1>1, <1>2, PTL DEF Spec, TypeInv
-----------------------------------------------------------------------------
(* No wakeup is lost.                                                      *)

\* A task that goes on to sleep will be woken again.
Pending(a) == permit[a] \/ \E b \in Actor : call[b] = Notify(a)

\* From the check for a forced exit on, a forced exit is announced; from the
\* moment the mailbox was seen to be empty, mail is announced too.
Wakeful(a) ==
  /\ pc[a] = "select" => forced[a] = None \/ Pending(a)
  /\ pc[a] \in {"park", "asleep"}
       => (mailbox[a] = <<>> /\ forced[a] = None) \/ Pending(a)

WakeInv == \A a \in Actor : Wakeful(a)

\* Only the sleeper uses up a permit, and a notification that is due is made.
LEMMA PendingStays ==
  ASSUME TypeInv, NEW a \in Actor, Task(a) \/ UserCall(a),
         NEW c \in Actor, Pending(c), ~Wake(c)
  PROVE  Pending(c)'
<1>0. TypeOK
  BY DEF TypeInv
<1>1. CASE permit[c]
  <2>1. permit'[c]
    BY <1>0, <1>1
       DEF Task, UserCall, Call, CallSignal, CallEnqueue, CallEnqueueSelf,
           CallForce, CallNotify, TaskStarts, LoopTop, Select, SelectStops,
           Park, Wake, TurnStarts, TurnEnds, TurnStops, Finalize,
           FinalizeMonitoring, FinalizeWatcher, FinalizeLink, TaskEnds,
           Link, Unlink, Monitor, Demonitor, SetTrapExit, Send, Spawn,
           ExitSelf, TypeOK
  <2> QED
    BY <2>1 DEF Pending
<1>2. ASSUME NEW b \in Actor, call[b] = Notify(c)
      PROVE  Pending(c)'
  <2>1. call[b].step = "notify" /\ call[b].to = c /\ call[b] # NoCall
    BY <1>2 DEF Notify, NoCall
  <2>2. CASE CallNotify(a) /\ b = a
    BY <1>0, <2>1, <2>2 DEF CallNotify, Pending, TypeOK
  <2>3. CASE ~(CallNotify(a) /\ b = a)
    <3>1. call'[b] = call[b]
      <4>1. CASE Call(a)
        BY <1>0, <2>1, <2>3, <4>1
           DEF Call, CallSignal, CallEnqueue, CallEnqueueSelf, CallForce,
               CallNotify, TypeOK
      <4>2. CASE UserCall(a)
        BY <1>0, <2>1, <4>2
           DEF UserCall, Runs, Link, Unlink, Monitor, Demonitor, SetTrapExit,
               Send, Spawn, SpawnActor, ExitSelf, TypeOK
      <4>3. CASE Task(a) /\ ~Call(a)
        BY <1>0, <2>1, <4>3
           DEF Task, TaskStarts, LoopTop, Select, SelectStops, Park, Wake,
               TurnStarts, TurnEnds, TurnStops, Finalize, FinalizeMonitoring,
               FinalizeWatcher, FinalizeLink, TaskEnds, TypeOK
      <4> QED
        BY <4>1, <4>2, <4>3
    <3> QED
      BY <1>2, <3>1 DEF Pending, Notify
  <2> QED
    BY <2>2, <2>3
<1> QED
  BY <1>1, <1>2 DEF Pending

\* What reaches the record of an actor from outside is followed by a
\* notification.
LEMMA WakeCall ==
  ASSUME TypeInv, WakeInv, NEW a \in Actor, Call(a)
  PROVE  WakeInv'
<1> SUFFICES ASSUME NEW c \in Actor PROVE Wakeful(c)'
  BY DEF WakeInv
<1>0. /\ TypeOK /\ Wakeful(c)
      /\ call[a].step \in {"enqueue", "self", "force"} => call[a].to \in Actor
  BY CallParts DEF TypeInv, TypeOK, WakeInv
<1>1. pc' = pc /\ (Pending(c) => Pending(c)')
  <2>1. pc' = pc /\ (Wake(c) => pc'[c] # pc[c])
    BY <1>0 DEF Call, CallSignal, CallEnqueue, CallEnqueueSelf, CallForce,
                CallNotify, Wake, TypeOK
  <2> QED
    BY <2>1, PendingStays DEF Task
<1>2. \/ mailbox'[c] = mailbox[c] /\ forced'[c] = forced[c]
      \/ call'[a] = Notify(c)
  BY <1>0 DEF Call, CallSignal, CallEnqueue, CallEnqueueSelf, CallForce,
              CallNotify, Push, record, TypeOK
<1>3. call'[a] = Notify(c) => Pending(c)'
  BY DEF Pending, Notify
<1> QED
  BY <1>0, <1>1, <1>2, <1>3 DEF Wakeful

LEMMA WakeUserCall ==
  ASSUME TypeInv, WakeInv, NEW a \in Actor, UserCall(a)
  PROVE  WakeInv'
<1> SUFFICES ASSUME NEW c \in Actor PROVE Wakeful(c)'
  BY DEF WakeInv
<1>0. TypeOK /\ Wakeful(c)
  BY DEF TypeInv, WakeInv
<1>1. /\ pc'[c] = pc[c] \/ pc'[c] = "spawned"
      /\ mailbox' = mailbox /\ forced' = forced
      /\ permit' = permit
  BY <1>0 DEF UserCall, Link, Unlink, Monitor, Demonitor, SetTrapExit, Send,
              Spawn, SpawnActor, ExitSelf, record, TypeOK
<1>2. Pending(c) => Pending(c)'
  <2>1. Wake(c) => pc[c] = "asleep" /\ pc'[c] = "loop"
    BY <1>0 DEF Wake, TypeOK
  <2>2. ~Wake(c)
    BY <1>1, <2>1
  <2> QED
    BY <2>2, PendingStays
<1> QED
  BY <1>0, <1>1, <1>2 DEF Wakeful

LEMMA WakeTask ==
  ASSUME TypeInv, WakeInv, NEW a \in Actor, Task(a)
  PROVE  WakeInv'
<1>1. CASE Call(a)
  BY <1>1, WakeCall
<1>2. CASE ~Call(a)
  <2> SUFFICES ASSUME NEW c \in Actor PROVE Wakeful(c)'
    BY DEF WakeInv
  <2>0. TypeOK /\ Wakeful(c)
    BY DEF TypeInv, WakeInv
  <2>1. CASE c = a /\ Wake(a)
    BY <2>0, <2>1 DEF Wake, Wakeful, TypeOK
  <2>2. CASE ~(c = a /\ Wake(a))
    <3>1. Pending(c) => Pending(c)'
      <4>1. Wake(c) => c = a
        BY <1>2, <2>0
           DEF Task, TaskStarts, LoopTop, Select, SelectStops, Park, Wake,
               TurnStarts, TurnEnds, TurnStops, Finalize, FinalizeMonitoring,
               FinalizeWatcher, FinalizeLink, TaskEnds, TypeOK
      <4> QED
        BY <2>2, <4>1, PendingStays
    <3>2. CASE c # a
      <4>1. /\ pc'[c] = pc[c] /\ mailbox'[c] = mailbox[c]
            /\ forced'[c] = forced[c]
        BY <1>2, <2>0, <3>2
           DEF Task, TaskStarts, LoopTop, Select, SelectStops, Park, Wake,
               TurnStarts, TurnEnds, TurnStops, Finalize, FinalizeMonitoring,
               FinalizeWatcher, FinalizeLink, TaskEnds, record, TypeOK
      <4> QED
        BY <2>0, <3>1, <4>1 DEF Wakeful
    <3>3. CASE c = a
      <4>1. \/ pc'[a] \notin {"select", "park", "asleep"}
            \/ pc'[a] = "select" /\ forced'[a] = None
            \/ /\ pc[a] = "select" /\ pc'[a] = "park"
               /\ mailbox'[a] = <<>> /\ forced'[a] = forced[a]
            \/ /\ pc[a] = "park" /\ pc'[a] = "asleep"
               /\ mailbox'[a] = mailbox[a] /\ forced'[a] = forced[a]
        <5>1. CASE Finalize(a) \/ FinalizeMonitoring(a) \/ FinalizeWatcher(a)
                   \/ FinalizeLink(a) \/ TaskEnds(a)
          BY <2>0, <5>1
             DEF Finalize, FinalizeMonitoring, FinalizeWatcher, FinalizeLink,
                 TaskEnds, TypeOK
        <5>2. CASE TaskStarts(a) \/ TurnStarts(a) \/ TurnEnds(a)
                   \/ TurnStops(a) \/ SelectStops(a) \/ Wake(a)
          BY <2>0, <5>2
             DEF TaskStarts, TurnStarts, TurnEnds, TurnStops, SelectStops,
                 Wake, TypeOK
        <5>3. CASE LoopTop(a)
          BY <2>0, <5>3 DEF LoopTop, TypeOK
        <5>4. CASE Select(a) \/ Park(a)
          BY <2>0, <5>4 DEF Select, Park, TypeOK
        <5> QED
          BY <1>2, <5>1, <5>2, <5>3, <5>4 DEF Task
      <4> QED
        BY <2>0, <3>1, <3>3, <4>1 DEF Wakeful
    <3> QED
      BY <3>2, <3>3
  <2> QED
    BY <2>1, <2>2
<1> QED
  BY <1>1, <1>2

\* No wakeup is lost: whenever a task sleeps and nothing will wake it, its
\* mailbox is empty and nobody has forced it out, however the pushes, forced
\* exits and notifications of other tasks fall between the three locks that
\* run_actor_task takes before notified().await.
THEOREM WakeupsKept == Spec => []NoLostWakeup
<1>1. Init => WakeInv
  BY DEF Init, WakeInv, Wakeful
<1>2. TypeInv /\ WakeInv /\ [Next]_vars => WakeInv'
  <2> SUFFICES ASSUME TypeInv, WakeInv, [Next]_vars PROVE WakeInv'
    OBVIOUS
  <2>1. CASE UNCHANGED vars
    BY <2>1 DEF WakeInv, Wakeful, Pending, Notify, vars, record
  <2> QED
    BY <2>1, WakeTask, WakeUserCall DEF Next
<1>3. WakeInv => NoLostWakeup
  BY DEF WakeInv, Wakeful, Pending, NoLostWakeup
<1> QED
  BY <1>1, <1>2, <1>3, TypeInit, TypeInductive, PTL DEF Spec
-----------------------------------------------------------------------------
(* Links and monitors are kept on both sides.                              *)

\* The operations on links and monitors, and the rest.
BondStep(a) ==
  \/ \E b \in Actor : Link(a, b) \/ Unlink(a, b) \/ Monitor(a, b) \/ Spawn(a, b)
  \/ Demonitor(a) \/ Finalize(a)
  \/ FinalizeMonitoring(a) \/ FinalizeWatcher(a) \/ FinalizeLink(a)

LEMMA OtherSteps ==
  ASSUME NEW a \in Actor, Task(a) \/ UserCall(a), ~BondStep(a)
  PROVE  /\ UNCHANGED <<present, links, monOut, monIn, fin, downs, orphans>>
         /\ calls' = calls \/ calls' = calls + 1
<1>1. CASE Call(a)
  BY <1>1 DEF Call, CallSignal, CallEnqueue, CallEnqueueSelf, CallForce,
              CallNotify, record
<1>2. CASE Task(a) /\ ~Call(a)
  BY <1>2 DEF Task, BondStep, TaskStarts, LoopTop, Select, SelectStops, Park,
              Wake, TurnStarts, TurnEnds, TurnStops, TaskEnds, record
<1>3. CASE UserCall(a)
  BY <1>3 DEF UserCall, BondStep, Runs, SetTrapExit, Send, ExitSelf, record
<1> QED
  BY <1>1, <1>2, <1>3

\* What a step of the finalization leaves to do.
MonDone(a, m)     == [fin EXCEPT ![a].mons = @ \ {m}]
WatcherDone(a, m) == [fin EXCEPT ![a].watchers = @ \ {m}]
PeerDone(a, b)    == [fin EXCEPT ![a].peers = @ \ {b}]

LEMMA FinParts ==
  ASSUME TypeOK, NEW a \in Actor, NEW m
  PROVE  /\ fin' = MonDone(a, m) =>
              \A x \in Actor :
                /\ fin'[x].mons = IF x = a THEN fin[x].mons \ {m} ELSE fin[x].mons
                /\ fin'[x].watchers = fin[x].watchers
                /\ fin'[x].peers = fin[x].peers
         /\ fin' = WatcherDone(a, m) =>
              \A x \in Actor :
                /\ fin'[x].mons = fin[x].mons
                /\ fin'[x].watchers = IF x = a THEN fin[x].watchers \ {m}
                                      ELSE fin[x].watchers
                /\ fin'[x].peers = fin[x].peers
         /\ fin' = PeerDone(a, m) =>
              \A x \in Actor :
                /\ fin'[x].mons = fin[x].mons
                /\ fin'[x].watchers = fin[x].watchers
                /\ fin'[x].peers = IF x = a THEN fin[x].peers \ {m}
                                   ELSE fin[x].peers
<1>0. /\ fin \in [Actor -> [mons : Monitors, watchers : Monitors,
                            peers : SUBSET Actor]]
      /\ fin[a] \in [mons : Monitors, watchers : Monitors, peers : SUBSET Actor]
  BY DEF TypeOK
<1>1. ASSUME NEW r, fin' = [fin EXCEPT ![a] = r]
      PROVE  fin'[a] = r /\ \A x \in Actor : x # a => fin'[x] = fin[x]
  BY <1>0, <1>1
<1>2. ASSUME fin' = MonDone(a, m)
      PROVE  \A x \in Actor :
                /\ fin'[x].mons = IF x = a THEN fin[x].mons \ {m} ELSE fin[x].mons
                /\ fin'[x].watchers = fin[x].watchers
                /\ fin'[x].peers = fin[x].peers
  <2> DEFINE r == [fin[a] EXCEPT !.mons = @ \ {m}]
  <2>1. fin' = [fin EXCEPT ![a] = r]
    BY <1>0, <1>2 DEF MonDone
  <2>2. /\ r.mons = fin[a].mons \ {m}
        /\ r.watchers = fin[a].watchers
        /\ r.peers = fin[a].peers
    BY <1>0
  <2> HIDE DEF r
  <2>3. fin'[a] = r /\ \A x \in Actor : x # a => fin'[x] = fin[x]
    BY <1>1, <2>1
  <2> QED
    BY <2>2, <2>3
<1>3. ASSUME fin' = WatcherDone(a, m)
      PROVE  \A x \in Actor :
                /\ fin'[x].mons = fin[x].mons
                /\ fin'[x].watchers = IF x = a THEN fin[x].watchers \ {m}
                                      ELSE fin[x].watchers
                /\ fin'[x].peers = fin[x].peers
  <2> DEFINE r == [fin[a] EXCEPT !.watchers = @ \ {m}]
  <2>1. fin' = [fin EXCEPT ![a] = r]
    BY <1>0, <1>3 DEF WatcherDone
  <2>2. /\ r.mons = fin[a].mons
        /\ r.watchers = fin[a].watchers \ {m}
        /\ r.peers = fin[a].peers
    BY <1>0
  <2> HIDE DEF r
  <2>3. fin'[a] = r /\ \A x \in Actor : x # a => fin'[x] = fin[x]
    BY <1>1, <2>1
  <2> QED
    BY <2>2, <2>3
<1>4. ASSUME fin' = PeerDone(a, m)
      PROVE  \A x \in Actor :
                /\ fin'[x].mons = fin[x].mons
                /\ fin'[x].watchers = fin[x].watchers
                /\ fin'[x].peers = IF x = a THEN fin[x].peers \ {m}
                                   ELSE fin[x].peers
  <2> DEFINE r == [fin[a] EXCEPT !.peers = @ \ {m}]
  <2>1. fin' = [fin EXCEPT ![a] = r]
    BY <1>0, <1>4 DEF PeerDone
  <2>2. /\ r.mons = fin[a].mons
        /\ r.watchers = fin[a].watchers
        /\ r.peers = fin[a].peers \ {m}
    BY <1>0
  <2> HIDE DEF r
  <2>3. fin'[a] = r /\ \A x \in Actor : x # a => fin'[x] = fin[x]
    BY <1>1, <2>1
  <2> QED
    BY <2>2, <2>3
<1> QED
  BY <1>2, <1>3, <1>4

\* The parent a child was spawned under had been spawned before it.
OrphansBorn == \A o \in orphans : pc[o[2]] # "unborn"

LEMMA OrphansStep ==
  ASSUME TypeInv, OrphansBorn, NEW a \in Actor, Task(a) \/ UserCall(a)
  PROVE  OrphansBorn'
<1>0. TypeOK /\ Lifecycle
  BY DEF TypeInv
<1>1. \A x \in Actor : pc[x] # "unborn" => pc'[x] # "unborn"
  <2>1. CASE UserCall(a)
    BY <1>0, <2>1
       DEF UserCall, Link, Unlink, Monitor, Send, Spawn, SpawnActor, Demonitor,
           SetTrapExit, ExitSelf, TypeOK
  <2>2. CASE Call(a)
    BY <2>2 DEF Call, CallSignal, CallEnqueue, CallEnqueueSelf, CallForce,
                CallNotify
  <2>3. CASE Task(a) /\ ~Call(a)
    BY <1>0, <2>3
       DEF Task, TaskStarts, LoopTop, Select, SelectStops, Park, Wake,
           TurnStarts, TurnEnds, TurnStops, Finalize, FinalizeMonitoring,
           FinalizeWatcher, FinalizeLink, TaskEnds, TypeOK
  <2> QED
    BY <2>1, <2>2, <2>3
<1>2. ASSUME NEW b \in Actor, Spawn(a, b)
      PROVE  OrphansBorn'
  <2>1. CASE UNCHANGED orphans
    BY <1>0, <1>1, <2>1 DEF OrphansBorn, TypeOK
  <2>2. ASSUME NEW p \in Actor, pc[p] # "unborn", LinkToParent(b, p)
        PROVE  OrphansBorn'
    <3>1. \A o \in orphans' : o \in orphans \/ o = <<b, p>>
      BY <2>2 DEF LinkToParent
    <3>2. \A o \in orphans' : o[2] \in Actor /\ pc[o[2]] # "unborn"
      BY <1>0, <2>2, <3>1 DEF OrphansBorn, TypeOK
    <3> QED
      BY <1>1, <3>2 DEF OrphansBorn
  <2> QED
    BY <1>2, <2>1, <2>2 DEF Spawn, SpawnActor
<1>3. CASE \A b \in Actor : ~Spawn(a, b)
  <2>1. UNCHANGED orphans
    <3>1. CASE BondStep(a)
      BY <1>3, <3>1 DEF BondStep, Link, Unlink, Monitor, Demonitor, Finalize,
                        FinalizeMonitoring, FinalizeWatcher, FinalizeLink
    <3>2. CASE ~BondStep(a)
      BY <3>2, OtherSteps
    <3> QED
      BY <3>1, <3>2
  <2> QED
    BY <1>0, <1>1, <2>1 DEF OrphansBorn, TypeOK
<1> QED
  BY <1>2, <1>3

LEMMA LinksStep ==
  ASSUME TypeInv, LinksPaired, OrphansBorn, NEW a \in Actor, BondStep(a)
  PROVE  LinksPaired'
<1>0. TypeOK /\ Lifecycle
  BY DEF TypeInv
<1>1. ASSUME NEW b \in Actor, Link(a, b)
      PROVE  LinksPaired'
  <2>1. present[a] /\ present[b]
    BY <1>0, <1>1 DEF Link, Runs, Lifecycle
  <2> QED
    BY <1>0, <1>1, <2>1 DEF Link, LinksPaired, TypeOK
<1>2. ASSUME NEW b \in Actor, Unlink(a, b)
      PROVE  LinksPaired'
  BY <1>0, <1>2 DEF Unlink, LinksPaired, TypeOK
<1>3. ASSUME NEW b \in Actor, Monitor(a, b)
      PROVE  LinksPaired'
  BY <1>3 DEF Monitor, LinksPaired
<1>4. CASE Demonitor(a)
  BY <1>4 DEF Demonitor, LinksPaired
<1>5. ASSUME NEW b \in Actor, Spawn(a, b)
      PROVE  LinksPaired'
  <2>1. /\ pc[b] = "unborn" /\ ~present[b]
        /\ links[b] = {} /\ fin[b].peers = {}
    BY <1>0, <1>5 DEF Spawn, SpawnActor, Lifecycle, Nothing
  <2>2. \A x \in Actor : present[x] => b \notin links[x]
    <3>1. \A x \in Actor : <<x, b>>[2] = b
      OBVIOUS
    <3>2. \A x \in Actor : <<x, b>> \notin orphans
      BY <2>1, <3>1 DEF OrphansBorn
    <3> QED
      BY <1>0, <2>1, <3>2 DEF LinksPaired, TypeOK
  <2>3. present' = [present EXCEPT ![b] = TRUE] /\ fin' = fin
    BY <1>5 DEF Spawn, SpawnActor
  <2>4. CASE UNCHANGED <<links, orphans>>
    BY <1>0, <2>1, <2>2, <2>3, <2>4 DEF LinksPaired, TypeOK
  <2>5. ASSUME NEW p \in Actor, pc[p] # "unborn", LinkToParent(b, p)
        PROVE  LinksPaired'
    <3>1. /\ p # b /\ links'[b] = {p}
          /\ links'[p] = IF present[p] THEN links[p] \cup {b} ELSE links[p]
          /\ \A x \in Actor \ {b, p} : links'[x] = links[x]
          /\ \A x \in Actor : links[x] \subseteq Actor
      BY <1>0, <2>1, <2>5 DEF LinkToParent, TypeOK
    <3>2. /\ orphans \subseteq orphans'
          /\ present[p] \/ <<b, p>> \in orphans'
      BY <2>5 DEF LinkToParent
    <3>3. \A x \in Actor : present'[x] <=> present[x] \/ x = b
      BY <1>0, <2>3 DEF TypeOK
    <3> QED
      BY <2>1, <2>2, <2>3, <3>1, <3>2, <3>3 DEF LinksPaired
  <2> QED
    BY <1>5, <2>4, <2>5 DEF Spawn, SpawnActor
<1>6. CASE Finalize(a)
  <2>1. /\ present' = [present EXCEPT ![a] = FALSE]
        /\ links' = [links EXCEPT ![a] = {}]
        /\ fin'[a].peers = links[a]
        /\ \A x \in Actor : x # a => fin'[x] = fin[x]
        /\ present[a] /\ orphans' = orphans
    BY <1>0, <1>6 DEF Finalize, TypeOK, Lifecycle
  <2> QED
    BY <1>0, <2>1 DEF LinksPaired, TypeOK
<1>7. CASE FinalizeMonitoring(a) \/ FinalizeWatcher(a)
  <2>1. /\ UNCHANGED <<present, links, orphans>>
        /\ \E m : fin' = MonDone(a, m) \/ fin' = WatcherDone(a, m)
    BY <1>7 DEF FinalizeMonitoring, FinalizeWatcher, MonDone, WatcherDone
  <2>2. \A x \in Actor : fin'[x].peers = fin[x].peers
    <3>1. PICK m : fin' = MonDone(a, m) \/ fin' = WatcherDone(a, m)
      BY <2>1
    <3>2. CASE fin' = MonDone(a, m)
      BY <1>0, <3>2, FinParts
    <3>3. CASE fin' = WatcherDone(a, m)
      BY <1>0, <3>3, FinParts
    <3> QED
      BY <3>1, <3>2, <3>3
  <2> QED
    BY <1>0, <2>1, <2>2 DEF LinksPaired, TypeOK
<1>8. CASE FinalizeLink(a)
  <2>1. PICK b \in fin[a].peers :
          /\ fin' = PeerDone(a, b)
          /\ links' = IF present[b] THEN [links EXCEPT ![b] = @ \ {a}] ELSE links
          /\ orphans' = orphans
    BY <1>8 DEF FinalizeLink, PeerDone
  <2>2. ~present[a] /\ present' = present /\ b \in Actor
    BY <1>0, <1>8, <2>1 DEF FinalizeLink, Lifecycle, TypeOK
  <2>3. \A x \in Actor : fin'[x].peers = IF x = a THEN fin[x].peers \ {b}
                                         ELSE fin[x].peers
    BY <1>0, <2>1, FinParts
  <2> QED
    BY <1>0, <2>1, <2>2, <2>3 DEF LinksPaired, TypeOK
<1> QED
  BY <1>1, <1>2, <1>3, <1>4, <1>5, <1>6, <1>7, <1>8 DEF BondStep

LEMMA MonitorsStep ==
  ASSUME TypeInv, MonitorsPaired, NEW a \in Actor, BondStep(a)
  PROVE  MonitorsPaired'
<1>0. TypeOK /\ Lifecycle
  BY DEF TypeInv
<1>1. ASSUME NEW b \in Actor, Link(a, b) \/ Unlink(a, b)
      PROVE  MonitorsPaired'
  BY <1>1 DEF Link, Unlink, MonitorsPaired
<1>2. ASSUME NEW b \in Actor, Monitor(a, b)
      PROVE  MonitorsPaired'
  <2>1. CASE ~present[b]
    BY <1>2, <2>1 DEF Monitor, MonitorsPaired
  <2>2. CASE present[b]
    <3>1. present[a] /\ UNCHANGED <<present, fin>>
      BY <1>0, <1>2 DEF Monitor, Runs, Lifecycle
    <3>2. /\ monOut' = [monOut EXCEPT ![a] =
                          @ \cup {[ref |-> calls', peer |-> b]}]
          /\ monIn' = [monIn EXCEPT ![b] =
                          @ \cup {[ref |-> calls', peer |-> a]}]
      BY <1>2, <2>2 DEF Monitor
    <3> DEFINE o == [ref |-> calls', peer |-> b]
               i == [ref |-> calls', peer |-> a]
    <3>3. /\ \A x \in Actor : monOut[x] \subseteq monOut'[x]
                             /\ monIn[x] \subseteq monIn'[x]
          /\ \A x \in Actor : \A m \in monOut'[x] :
               m \in monOut[x] \/ (x = a /\ m = o)
          /\ \A x \in Actor : \A m \in monIn'[x] :
               m \in monIn[x] \/ (x = b /\ m = i)
          /\ o \in monOut'[a] /\ i \in monIn'[b]
      <4> HIDE DEF o, i
      <4>1. /\ monOut' = [monOut EXCEPT ![a] = monOut[a] \cup {o}]
            /\ monIn' = [monIn EXCEPT ![b] = monIn[b] \cup {i}]
        BY <3>2 DEF o, i
      <4>2. /\ \A x \in Actor : monOut'[x] = IF x = a THEN monOut[x] \cup {o}
                                              ELSE monOut[x]
            /\ \A x \in Actor : monIn'[x] = IF x = b THEN monIn[x] \cup {i}
                                             ELSE monIn[x]
        BY <1>0, <4>1 DEF TypeOK
      <4>3. \A x \in Actor : /\ monOut[x] \subseteq monOut'[x]
                             /\ monIn[x] \subseteq monIn'[x]
        BY <4>2
      <4>4. \A x \in Actor : \A m \in monOut'[x] :
               m \in monOut[x] \/ (x = a /\ m = o)
        BY <4>2
      <4>5. \A x \in Actor : \A m \in monIn'[x] :
               m \in monIn[x] \/ (x = b /\ m = i)
        BY <4>2
      <4>6. o \in monOut'[a] /\ i \in monIn'[b]
        BY <4>2
      <4> QED
        BY <4>3, <4>4, <4>5, <4>6
    <3>4. \A x \in Actor : /\ \A m \in monOut[x] : m.peer \in Actor
                           /\ \A m \in monIn[x] : m.peer \in Actor
      BY <1>0 DEF TypeOK, Monitors
    <3> QED
      BY <1>0, <2>2, <3>1, <3>3, <3>4 DEF MonitorsPaired
  <2> QED
    BY <2>1, <2>2
<1>3. ASSUME NEW b \in Actor, Spawn(a, b)
      PROVE  MonitorsPaired'
  <2>1. /\ ~present[b] /\ monOut[b] = {} /\ monIn[b] = {}
        /\ fin[b].mons = {} /\ fin[b].watchers = {}
    BY <1>0, <1>3 DEF Spawn, SpawnActor, Lifecycle, Nothing
  <2>2. /\ present' = [present EXCEPT ![b] = TRUE]
        /\ UNCHANGED <<fin, monOut, monIn>>
    BY <1>3 DEF Spawn, SpawnActor
  <2>3. \A x \in Actor : /\ \A m \in monOut[x] : m.peer \in Actor
                         /\ \A m \in monIn[x] : m.peer \in Actor
    BY <1>0 DEF TypeOK, Monitors
  <2> QED
    BY <1>0, <2>1, <2>2, <2>3 DEF MonitorsPaired, TypeOK
<1>4. CASE Demonitor(a)
  <2>1. PICK m \in monOut[a] :
          /\ monOut' = [monOut EXCEPT ![a] = @ \ {m}]
          /\ monIn' = IF present[m.peer]
                      THEN [monIn EXCEPT ![m.peer] =
                              @ \ {[ref |-> m.ref, peer |-> a]}]
                      ELSE monIn
    BY <1>4 DEF Demonitor
  <2>2. present[a] /\ UNCHANGED <<present, fin>>
    BY <1>0, <1>4 DEF Demonitor, Runs, Lifecycle
  <2> QED
    BY <1>0, <2>1, <2>2 DEF MonitorsPaired, TypeOK, Monitors
<1>5. CASE Finalize(a)
  <2>1. /\ present' = [present EXCEPT ![a] = FALSE]
        /\ monOut' = [monOut EXCEPT ![a] = {}]
        /\ monIn' = [monIn EXCEPT ![a] = {}]
        /\ fin'[a].mons = {m \in monOut[a] : m.peer # a}
        /\ fin'[a].watchers = {m \in monIn[a] : m.peer # a}
        /\ \A x \in Actor : x # a => fin'[x] = fin[x]
        /\ present[a]
    BY <1>0, <1>5 DEF Finalize, TypeOK, Lifecycle
  <2> QED
    BY <1>0, <2>1 DEF MonitorsPaired, TypeOK, Monitors
<1>6. CASE FinalizeMonitoring(a)
  <2>1. PICK m \in fin[a].mons :
          /\ fin' = MonDone(a, m)
          /\ monIn' = IF present[m.peer]
                 THEN [monIn EXCEPT ![m.peer] =
                         @ \ {[ref |-> m.ref, peer |-> a]}]
                 ELSE monIn
    BY <1>6 DEF FinalizeMonitoring, MonDone
  <2>2. ~present[a] /\ UNCHANGED <<present, monOut>>
    BY <1>0, <1>6 DEF FinalizeMonitoring, Lifecycle
  <2>3. /\ m \in [ref : Ref, peer : Actor]
        /\ \A x \in Actor : /\ monOut[x] \subseteq [ref : Ref, peer : Actor]
                            /\ monIn[x] \subseteq [ref : Ref, peer : Actor]
        /\ \A n \in [ref : Ref, peer : Actor] :
             n.peer \in Actor /\ n = [ref |-> n.ref, peer |-> n.peer]
    BY <1>0, <2>1 DEF TypeOK, Monitors
  <2>4. \A x \in Actor :
          /\ fin'[x].mons = IF x = a THEN fin[x].mons \ {m} ELSE fin[x].mons
          /\ fin'[x].watchers = fin[x].watchers
    BY <1>0, <2>1, FinParts
  <2>5. \A x \in Actor :
          monIn'[x] = IF x = m.peer /\ present[x]
                      THEN monIn[x] \ {[ref |-> m.ref, peer |-> a]}
                      ELSE monIn[x]
    BY <1>0, <2>1, <2>3 DEF TypeOK
  <2>6. \A x \in Actor : present[x] => \A n \in monOut'[x] :
          [ref |-> n.ref, peer |-> x]
            \in IF present[n.peer] THEN monIn'[n.peer] ELSE fin'[n.peer].watchers
    BY <2>2, <2>3, <2>4, <2>5 DEF MonitorsPaired
  <2>7. \A x \in Actor : present[x] => \A n \in monIn'[x] :
          [ref |-> n.ref, peer |-> x]
            \in IF present[n.peer] THEN monOut'[n.peer] ELSE fin'[n.peer].mons
    <3> SUFFICES ASSUME NEW x \in Actor, present[x], NEW n \in monIn'[x]
        PROVE  [ref |-> n.ref, peer |-> x]
            \in IF present[n.peer] THEN monOut'[n.peer] ELSE fin'[n.peer].mons
      OBVIOUS
    <3>1. n \in monIn[x] /\ n \in [ref : Ref, peer : Actor]
      BY <2>3, <2>5
    <3>2. [ref |-> n.ref, peer |-> x]
            \in IF present[n.peer] THEN monOut[n.peer] ELSE fin[n.peer].mons
      BY <3>1 DEF MonitorsPaired
    <3>3. CASE n.peer = a /\ [ref |-> n.ref, peer |-> x] = m
      <4>1. x = m.peer /\ n = [ref |-> m.ref, peer |-> a]
        BY <2>3, <3>1, <3>3
      <4> QED
        BY <2>5, <4>1
    <3>4. CASE ~(n.peer = a /\ [ref |-> n.ref, peer |-> x] = m)
      BY <2>2, <2>4, <3>1, <3>2, <3>4
    <3> QED
      BY <3>3, <3>4
  <2> QED
    BY <2>2, <2>6, <2>7 DEF MonitorsPaired
<1>7. CASE FinalizeWatcher(a)
  <2>1. PICK m \in fin[a].watchers :
          /\ fin' = WatcherDone(a, m)
          /\ monOut' = IF present[m.peer]
                  THEN [monOut EXCEPT ![m.peer] =
                          @ \ {[ref |-> m.ref, peer |-> a]}]
                  ELSE monOut
    BY <1>7 DEF FinalizeWatcher, WatcherDone
  <2>2. ~present[a] /\ UNCHANGED <<present, monIn>>
    BY <1>0, <1>7 DEF FinalizeWatcher, Lifecycle
  <2>3. /\ m \in [ref : Ref, peer : Actor]
        /\ \A x \in Actor : /\ monOut[x] \subseteq [ref : Ref, peer : Actor]
                            /\ monIn[x] \subseteq [ref : Ref, peer : Actor]
        /\ \A n \in [ref : Ref, peer : Actor] :
             n.peer \in Actor /\ n = [ref |-> n.ref, peer |-> n.peer]
    BY <1>0, <2>1 DEF TypeOK, Monitors
  <2>4. \A x \in Actor :
          /\ fin'[x].mons = fin[x].mons
          /\ fin'[x].watchers = IF x = a THEN fin[x].watchers \ {m}
                                ELSE fin[x].watchers
    BY <1>0, <2>1, FinParts
  <2>5. \A x \in Actor :
          monOut'[x] = IF x = m.peer /\ present[x]
                       THEN monOut[x] \ {[ref |-> m.ref, peer |-> a]}
                       ELSE monOut[x]
    BY <1>0, <2>1, <2>3 DEF TypeOK
  <2>6. \A x \in Actor : present[x] => \A n \in monOut'[x] :
          [ref |-> n.ref, peer |-> x]
            \in IF present[n.peer] THEN monIn'[n.peer] ELSE fin'[n.peer].watchers
    <3> SUFFICES ASSUME NEW x \in Actor, present[x], NEW n \in monOut'[x]
        PROVE  [ref |-> n.ref, peer |-> x]
            \in IF present[n.peer] THEN monIn'[n.peer] ELSE fin'[n.peer].watchers
      OBVIOUS
    <3>1. n \in monOut[x] /\ n \in [ref : Ref, peer : Actor]
      BY <2>3, <2>5
    <3>2. [ref |-> n.ref, peer |-> x]
            \in IF present[n.peer] THEN monIn[n.peer] ELSE fin[n.peer].watchers
      BY <3>1 DEF MonitorsPaired
    <3>3. CASE n.peer = a /\ [ref |-> n.ref, peer |-> x] = m
      <4>1. x = m.peer /\ n = [ref |-> m.ref, peer |-> a]
        BY <2>3, <3>1, <3>3
      <4> QED
        BY <2>5, <4>1
    <3>4. CASE ~(n.peer = a /\ [ref |-> n.ref, peer |-> x] = m)
      BY <2>2, <2>4, <3>1, <3>2, <3>4
    <3> QED
      BY <3>3, <3>4
  <2>7. \A x \in Actor : present[x] => \A n \in monIn'[x] :
          [ref |-> n.ref, peer |-> x]
            \in IF present[n.peer] THEN monOut'[n.peer] ELSE fin'[n.peer].mons
    BY <2>2, <2>3, <2>4, <2>5 DEF MonitorsPaired
  <2> QED
    BY <2>2, <2>6, <2>7 DEF MonitorsPaired
<1>8. CASE FinalizeLink(a)
  <2>1. /\ UNCHANGED <<present, monOut, monIn>>
        /\ \E b : fin' = PeerDone(a, b)
    BY <1>8 DEF FinalizeLink, PeerDone
  <2>2. \A x \in Actor : /\ fin'[x].mons = fin[x].mons
                         /\ fin'[x].watchers = fin[x].watchers
    <3>1. PICK b : fin' = PeerDone(a, b)
      BY <2>1
    <3> QED
      BY <1>0, <3>1, FinParts
  <2> QED
    BY <1>0, <2>1, <2>2 DEF MonitorsPaired, TypeOK, Monitors
<1> QED
  BY <1>1, <1>2, <1>3, <1>4, <1>5, <1>6, <1>7, <1>8 DEF BondStep

\* A link or a monitor is known on both sides, or the side that is gone is
\* about to tell the other, although finalize_actor drops the record under one
\* lock and then takes a lock for each peer.  The only links that nobody will
\* break are those insert_actor_record made to a parent that had exited before
\* the spawn.
THEOREM BondsKept == Spec => []BondsPaired
<1> DEFINE BondInv == BondsPaired /\ OrphansBorn
<1>1. Init => BondInv
  BY DEF Init, BondsPaired, LinksPaired, MonitorsPaired, OrphansBorn
<1>2. TypeInv /\ BondInv /\ [Next]_vars => BondInv'
  <2> SUFFICES ASSUME TypeInv, BondInv, [Next]_vars PROVE BondInv'
    OBVIOUS
  <2>1. CASE UNCHANGED vars
    BY <2>1
       DEF vars, record, BondsPaired, LinksPaired, MonitorsPaired, OrphansBorn
  <2>2. ASSUME NEW a \in Actor, Task(a) \/ UserCall(a)
        PROVE  BondInv'
    <3>1. OrphansBorn'
      BY <2>2, OrphansStep
    <3>2. CASE BondStep(a)
      BY <3>1, <3>2, LinksStep, MonitorsStep DEF BondsPaired
    <3>3. CASE ~BondStep(a)
      <4>1. UNCHANGED <<present, links, monOut, monIn, fin, orphans>>
        BY <2>2, <3>3, OtherSteps
      <4> QED
        BY <3>1, <4>1 DEF BondsPaired, LinksPaired, MonitorsPaired
    <3> QED
      BY <3>2, <3>3
  <2> QED
    BY <2>1, <2>2 DEF Next
<1> QED
  BY <1>1, <1>2, TypeInit, TypeInductive, PTL DEF Spec
-----------------------------------------------------------------------------
(* A monitor is answered once.                                             *)

\* The monitors of b that have still to be answered.
Held(b) == monIn[b] \cup fin[b].watchers

\* A monitor that is held has a reference of its own, which was given out and
\* not answered; a reference not yet given out was not answered either.
HeldUnanswered ==
  \A b \in Actor : \A m \in Held(b) : m.ref <= calls /\ downs[m.ref] = 0

HeldOnce ==
  \A b, c \in Actor : \A m \in Held(b), n \in Held(c) :
    m.ref = n.ref => b = c /\ m = n

Answered == \A r \in Ref : downs[r] <= 1 /\ (r > calls => downs[r] = 0)

DownInv == HeldUnanswered /\ HeldOnce /\ Answered

LEMMA HeldShrinks ==
  ASSUME TypeOK, DownInv, UNCHANGED downs, calls' = calls \/ calls' = calls + 1,
         \A b \in Actor : Held(b)' \subseteq Held(b)
  PROVE  DownInv'
<1>0. /\ calls \in Nat /\ calls' \in Nat /\ calls <= calls' /\ Ref \subseteq Nat
      /\ \A b \in Actor : \A m \in Held(b) : m.ref \in Nat
  BY CapacityAssumption DEF TypeOK, Ref, Held, Monitors
<1>1. HeldUnanswered'
  BY <1>0 DEF DownInv, HeldUnanswered
<1>2. HeldOnce'
  BY DEF DownInv, HeldOnce
<1>3. Answered'
  BY <1>0 DEF DownInv, Answered
<1> QED
  BY <1>1, <1>2, <1>3 DEF DownInv

LEMMA DownStep ==
  ASSUME TypeInv, DownInv, NEW a \in Actor, BondStep(a)
  PROVE  DownInv'
<1>0. /\ TypeOK /\ Lifecycle
      /\ HeldUnanswered /\ HeldOnce /\ Answered
      /\ calls \in Nat /\ MaxCalls \in Nat /\ Ref \subseteq Nat
      /\ \A b \in Actor : Held(b) \subseteq [ref : Ref, peer : Actor]
  BY CapacityAssumption DEF TypeInv, TypeOK, DownInv, Ref, Held, Monitors
<1>1. ASSUME NEW b \in Actor, Link(a, b) \/ Unlink(a, b) \/ Spawn(a, b)
      PROVE  DownInv'
  <2>1. UNCHANGED <<monIn, fin, downs>> /\ calls' = calls + 1
    BY <1>1 DEF Link, Unlink, Spawn, Runs
  <2> QED
    BY <1>0, <2>1, HeldShrinks DEF Held
<1>2. ASSUME NEW b \in Actor, Monitor(a, b), present[b]
      PROVE  DownInv'
  <2> DEFINE i == [ref |-> calls', peer |-> a]
  <2>1. /\ calls' = calls + 1 /\ UNCHANGED <<fin, downs>>
        /\ monIn' = [monIn EXCEPT ![b] = @ \cup {i}]
        /\ calls' \in Ref
    BY <1>0, <1>2 DEF Monitor, Runs, Ref
  <2>2. i.ref = calls' /\ i.ref > calls /\ downs[i.ref] = 0
    BY <1>0, <2>1 DEF Answered
  <2> HIDE DEF i
  <2>3. \A c \in Actor : Held(c)' = IF c = b THEN Held(c) \cup {i} ELSE Held(c)
    <3>1. \A c \in Actor : monIn'[c] = IF c = b THEN monIn[c] \cup {i}
                                       ELSE monIn[c]
      BY <1>0, <2>1 DEF TypeOK
    <3> QED
      BY <2>1, <3>1 DEF Held
  <2>4. \A c \in Actor : \A m \in Held(c) : m.ref \in Nat /\ m.ref <= calls
    BY <1>0 DEF HeldUnanswered
  <2>5. HeldUnanswered'
    BY <1>0, <2>1, <2>2, <2>3, <2>4 DEF HeldUnanswered
  <2>6. HeldOnce'
    BY <1>0, <2>2, <2>3, <2>4 DEF HeldOnce
  <2>7. Answered'
    BY <1>0, <2>1 DEF Answered
  <2> QED
    BY <2>5, <2>6, <2>7 DEF DownInv
<1>3. ASSUME NEW b \in Actor, Monitor(a, b), ~present[b]
      PROVE  DownInv'
  <2>1. /\ calls' = calls + 1 /\ UNCHANGED <<fin, monIn>>
        /\ downs' = [downs EXCEPT ![calls'] = @ + 1]
        /\ calls' \in Ref
    BY <1>0, <1>3 DEF Monitor, Runs, Ref
  <2>2. downs[calls'] = 0 /\ downs'[calls'] = 1
        /\ \A r \in Ref : r # calls' => downs'[r] = downs[r]
    BY <1>0, <2>1 DEF Answered, TypeOK
  <2>3. \A c \in Actor : Held(c)' = Held(c)
    BY <2>1 DEF Held
  <2>4. HeldUnanswered'
    <3>1. \A c \in Actor : \A m \in Held(c) :
            m.ref \in Ref /\ m.ref <= calls /\ downs[m.ref] = 0
      BY <1>0 DEF HeldUnanswered
    <3>2. \A r \in Ref : r <= calls => r <= calls' /\ downs'[r] = downs[r]
      BY <1>0, <2>1, <2>2
    <3> QED
      BY <2>3, <3>1, <3>2 DEF HeldUnanswered
  <2>5. HeldOnce'
    BY <1>0, <2>3 DEF HeldOnce
  <2>6. Answered'
    BY <1>0, <2>1, <2>2 DEF Answered
  <2> QED
    BY <2>4, <2>5, <2>6 DEF DownInv
<1>4. CASE Demonitor(a)
  <2>1. calls' = calls + 1 /\ UNCHANGED <<fin, downs>>
    BY <1>4 DEF Demonitor, Runs
  <2>2. PICK m : monIn' = IF present[m.peer]
                          THEN [monIn EXCEPT ![m.peer] =
                                  @ \ {[ref |-> m.ref, peer |-> a]}]
                          ELSE monIn
    BY <1>4 DEF Demonitor
  <2>3. \A c \in Actor : monIn'[c] \subseteq monIn[c]
    BY <1>0, <2>2 DEF TypeOK
  <2> QED
    BY <1>0, <2>1, <2>3, HeldShrinks DEF Held
<1>5. CASE Finalize(a)
  <2>1. /\ UNCHANGED <<calls, downs>>
        /\ monIn' = [monIn EXCEPT ![a] = {}]
        /\ fin'[a].watchers = {m \in monIn[a] : m.peer # a}
        /\ \A x \in Actor : x # a => fin'[x] = fin[x]
    BY <1>0, <1>5 DEF Finalize, TypeOK
  <2>2. \A c \in Actor : monIn'[c] = IF c = a THEN {} ELSE monIn[c]
    BY <1>0, <2>1 DEF TypeOK
  <2>3. \A c \in Actor : Held(c)' \subseteq Held(c)
    BY <2>1, <2>2 DEF Held
  <2> QED
    BY <1>0, <2>1, <2>3, HeldShrinks
<1>6. CASE FinalizeMonitoring(a)
  <2>1. PICK m : /\ fin' = MonDone(a, m)
                 /\ monIn' = IF present[m.peer]
                             THEN [monIn EXCEPT ![m.peer] =
                                     @ \ {[ref |-> m.ref, peer |-> a]}]
                             ELSE monIn
    BY <1>6 DEF FinalizeMonitoring, MonDone
  <2>2. UNCHANGED <<calls, downs>>
    BY <1>6 DEF FinalizeMonitoring
  <2>3. \A c \in Actor : fin'[c].watchers = fin[c].watchers
    BY <1>0, <2>1, FinParts
  <2>4. \A c \in Actor : monIn'[c] \subseteq monIn[c]
    BY <1>0, <2>1 DEF TypeOK
  <2> QED
    BY <1>0, <2>2, <2>3, <2>4, HeldShrinks DEF Held
<1>7. CASE FinalizeWatcher(a)
  <2>1. PICK m \in fin[a].watchers :
          /\ fin' = WatcherDone(a, m)
          /\ downs' = [downs EXCEPT ![m.ref] = @ + 1]
    BY <1>7 DEF FinalizeWatcher, WatcherDone
  <2>2. UNCHANGED <<calls, monIn>> /\ monIn[a] = {}
    BY <1>0, <1>7 DEF FinalizeWatcher, Lifecycle
  <2>3. \A c \in Actor : fin'[c].watchers = IF c = a THEN fin[c].watchers \ {m}
                                            ELSE fin[c].watchers
    BY <1>0, <2>1, FinParts
  <2>4. /\ m \in Held(a)
        /\ \A c \in Actor : Held(c)' = IF c = a THEN Held(c) \ {m} ELSE Held(c)
    BY <2>1, <2>2, <2>3 DEF Held
  <2>5. m.ref \in Ref /\ m.ref <= calls /\ downs[m.ref] = 0
    BY <1>0, <2>4 DEF HeldUnanswered
  <2>6. /\ downs'[m.ref] = 1
        /\ \A r \in Ref : r # m.ref => downs'[r] = downs[r]
    BY <1>0, <2>1, <2>5 DEF TypeOK
  <2>7. \A c \in Actor : \A n \in Held(c)' : n \in Held(c) /\ n.ref # m.ref
    BY <1>0, <2>4 DEF HeldOnce
  <2>8. HeldUnanswered'
    BY <1>0, <2>2, <2>6, <2>7 DEF HeldUnanswered
  <2>9. HeldOnce'
    BY <1>0, <2>7 DEF HeldOnce
  <2>10. Answered'
    BY <1>0, <2>2, <2>5, <2>6 DEF Answered
  <2> QED
    BY <2>8, <2>9, <2>10 DEF DownInv
<1>8. CASE FinalizeLink(a)
  <2>1. /\ UNCHANGED <<monIn, downs, calls>>
        /\ \E b : fin' = PeerDone(a, b)
    BY <1>8 DEF FinalizeLink, PeerDone
  <2>2. PICK b : fin' = PeerDone(a, b)
    BY <2>1
  <2>3. \A c \in Actor : fin'[c].watchers = fin[c].watchers
    BY <1>0, <2>2, FinParts
  <2> QED
    BY <1>0, <2>1, <2>3, HeldShrinks DEF Held
<1> QED
  BY <1>1, <1>2, <1>3, <1>4, <1>5, <1>6, <1>7, <1>8 DEF BondStep

\* No monitor reference is answered twice, whichever of the target's exit, the
\* watcher's exit, demonitor and the immediate answer of a monitor of an absent
\* actor come first.
THEOREM DownsOnce == Spec => []DownOnce
<1>1. Init => DownInv
  BY CapacityAssumption
     DEF Init, DownInv, HeldUnanswered, HeldOnce, Answered, Held, Nothing, Ref
<1>2. TypeInv /\ DownInv /\ [Next]_vars => DownInv'
  <2> SUFFICES ASSUME TypeInv, DownInv, [Next]_vars PROVE DownInv'
    OBVIOUS
  <2>1. ASSUME UNCHANGED <<monIn, fin, downs>>,
               calls' = calls \/ calls' = calls + 1
        PROVE  DownInv'
    BY <2>1, HeldShrinks DEF TypeInv, Held
  <2>2. ASSUME NEW a \in Actor, Task(a) \/ UserCall(a)
        PROVE  DownInv'
    <3>1. CASE BondStep(a)
      BY <3>1, DownStep
    <3>2. CASE ~BondStep(a)
      BY <2>1, <2>2, <3>2, OtherSteps
    <3> QED
      BY <3>1, <3>2
  <2> QED
    BY <2>1, <2>2 DEF Next, vars, record
<1>3. DownInv => DownOnce
  BY DEF DownInv, Answered, DownOnce
<1> QED
  BY <1>1, <1>2, <1>3, TypeInit, TypeInductive, PTL DEF Spec
=============================================================================
