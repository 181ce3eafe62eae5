-------------------------- MODULE SupervisorProofs --------------------------
(***************************************************************************)
(* Proofs about the supervisor: whatever order the exits of its children,  *)
(* the answers of the runtime and its own turns come in, no child runs     *)
(* that it does not track, and no child runs twice.                        *)
(*                                                                         *)
(* Its children are asked to stop in reverse declared order, and it never  *)
(* restarts more often than the intensity allows.                          *)
(***************************************************************************)
EXTENDS Supervisor, FiniteSetTheorems, SequenceTheorems,
        WellFoundedInduction, TLAPS

-----------------------------------------------------------------------------
(* The shapes of the control state.                                        *)

IsInitPlan(p) ==
  \E s \in Seq(Child) : p = [kind |-> "Init", start |-> s]

IsRestartPlan(p) ==
  \E active, queue : \E s \in Seq(Child) :
    p = [kind |-> "Restart", active |-> active, queue |-> queue, start |-> s]

IsShutdownPlan(p) ==
  \E active, queue, reason :
    p = [kind |-> "Shutdown", active |-> active, queue |-> queue,
         reason |-> reason]

PlanOK ==
  \/ plan = NoPlan
  \/ IsInitPlan(plan)
  \/ IsRestartPlan(plan) /\ plan.start # <<>>
  \/ IsShutdownPlan(plan)

TodoOK ==
  \/ todo = Nothing
  \/ /\ todo = [op |-> "start"]
     /\ plan.kind \in {"Init", "Restart"} /\ plan.start # <<>>
  \/ /\ todo \in [op : {"remember"}, actor : Instance]
     /\ plan.kind \in {"Init", "Restart"} /\ plan.start # <<>>
  \/ /\ \E c : todo = [op |-> "shutdown", child |-> c]
     /\ plan.kind \in {"Shutdown", "Restart"}

ControlOK ==
  /\ phase \in {"starting", "up", "stopped"}
  /\ forced \in BOOLEAN
  /\ flags \in SupervisorFlags
  /\ PlanOK
  /\ TodoOK
  /\ phase = "stopped" => todo = Nothing

MapsOK ==
  /\ running \in [Child -> Instance \cup {None}]
  /\ metadata \in [Child -> Instance \cup {None}]

ActorsOK ==
  /\ status \in [Instance -> Live \cup {"unborn", "dead", "gone"}]
  /\ childOf \in [Instance -> Child]
  /\ seen \in [Instance -> Reason]

MailOK == mailbox \in Seq([from : Instance \cup {Foreign}, reason : Reason])

TypeInv == ControlOK /\ MapsOK /\ ActorsOK /\ MailOK
-----------------------------------------------------------------------------
(* The invariants.                                                         *)

Remembering(a) == todo = [op |-> "remember", actor |-> a]

\* The instances are spawned in order.
BornInv ==
  \E k \in 0..MaxActors :
    \A a \in Instance : status[a] = "unborn" <=> a > k

\* What the two tables and the current turn name is an instance of the child.
RecordInv ==
  /\ \A c \in Child : running[c] # None =>
       childOf[running[c]] = c /\ status[running[c]] # "unborn"
  /\ \A c \in Child : metadata[c] # None =>
       childOf[metadata[c]] = c /\ status[metadata[c]] # "unborn"
  /\ \A a \in Instance : Remembering(a) =>
       /\ status[a] # "unborn"
       /\ childOf[a] = Head(plan.start)
       /\ running[Head(plan.start)] = None

\* An exit signal that has arrived is of an instance that is gone.
MailInv ==
  \A i \in DOMAIN mailbox :
    mailbox[i].from # Foreign => status[mailbox[i].from] = "gone"

Tracked(a) == running[childOf[a]] = a \/ Remembering(a)

\* The first part of NoOrphans.
TrackedInv ==
  phase # "stopped" => \A a \in Instance : IsLive(a) => Tracked(a)

\* The exit of a is on its way to the supervisor.
Due(a) ==
  \/ status[a] = "dead"
  \/ \E i \in DOMAIN mailbox : mailbox[i].from = a

\* The supervisor hears of every instance it tracks that has exited.
HearInv ==
  phase # "stopped" /\ ~forced =>
    \A a \in Instance : Tracked(a) /\ status[a] # "unborn" => IsLive(a) \/ Due(a)

\* Where the two tables differ, the difference is being recorded, or an exit
\* that ends it, or ends the supervisor, is on its way.
Reconciling(c) ==
  \/ metadata[c] # None /\ Remembering(metadata[c])
  \/ running[c] # None /\ Due(running[c])
  \/ metadata[c] # None /\ Due(metadata[c])

TablesInv ==
  phase # "stopped" =>
    /\ \A c \in Child : running[c] # None => metadata[c] \in {None, running[c]}
    /\ ~forced /\ plan.kind # "Shutdown" =>
         \A c \in Child : metadata[c] # running[c] => Reconciling(c)

Inv ==
  /\ TypeInv
  /\ BornInv
  /\ RecordInv
  /\ MailInv
  /\ TrackedInv
  /\ OneInstancePerChild
  /\ HearInv
  /\ TablesInv
-----------------------------------------------------------------------------
(* How a turn goes on.                                                     *)

AsksToStop(t) == \E c : t = [op |-> "shutdown", child |-> c]

\* The supervisor has stopped, or is shutting down.
Settles ==
  \/ phase' = "stopped" /\ plan' = NoPlan /\ todo' = Nothing
  \/ phase' = phase /\ IsShutdownPlan(plan') /\ (AsksToStop(todo') \/ todo' = Nothing)

\* A restart goes on.
RestartsOn ==
  /\ phase' = phase
  /\ IsRestartPlan(plan') /\ plan'.start # <<>>
  /\ AsksToStop(todo') \/ todo' = [op |-> "start"] \/ todo' = Nothing

LEMMA RestartPlanShape ==
  ASSUME NEW p, NEW active, NEW queue, NEW s \in Seq(Child),
         p = [kind |-> "Restart", active |-> active, queue |-> queue, start |-> s]
  PROVE  /\ IsRestartPlan(p)
         /\ p.start = s /\ p.kind = "Restart"
BY DEF IsRestartPlan

LEMMA ShutdownPlanShape ==
  ASSUME NEW p, NEW active, NEW queue, NEW reason,
         p = [kind |-> "Shutdown", active |-> active, queue |-> queue,
              reason |-> reason]
  PROVE  IsShutdownPlan(p) /\ p.kind = "Shutdown"
BY DEF IsShutdownPlan

LEMMA CrossedShutdown ==
  ASSUME NEW p, NEW c, IsShutdownPlan(p)
  PROVE  IsShutdownPlan(Crossed(p, c))
<1>1. PICK active, queue, reason :
        p = [kind |-> "Shutdown", active |-> active, queue |-> queue,
             reason |-> reason]
  BY DEF IsShutdownPlan
<1>2. [p EXCEPT !.active = <<>>] =
        [kind |-> "Shutdown", active |-> <<>>, queue |-> queue,
         reason |-> reason]
  BY <1>1
<1>3. [p EXCEPT !.queue = RemoveFirst(@, c)] =
        [kind |-> "Shutdown", active |-> active, queue |-> RemoveFirst(queue, c),
         reason |-> reason]
  BY <1>1
<1>. QED  BY <1>2, <1>3, ShutdownPlanShape DEF Crossed

LEMMA CrossedRestart ==
  ASSUME NEW p, NEW c, IsRestartPlan(p)
  PROVE  IsRestartPlan(Crossed(p, c)) /\ Crossed(p, c).start = p.start
<1>1. PICK active, queue : \E s \in Seq(Child) :
        p = [kind |-> "Restart", active |-> active, queue |-> queue, start |-> s]
  BY DEF IsRestartPlan
<1>2. PICK s \in Seq(Child) :
        p = [kind |-> "Restart", active |-> active, queue |-> queue, start |-> s]
  BY <1>1
<1>3. [p EXCEPT !.active = <<>>] =
        [kind |-> "Restart", active |-> <<>>, queue |-> queue, start |-> s]
  BY <1>2
<1>4. [p EXCEPT !.queue = RemoveFirst(@, c)] =
        [kind |-> "Restart", active |-> active, queue |-> RemoveFirst(queue, c),
         start |-> s]
  BY <1>2
<1>. QED  BY <1>2, <1>3, <1>4, RestartPlanShape DEF Crossed

LEMMA ShutdownNextSettles ==
  ASSUME NEW p, IsShutdownPlan(p), ShutdownNext(p)
  PROVE  Settles
<1>1. PICK active, queue, reason :
        p = [kind |-> "Shutdown", active |-> active, queue |-> queue,
             reason |-> reason]
  BY DEF IsShutdownPlan
<1>2. CASE p.queue = <<>>
  BY <1>2 DEF ShutdownNext, Stop, Settles
<1>3. CASE p.queue # <<>>
  <2>1. plan' = [kind |-> "Shutdown", active |-> <<Head(queue)>>,
                 queue |-> Tail(queue), reason |-> reason]
    BY <1>1, <1>3 DEF ShutdownNext, Continue
  <2>2. AsksToStop(todo') /\ phase' = phase
    BY <1>3 DEF ShutdownNext, Continue, AsksToStop
  <2>. QED  BY <2>1, <2>2, ShutdownPlanShape DEF Settles
<1>. QED  BY <1>2, <1>3

LEMMA BeginShutdownSettles ==
  ASSUME NEW run, NEW reason, BeginShutdown(run, reason)
  PROVE  Settles
<1>. DEFINE p == [kind |-> "Shutdown", active |-> <<>>,
                  queue |-> RunningReverse(run, Child), reason |-> reason]
<1>1. ShutdownNext(p)
  BY DEF BeginShutdown
<1>2. IsShutdownPlan(p)
  BY ShutdownPlanShape
<1>. QED  BY <1>1, <1>2, ShutdownNextSettles

LEMMA RestartNextGoesOn ==
  ASSUME NEW p, IsRestartPlan(p), p.start # <<>>, RestartNext(p)
  PROVE  RestartsOn
<1>1. PICK active, queue : \E s \in Seq(Child) :
        p = [kind |-> "Restart", active |-> active, queue |-> queue, start |-> s]
  BY DEF IsRestartPlan
<1>2. PICK s \in Seq(Child) :
        p = [kind |-> "Restart", active |-> active, queue |-> queue, start |-> s]
  BY <1>1
<1>3. CASE p.queue = <<>>
  <2>1. plan' = [kind |-> "Restart", active |-> <<>>, queue |-> queue, start |-> s]
    BY <1>2, <1>3 DEF RestartNext, Continue
  <2>2. todo' = [op |-> "start"] /\ phase' = phase
    BY <1>3 DEF RestartNext, Continue
  <2>. QED  BY <2>1, <2>2, <1>2, RestartPlanShape DEF RestartsOn
<1>4. CASE p.queue # <<>>
  <2>1. plan' = [kind |-> "Restart", active |-> <<Head(queue)>>,
                 queue |-> Tail(queue), start |-> s]
    BY <1>2, <1>4 DEF RestartNext, Continue
  <2>2. AsksToStop(todo') /\ phase' = phase
    BY <1>4 DEF RestartNext, Continue, AsksToStop
  <2>. QED  BY <2>1, <2>2, <1>2, RestartPlanShape DEF RestartsOn
<1>. QED  BY <1>3, <1>4

LEMMA AdvanceRestartEnds ==
  ASSUME NEW p, NEW c, NEW run, IsRestartPlan(p), p.start # <<>>,
         AdvanceRestart(p, c, run)
  PROVE  Settles \/ RestartsOn
<1>1. CASE Expects(p, c)
  BY <1>1, CrossedRestart, RestartNextGoesOn DEF AdvanceRestart
<1>2. CASE ~Expects(p, c)
  BY <1>2, BeginShutdownSettles DEF AdvanceRestart
<1>. QED  BY <1>1, <1>2

LEMMA BeginRestartEnds ==
  ASSUME NEW scope \in Seq(Child), scope # <<>>, NEW run, BeginRestart(scope, run)
  PROVE  Settles \/ RestartsOn
<1>. DEFINE p == [kind |-> "Restart", active |-> <<>>,
                  queue |-> RunningReverse(run, ToSet(scope)), start |-> scope]
<1>1. RestartNext(RestartOf(scope, run)) \/ BeginShutdown(run, "Error")
  BY DEF BeginRestart
<1>2. RestartOf(scope, run) = p
  BY DEF RestartOf
<1>3. IsRestartPlan(p) /\ p.start = scope
  BY RestartPlanShape
<1>. HIDE DEF p
<1>4. IsRestartPlan(RestartOf(scope, run)) /\ RestartOf(scope, run).start # <<>>
  BY <1>2, <1>3
<1>. QED  BY <1>1, <1>4, RestartNextGoesOn, BeginShutdownSettles

LEMMA ScopeIsAList ==
  ASSUME NEW strategy \in Strategy, NEW c \in Child
  PROVE  RestartScope(strategy, c) \in Seq(Child)
         /\ RestartScope(strategy, c) # <<>>
<1>1. \E i \in DOMAIN Order : Order[i] = c
  BY OrderAssumption DEF ToSet
<1>2. Position(c) \in 1..Len(Order)
  BY <1>1, OrderAssumption DEF Position
<1>3. CASE strategy = "OneForOne"
  BY <1>3 DEF RestartScope
<1>4. CASE strategy = "OneForAll"
  BY <1>4, OrderAssumption DEF RestartScope
<1>5. CASE strategy = "RestForOne"
  <2>. DEFINE s == SubSeq(Order, Position(c), Len(Order))
  <2>1. s \in Seq(Child) /\ Len(s) = Len(Order) - Position(c) + 1
    BY <1>2, OrderAssumption
  <2>. HIDE DEF s
  <2>2. Len(s) > 0
    BY <2>1, <1>2, OrderAssumption
  <2>3. s # <<>>
    BY <2>2
  <2>4. RestartScope(strategy, c) = SubSeq(Order, Position(c), Len(Order))
    BY <1>5 DEF RestartScope
  <2>. QED  BY <2>1, <2>3, <2>4 DEF s
<1>. QED  BY <1>3, <1>4, <1>5 DEF Strategy
-----------------------------------------------------------------------------
(* Every turn ends in one of three ways.                                   *)

TurnEnds ==
  \/ Settles
  \/ plan.kind # "Shutdown" /\ RestartsOn
  \/ UNCHANGED <<phase, plan>> /\ todo' = Nothing

LEMMA KindOfPlan ==
  ASSUME NEW p
  PROVE  /\ IsInitPlan(p) => p.kind = "Init"
         /\ IsRestartPlan(p) => p.kind = "Restart" /\ p.start \in Seq(Child)
         /\ IsShutdownPlan(p) => p.kind = "Shutdown"
BY DEF IsInitPlan, IsRestartPlan, IsShutdownPlan

LEMMA PlanOfKind ==
  ASSUME PlanOK
  PROVE  /\ plan.kind = "None" => plan = NoPlan
         /\ plan.kind = "Init" => IsInitPlan(plan)
         /\ plan.kind = "Restart" => IsRestartPlan(plan) /\ plan.start # <<>>
         /\ plan.kind = "Shutdown" => IsShutdownPlan(plan)
<1>1. NoPlan.kind = "None"
  BY DEF NoPlan
<1>2. /\ IsInitPlan(plan) => plan.kind = "Init"
      /\ IsRestartPlan(plan) => plan.kind = "Restart"
      /\ IsShutdownPlan(plan) => plan.kind = "Shutdown"
  BY KindOfPlan
<1>. QED  BY <1>1, <1>2 DEF PlanOK

LEMMA InactiveShape ==
  ASSUME NEW p
  PROVE  /\ IsShutdownPlan(p) => IsShutdownPlan([p EXCEPT !.active = <<>>])
         /\ IsRestartPlan(p) => /\ IsRestartPlan([p EXCEPT !.active = <<>>])
                                /\ [p EXCEPT !.active = <<>>].start = p.start
<1>1. ASSUME IsShutdownPlan(p)
      PROVE  IsShutdownPlan([p EXCEPT !.active = <<>>])
  <2>1. PICK active, queue, reason :
          p = [kind |-> "Shutdown", active |-> active, queue |-> queue,
               reason |-> reason]
    BY <1>1 DEF IsShutdownPlan
  <2>2. [p EXCEPT !.active = <<>>] =
          [kind |-> "Shutdown", active |-> <<>>, queue |-> queue,
           reason |-> reason]
    BY <2>1
  <2>. QED  BY <2>2, ShutdownPlanShape
<1>2. ASSUME IsRestartPlan(p)
      PROVE  /\ IsRestartPlan([p EXCEPT !.active = <<>>])
             /\ [p EXCEPT !.active = <<>>].start = p.start
  <2>1. PICK active, queue : \E s \in Seq(Child) :
          p = [kind |-> "Restart", active |-> active, queue |-> queue, start |-> s]
    BY <1>2 DEF IsRestartPlan
  <2>2. PICK s \in Seq(Child) :
          p = [kind |-> "Restart", active |-> active, queue |-> queue, start |-> s]
    BY <2>1
  <2>3. [p EXCEPT !.active = <<>>] =
          [kind |-> "Restart", active |-> <<>>, queue |-> queue, start |-> s]
    BY <2>2
  <2>. QED  BY <2>2, <2>3, RestartPlanShape
<1>. QED  BY <1>1, <1>2

LEMMA AdvanceShutdownSettles ==
  ASSUME NEW p, NEW c, IsShutdownPlan(p), AdvanceShutdown(p, c)
  PROVE  Settles
BY CrossedShutdown, ShutdownNextSettles DEF AdvanceShutdown

LEMMA HandleChildExitEnds ==
  ASSUME ControlOK, HandleChildExit
  PROVE  TurnEnds
<1>1. PICK c \in Child :
        LET signal == Head(mailbox)
            run    == Forgotten(c)
        IN  \/ /\ plan.kind = "Shutdown"
               /\ AdvanceShutdown(plan, c)
            \/ /\ plan.kind = "Restart"
               /\ AdvanceRestart(plan, c, run)
            \/ /\ plan.kind = "None"
               /\ BeginRestart(RestartScope(flags.strategy, c), run)
            \/ /\ plan.kind = "None"
               /\ Continue(NoPlan, Nothing)
  BY DEF HandleChildExit
<1>2. PlanOK /\ flags.strategy \in Strategy
  BY DEF ControlOK, SupervisorFlags
<1>3. CASE plan.kind = "Shutdown" /\ AdvanceShutdown(plan, c)
  BY <1>2, <1>3, PlanOfKind, AdvanceShutdownSettles DEF TurnEnds
<1>4. CASE plan.kind = "Restart" /\ AdvanceRestart(plan, c, Forgotten(c))
  BY <1>2, <1>4, PlanOfKind, AdvanceRestartEnds DEF TurnEnds
<1>5. CASE /\ plan.kind = "None"
           /\ BeginRestart(RestartScope(flags.strategy, c), Forgotten(c))
  BY <1>2, <1>5, ScopeIsAList, BeginRestartEnds DEF TurnEnds
<1>6. CASE plan.kind = "None" /\ Continue(NoPlan, Nothing)
  BY <1>2, <1>6, PlanOfKind DEF TurnEnds, Continue
<1>. QED  BY <1>1, <1>3, <1>4, <1>5, <1>6

LEMMA HandleExternalExitEnds ==
  ASSUME ControlOK, HandleExternalExit
  PROVE  TurnEnds
<1>1. CASE plan.kind = "Shutdown"
  BY <1>1 DEF HandleExternalExit, TurnEnds, Continue
<1>2. CASE plan.kind # "Shutdown"
  BY <1>2, BeginShutdownSettles DEF HandleExternalExit, TurnEnds
<1>. QED  BY <1>1, <1>2

LEMMA RequestShutdownNoProcEnds ==
  ASSUME ControlOK, RequestShutdownNoProc
  PROVE  TurnEnds
<1>. DEFINE p == [plan EXCEPT !.active = <<>>]
<1>1. PlanOK /\ plan.kind \in {"Shutdown", "Restart"}
  <2>1. todo.op = "shutdown"
    BY DEF RequestShutdownNoProc
  <2>2. todo # Nothing /\ todo # [op |-> "start"]
        /\ todo \notin [op : {"remember"}, actor : Instance]
    BY <2>1 DEF Nothing
  <2>. QED  BY <2>2 DEF ControlOK, TodoOK
<1>2. \/ plan.kind = "Shutdown" /\ AdvanceShutdown(p, todo.child)
      \/ plan.kind # "Shutdown" /\ AdvanceRestart(p, todo.child, running')
  BY DEF RequestShutdownNoProc
<1>3. CASE plan.kind = "Shutdown" /\ AdvanceShutdown(p, todo.child)
  BY <1>1, <1>3, PlanOfKind, InactiveShape, AdvanceShutdownSettles DEF TurnEnds
<1>4. CASE plan.kind # "Shutdown" /\ AdvanceRestart(p, todo.child, running')
  <2>1. IsRestartPlan(p) /\ p.start # <<>>
    BY <1>1, <1>4, PlanOfKind, InactiveShape
  <2>. HIDE DEF p
  <2>. QED  BY <2>1, <1>4, AdvanceRestartEnds DEF TurnEnds
<1>. QED  BY <1>2, <1>3, <1>4

LEMMA StartFailsEnds ==
  ASSUME ControlOK, StartFails
  PROVE  TurnEnds
BY BeginShutdownSettles DEF StartFails, TurnEnds, Stop, Settles

\* The turns that only settle the control state or leave it.
LEMMA OtherTurnEnds ==
  ASSUME ControlOK,
         \/ HandleShutdown \/ HandleCodeChange \/ ForcedExit \/ RequestShutdown
  PROVE  TurnEnds
<1>1. CASE HandleShutdown
  BY <1>1, BeginShutdownSettles DEF HandleShutdown, TurnEnds
<1>2. CASE HandleCodeChange
  BY <1>2 DEF HandleCodeChange, Idle, turn, TurnEnds
<1>3. CASE ForcedExit
  BY <1>3 DEF ForcedExit, Stop, TurnEnds, Settles
<1>4. CASE RequestShutdown
  BY <1>4 DEF RequestShutdown, Continue, TurnEnds
<1>. QED  BY <1>1, <1>2, <1>3, <1>4

\* A supervisor that has stopped takes no turn.
LEMMA TurnsAreAwake ==
  ASSUME ControlOK, Turn
  PROVE  phase # "stopped"
<1>1. Idle => phase # "stopped"
  BY DEF Idle
<1>2. todo.op \in {"start", "shutdown", "remember"} => phase # "stopped"
  BY DEF ControlOK, Nothing
<1>. QED
  BY <1>1, <1>2 DEF Turn, HandleChildExit, HandleExternalExit, HandleShutdown,
     HandleCodeChange, ForcedExit, RequestShutdown, RequestShutdownNoProc,
     SpawnChild, RememberChild, StartFails

LEMMA TurnEndsControl ==
  ASSUME ControlOK, TurnEnds, phase # "stopped",
         forced' \in BOOLEAN, flags' \in SupervisorFlags
  PROVE  ControlOK'
<1>1. CASE Settles
  <2>1. PlanOK' /\ TodoOK'
    BY <1>1, KindOfPlan DEF Settles, PlanOK, TodoOK, AsksToStop
  <2>2. phase' \in {phase, "stopped"} /\ (phase' = "stopped" => todo' = Nothing)
    BY <1>1 DEF Settles
  <2>. QED  BY <2>1, <2>2 DEF ControlOK
<1>2. CASE RestartsOn
  <2>1. PlanOK' /\ TodoOK'
    BY <1>2, KindOfPlan DEF RestartsOn, PlanOK, TodoOK, AsksToStop
  <2>. QED  BY <1>2, <2>1 DEF RestartsOn, ControlOK
<1>3. CASE UNCHANGED <<phase, plan>> /\ todo' = Nothing
  <2>1. PlanOK' /\ TodoOK'
    BY <1>3 DEF ControlOK, PlanOK, TodoOK
  <2>. QED  BY <1>3, <2>1 DEF ControlOK
<1>. QED  BY <1>1, <1>2, <1>3 DEF TurnEnds

\* The shape of a plan from which the child just started is dropped.
LEMMA StartedShape ==
  ASSUME NEW p, IsInitPlan(p) \/ IsRestartPlan(p), p.start # <<>>
  PROVE  LET rest == [p EXCEPT !.start = Tail(@)]
         IN  /\ IsInitPlan(p) => IsInitPlan(rest)
             /\ IsRestartPlan(p) => IsRestartPlan(rest)
<1>1. ASSUME IsInitPlan(p)
      PROVE  IsInitPlan([p EXCEPT !.start = Tail(@)])
  <2>1. PICK s \in Seq(Child) : p = [kind |-> "Init", start |-> s]
    BY <1>1 DEF IsInitPlan
  <2>2. [p EXCEPT !.start = Tail(@)] = [kind |-> "Init", start |-> Tail(s)]
    BY <2>1
  <2>3. Tail(s) \in Seq(Child)
    BY <2>1
  <2>. QED  BY <2>2, <2>3 DEF IsInitPlan
<1>2. ASSUME IsRestartPlan(p)
      PROVE  IsRestartPlan([p EXCEPT !.start = Tail(@)])
  <2>1. PICK active, queue : \E s \in Seq(Child) :
          p = [kind |-> "Restart", active |-> active, queue |-> queue, start |-> s]
    BY <1>2 DEF IsRestartPlan
  <2>2. PICK s \in Seq(Child) :
          p = [kind |-> "Restart", active |-> active, queue |-> queue, start |-> s]
    BY <2>1
  <2>3. [p EXCEPT !.start = Tail(@)] =
          [kind |-> "Restart", active |-> active, queue |-> queue, start |-> Tail(s)]
    BY <2>2
  <2>4. Tail(s) \in Seq(Child)
    BY <2>2
  <2>. QED  BY <2>3, <2>4, RestartPlanShape
<1>. QED  BY <1>1, <1>2

LEMMA RememberChildControl ==
  ASSUME ControlOK, RememberChild
  PROVE  ControlOK'
<1>. DEFINE rest == [plan EXCEPT !.start = Tail(@)]
<1>1. /\ plan.kind \in {"Init", "Restart"} /\ plan.start # <<>>
      /\ phase # "stopped"
  <2>1. todo.op = "remember"
    BY DEF RememberChild
  <2>2. todo # Nothing /\ todo # [op |-> "start"] /\ ~AsksToStop(todo)
    BY <2>1 DEF Nothing, AsksToStop
  <2>. QED  BY <2>2 DEF ControlOK, TodoOK, AsksToStop
<1>2. /\ IsInitPlan(rest) \/ IsRestartPlan(rest)
      /\ rest.kind \in {"Init", "Restart"}
  BY <1>1, PlanOfKind, StartedShape, KindOfPlan DEF ControlOK
<1>3. /\ UNCHANGED <<forced, flags>>
      /\ \/ rest.start = <<>> /\ plan' = NoPlan /\ todo' = Nothing /\ phase' = "up"
         \/ /\ rest.start # <<>> /\ plan' = rest /\ todo' = [op |-> "start"]
            /\ phase' = phase
  BY DEF RememberChild
<1>. HIDE DEF rest
<1>4. PlanOK' /\ TodoOK'
  BY <1>2, <1>3 DEF PlanOK, TodoOK
<1>. QED  BY <1>1, <1>3, <1>4 DEF ControlOK

LEMMA SpawnChildControl ==
  ASSUME ControlOK, SpawnChild
  PROVE  ControlOK'
<1>1. /\ plan.kind \in {"Init", "Restart"} /\ plan.start # <<>>
      /\ phase # "stopped"
  <2>1. todo.op = "start"
    BY DEF SpawnChild
  <2>2. todo # Nothing /\ ~AsksToStop(todo)
        /\ todo \notin [op : {"remember"}, actor : Instance]
    BY <2>1 DEF Nothing, AsksToStop
  <2>. QED  BY <2>2 DEF ControlOK, TodoOK, AsksToStop
<1>2. /\ UNCHANGED <<forced, flags, phase, plan>>
      /\ \E a \in Instance : todo' = [op |-> "remember", actor |-> a]
  BY DEF SpawnChild, Continue
<1>3. PlanOK' /\ TodoOK'
  BY <1>1, <1>2 DEF ControlOK, PlanOK, TodoOK
<1>. QED  BY <1>1, <1>2, <1>3 DEF ControlOK

LEMMA TurnControl ==
  ASSUME ControlOK, Turn
  PROVE  ControlOK'
<1>1. forced' \in BOOLEAN /\ flags' \in SupervisorFlags
  BY SpecsAssumption DEF Turn, HandleChildExit, HandleExternalExit,
     HandleShutdown, HandleCodeChange, Reconfigure, ForcedExit,
     RequestShutdown, RequestShutdownNoProc, SpawnChild, RememberChild,
     StartFails, ControlOK
<1>2. CASE SpawnChild
  BY <1>2, SpawnChildControl
<1>3. CASE RememberChild
  BY <1>3, RememberChildControl
<1>4. CASE ~SpawnChild /\ ~RememberChild
  <2>1. TurnEnds
    BY <1>4, HandleChildExitEnds, HandleExternalExitEnds,
       RequestShutdownNoProcEnds, StartFailsEnds, OtherTurnEnds DEF Turn
  <2>. QED  BY <1>1, <2>1, TurnsAreAwake, TurnEndsControl
<1>. QED  BY <1>2, <1>3, <1>4
-----------------------------------------------------------------------------
(* Types.                                                                  *)

LEMMA InitTypes == Init => TypeInv
<1>. SUFFICES ASSUME Init PROVE TypeInv
  OBVIOUS
<1>. USE DEF Init
<1>1. IsInitPlan(plan) /\ plan.start # <<>> /\ plan.kind = "Init"
  BY OrderAssumption DEF IsInitPlan
<1>2. ControlOK
  BY <1>1, SpecsAssumption DEF ControlOK, PlanOK, TodoOK
<1>3. Order[1] \in Child
  BY OrderAssumption
<1>4. MapsOK /\ ActorsOK /\ MailOK
  BY <1>3 DEF MapsOK, ActorsOK, MailOK, Reason
<1>. QED  BY <1>2, <1>4 DEF TypeInv

LEMMA HeadOfStart ==
  ASSUME ControlOK, todo.op \in {"start", "remember"}
  PROVE  /\ Head(plan.start) \in Child
         /\ plan.start # <<>> /\ plan.start \in Seq(Child)
         /\ phase # "stopped"
<1>1. todo # Nothing /\ ~AsksToStop(todo)
  BY DEF Nothing, AsksToStop
<1>2. plan.kind \in {"Init", "Restart"} /\ plan.start # <<>>
  BY <1>1 DEF ControlOK, TodoOK, AsksToStop
<1>3. plan.start \in Seq(Child)
  BY <1>2, PlanOfKind, KindOfPlan DEF ControlOK, IsInitPlan
<1>. QED  BY <1>1, <1>2, <1>3 DEF ControlOK

LEMMA TurnTypes ==
  ASSUME TypeInv, Turn
  PROVE  TypeInv'
<1>. USE DEF TypeInv
<1>1. ControlOK'
  BY TurnControl
<1>2. MailOK'
  <2>1. CASE UNCHANGED mailbox
    BY <2>1 DEF MailOK
  <2>2. CASE mailbox # <<>> /\ mailbox' = Tail(mailbox)
    BY <2>2 DEF MailOK
  <2>. QED
    BY <2>1, <2>2 DEF Turn, HandleChildExit, HandleExternalExit,
       HandleShutdown, HandleCodeChange, ForcedExit, RequestShutdown,
       RequestShutdownNoProc, SpawnChild, RememberChild, StartFails
<1>3. MapsOK' /\ ActorsOK'
  <2>. USE DEF MapsOK, ActorsOK
  <2>1. CASE HandleChildExit
    BY <2>1 DEF HandleChildExit, Forgotten, ClearRunning, actors
  <2>2. CASE HandleExternalExit \/ HandleShutdown \/ HandleCodeChange \/ ForcedExit
    BY <2>2 DEF HandleExternalExit, HandleShutdown, HandleCodeChange,
       ForcedExit, actors
  <2>3. CASE RequestShutdown
    BY <2>3 DEF RequestShutdown, Requested, Live
  <2>4. CASE RequestShutdownNoProc
    BY <2>4 DEF RequestShutdownNoProc, Forgotten, actors
  <2>5. CASE SpawnChild
    <3>1. Head(plan.start) \in Child
      BY <2>5, HeadOfStart DEF SpawnChild
    <3>. DEFINE a == Cardinality(Spawned) + 1
    <3>2. /\ a \in Instance
          /\ status' = [status EXCEPT ![a] = "alive"]
          /\ childOf' = [childOf EXCEPT ![a] = Head(plan.start)]
          /\ metadata' = [metadata EXCEPT ![Head(plan.start)] = a]
          /\ UNCHANGED <<running, seen>>
      BY <2>5 DEF SpawnChild, SetRunning
    <3>. HIDE DEF a
    <3>. QED  BY <3>1, <3>2 DEF Live
  <2>6. CASE RememberChild
    <3>1. /\ todo.actor \in Instance
          /\ todo.op = "remember"
      <4>1. todo.op = "remember"
        BY <2>6 DEF RememberChild
      <4>2. todo # Nothing /\ ~AsksToStop(todo) /\ todo # [op |-> "start"]
        BY <4>1 DEF Nothing, AsksToStop
      <4>. QED  BY <4>1, <4>2 DEF ControlOK, TodoOK, AsksToStop
    <3>. QED  BY <2>6, <3>1 DEF RememberChild, SetRunning, actors
  <2>7. CASE StartFails
    BY <2>7 DEF StartFails, AbortStartup, Live
  <2>. QED  BY <2>1, <2>2, <2>3, <2>4, <2>5, <2>6, <2>7 DEF Turn
<1>. QED  BY <1>1, <1>2, <1>3

LEMMA SameControl ==
  ASSUME ControlOK, UNCHANGED <<phase, flags, plan, todo>>, forced' \in BOOLEAN
  PROVE  ControlOK'
BY DEF ControlOK, PlanOK, TodoOK

LEMMA FinalizeTypes ==
  ASSUME TypeInv, NEW a \in Instance, NEW reason \in Reason, Finalize(a, reason)
  PROVE  TypeInv'
<1>1. ControlOK'
  BY SameControl DEF Finalize, turn, TypeInv, ControlOK
<1>. QED
  BY <1>1 DEF Finalize, ClearRunning, TypeInv, MapsOK, ActorsOK, MailOK

LEMMA WorldTypes ==
  ASSUME TypeInv, NEW a \in Instance,
         \/ ChildCrashes(a) \/ ChildStops(a) \/ ShutdownTimesOut(a)
         \/ ExitArrives(a) \/ SupervisorExitReaches(a)
  PROVE  TypeInv'
<1>1. CASE ChildCrashes(a) \/ ChildStops(a)
  <2>1. PICK reason \in Reason : Finalize(a, reason)
    BY <1>1, SpecsAssumption DEF ChildCrashes, ChildStops, Reason
  <2>. QED  BY <2>1, FinalizeTypes
<1>2. CASE ShutdownTimesOut(a)
  BY <1>2, SameControl DEF ShutdownTimesOut, turn, TypeInv, ControlOK, MapsOK,
     ActorsOK, MailOK, Live
<1>3. CASE ExitArrives(a)
  <2>1. ControlOK'
    <3>1. UNCHANGED <<phase, flags, plan, todo>> /\ forced' \in BOOLEAN
      BY <1>3 DEF ExitArrives, turn, TypeInv, ControlOK
    <3>. QED  BY <3>1, SameControl DEF TypeInv
  <2>2. MailOK'
    <3>1. mailbox' \in {mailbox, Append(mailbox, [from |-> a, reason |-> seen[a]])}
      BY <1>3 DEF ExitArrives
    <3>2. [from |-> a, reason |-> seen[a]] \in
            [from : Instance \cup {Foreign}, reason : Reason]
      BY DEF TypeInv, ActorsOK
    <3>. DEFINE M == [from : Instance \cup {Foreign}, reason : Reason]
    <3>3. mailbox \in Seq(M)
      BY DEF TypeInv, MailOK
    <3>4. [from |-> a, reason |-> seen[a]] \in M
      BY <3>2
    <3>. HIDE DEF M
    <3>5. mailbox' \in Seq(M)
      BY <3>1, <3>3, <3>4
    <3>. QED  BY <3>5 DEF M, MailOK
  <2>3. /\ status' = [status EXCEPT ![a] = "gone"]
        /\ UNCHANGED <<running, metadata, childOf, seen>>
    BY <1>3 DEF ExitArrives
  <2>4. MapsOK' /\ ActorsOK'
    BY <2>3 DEF TypeInv, MapsOK, ActorsOK
  <2>. QED  BY <2>1, <2>2, <2>4 DEF TypeInv
<1>4. CASE SupervisorExitReaches(a)
  BY <1>4, SameControl DEF SupervisorExitReaches, turn, TypeInv, ControlOK,
     MapsOK, ActorsOK, MailOK, Live
<1>. QED  BY <1>1, <1>2, <1>3, <1>4

LEMMA TypeStep ==
  ASSUME TypeInv, [Next]_vars
  PROVE  TypeInv'
<1>1. CASE Turn
  BY <1>1, TurnTypes
<1>2. CASE \E a \in Instance : \/ ChildCrashes(a) \/ ChildStops(a)
                               \/ ShutdownTimesOut(a) \/ ExitArrives(a)
                               \/ SupervisorExitReaches(a)
  BY <1>2, WorldTypes
<1>3. CASE ForeignExit
  <2>1. ControlOK'
    BY <1>3, SameControl DEF ForeignExit, turn, TypeInv, ControlOK
  <2>2. MailOK'
    BY <1>3 DEF ForeignExit, TypeInv, MailOK, Reason
  <2>. QED
    BY <1>3, <2>1, <2>2 DEF ForeignExit, actors, TypeInv, MapsOK, ActorsOK
<1>4. CASE Tick \/ Snapshot
  BY <1>4, SameControl DEF Tick, Snapshot, turn, actors, TypeInv, ControlOK, MapsOK,
     ActorsOK, MailOK
<1>5. CASE UNCHANGED vars
  BY <1>5, SameControl DEF vars, turn, actors, TypeInv, ControlOK, MapsOK,
     ActorsOK, MailOK
<1>. QED  BY <1>1, <1>2, <1>3, <1>4, <1>5 DEF Next
-----------------------------------------------------------------------------
(* What steps that spawn nothing and record nothing have in common.        *)

Calm ==
  /\ UNCHANGED childOf
  /\ \A a \in Instance : status'[a] = "unborn" <=> status[a] = "unborn"
  /\ \A a \in Instance : IsLive(a)' => IsLive(a)
  /\ \A c \in Child : /\ running'[c] \in {None, running[c]}
                      /\ metadata'[c] \in {None, metadata[c]}
  /\ \A a \in Instance : Remembering(a)' => Remembering(a) /\ plan' = plan
  /\ phase' \in {phase, "stopped"}
  /\ forced => forced'

LEMMA CalmStep ==
  ASSUME Inv, TypeInv', Calm
  PROVE  BornInv' /\ RecordInv' /\ OneInstancePerChild'
<1>1. BornInv'
  BY DEF Inv, Calm, BornInv
<1>2. RecordInv'
  <2>. USE DEF Inv, TypeInv, MapsOK, Calm, RecordInv
  <2>1. ASSUME NEW c \in Child, running'[c] # None
        PROVE  childOf'[running'[c]] = c /\ status'[running'[c]] # "unborn"
    <3>1. running'[c] = running[c] /\ running[c] # None /\ running[c] \in Instance
      BY <2>1
    <3>. QED  BY <3>1
  <2>2. ASSUME NEW c \in Child, metadata'[c] # None
        PROVE  childOf'[metadata'[c]] = c /\ status'[metadata'[c]] # "unborn"
    <3>1. metadata'[c] = metadata[c] /\ metadata[c] # None /\ metadata[c] \in Instance
      BY <2>2
    <3>. QED  BY <3>1
  <2>3. ASSUME NEW a \in Instance, Remembering(a)'
        PROVE  /\ status'[a] # "unborn"
               /\ childOf'[a] = Head(plan'.start)
               /\ running'[Head(plan'.start)] = None
    <3>1. Remembering(a) /\ plan' = plan
      BY <2>3
    <3>2. childOf[a] \in Child
      BY DEF ActorsOK
    <3>. QED  BY <3>1, <3>2
  <2>. QED  BY <2>1, <2>2, <2>3
<1>3. OneInstancePerChild'
  BY DEF Inv, Calm, OneInstancePerChild
<1>. QED  BY <1>1, <1>2, <1>3

LEMMA TrackedWas ==
  ASSUME Inv, Calm, NEW a \in Instance, Tracked(a)'
  PROVE  Tracked(a)
<1>1. childOf[a] \in Child /\ a # None
  BY DEF Inv, TypeInv, ActorsOK, Instance, None
<1>. QED  BY <1>1 DEF Calm, Tracked

LEMMA TrackedStep ==
  ASSUME Inv, TypeInv', Calm,
         \A a \in Instance : IsLive(a) /\ Tracked(a) => Tracked(a)'
  PROVE  TrackedInv'
<1>. SUFFICES ASSUME phase' # "stopped", NEW a \in Instance, IsLive(a)'
              PROVE  Tracked(a)'
  BY DEF TrackedInv
<1>1. phase # "stopped" /\ IsLive(a)
  BY DEF Calm
<1>. QED  BY <1>1 DEF Inv, TrackedInv

LEMMA HearStep ==
  ASSUME Inv, TypeInv', Calm,
         phase' # "stopped" /\ ~forced' =>
           \A a \in Instance :
             Tracked(a) /\ Tracked(a)' /\ (IsLive(a) \/ Due(a))
               => (IsLive(a) \/ Due(a))'
  PROVE  HearInv'
<1>. SUFFICES ASSUME phase' # "stopped", ~forced', NEW a \in Instance,
                     Tracked(a)', status'[a] # "unborn"
              PROVE  (IsLive(a) \/ Due(a))'
  BY DEF HearInv
<1>1. phase # "stopped" /\ ~forced /\ status[a] # "unborn" /\ Tracked(a)
  BY TrackedWas DEF Calm
<1>. QED  BY <1>1 DEF Inv, HearInv

Silent ==
  /\ UNCHANGED <<running, metadata, childOf>>
  /\ \A a \in Instance : /\ status'[a] = "unborn" <=> status[a] = "unborn"
                         /\ status'[a] \in Live <=> status[a] \in Live
  /\ \A a \in Instance : Remembering(a)' <=> Remembering(a)
  /\ \A a \in Instance : Remembering(a) => plan' = plan
  /\ phase' \in {phase, "stopped"}
  /\ forced => forced'
  /\ phase' # "stopped" /\ plan.kind = "Shutdown" => plan'.kind = "Shutdown"

LEMMA SilentStep ==
  ASSUME Inv, TypeInv', Silent, MailInv',
         phase' # "stopped" /\ ~forced' => \A a \in Instance : Due(a) => Due(a)'
  PROVE  Inv'
<1>1. \A a \in Instance : /\ status'[a] = "unborn" <=> status[a] = "unborn"
                          /\ IsLive(a)' <=> IsLive(a)
  BY DEF Silent, IsLive
<1>2. Calm
  BY <1>1 DEF Silent, Calm
<1>3. \A a \in Instance : Tracked(a)' <=> Tracked(a)
  BY DEF Silent, Tracked
<1>4. TrackedInv' /\ HearInv'
  BY <1>1, <1>2, <1>3, TrackedStep, HearStep
<1>5. TablesInv'
  <2>. SUFFICES ASSUME phase' # "stopped"
                PROVE  TablesInv'
    BY DEF TablesInv
  <2>1. phase # "stopped" /\ UNCHANGED <<running, metadata>>
    BY DEF Silent
  <2>2. \A c \in Child : running[c] # None => metadata[c] \in {None, running[c]}
    BY <2>1 DEF Inv, TablesInv
  <2>3. ASSUME ~forced', plan'.kind # "Shutdown", NEW c \in Child,
               metadata[c] # running[c]
        PROVE  Reconciling(c)'
    <3>1. ~forced /\ plan.kind # "Shutdown"
      BY <2>3 DEF Silent
    <3>2. running[c] \in Instance \cup {None} /\ metadata[c] \in Instance \cup {None}
      BY DEF Inv, TypeInv, MapsOK
    <3>3. Reconciling(c)
      BY <2>1, <2>3, <3>1 DEF Inv, TablesInv
    <3>4. CASE metadata[c] # None /\ Remembering(metadata[c])
      BY <2>1, <3>2, <3>4 DEF Silent, Reconciling
    <3>5. CASE running[c] # None /\ Due(running[c])
      BY <2>1, <2>3, <3>2, <3>5 DEF Reconciling
    <3>6. CASE metadata[c] # None /\ Due(metadata[c])
      BY <2>1, <2>3, <3>2, <3>6 DEF Reconciling
    <3>. QED  BY <3>3, <3>4, <3>5, <3>6 DEF Reconciling
  <2>. QED  BY <2>1, <2>2, <2>3 DEF TablesInv
<1>. QED  BY <1>2, <1>4, <1>5, CalmStep DEF Inv
-----------------------------------------------------------------------------
(* The steps, one at a time.                                               *)

LEMMA NotRemembering ==
  ASSUME todo = Nothing \/ todo.op \in {"start", "shutdown"}
  PROVE  \A a \in Instance : ~Remembering(a)
<1>. SUFFICES ASSUME NEW a \in Instance, Remembering(a) PROVE FALSE
  OBVIOUS
<1>1. todo.op = "remember"
  BY DEF Remembering
<1>. QED  BY <1>1 DEF Nothing

LEMMA EndsForget ==
  ASSUME TurnEnds
  PROVE  /\ \A a \in Instance : ~Remembering(a)'
         /\ phase' \in {phase, "stopped"}
         /\ phase' # "stopped" /\ plan.kind = "Shutdown"
              => plan'.kind = "Shutdown"
<1>1. todo' = Nothing \/ todo' = [op |-> "start"] \/ AsksToStop(todo')
  BY DEF TurnEnds, Settles, RestartsOn
<1>2. \A a \in Instance : ~Remembering(a)'
  <2>1. todo' = Nothing \/ todo'.op \in {"start", "shutdown"}
    BY <1>1 DEF AsksToStop
  <2>. SUFFICES ASSUME NEW a \in Instance, Remembering(a)' PROVE FALSE
    OBVIOUS
  <2>2. todo'.op = "remember"
    BY DEF Remembering
  <2>. QED  BY <2>1, <2>2 DEF Nothing
<1>3. /\ phase' \in {phase, "stopped"}
      /\ phase' # "stopped" /\ plan.kind = "Shutdown" => plan'.kind = "Shutdown"
  <2>1. CASE Settles
    BY <2>1, KindOfPlan DEF Settles
  <2>2. CASE plan.kind # "Shutdown" /\ RestartsOn
    BY <2>2 DEF RestartsOn
  <2>3. CASE UNCHANGED <<phase, plan>>
    BY <2>3
  <2>. QED  BY <2>1, <2>2, <2>3 DEF TurnEnds
<1>. QED  BY <1>2, <1>3

LEMMA MailFrom ==
  ASSUME MailOK, NEW i \in DOMAIN mailbox
  PROVE  mailbox[i].from \in Instance \cup {Foreign}
<1>. DEFINE M == [from : Instance \cup {Foreign}, reason : Reason]
<1>1. mailbox \in Seq(M)
  BY DEF MailOK
<1>2. \A m \in M : m.from \in Instance \cup {Foreign}
  OBVIOUS
<1>. HIDE DEF M
<1>3. mailbox[i] \in M
  BY <1>1
<1>. QED  BY <1>2, <1>3

\* The same after a step.
LEMMA MailFromNext ==
  ASSUME MailOK', NEW i \in DOMAIN mailbox'
  PROVE  mailbox'[i].from \in Instance \cup {Foreign}
<1>. DEFINE M == [from : Instance \cup {Foreign}, reason : Reason]
<1>1. mailbox' \in Seq(M)
  BY DEF MailOK
<1>2. \A m \in M : m.from \in Instance \cup {Foreign}
  OBVIOUS
<1>. HIDE DEF M
<1>3. mailbox'[i] \in M
  BY <1>1
<1>. QED  BY <1>2, <1>3

\* A change of what a live instance is doing is silent.
LEMMA StandingKept ==
  ASSUME Inv, UNCHANGED mailbox,
         \A a \in Instance :
           status'[a] = status[a] \/ (status[a] \in Live /\ status'[a] \in Live)
  PROVE  /\ MailInv'
         /\ \A a \in Instance : Due(a) => Due(a)'
         /\ \A a \in Instance : /\ status'[a] = "unborn" <=> status[a] = "unborn"
                                /\ status'[a] \in Live <=> status[a] \in Live
<1>1. MailInv'
  <2>. SUFFICES ASSUME NEW i \in DOMAIN mailbox, mailbox[i].from # Foreign
                PROVE  status'[mailbox[i].from] = "gone"
    BY DEF MailInv
  <2>1. mailbox[i].from \in Instance
    BY MailFrom DEF Inv, TypeInv
  <2>2. status[mailbox[i].from] = "gone"
    BY DEF Inv, MailInv
  <2>. QED  BY <2>1, <2>2 DEF Live
<1>2. \A a \in Instance : Due(a) => Due(a)'
  BY DEF Due, Live
<1>. QED  BY <1>1, <1>2 DEF Live

LEMMA SilentTurn ==
  ASSUME Inv, TypeInv',
         \/ HandleShutdown \/ HandleCodeChange \/ ForcedExit \/ RequestShutdown
         \/ StartFails
  PROVE  Inv'
<1>1. TurnEnds
  BY OtherTurnEnds, StartFailsEnds DEF Inv, TypeInv
<1>2. \A a \in Instance : ~Remembering(a)
  BY NotRemembering DEF HandleShutdown, HandleCodeChange, ForcedExit,
     RequestShutdown, StartFails, Idle
<1>3. UNCHANGED <<running, metadata, childOf, mailbox, forced>>
  BY DEF HandleShutdown, HandleCodeChange, ForcedExit, RequestShutdown,
     StartFails, actors
<1>4. \A a \in Instance :
        status'[a] = status[a] \/ (status[a] \in Live /\ status'[a] \in Live)
  <2>1. CASE HandleShutdown \/ HandleCodeChange \/ ForcedExit
    BY <2>1 DEF HandleShutdown, HandleCodeChange, ForcedExit, actors
  <2>2. CASE RequestShutdown
    BY <2>2 DEF RequestShutdown, Requested, Inv, TypeInv, ActorsOK, IsLive, Live
  <2>3. CASE StartFails
    BY <2>3 DEF StartFails, AbortStartup, Inv, TypeInv, ActorsOK, IsLive, Live
  <2>. QED  BY <2>1, <2>2, <2>3
<1>5. Silent
  BY <1>1, <1>2, <1>3, <1>4, EndsForget, StandingKept DEF Silent
<1>. QED  BY <1>3, <1>4, <1>5, StandingKept, SilentStep

LEMMA SilentWorld ==
  ASSUME Inv, TypeInv', NEW a \in Instance,
         ShutdownTimesOut(a) \/ SupervisorExitReaches(a) \/ Tick
  PROVE  Inv'
<1>1. UNCHANGED <<running, metadata, childOf, mailbox, forced, plan, todo, phase>>
  BY DEF ShutdownTimesOut, SupervisorExitReaches, Tick, turn, actors
<1>2. \A b \in Instance :
        status'[b] = status[b] \/ (status[b] \in Live /\ status'[b] \in Live)
  BY DEF ShutdownTimesOut, SupervisorExitReaches, Tick, actors, Inv, TypeInv,
     ActorsOK, Live
<1>3. \A b \in Instance : Remembering(b)' <=> Remembering(b)
  BY <1>1 DEF Remembering
<1>4. Silent
  BY <1>1, <1>2, <1>3, StandingKept DEF Silent
<1>. QED  BY <1>1, <1>2, <1>4, StandingKept, SilentStep

\* A signal that is queued hides none of those queued before.
LEMMA MailAppended ==
  ASSUME Inv, NEW m \in [from : Instance \cup {Foreign}, reason : Reason],
         mailbox' = Append(mailbox, m)
  PROVE  /\ \A i \in DOMAIN mailbox' : mailbox'[i] = m \/
              \E j \in DOMAIN mailbox : mailbox'[i] = mailbox[j]
         /\ \A i \in DOMAIN mailbox :
              i \in DOMAIN mailbox' /\ mailbox'[i] = mailbox[i]
         /\ \E i \in DOMAIN mailbox' : mailbox'[i] = m
<1>. DEFINE M == [from : Instance \cup {Foreign}, reason : Reason]
<1>1. mailbox \in Seq(M) /\ m \in M
  BY DEF Inv, TypeInv, MailOK
<1>. HIDE DEF M
<1>2. Len(mailbox') = Len(mailbox) + 1 /\ mailbox' \in Seq(M)
  BY <1>1
<1>3. \A i \in 1..Len(mailbox) : mailbox'[i] = mailbox[i]
  BY <1>1
<1>4. mailbox'[Len(mailbox) + 1] = m
  BY <1>1
<1>. QED  BY <1>1, <1>2, <1>3, <1>4

LEMMA ForeignExitStep ==
  ASSUME Inv, TypeInv', ForeignExit
  PROVE  Inv'
<1>1. UNCHANGED <<running, metadata, childOf, status, forced, plan, todo, phase>>
  BY DEF ForeignExit, turn, actors
<1>2. PICK reason \in {"Normal", "Error"} :
        mailbox' = Append(mailbox, [from |-> Foreign, reason |-> reason])
  BY DEF ForeignExit
<1>. DEFINE m == [from |-> Foreign, reason |-> reason]
<1>3. m \in [from : Instance \cup {Foreign}, reason : Reason] /\ m.from = Foreign
  BY <1>2 DEF Reason
<1>. HIDE DEF m
<1>4. mailbox' = Append(mailbox, m)
  BY <1>2 DEF m
<1>5. MailInv'
  BY <1>1, <1>3, <1>4, MailAppended DEF Inv, MailInv
<1>6. \A a \in Instance : Due(a) => Due(a)'
  BY <1>1, <1>3, <1>4, MailAppended DEF Due
<1>7. \A b \in Instance : Remembering(b)' <=> Remembering(b)
  BY <1>1 DEF Remembering
<1>8. Silent
  BY <1>1, <1>7 DEF Silent
<1>. QED  BY <1>5, <1>6, <1>8, SilentStep

LEMMA ExitArrivesStep ==
  ASSUME Inv, TypeInv', NEW a \in Instance, ExitArrives(a)
  PROVE  Inv'
<1>1. /\ UNCHANGED <<running, metadata, childOf, plan, todo, phase>>
      /\ status[a] = "dead"
      /\ status' = [status EXCEPT ![a] = "gone"]
      /\ forced => forced'
      /\ \/ UNCHANGED mailbox
         \/ mailbox' = Append(mailbox, [from |-> a, reason |-> seen[a]])
      /\ phase' # "stopped" /\ ~forced' =>
           mailbox' = Append(mailbox, [from |-> a, reason |-> seen[a]])
  BY DEF ExitArrives, turn
<1>. DEFINE m == [from |-> a, reason |-> seen[a]]
<1>2. m \in [from : Instance \cup {Foreign}, reason : Reason] /\ m.from = a
  BY DEF Inv, TypeInv, ActorsOK
<1>3. \A b \in Instance : status'[b] = IF b = a THEN "gone" ELSE status[b]
  BY <1>1 DEF Inv, TypeInv, ActorsOK
<1>. HIDE DEF m
<1>4. MailInv'
  <2>. SUFFICES ASSUME NEW i \in DOMAIN mailbox', mailbox'[i].from # Foreign
                PROVE  status'[mailbox'[i].from] = "gone"
    BY DEF MailInv
  <2>1. mailbox'[i].from \in Instance
    BY MailFromNext DEF TypeInv
  <2>2. mailbox'[i] = m \/ \E j \in DOMAIN mailbox : mailbox'[i] = mailbox[j]
    BY <1>1, <1>2, MailAppended DEF m
  <2>. QED  BY <2>1, <2>2, <1>2, <1>3 DEF Inv, MailInv
<1>5. ASSUME phase' # "stopped", ~forced', NEW b \in Instance, Due(b)
      PROVE  Due(b)'
  <2>1. mailbox' = Append(mailbox, m)
    BY <1>1, <1>5 DEF m
  <2>. QED  BY <2>1, <1>1, <1>2, <1>3, <1>5, MailAppended DEF Due
<1>6. \A b \in Instance : Remembering(b)' <=> Remembering(b)
  BY <1>1 DEF Remembering
<1>7. Silent
  BY <1>1, <1>3, <1>6 DEF Silent, Live
<1>. QED  BY <1>4, <1>5, <1>7, SilentStep
-----------------------------------------------------------------------------
(* The steps that forget, spawn, record and finish a child.                *)

\* Taking the first signal hides no other.
LEMMA MailTaken ==
  ASSUME Inv, mailbox # <<>>, mailbox' = Tail(mailbox)
  PROVE  /\ \A i \in DOMAIN mailbox' :
              \E j \in DOMAIN mailbox : mailbox'[i] = mailbox[j]
         /\ \A j \in DOMAIN mailbox : mailbox[j] = Head(mailbox) \/
              \E i \in DOMAIN mailbox' : mailbox'[i] = mailbox[j]
         /\ Head(mailbox).from # Foreign => status[Head(mailbox).from] = "gone"
         /\ Head(mailbox).from \in Instance \cup {Foreign}
<1>. DEFINE M == [from : Instance \cup {Foreign}, reason : Reason]
<1>1. mailbox \in Seq(M)
  BY DEF Inv, TypeInv, MailOK
<1>. HIDE DEF M
<1>2. Len(mailbox') = Len(mailbox) - 1 /\ mailbox' \in Seq(M) /\ Len(mailbox) \in Nat
      /\ Len(mailbox) > 0
  BY <1>1
<1>3. \A i \in 1..Len(mailbox') : mailbox'[i] = mailbox[i + 1]
  BY <1>1, <1>2
<1>4. Head(mailbox) = mailbox[1] /\ 1 \in DOMAIN mailbox
  BY <1>1, <1>2
<1>5. ASSUME NEW j \in DOMAIN mailbox, j # 1
      PROVE  j - 1 \in DOMAIN mailbox' /\ mailbox'[j - 1] = mailbox[j]
  BY <1>1, <1>2, <1>3, <1>5
<1>6. \A i \in DOMAIN mailbox' : i + 1 \in DOMAIN mailbox /\ mailbox'[i] = mailbox[i + 1]
  BY <1>1, <1>2, <1>3
<1>7. /\ Head(mailbox).from # Foreign => status[Head(mailbox).from] = "gone"
      /\ Head(mailbox).from \in Instance \cup {Foreign}
  BY <1>4, MailFrom DEF Inv, MailInv, TypeInv
<1>. QED  BY <1>4, <1>5, <1>6, <1>7

LEMMA TakenMail ==
  ASSUME Inv, mailbox # <<>>, mailbox' = Tail(mailbox), UNCHANGED status
  PROVE  /\ MailInv'
         /\ \A a \in Instance :
              Due(a) => Due(a)' \/ a = Head(mailbox).from
<1>1. MailInv'
  BY MailTaken DEF Inv, MailInv
<1>2. ASSUME NEW a \in Instance, Due(a), a # Head(mailbox).from
      PROVE  Due(a)'
  <2>1. CASE status[a] = "dead"
    BY <2>1 DEF Due
  <2>2. CASE \E j \in DOMAIN mailbox : mailbox[j].from = a
    BY <1>2, <2>2, MailTaken DEF Due
  <2>. QED  BY <1>2, <2>1, <2>2 DEF Due
<1>. QED  BY <1>1, <1>2

LEMMA NotLiveGone ==
  ASSUME NEW a, status[a] \in {"gone", "dead", "unborn"}
  PROVE  ~IsLive(a)
BY DEF IsLive, Live

LEMMA HandleChildExitStep ==
  ASSUME Inv, TypeInv', HandleChildExit
  PROVE  Inv'
<1>. DEFINE x == Head(mailbox).from
<1>1. PICK c \in Child :
        /\ running[c] = x
        /\ running' = [running EXCEPT ![c] = None]
        /\ metadata' = IF metadata[c] = x THEN [metadata EXCEPT ![c] = None]
                                          ELSE metadata
  BY DEF HandleChildExit, Forgotten, ClearRunning
<1>2. /\ UNCHANGED <<status, childOf, forced>>
      /\ mailbox # <<>> /\ mailbox' = Tail(mailbox)
      /\ phase # "stopped" /\ todo = Nothing
  BY DEF HandleChildExit, actors, Idle
<1>3. TurnEnds
  BY HandleChildExitEnds DEF Inv, TypeInv
<1>4. \A a \in Instance : ~Remembering(a) /\ ~Remembering(a)'
  BY <1>2, <1>3, NotRemembering, EndsForget
<1>5. /\ running \in [Child -> Instance \cup {None}]
      /\ metadata \in [Child -> Instance \cup {None}]
      /\ childOf \in [Instance -> Child]
  BY DEF Inv, TypeInv, MapsOK, ActorsOK
<1>6. /\ x \in Instance => status[x] = "gone" /\ ~IsLive(x)
      /\ x \in Instance \cup {None}
  <2>1. x \in Instance => x # Foreign
    BY BoundsAssumption DEF Instance, Foreign
  <2>. QED  BY <1>1, <1>2, <1>5, <2>1, MailTaken, NotLiveGone
<1>. HIDE DEF x
<1>7. Calm
  BY <1>1, <1>2, <1>3, <1>4, <1>5, EndsForget DEF Calm, IsLive
<1>8. MailInv' /\ \A a \in Instance : Due(a) => Due(a)' \/ a = x
  BY <1>2, TakenMail DEF x
<1>9. TrackedInv'
  <2>1. ASSUME NEW a \in Instance, IsLive(a), Tracked(a)
        PROVE  Tracked(a)'
    <3>1. running[childOf[a]] = a /\ childOf[a] \in Child
      BY <2>1, <1>4, <1>5 DEF Tracked
    <3>2. childOf[a] # c
      BY <2>1, <3>1, <1>1, <1>6
    <3>. QED  BY <3>1, <3>2, <1>1, <1>2, <1>5 DEF Tracked
  <2>. QED  BY <2>1, <1>7, TrackedStep
<1>10. HearInv'
  <2>1. ASSUME NEW a \in Instance, Tracked(a)', IsLive(a) \/ Due(a)
        PROVE  (IsLive(a) \/ Due(a))'
    <3>1. a # x
      <4>1. SUFFICES ASSUME a = x PROVE FALSE
        OBVIOUS
      <4>2. running[c] = a /\ a # None
        BY <1>1, <4>1 DEF Instance, None
      <4>3. childOf[a] = c
        BY <4>2 DEF Inv, RecordInv
      <4>4. running'[c] = a
        BY <2>1, <4>3, <1>2, <1>4 DEF Tracked
      <4>. QED  BY <4>2, <4>4, <1>1, <1>5
    <3>. QED  BY <2>1, <3>1, <1>2, <1>8 DEF IsLive
  <2>. QED  BY <2>1, <1>7, HearStep
<1>11. TablesInv'
  <2>. SUFFICES ASSUME phase' # "stopped", NEW d \in Child
                PROVE  /\ running'[d] # None => metadata'[d] \in {None, running'[d]}
                       /\ ~forced' /\ plan'.kind # "Shutdown" /\ metadata'[d] # running'[d]
                            => Reconciling(d)'
    BY DEF TablesInv
  <2>1. running[d] # None => metadata[d] \in {None, running[d]}
    BY <1>2 DEF Inv, TablesInv
  <2>2. CASE d = c
    <3>1. running'[d] = None
      BY <2>2, <1>1, <1>5
    <3>2. x # None => metadata'[d] = None
      BY <2>1, <2>2, <1>1, <1>5
    <3>3. x # None
      <4>1. x # 0
        BY <1>2, MailTaken, BoundsAssumption DEF x, Instance, Foreign
      <4>. QED  BY <4>1 DEF None
    <3>. QED  BY <3>1, <3>2, <3>3
  <2>3. CASE d # c
    <3>1. running'[d] = running[d] /\ metadata'[d] = metadata[d]
      BY <2>3, <1>1, <1>5
    <3>2. ASSUME ~forced', plan'.kind # "Shutdown", metadata[d] # running[d]
          PROVE  Reconciling(d)'
      <4>1. Reconciling(d)
        BY <3>2, <1>2, <1>3, EndsForget DEF Inv, TablesInv
      <4>2. \A b \in Instance : b \in {running[d], metadata[d]} => b # x
        BY <2>3, <1>1 DEF Inv, RecordInv, None, Instance
      <4>3. CASE running[d] # None /\ Due(running[d])
        BY <4>2, <4>3, <3>1, <1>5, <1>8 DEF Reconciling
      <4>4. CASE metadata[d] # None /\ Due(metadata[d])
        BY <4>2, <4>4, <3>1, <1>5, <1>8 DEF Reconciling
      <4>. QED  BY <4>1, <4>3, <4>4, <1>4, <1>5 DEF Reconciling
    <3>. QED  BY <2>1, <3>1, <3>2
  <2>. QED  BY <2>2, <2>3
<1>. QED  BY <1>7, <1>8, <1>9, <1>10, <1>11, CalmStep DEF Inv

LEMMA HandleExternalExitStep ==
  ASSUME Inv, TypeInv', HandleExternalExit
  PROVE  Inv'
<1>. DEFINE x == Head(mailbox).from
<1>1. /\ UNCHANGED <<running, metadata, status, childOf, forced>>
      /\ mailbox # <<>> /\ mailbox' = Tail(mailbox)
      /\ phase # "stopped" /\ todo = Nothing
      /\ \A c \in Child : running[c] # x
  BY DEF HandleExternalExit, actors, Idle
<1>2. TurnEnds
  BY HandleExternalExitEnds DEF Inv, TypeInv
<1>3. \A a \in Instance : ~Remembering(a) /\ ~Remembering(a)'
  BY <1>1, <1>2, NotRemembering, EndsForget
<1>4. childOf \in [Instance -> Child]
  BY DEF Inv, TypeInv, ActorsOK
<1>5. MailInv' /\ \A a \in Instance : Due(a) => Due(a)' \/ a = x
  BY <1>1, TakenMail
<1>6. phase' # "stopped" => plan'.kind = "Shutdown"
  <2>1. CASE plan.kind = "Shutdown"
    BY <2>1, <1>2, EndsForget
  <2>2. CASE plan.kind # "Shutdown"
    BY <2>2, BeginShutdownSettles, KindOfPlan DEF HandleExternalExit, Settles
  <2>. QED  BY <2>1, <2>2
<1>. HIDE DEF x
<1>7. Calm
  BY <1>1, <1>2, <1>3, EndsForget DEF Calm, IsLive
<1>8. TrackedInv'
  BY <1>1, <1>3, <1>7, TrackedStep DEF Tracked
<1>9. HearInv'
  <2>1. ASSUME NEW a \in Instance, Tracked(a)', IsLive(a) \/ Due(a)
        PROVE  (IsLive(a) \/ Due(a))'
    <3>1. a # x
      BY <2>1, <1>1, <1>3, <1>4 DEF Tracked
    <3>. QED  BY <2>1, <3>1, <1>1, <1>5 DEF IsLive
  <2>. QED  BY <2>1, <1>7, HearStep
<1>10. TablesInv'
  <2>1. \A c \in Child : running[c] # None => metadata[c] \in {None, running[c]}
    BY <1>1 DEF Inv, TablesInv
  <2>. QED  BY <2>1, <1>1, <1>6 DEF TablesInv
<1>. QED  BY <1>5, <1>7, <1>8, <1>9, <1>10, CalmStep DEF Inv

LEMMA RequestShutdownNoProcStep ==
  ASSUME Inv, TypeInv', RequestShutdownNoProc
  PROVE  Inv'
<1>. DEFINE k == todo.child
<1>1. /\ UNCHANGED <<metadata, status, childOf, forced, mailbox>>
      /\ running' = [running EXCEPT ![k] = None]
      /\ ~IsLive(running[k])
      /\ todo.op = "shutdown"
  BY DEF RequestShutdownNoProc, Forgotten, actors
<1>2. TurnEnds
  BY RequestShutdownNoProcEnds DEF Inv, TypeInv
<1>3. /\ \A a \in Instance : ~Remembering(a) /\ ~Remembering(a)'
      /\ phase # "stopped"
  BY <1>1, <1>2, NotRemembering, EndsForget, TurnsAreAwake DEF Turn, Inv, TypeInv
<1>4. /\ running \in [Child -> Instance \cup {None}]
      /\ metadata \in [Child -> Instance \cup {None}]
      /\ childOf \in [Instance -> Child]
  BY DEF Inv, TypeInv, MapsOK, ActorsOK
<1>. HIDE DEF k
<1>5. \A d \in Child : running'[d] = IF d = k THEN None ELSE running[d]
  BY <1>1, <1>4
<1>6. Calm
  BY <1>1, <1>2, <1>3, <1>5, EndsForget DEF Calm, IsLive
<1>7. MailInv' /\ \A a \in Instance : Due(a) <=> Due(a)'
  BY <1>1 DEF Inv, MailInv, Due
<1>8. TrackedInv'
  <2>1. ASSUME NEW a \in Instance, IsLive(a), Tracked(a)
        PROVE  Tracked(a)'
    BY <2>1, <1>1, <1>3, <1>4, <1>5 DEF Tracked
  <2>. QED  BY <2>1, <1>6, TrackedStep
<1>9. HearInv'
  BY <1>1, <1>6, <1>7, HearStep DEF IsLive
<1>10. TablesInv'
  <2>. SUFFICES ASSUME phase' # "stopped", NEW d \in Child
                PROVE  /\ running'[d] # None => metadata'[d] \in {None, running'[d]}
                       /\ ~forced' /\ plan'.kind # "Shutdown" /\ metadata'[d] # running'[d]
                            => Reconciling(d)'
    BY DEF TablesInv
  <2>1. running[d] # None => metadata[d] \in {None, running[d]}
    BY <1>3 DEF Inv, TablesInv
  <2>2. ASSUME ~forced', plan'.kind # "Shutdown", metadata'[d] # running'[d]
        PROVE  Reconciling(d)'
    <3>1. ~forced /\ plan.kind # "Shutdown"
      BY <2>2, <1>1, <1>2, EndsForget
    <3>2. CASE d = k /\ running[d] # None
      <4>1. metadata[d] = running[d] /\ metadata[d] \in Instance
        BY <2>1, <2>2, <3>2, <1>1, <1>4, <1>5
      <4>2. Tracked(metadata[d]) /\ status[metadata[d]] # "unborn"
        BY <3>2, <4>1 DEF Tracked, Inv, RecordInv
      <4>3. Due(metadata[d])
        BY <3>1, <3>2, <4>1, <4>2, <1>1, <1>3 DEF Inv, HearInv
      <4>. QED  BY <4>1, <4>3, <3>2, <1>1, <1>7 DEF Reconciling
    <3>3. CASE d # k \/ running[d] = None
      <4>1. running'[d] = running[d] /\ metadata'[d] = metadata[d]
        BY <3>3, <1>1, <1>5
      <4>2. Reconciling(d)
        BY <2>2, <3>1, <4>1, <1>3 DEF Inv, TablesInv
      <4>3. CASE running[d] # None /\ Due(running[d])
        BY <4>3, <4>1, <1>4, <1>7 DEF Reconciling
      <4>4. CASE metadata[d] # None /\ Due(metadata[d])
        BY <4>4, <4>1, <1>4, <1>7 DEF Reconciling
      <4>. QED  BY <4>2, <4>3, <4>4, <1>3, <1>4 DEF Reconciling
    <3>. QED  BY <3>2, <3>3
  <2>3. running'[d] # None => metadata'[d] \in {None, running'[d]}
    BY <2>1, <1>1, <1>5
  <2>. QED  BY <2>2, <2>3
<1>. QED  BY <1>6, <1>7, <1>8, <1>9, <1>10, CalmStep DEF Inv

\* The next instance is one that has not been spawned.
LEMMA NextInstance ==
  ASSUME Inv
  PROVE  LET a == Cardinality(Spawned) + 1
         IN  /\ a \in Nat
             /\ \A b \in Instance : status[b] = "unborn" <=> b >= a
<1>1. PICK k \in 0..MaxActors : \A b \in Instance : status[b] = "unborn" <=> b > k
  BY DEF Inv, BornInv
<1>2. Spawned = 1..k
  BY <1>1, BoundsAssumption DEF Spawned, Instance
<1>3. Cardinality(Spawned) = k
  BY <1>2, FS_Interval
<1>. QED  BY <1>1, <1>3, BoundsAssumption DEF Instance

LEMMA SpawnChildStep ==
  ASSUME Inv, TypeInv', SpawnChild
  PROVE  Inv'
<1>1. PICK a \in Instance :
        /\ a = Cardinality(Spawned) + 1
        /\ status' = [status EXCEPT ![a] = "alive"]
        /\ childOf' = [childOf EXCEPT ![a] = Head(plan.start)]
        /\ metadata' = [metadata EXCEPT ![Head(plan.start)] = a]
        /\ todo' = [op |-> "remember", actor |-> a]
        /\ UNCHANGED <<plan, phase>>
  BY DEF SpawnChild, SetRunning, Continue
<1>2. /\ UNCHANGED <<running, mailbox, forced>>
      /\ todo.op = "start"
      /\ running[Head(plan.start)] = None
  BY DEF SpawnChild
<1>. DEFINE c == Head(plan.start)
<1>3. c \in Child /\ phase # "stopped"
  BY <1>2, HeadOfStart DEF Inv, TypeInv
<1>4. /\ a # None
      /\ \A b \in Instance : status[b] = "unborn" <=> b >= a
  BY <1>1, NextInstance DEF Instance, None
<1>5. /\ running \in [Child -> Instance \cup {None}]
      /\ metadata \in [Child -> Instance \cup {None}]
      /\ childOf \in [Instance -> Child]
      /\ status \in [Instance -> Live \cup {"unborn", "dead", "gone"}]
  BY DEF Inv, TypeInv, MapsOK, ActorsOK
<1>6. /\ \A b \in Instance : ~Remembering(b)
      /\ \A b \in Instance : Remembering(b)' <=> b = a
  <2>1. \A b \in Instance : ~Remembering(b)
    BY <1>2, NotRemembering
  <2>2. ASSUME NEW b \in Instance
        PROVE  Remembering(b)' <=> b = a
    <3>1. [op |-> "remember", actor |-> a].actor = a
          /\ [op |-> "remember", actor |-> b].actor = b
      OBVIOUS
    <3>. QED  BY <3>1, <1>1 DEF Remembering
  <2>. QED  BY <2>1, <2>2
<1>7. status[a] = "unborn"
  BY <1>1, <1>4 DEF Instance
<1>. HIDE DEF c
<1>8. /\ \A b \in Instance : status'[b] = IF b = a THEN "alive" ELSE status[b]
      /\ \A b \in Instance : childOf'[b] = IF b = a THEN c ELSE childOf[b]
      /\ \A d \in Child : metadata'[d] = IF d = c THEN a ELSE metadata[d]
  BY <1>1, <1>5 DEF c
<1>9. running[c] = None
  BY <1>2 DEF c
<1>10. BornInv'
  <2>1. a \in 0..MaxActors
    BY BoundsAssumption DEF Instance
  <2>2. \A b \in Instance : status'[b] = "unborn" <=> b > a
    BY <1>4, <1>8 DEF Instance
  <2>. QED  BY <2>1, <2>2 DEF BornInv
<1>11. RecordInv'
  <2>1. ASSUME NEW d \in Child, running'[d] # None
        PROVE  childOf'[running'[d]] = d /\ status'[running'[d]] # "unborn"
    <3>1. running[d] \in Instance /\ running[d] # a /\ childOf[running[d]] = d
          /\ status[running[d]] # "unborn"
      BY <2>1, <1>2, <1>5, <1>7 DEF Inv, RecordInv
    <3>. QED  BY <3>1, <1>2, <1>8
  <2>2. ASSUME NEW d \in Child, metadata'[d] # None
        PROVE  childOf'[metadata'[d]] = d /\ status'[metadata'[d]] # "unborn"
    <3>1. CASE d = c
      BY <3>1, <1>8
    <3>2. CASE d # c
      <4>1. metadata[d] \in Instance /\ metadata[d] # a /\ childOf[metadata[d]] = d
            /\ status[metadata[d]] # "unborn" /\ metadata'[d] = metadata[d]
        BY <2>2, <3>2, <1>5, <1>7, <1>8 DEF Inv, RecordInv
      <4>. QED  BY <4>1, <1>8
    <3>. QED  BY <3>1, <3>2
  <2>3. ASSUME NEW b \in Instance, Remembering(b)'
        PROVE  /\ status'[b] # "unborn"
               /\ childOf'[b] = Head(plan'.start)
               /\ running'[Head(plan'.start)] = None
    BY <2>3, <1>1, <1>2, <1>6, <1>8 DEF c
  <2>. QED  BY <2>1, <2>2, <2>3 DEF RecordInv
<1>12. MailInv'
  <2>. SUFFICES ASSUME NEW i \in DOMAIN mailbox, mailbox[i].from # Foreign
                PROVE  status'[mailbox[i].from] = "gone"
    BY <1>2 DEF MailInv
  <2>1. mailbox[i].from \in Instance /\ status[mailbox[i].from] = "gone"
    BY MailFrom DEF Inv, TypeInv, MailInv
  <2>. QED  BY <2>1, <1>7, <1>8
<1>13. ASSUME NEW b \in Instance, b # a
       PROVE  /\ IsLive(b)' <=> IsLive(b)
              /\ Due(b) => Due(b)'
              /\ running'[childOf'[b]] = running[childOf[b]]
  BY <1>13, <1>2, <1>8 DEF IsLive, Due
<1>14. TrackedInv'
  <2>. SUFFICES ASSUME NEW b \in Instance, IsLive(b)'
                PROVE  Tracked(b)'
    BY DEF TrackedInv
  <2>1. CASE b = a
    BY <2>1, <1>6 DEF Tracked
  <2>2. CASE b # a
    <3>1. Tracked(b)
      BY <2>2, <1>3, <1>13 DEF Inv, TrackedInv
    <3>. QED  BY <2>2, <3>1, <1>6, <1>13 DEF Tracked
  <2>. QED  BY <2>1, <2>2
<1>15. OneInstancePerChild'
  <2>1. ASSUME NEW b \in Instance, IsLive(b), childOf[b] = c
        PROVE  FALSE
    <3>1. running[c] = b
      BY <2>1, <1>3, <1>6 DEF Inv, TrackedInv, Tracked
    <3>. QED  BY <3>1, <1>9 DEF Instance, None
  <2>2. ASSUME NEW b \in Instance, NEW d \in Instance, IsLive(b)', IsLive(d)',
               childOf'[b] = childOf'[d]
        PROVE  b = d
    <3>1. CASE b = a \/ d = a
      BY <2>1, <2>2, <3>1, <1>8, <1>13
    <3>2. CASE b # a /\ d # a
      BY <2>2, <3>2, <1>8, <1>13 DEF Inv, OneInstancePerChild
    <3>. QED  BY <3>1, <3>2
  <2>. QED  BY <2>2 DEF OneInstancePerChild
<1>16. HearInv'
  <2>. SUFFICES ASSUME ~forced', NEW b \in Instance, Tracked(b)',
                       status'[b] # "unborn"
                PROVE  (IsLive(b) \/ Due(b))'
    BY DEF HearInv
  <2>1. CASE b = a
    BY <2>1, <1>8 DEF IsLive, Live
  <2>2. CASE b # a
    <3>1. Tracked(b) /\ status[b] # "unborn"
      BY <2>2, <1>6, <1>8, <1>13 DEF Tracked
    <3>2. IsLive(b) \/ Due(b)
      BY <3>1, <1>2, <1>3 DEF Inv, HearInv
    <3>. QED  BY <2>2, <3>2, <1>13
  <2>. QED  BY <2>1, <2>2
<1>17. TablesInv'
  <2>. SUFFICES ASSUME NEW d \in Child
                PROVE  /\ running'[d] # None => metadata'[d] \in {None, running'[d]}
                       /\ ~forced' /\ plan'.kind # "Shutdown" /\ metadata'[d] # running'[d]
                            => Reconciling(d)'
    BY DEF TablesInv
  <2>1. CASE d = c
    <3>1. metadata'[d] = a /\ running'[d] = None
      BY <2>1, <1>2, <1>8, <1>9
    <3>. QED  BY <3>1, <1>4, <1>6 DEF Reconciling
  <2>2. CASE d # c
    <3>1. metadata'[d] = metadata[d] /\ running'[d] = running[d]
      BY <2>2, <1>2, <1>8
    <3>2. running[d] # None => metadata[d] \in {None, running[d]}
      BY <1>3 DEF Inv, TablesInv
    <3>3. ASSUME ~forced', plan'.kind # "Shutdown", metadata[d] # running[d]
          PROVE  Reconciling(d)'
      <4>1. Reconciling(d)
        BY <3>3, <1>1, <1>2, <1>3 DEF Inv, TablesInv
      <4>2. \A b \in Instance : b \in {running[d], metadata[d]} => b # a
        BY <1>4, <1>7 DEF Inv, RecordInv, None, Instance
      <4>3. CASE running[d] # None /\ Due(running[d])
        BY <4>2, <4>3, <3>1, <1>5, <1>13 DEF Reconciling
      <4>4. CASE metadata[d] # None /\ Due(metadata[d])
        BY <4>2, <4>4, <3>1, <1>5, <1>13 DEF Reconciling
      <4>. QED  BY <4>1, <4>3, <4>4, <1>5, <1>6 DEF Reconciling
    <3>. QED  BY <3>1, <3>2, <3>3
  <2>. QED  BY <2>1, <2>2
<1>. QED
  BY <1>10, <1>11, <1>12, <1>14, <1>15, <1>16, <1>17 DEF Inv

LEMMA RememberChildStep ==
  ASSUME Inv, TypeInv', RememberChild
  PROVE  Inv'
<1>. DEFINE c == Head(plan.start)
            a == todo.actor
<1>1. /\ running' = [running EXCEPT ![c] = a]
      /\ metadata' = [metadata EXCEPT ![c] = a]
      /\ UNCHANGED <<forced, mailbox, status, childOf>>
      /\ todo.op = "remember"
      /\ todo' = Nothing \/ todo'.op = "start"
  BY DEF RememberChild, SetRunning, actors
<1>2. c \in Child /\ phase # "stopped"
  BY <1>1, HeadOfStart DEF Inv, TypeInv
<1>3. /\ a \in Instance /\ todo = [op |-> "remember", actor |-> a]
      /\ plan.kind \in {"Init", "Restart"}
  <2>1. todo # Nothing /\ ~AsksToStop(todo) /\ todo # [op |-> "start"]
    BY <1>1 DEF Nothing, AsksToStop
  <2>. QED  BY <2>1 DEF Inv, TypeInv, ControlOK, TodoOK, AsksToStop
<1>. HIDE DEF a
<1>4. /\ \A b \in Instance : Remembering(b) <=> b = a
      /\ \A b \in Instance : ~Remembering(b)'
  <2>1. ASSUME NEW b \in Instance
        PROVE  Remembering(b) <=> b = a
    <3>1. [op |-> "remember", actor |-> a].actor = a
          /\ [op |-> "remember", actor |-> b].actor = b
      OBVIOUS
    <3>. QED  BY <3>1, <1>3 DEF Remembering
  <2>2. ASSUME NEW b \in Instance, Remembering(b)'
        PROVE  FALSE
    <3>1. todo'.op = "remember"
      BY <2>2 DEF Remembering
    <3>. QED  BY <3>1, <1>1 DEF Nothing
  <2>. QED  BY <2>1, <2>2
<1>5. /\ running \in [Child -> Instance \cup {None}]
      /\ metadata \in [Child -> Instance \cup {None}]
      /\ childOf \in [Instance -> Child]
      /\ a # None
  BY <1>3 DEF Inv, TypeInv, MapsOK, ActorsOK, Instance, None
<1>6. /\ status[a] # "unborn" /\ childOf[a] = c /\ running[c] = None
  BY <1>3, <1>4 DEF Inv, RecordInv
<1>. HIDE DEF c
<1>7. /\ \A d \in Child : running'[d] = IF d = c THEN a ELSE running[d]
      /\ \A d \in Child : metadata'[d] = IF d = c THEN a ELSE metadata[d]
  BY <1>1, <1>5
<1>8. BornInv' /\ MailInv' /\ OneInstancePerChild'
  BY <1>1 DEF Inv, BornInv, MailInv, OneInstancePerChild, IsLive
<1>9. RecordInv'
  BY <1>1, <1>4, <1>6, <1>7 DEF Inv, RecordInv
<1>10. \A b \in Instance : /\ IsLive(b)' <=> IsLive(b)
                           /\ Due(b)' <=> Due(b)
  BY <1>1 DEF IsLive, Due
<1>11. ASSUME NEW b \in Instance
       PROVE  /\ Tracked(b) => Tracked(b)' \/ b = None
              /\ Tracked(b)' => Tracked(b)
  <2>1. CASE b = a
    BY <2>1, <1>1, <1>2, <1>4, <1>6, <1>7 DEF Tracked
  <2>2. CASE b # a
    BY <2>2, <1>1, <1>4, <1>5, <1>6, <1>7 DEF Tracked
  <2>. QED  BY <2>1, <2>2
<1>12. \A b \in Instance : b # None
  BY DEF Instance, None
<1>13. TrackedInv'
  BY <1>2, <1>10, <1>11, <1>12 DEF Inv, TrackedInv
<1>14. HearInv'
  BY <1>1, <1>2, <1>10, <1>11 DEF Inv, HearInv
<1>15. TablesInv'
  <2>. SUFFICES ASSUME NEW d \in Child
                PROVE  /\ running'[d] # None => metadata'[d] \in {None, running'[d]}
                       /\ ~forced' /\ metadata'[d] # running'[d] => Reconciling(d)'
    BY DEF TablesInv
  <2>1. CASE d = c
    BY <2>1, <1>7
  <2>2. CASE d # c
    <3>1. metadata'[d] = metadata[d] /\ running'[d] = running[d]
      BY <2>2, <1>7
    <3>2. running[d] # None => metadata[d] \in {None, running[d]}
      BY <1>2 DEF Inv, TablesInv
    <3>3. ASSUME ~forced', metadata[d] # running[d]
          PROVE  Reconciling(d)'
      <4>1. Reconciling(d)
        BY <3>3, <1>1, <1>2, <1>3 DEF Inv, TablesInv
      <4>2. metadata[d] # None => metadata[d] # a
        BY <2>2, <1>6 DEF Inv, RecordInv
      <4>. QED  BY <4>1, <4>2, <3>1, <1>4, <1>5, <1>10 DEF Reconciling
    <3>. QED  BY <3>1, <3>2, <3>3
  <2>. QED  BY <2>1, <2>2
<1>. QED  BY <1>8, <1>9, <1>13, <1>14, <1>15 DEF Inv

LEMMA FinalizeStep ==
  ASSUME Inv, TypeInv', NEW a \in Instance, NEW reason, Finalize(a, reason),
         status[a] \in Live
  PROVE  Inv'
<1>1. /\ status' = [status EXCEPT ![a] = "dead"]
      /\ UNCHANGED <<phase, forced, running, plan, todo, mailbox, childOf>>
      /\ phase # "stopped" =>
           metadata' = IF metadata[childOf[a]] = a
                       THEN [metadata EXCEPT ![childOf[a]] = None] ELSE metadata
      /\ phase = "stopped" => metadata' = metadata
  BY DEF Finalize, turn, ClearRunning
<1>2. /\ metadata \in [Child -> Instance \cup {None}]
      /\ running \in [Child -> Instance \cup {None}]
      /\ childOf \in [Instance -> Child]
      /\ status \in [Instance -> Live \cup {"unborn", "dead", "gone"}]
      /\ a # None
  BY DEF Inv, TypeInv, MapsOK, ActorsOK, Instance, None
<1>3. \A b \in Instance : status'[b] = IF b = a THEN "dead" ELSE status[b]
  BY <1>1, <1>2
<1>4. \A d \in Child : metadata'[d] \in {None, metadata[d]}
  BY <1>1, <1>2
<1>5. \A b \in Instance : Remembering(b)' <=> Remembering(b)
  BY <1>1 DEF Remembering
<1>6. status[a] \notin {"unborn", "dead", "gone"}
  BY DEF Live
<1>7. Calm
  BY <1>1, <1>3, <1>4, <1>5, <1>6 DEF Calm, IsLive, Live
<1>8. MailInv'
  <2>. SUFFICES ASSUME NEW i \in DOMAIN mailbox, mailbox[i].from # Foreign
                PROVE  status'[mailbox[i].from] = "gone"
    BY <1>1 DEF MailInv
  <2>1. mailbox[i].from \in Instance /\ status[mailbox[i].from] = "gone"
    BY MailFrom DEF Inv, TypeInv, MailInv
  <2>. QED  BY <2>1, <1>3, <1>6
<1>9. Due(a)' /\ \A b \in Instance : Due(b) => Due(b)'
  BY <1>1, <1>3 DEF Due
<1>10. TrackedInv'
  BY <1>1, <1>5, <1>7, TrackedStep DEF Tracked
<1>11. HearInv'
  <2>1. \A b \in Instance : IsLive(b) \/ Due(b) => (IsLive(b) \/ Due(b))'
    BY <1>3, <1>9 DEF IsLive
  <2>. QED  BY <2>1, <1>7, HearStep
<1>12. TablesInv'
  <2>. SUFFICES ASSUME phase # "stopped", NEW d \in Child
                PROVE  /\ running'[d] # None => metadata'[d] \in {None, running'[d]}
                       /\ ~forced' /\ plan'.kind # "Shutdown" /\ metadata'[d] # running'[d]
                            => Reconciling(d)'
    BY <1>1 DEF TablesInv
  <2>1. running[d] # None => metadata[d] \in {None, running[d]}
    BY DEF Inv, TablesInv
  <2>2. running'[d] # None => metadata'[d] \in {None, running'[d]}
    BY <2>1, <1>1, <1>4
  <2>3. ASSUME ~forced', plan'.kind # "Shutdown", metadata'[d] # running'[d]
        PROVE  Reconciling(d)'
    <3>1. CASE metadata'[d] = metadata[d]
      <4>1. Reconciling(d)
        BY <2>3, <3>1, <1>1 DEF Inv, TablesInv
      <4>. QED  BY <4>1, <3>1, <1>1, <1>2, <1>5, <1>9 DEF Reconciling
    <3>2. CASE metadata'[d] # metadata[d]
      <4>1. metadata[d] = a /\ metadata'[d] = None
        BY <3>2, <1>1, <1>2, <1>4
      <4>2. running[d] = a
        BY <4>1, <2>1, <2>3, <1>1, <1>2
      <4>. QED  BY <4>2, <1>1, <1>2, <1>9 DEF Reconciling
    <3>. QED  BY <3>1, <3>2
  <2>. QED  BY <2>2, <2>3
<1>. QED  BY <1>7, <1>8, <1>10, <1>11, <1>12, CalmStep DEF Inv
-----------------------------------------------------------------------------
(* The theorems.                                                           *)

LEMMA InitInv == Init => Inv
<1>. SUFFICES ASSUME Init PROVE Inv
  OBVIOUS
<1>1. /\ mailbox = <<>> /\ todo = [op |-> "start"]
      /\ running = [c \in Child |-> None] /\ metadata = [c \in Child |-> None]
      /\ status = [a \in Instance |-> "unborn"]
  BY DEF Init
<1>2. \A a \in Instance : ~Remembering(a) /\ ~IsLive(a)
  <2>1. todo.op = "start"
    BY <1>1
  <2>. QED  BY <2>1, <1>1, NotRemembering DEF IsLive, Live
<1>3. BornInv
  <2>1. 0 \in 0..MaxActors /\ \A a \in Instance : a > 0
    BY BoundsAssumption DEF Instance
  <2>. QED  BY <2>1, <1>1 DEF BornInv
<1>4. RecordInv /\ MailInv
  BY <1>1, <1>2 DEF RecordInv, MailInv
<1>5. TrackedInv /\ OneInstancePerChild /\ HearInv /\ TablesInv
  BY <1>1, <1>2 DEF TrackedInv, OneInstancePerChild, HearInv, TablesInv
<1>. QED  BY <1>3, <1>4, <1>5, InitTypes DEF Inv

LEMMA NextInv == Inv /\ [Next]_vars => Inv'
<1>. SUFFICES ASSUME Inv, [Next]_vars PROVE Inv'
  OBVIOUS
<1>1. TypeInv'
  BY TypeStep DEF Inv
<1>2. CASE Turn
  BY <1>1, <1>2, HandleChildExitStep, HandleExternalExitStep, SilentTurn,
     RequestShutdownNoProcStep, SpawnChildStep, RememberChildStep DEF Turn
<1>3. ASSUME NEW a \in Instance,
             \/ ChildCrashes(a) \/ ChildStops(a) \/ ShutdownTimesOut(a)
             \/ ExitArrives(a) \/ SupervisorExitReaches(a)
      PROVE  Inv'
  <2>1. CASE ChildCrashes(a) \/ ChildStops(a)
    <3>1. status[a] \in Live /\ \E reason \in Reason : Finalize(a, reason)
      BY <2>1, SpecsAssumption DEF ChildCrashes, ChildStops, Live, Reason
    <3>. QED  BY <3>1, <1>1, FinalizeStep
  <2>2. CASE ShutdownTimesOut(a) \/ SupervisorExitReaches(a)
    BY <2>2, <1>1, SilentWorld
  <2>3. CASE ExitArrives(a)
    BY <2>3, <1>1, ExitArrivesStep
  <2>. QED  BY <1>3, <2>1, <2>2, <2>3
<1>4. CASE ForeignExit
  BY <1>1, <1>4, ForeignExitStep
<1>5. CASE Tick \/ Snapshot \/ UNCHANGED vars
  <2>1. UNCHANGED <<running, metadata, childOf, mailbox, forced, plan, todo,
                    phase, status>>
    BY <1>5 DEF Tick, Snapshot, vars, turn, actors
  <2>2. Silent
    <3>1. \A b \in Instance : Remembering(b)' <=> Remembering(b)
      BY <2>1 DEF Remembering
    <3>. QED  BY <2>1, <3>1 DEF Silent
  <2>. QED  BY <1>1, <2>1, <2>2, StandingKept, SilentStep
<1>. QED  BY <1>2, <1>3, <1>4, <1>5 DEF Next

LEMMA InvKept == Spec => []Inv
BY InitInv, NextInv, PTL DEF Spec

\* The supervisor's tables, its plan and its mailbox keep their shapes, and a
\* plan in progress always fits what the current turn does next.
THEOREM TypeCorrect == Spec => []TypeInv
<1>1. Inv => TypeInv
  BY DEF Inv
<1>. QED  BY <1>1, InvKept, PTL

\* No child runs that the supervisor does not track, and at rest the runtime's
\* own table of the children agrees with the supervisor's (start_child,
\* forget_child_actor, supervisor_child_started and _exited).
THEOREM Adopted == Spec => []NoOrphans
<1>1. Inv => NoOrphans
  <2>. SUFFICES ASSUME Inv PROVE NoOrphans
    OBVIOUS
  <2>1. phase # "stopped" => \A a \in Instance :
          IsLive(a) => \/ running[childOf[a]] = a
                       \/ todo = [op |-> "remember", actor |-> a]
    BY DEF Inv, TrackedInv, Tracked, Remembering
  <2>2. ASSUME AtRest PROVE metadata = running
    <3>1. /\ phase = "up" /\ ~forced /\ todo = Nothing /\ plan = NoPlan
          /\ mailbox = <<>> /\ \A a \in Instance : status[a] # "dead"
      BY <2>2 DEF AtRest
    <3>2. \A a \in Instance : ~Due(a) /\ ~Remembering(a)
      BY <3>1, NotRemembering DEF Due
    <3>3. plan.kind # "Shutdown" /\ phase # "stopped"
      BY <3>1 DEF NoPlan
    <3>4. /\ running \in [Child -> Instance \cup {None}]
          /\ metadata \in [Child -> Instance \cup {None}]
      BY DEF Inv, TypeInv, MapsOK
    <3>5. \A c \in Child : metadata[c] = running[c]
      BY <3>1, <3>2, <3>3, <3>4 DEF Inv, TablesInv, Reconciling
    <3>. QED  BY <3>4, <3>5
  <2>. QED  BY <2>1, <2>2 DEF NoOrphans
<1>. QED  BY <1>1, InvKept, PTL

\* Two instances of one child never run at the same time, whatever restarts,
\* shutdowns and exits come between (start_child's AlreadyStarted).
THEOREM NeverTwice == Spec => []OneInstancePerChild
<1>1. Inv => OneInstancePerChild
  BY DEF Inv
<1>. QED  BY <1>1, InvKept, PTL
-----------------------------------------------------------------------------
(* Selections.                                                             *)

\* The function whose last value Kept is.
KeptOf(f, s, T, n) ==
  f = [i \in 0..n |->
        IF i = 0 THEN <<>>
        ELSE IF s[i] \in T THEN Append(f[i - 1], s[i]) ELSE f[i - 1]]

\* A set of numbers has a least one: where an induction is needed, its least
\* counterexample does.
LEMMA LeastOf ==
  ASSUME NEW T, T \subseteq Nat, T # {}
  PROVE  \E i \in T : \A j \in T : i <= j
<1>1. PICK x \in T : \A y \in T : ~(<<y, x>> \in OpToRel(<, Nat))
  BY NatLessThanWellFounded, WFMin, Zenon
<1>2. \A y \in T : ~(y < x)
  BY <1>1, Zenon DEF OpToRel
<1> QED
  BY <1>2

LEMMA KeptIsChosen ==
  ASSUME NEW s, NEW T, \E f : KeptOf(f, s, T, Len(s))
  PROVE  \E f : KeptOf(f, s, T, Len(s)) /\ Kept(s, T) = f[Len(s)]
<1>1. PICK g : g = CHOOSE f : KeptOf(f, s, T, Len(s))
  OBVIOUS
<1>2. KeptOf(g, s, T, Len(s))
  BY <1>1
<1>3. Kept(s, T) = g[Len(s)]
  BY <1>1 DEF Kept, KeptOf
<1>. QED BY <1>2, <1>3

LEMMA KeptExists ==
  ASSUME NEW s, NEW T, NEW n \in Nat
  PROVE  \E f : KeptOf(f, s, T, n)
<1>. DEFINE bad == {k \in Nat : ~ \E f : KeptOf(f, s, T, k)}
<1>. SUFFICES bad = {}
  OBVIOUS
<1>. SUFFICES ASSUME bad # {} PROVE FALSE
  OBVIOUS
<1>1. PICK k \in bad : \A j \in bad : k <= j
  <2>1. bad \subseteq Nat
    OBVIOUS
  <2>. QED BY <2>1, LeastOf
<1>2. k # 0
  <2>1. KeptOf([i \in 0..0 |-> <<>>], s, T, 0)
    BY DEF KeptOf
  <2>. QED BY <2>1
<1>3. k - 1 \in Nat /\ k - 1 \notin bad /\ k \in Nat
  BY <1>1, <1>2
<1>4. PICK g : KeptOf(g, s, T, k - 1)
  BY <1>3
<1>. DEFINE h == [i \in 0..k |-> IF i = k
                    THEN IF s[k] \in T THEN Append(g[k - 1], s[k]) ELSE g[k - 1]
                    ELSE g[i]]
<1>5. \A i \in 0..k : h[i] = IF i = 0 THEN <<>>
        ELSE IF s[i] \in T THEN Append(h[i - 1], s[i]) ELSE h[i - 1]
  <2>. SUFFICES ASSUME NEW i \in 0..k
       PROVE h[i] = IF i = 0 THEN <<>>
        ELSE IF s[i] \in T THEN Append(h[i - 1], s[i]) ELSE h[i - 1]
    OBVIOUS
  <2>1. CASE i = k
    <3>1. h[i - 1] = g[i - 1]
      BY <1>2, <1>3, <2>1
    <3>. QED BY <1>2, <1>3, <2>1, <3>1
  <2>2. CASE i # k
    <3>1. i \in 0..(k - 1) /\ h[i] = g[i] /\ (i # 0 => h[i - 1] = g[i - 1])
      BY <1>2, <1>3, <2>2
    <3>2. g[i] = IF i = 0 THEN <<>>
        ELSE IF s[i] \in T THEN Append(g[i - 1], s[i]) ELSE g[i - 1]
      <4>. HIDE DEF h, bad
      <4>. QED BY <1>4, <3>1 DEF KeptOf
    <3>. QED BY <3>1, <3>2
  <2>. QED BY <2>1, <2>2
<1>6. KeptOf(h, s, T, k)
  BY <1>5 DEF KeptOf
<1>. QED BY <1>1, <1>6

\* r is what a selection keeps of the first n entries of s: at says where an
\* entry went.
Selects(r, s, T, n) ==
  \E at \in [{i \in 1..n : s[i] \in T} -> 1..Len(r)] :
    /\ \A i \in DOMAIN at : r[at[i]] = s[i]
    /\ \A i, j \in DOMAIN at : i < j => at[i] < at[j]
    /\ \A m \in 1..Len(r) : \E i \in DOMAIN at : at[i] = m

LEMMA SelectsNext ==
  ASSUME NEW S, NEW r \in Seq(S), NEW s \in Seq(S), NEW T,
         NEW n \in Nat, n + 1 <= Len(s), Selects(r, s, T, n)
  PROVE  IF s[n + 1] \in T THEN Selects(Append(r, s[n + 1]), s, T, n + 1)
                           ELSE Selects(r, s, T, n + 1)
<1>1. PICK at \in [{i \in 1..n : s[i] \in T} -> 1..Len(r)] :
    /\ \A i \in DOMAIN at : r[at[i]] = s[i]
    /\ \A i, j \in DOMAIN at : i < j => at[i] < at[j]
    /\ \A m \in 1..Len(r) : \E i \in DOMAIN at : at[i] = m
  BY DEF Selects
<1>2. CASE s[n + 1] \notin T
  <2>1. {i \in 1..(n + 1) : s[i] \in T} = {i \in 1..n : s[i] \in T}
    BY <1>2
  <2>. QED BY <1>1, <1>2, <2>1 DEF Selects
<1>3. CASE s[n + 1] \in T
  <2>. DEFINE q  == Append(r, s[n + 1])
              D  == {i \in 1..n : s[i] \in T}
              to == [i \in D \cup {n + 1} |-> IF i = n + 1 THEN Len(r) + 1 ELSE at[i]]
  <2>1. {i \in 1..(n + 1) : s[i] \in T} = D \cup {n + 1}
    BY <1>3
  <2>2. s[n + 1] \in S
    OBVIOUS
  <2>3. q \in Seq(S) /\ Len(q) = Len(r) + 1 /\ Len(r) \in Nat
        /\ q[Len(r) + 1] = s[n + 1] /\ \A m \in 1..Len(r) : q[m] = r[m]
    BY <2>2
  <2>4. DOMAIN at = D /\ n + 1 \notin D /\ \A i \in D : at[i] \in 1..Len(r) /\ i \in 1..n
    BY <1>1
  <2>. HIDE DEF q, D
  <2>5. to \in [D \cup {n + 1} -> 1..Len(q)]
    BY <2>3, <2>4
  <2>6. \A i \in DOMAIN to : q[to[i]] = s[i]
    <3>. SUFFICES ASSUME NEW i \in D \cup {n + 1} PROVE q[to[i]] = s[i]
      OBVIOUS
    <3>1. CASE i = n + 1
      BY <3>1, <2>3
    <3>2. CASE i # n + 1
      BY <3>2, <2>3, <2>4, <1>1
    <3>. QED BY <3>1, <3>2
  <2>7. \A i, j \in DOMAIN to : i < j => to[i] < to[j]
    <3>. SUFFICES ASSUME NEW i \in D \cup {n + 1}, NEW j \in D \cup {n + 1}, i < j
                  PROVE  to[i] < to[j]
      OBVIOUS
    <3>1. i # n + 1 /\ i \in D /\ to[i] = at[i] /\ at[i] \in 1..Len(r)
      BY <2>4
    <3>2. CASE j = n + 1
      BY <3>1, <3>2, <2>3
    <3>3. CASE j # n + 1
      BY <3>1, <3>3, <2>4, <1>1
    <3>. QED BY <3>2, <3>3
  <2>8. \A m \in 1..Len(q) : \E i \in DOMAIN to : to[i] = m
    <3>. SUFFICES ASSUME NEW m \in 1..Len(q) PROVE \E i \in D \cup {n + 1} : to[i] = m
      OBVIOUS
    <3>1. CASE m = Len(r) + 1
      BY <3>1
    <3>2. CASE m # Len(r) + 1
      <4>1. m \in 1..Len(r)
        BY <3>2, <2>3
      <4>2. PICK i \in DOMAIN at : at[i] = m
        BY <4>1, <1>1
      <4>. QED BY <4>2, <2>4
    <3>. QED BY <3>1, <3>2
  <2>9. Selects(q, s, T, n + 1)
    <3>. HIDE DEF to
    <3>. QED BY <2>1, <2>5, <2>6, <2>7, <2>8 DEF Selects
  <2>. QED BY <2>9, <1>3 DEF q
<1>. QED BY <1>2, <1>3

LEMMA KeptSelects ==
  ASSUME NEW S, NEW s \in Seq(S), NEW T
  PROVE  Kept(s, T) \in Seq(S) /\ Selects(Kept(s, T), s, T, Len(s))
<1>1. Len(s) \in Nat
  OBVIOUS
<1>2. PICK f : KeptOf(f, s, T, Len(s)) /\ Kept(s, T) = f[Len(s)]
  BY <1>1, KeptExists, KeptIsChosen
<1>. DEFINE Good(k) == f[k] \in Seq(S) /\ Selects(f[k], s, T, k)
            bad == {k \in 0..Len(s) : ~Good(k)}
<1>. SUFFICES bad = {}
  BY <1>1, <1>2
<1>. SUFFICES ASSUME bad # {} PROVE FALSE
  OBVIOUS
<1>3. PICK k \in bad : \A j \in bad : k <= j
  <2>1. bad \subseteq Nat
    BY <1>1
  <2>. HIDE DEF bad
  <2>. QED BY <2>1, LeastOf
<1>4. k \in 0..Len(s)
  OBVIOUS
<1>5. f[k] = IF k = 0 THEN <<>>
             ELSE IF s[k] \in T THEN Append(f[k - 1], s[k]) ELSE f[k - 1]
  <2>. HIDE DEF bad
  <2>. QED BY <1>2, <1>4 DEF KeptOf
<1>6. k # 0
  <2>. SUFFICES ASSUME k = 0 PROVE FALSE
    OBVIOUS
  <2>1. f[k] = <<>>
    BY <1>5
  <2>2. Selects(<<>>, s, T, 0)
    <3>1. [i \in {} |-> 0] \in [{i \in 1..0 : s[i] \in T} -> 1..Len(<<>>)]
      OBVIOUS
    <3>2. 1..Len(<<>>) = {}
      OBVIOUS
    <3>. QED BY <3>1, <3>2 DEF Selects
  <2>3. <<>> \in Seq(S)
    OBVIOUS
  <2>. QED BY <2>1, <2>2, <2>3
<1>7. k - 1 \in 0..Len(s) /\ k - 1 \notin bad
  BY <1>3, <1>4, <1>6
<1>8. Good(k - 1)
  BY <1>7
<1>9. f[k - 1] \in Seq(S) /\ Selects(f[k - 1], s, T, k - 1)
  BY <1>8
<1>10. PICK n : n = k - 1
  OBVIOUS
<1>11. n \in Nat /\ n + 1 = k /\ n + 1 <= Len(s) /\ s[k] \in S
  BY <1>10, <1>4, <1>6, <1>1
<1>12. Good(k)
  <2>1. PICK r : r = f[k - 1]
    OBVIOUS
  <2>2. r \in Seq(S) /\ Selects(r, s, T, n)
    BY <1>9, <1>10, <2>1
  <2>3. IF s[n + 1] \in T THEN Selects(Append(r, s[n + 1]), s, T, n + 1)
                           ELSE Selects(r, s, T, n + 1)
    <3>. HIDE DEF bad
    <3>. QED BY <1>11, <2>2, SelectsNext
  <2>4. f[k] = IF s[k] \in T THEN Append(r, s[k]) ELSE r
    BY <1>5, <1>6, <2>1
  <2>5. f[k] \in Seq(S)
    BY <2>4, <2>2, <1>11
  <2>6. Selects(f[k], s, T, k)
    BY <2>3, <2>4, <1>11
  <2>. QED BY <2>5, <2>6
<1>. QED BY <1>12

LEMMA KeptEntries ==
  ASSUME NEW S, NEW s \in Seq(S), NEW T
  PROVE  /\ Kept(s, T) \in Seq(S)
         /\ \A x : x \in ToSet(Kept(s, T)) <=> x \in ToSet(s) /\ x \in T
<1>1. Kept(s, T) \in Seq(S) /\ Selects(Kept(s, T), s, T, Len(s))
  BY KeptSelects
<1>2. PICK r \in Seq(S) : r = Kept(s, T)
  BY <1>1
<1>3. PICK at \in [{i \in 1..Len(s) : s[i] \in T} -> 1..Len(r)] :
    /\ \A i \in DOMAIN at : r[at[i]] = s[i]
    /\ \A i, j \in DOMAIN at : i < j => at[i] < at[j]
    /\ \A m \in 1..Len(r) : \E i \in DOMAIN at : at[i] = m
  BY <1>1, <1>2 DEF Selects
<1>4. DOMAIN r = 1..Len(r) /\ DOMAIN s = 1..Len(s)
  OBVIOUS
<1>5. ASSUME NEW x \in ToSet(r) PROVE x \in ToSet(s) /\ x \in T
  BY <1>3, <1>4, <1>5 DEF ToSet
<1>6. ASSUME NEW x \in ToSet(s), x \in T PROVE x \in ToSet(r)
  BY <1>3, <1>4, <1>6 DEF ToSet
<1>. QED  BY <1>1, <1>2, <1>5, <1>6
-----------------------------------------------------------------------------
(* The queue of a plan.                                                    *)

\* Every child has its position, and another child another one.
LEMMA Positions ==
  /\ \A c \in Child : Position(c) \in DOMAIN Order /\ Order[Position(c)] = c
  /\ \A i \in DOMAIN Order : Order[i] \in Child /\ Position(Order[i]) = i
  /\ DOMAIN Order = 1..Len(Order) /\ Len(Order) \in Nat
<1>1. \A c \in Child : \E i \in DOMAIN Order : Order[i] = c
  BY OrderAssumption DEF ToSet
<1>2. \A c \in Child : Position(c) \in DOMAIN Order /\ Order[Position(c)] = c
  BY <1>1 DEF Position
<1>3. \A i \in DOMAIN Order : Order[i] \in Child
  BY OrderAssumption
<1>4. \A i \in DOMAIN Order : Position(Order[i]) = i
  BY <1>2, <1>3, OrderAssumption
<1>. QED  BY <1>2, <1>3, <1>4, OrderAssumption

\* Last declared first.
Descending(q) ==
  \A i, j \in DOMAIN q : i < j => Position(q[j]) < Position(q[i])

LEMMA ReverseDescends ==
  Reverse(Order) \in Seq(Child) /\ Descending(Reverse(Order))
  /\ ToSet(Reverse(Order)) = Child
<1>1. Reverse(Order) = [i \in 1..Len(Order) |-> Order[(Len(Order) - i) + 1]]
  BY DEF Reverse
<1>2. \A i \in 1..Len(Order) : (Len(Order) - i) + 1 \in DOMAIN Order
  BY Positions
<1>3. Reverse(Order) \in Seq(Child) /\ DOMAIN Reverse(Order) = 1..Len(Order)
  BY <1>1, <1>2, Positions
<1>4. Descending(Reverse(Order))
  BY <1>1, <1>2, <1>3, Positions DEF Descending
<1>5. ASSUME NEW c \in Child PROVE c \in ToSet(Reverse(Order))
  <2>1. PICK i : i = (Len(Order) - Position(c)) + 1
    OBVIOUS
  <2>2. i \in 1..Len(Order) /\ Position(c) = (Len(Order) - i) + 1
    BY <2>1, Positions
  <2>3. Reverse(Order)[i] = c
    BY <1>1, <2>2, Positions
  <2>. QED  BY <1>3, <2>2, <2>3 DEF ToSet
<1>6. ToSet(Reverse(Order)) \subseteq Child
  BY <1>3 DEF ToSet
<1>. QED  BY <1>3, <1>4, <1>5, <1>6

LEMMA KeptDescends ==
  ASSUME NEW s \in Seq(Child), Descending(s), NEW T
  PROVE  Descending(Kept(s, T))
<1>1. PICK r \in Seq(Child) : r = Kept(s, T) /\ Selects(r, s, T, Len(s))
  BY KeptSelects
<1>2. PICK at \in [{i \in 1..Len(s) : s[i] \in T} -> 1..Len(r)] :
    /\ \A i \in DOMAIN at : r[at[i]] = s[i]
    /\ \A i, j \in DOMAIN at : i < j => at[i] < at[j]
    /\ \A m \in 1..Len(r) : \E i \in DOMAIN at : at[i] = m
  BY <1>1 DEF Selects
<1>3. /\ DOMAIN r = 1..Len(r) /\ DOMAIN s = 1..Len(s)
      /\ Len(s) \in Nat /\ Len(r) \in Nat /\ DOMAIN at \subseteq DOMAIN s
  OBVIOUS
<1>4. ASSUME NEW k \in DOMAIN r, NEW l \in DOMAIN r, k < l
      PROVE  Position(r[l]) < Position(r[k])
  <2>1. PICK i \in DOMAIN at : at[i] = k
    BY <1>2, <1>3
  <2>2. PICK j \in DOMAIN at : at[j] = l
    BY <1>2, <1>3
  <2>3. i \in DOMAIN s /\ j \in DOMAIN s /\ i \in Int /\ j \in Int
    BY <1>3
  <2>4. i < j
    <3>1. ~(j < i)
      BY <1>2, <1>4, <2>1, <2>2, <1>3
    <3>2. i # j
      BY <1>4, <2>1, <2>2, <1>3
    <3>. QED  BY <2>3, <3>1, <3>2
  <2>5. r[k] = s[i] /\ r[l] = s[j]
    BY <1>2, <2>1, <2>2
  <2>. QED  BY <2>3, <2>4, <2>5 DEF Descending
<1>. QED  BY <1>1, <1>4 DEF Descending
\* A child crossed off a list that holds none twice.
LEMMA CrossedOff ==
  ASSUME NEW q \in Seq(Child), Descending(q), NEW c \in Child
  PROVE  /\ RemoveFirst(q, c) \in Seq(Child)
         /\ Descending(RemoveFirst(q, c))
         /\ \A x : x \in ToSet(RemoveFirst(q, c)) <=> x \in ToSet(q) /\ x # c
<1>1. DOMAIN q = 1..Len(q) /\ Len(q) \in Nat
  OBVIOUS
<1>2. CASE c \notin ToSet(q)
  <2>1. ~ \E i \in 1..Len(q) : q[i] = c
    BY <1>1, <1>2 DEF ToSet
  <2>2. RemoveFirst(q, c) = q
    BY <2>1 DEF RemoveFirst
  <2>. QED  BY <1>2, <2>2
<1>3. CASE c \in ToSet(q)
  <2>1. \E i \in 1..Len(q) : q[i] = c
    BY <1>1, <1>3 DEF ToSet
  <2>. DEFINE at == {i \in 1..Len(q) : q[i] = c}
  <2>2. PICK least \in at : \A j \in at : least <= j
    <3>1. at \subseteq Nat /\ at # {}
      BY <2>1
    <3>. HIDE DEF at
    <3>. QED  BY <3>1, LeastOf
  <2>3. Min(at) \in at
    BY <2>2 DEF Min
  <2>4. PICK i \in 1..Len(q) : q[i] = c /\ i = Min(at)
    BY <2>3
  <2>5. SelectInSeq(q, LAMBDA v : v = c) = i
    BY <2>2, <2>4 DEF SelectInSeq
  <2>6. RemoveFirst(q, c) = RemoveAt(q, i)
    BY <2>1, <2>5 DEF RemoveFirst
  <2>. DEFINE front == SubSeq(q, 1, i - 1)
              back  == SubSeq(q, i + 1, Len(q))
  <2>7. /\ front \in Seq(Child) /\ Len(front) = i - 1
        /\ \A j \in 1..(i - 1) : front[j] = q[j]
    BY <1>1
  <2>8. /\ back \in Seq(Child) /\ Len(back) = Len(q) - i
        /\ \A j \in 1..(Len(q) - i) : back[j] = q[i + j]
    <3>1. \A j \in (i + 1)..Len(q) : q[j] \in Child
      BY <1>1
    <3>2. /\ back \in Seq(Child)
          /\ Len(back) = IF i + 1 <= Len(q) THEN Len(q) - (i + 1) + 1 ELSE 0
          /\ \A j \in 1..(Len(q) - (i + 1) + 1) : back[j] = q[(i + 1) + j - 1]
      BY <3>1, <1>1, SubSeqProperties
    <3>3. \A j \in 1..(Len(q) - i) : (i + 1) + j - 1 = i + j
      BY <1>1
    <3>4. /\ Len(q) - (i + 1) + 1 = Len(q) - i
          /\ (IF i + 1 <= Len(q) THEN Len(q) - (i + 1) + 1 ELSE 0) = Len(q) - i
      <4>1. PICK n \in Nat : n = Len(q) /\ i \in 1..n
        BY <1>1
      <4>2. /\ n - (i + 1) + 1 = n - i
            /\ (IF i + 1 <= n THEN n - (i + 1) + 1 ELSE 0) = n - i
        BY <4>1, SMT
      <4>. QED  BY <4>1, <4>2
    <3>. HIDE DEF back
    <3>5. back \in Seq(Child) /\ Len(back) = Len(q) - i
      BY <3>2, <3>4
    <3>6. ASSUME NEW j \in 1..(Len(q) - i) PROVE back[j] = q[i + j]
      <4>1. back[j] = q[(i + 1) + j - 1]
        BY <3>2, <3>4
      <4>2. (i + 1) + j - 1 = i + j
        BY <3>3
      <4>. QED  BY <4>1, <4>2
    <3>. QED  BY <3>5, <3>6
  <2>9. PICK r : r = RemoveAt(q, i)
    OBVIOUS
  <2>10. r = front \o back
    BY <2>9 DEF RemoveAt
  <2>. HIDE DEF front, back, at
  <2>11. /\ r \in Seq(Child) /\ Len(r) = Len(q) - 1 /\ DOMAIN r = 1..(Len(q) - 1)
         /\ \A j \in 1..(Len(q) - 1) : r[j] = IF j < i THEN q[j] ELSE q[j + 1]
    <3>1. /\ r \in Seq(Child) /\ Len(r) = Len(front) + Len(back)
          /\ \A j \in 1..(Len(front) + Len(back)) :
               r[j] = IF j <= Len(front) THEN front[j] ELSE back[j - Len(front)]
      BY <2>7, <2>8, <2>10, ConcatProperties
    <3>2. Len(front) + Len(back) = Len(q) - 1
      BY <2>7, <2>8, <1>1
    <3>3. ASSUME NEW j \in 1..(Len(q) - 1)
          PROVE  r[j] = IF j < i THEN q[j] ELSE q[j + 1]
      <4>1. CASE j < i
        BY <4>1, <3>1, <3>2, <2>7, <1>1
      <4>2. CASE ~(j < i)
        <5>1. PICK l : l = j - (i - 1)
          OBVIOUS
        <5>2. l \in 1..(Len(q) - i) /\ i + l = j + 1
          BY <4>2, <5>1, <1>1
        <5>3. r[j] = back[l]
          <6>1. j \in 1..(Len(front) + Len(back)) /\ Len(front) = i - 1
            BY <3>2, <2>7
          <6>2. ~(j <= Len(front)) /\ j - Len(front) = l
            BY <4>2, <5>1, <6>1, <1>1
          <6>. QED  BY <3>1, <6>1, <6>2
        <5>. QED  BY <4>2, <5>2, <5>3, <2>8
      <4>. QED  BY <4>1, <4>2
    <3>. QED  BY <3>1, <3>2, <3>3
  <2>12. Descending(r)
    <3>. SUFFICES ASSUME NEW k \in DOMAIN r, NEW l \in DOMAIN r, k < l
                  PROVE  Position(r[l]) < Position(r[k])
      BY DEF Descending
    <3>. DEFINE to(j) == IF j < i THEN j ELSE j + 1
    <3>1. to(k) \in DOMAIN q /\ to(l) \in DOMAIN q /\ to(k) < to(l)
      BY <2>11, <1>1
    <3>2. r[k] = q[to(k)] /\ r[l] = q[to(l)]
      BY <2>11
    <3>. HIDE DEF to
    <3>. QED  BY <3>1, <3>2 DEF Descending
  <2>13. \A j, l \in DOMAIN q : q[j] = q[l] => j = l
    <3>. SUFFICES ASSUME NEW j \in DOMAIN q, NEW l \in DOMAIN q, j < l
                  PROVE  q[j] # q[l]
      BY <1>1
    <3>1. Position(q[l]) < Position(q[j]) /\ Position(q[j]) \in Nat
      BY Positions DEF Descending
    <3>. QED  BY <3>1
  <2>14. ASSUME NEW x \in ToSet(r) PROVE x \in ToSet(q) /\ x # c
    <3>1. PICK k \in 1..(Len(q) - 1) : r[k] = x
      BY <2>11, <2>14 DEF ToSet
    <3>. DEFINE to == IF k < i THEN k ELSE k + 1
    <3>2. to \in DOMAIN q /\ to # i /\ q[to] = x
      BY <2>11, <3>1, <1>1
    <3>. HIDE DEF to
    <3>. QED  BY <3>2, <2>4, <2>13, <1>1 DEF ToSet
  <2>15. ASSUME NEW x \in ToSet(q), x # c PROVE x \in ToSet(r)
    <3>1. PICK k \in 1..Len(q) : q[k] = x
      BY <2>15, <1>1 DEF ToSet
    <3>2. k # i
      BY <3>1, <2>4, <2>15
    <3>. DEFINE from == IF k < i THEN k ELSE k - 1
    <3>3. from \in 1..(Len(q) - 1) /\ r[from] = x
      BY <2>11, <3>1, <3>2, <1>1
    <3>. HIDE DEF from
    <3>. QED  BY <3>3, <2>11 DEF ToSet
  <2>. QED  BY <2>6, <2>9, <2>11, <2>12, <2>14, <2>15
<1>. QED  BY <1>2, <1>3

\* What is left to ask, the child of the current turn first.
Pending ==
  IF todo.op = "shutdown" THEN <<todo.child>> \o plan.queue ELSE plan.queue

Unasked(d, run, st) == run[d] # None /\ st[run[d]] = "alive"

\* A list of children to ask: last declared first; a child that runs and is
\* not in it was declared before all of them.
ToAsk(q, run, st) ==
  /\ q \in Seq(Child) /\ Descending(q)
  /\ \A d \in Child : Unasked(d, run, st) =>
       d \in ToSet(q) \/ \A i \in DOMAIN q : Position(d) < Position(q[i])

QueueInv ==
  plan.kind \in {"Shutdown", "Restart"} /\ todo.op \notin {"start", "remember"} =>
    /\ plan.queue \in Seq(Child) /\ (todo.op = "shutdown" => todo.child \in Child)
    /\ ToAsk(Pending, running, status)

LEMMA PoppedIsPending ==
  ASSUME NEW q \in Seq(Child), q # <<>>
  PROVE  <<Head(q)>> \o Tail(q) = q
OBVIOUS

LEMMA EveryRunning ==
  ASSUME NEW run, NEW st
  PROVE  ToAsk(RunningReverse(run, Child), run, st)
<1>. DEFINE T == {c \in Child : run[c] # None}
<1>1. RunningReverse(run, Child) = Kept(Reverse(Order), T)
  BY DEF RunningReverse
<1>2. \A d \in Child : Unasked(d, run, st) => d \in T
  BY DEF Unasked
<1>. HIDE DEF T
<1>. QED  BY <1>1, <1>2, ReverseDescends, KeptDescends, KeptEntries DEF ToAsk

\* The scope of a restart leaves out children declared before the failed one.
LEMMA ScopeRunning ==
  ASSUME NEW strategy \in Strategy, NEW c \in Child, NEW run, NEW st,
         run[c] = None
  PROVE  ToAsk(RunningReverse(run, ToSet(RestartScope(strategy, c))), run, st)
<1>. DEFINE scope == ToSet(RestartScope(strategy, c))
            T == {d \in scope : run[d] # None}
<1>1. RunningReverse(run, scope) = Kept(Reverse(Order), T)
  BY DEF RunningReverse
<1>2. \A d \in Child : Unasked(d, run, st) => run[d] # None
  BY DEF Unasked
<1>3. PICK q : q = RunningReverse(run, scope)
  OBVIOUS
<1>4. /\ q \in Seq(Child) /\ Descending(q)
      /\ \A x : x \in ToSet(q) <=> x \in Child /\ x \in T
  <2>. HIDE DEF T
  <2>. QED  BY <1>1, <1>3, ReverseDescends, KeptDescends, KeptEntries
<1>5. \A i \in DOMAIN q : q[i] \in ToSet(q)
  BY DEF ToSet
<1>6. CASE strategy = "OneForOne"
  <2>1. RestartScope(strategy, c) = <<c>>
    BY <1>6 DEF RestartScope
  <2>2. scope = {c}
    BY <2>1 DEF ToSet
  <2>3. DOMAIN q = {}
    BY <1>4, <1>5, <2>2
  <2>. QED  BY <1>3, <1>4, <2>3 DEF ToAsk
<1>7. CASE strategy = "OneForAll"
  <2>1. scope = Child
    BY <1>7, OrderAssumption DEF RestartScope
  <2>. QED  BY <1>2, <1>3, <1>4, <2>1 DEF ToAsk
<1>8. CASE strategy = "RestForOne"
  <2>. DEFINE s == SubSeq(Order, Position(c), Len(Order))
  <2>1. RestartScope(strategy, c) = s
    BY <1>8 DEF RestartScope
  <2>2. /\ DOMAIN s = 1..(Len(Order) - Position(c) + 1)
        /\ \A i \in DOMAIN s : s[i] = Order[Position(c) + i - 1]
    BY Positions, OrderAssumption
  <2>3. ASSUME NEW d \in Child
        PROVE  d \in scope <=> Position(c) <= Position(d)
    <3>1. Position(c) \in 1..Len(Order) /\ Position(d) \in 1..Len(Order)
          /\ Order[Position(d)] = d /\ Len(Order) \in Nat
      BY Positions
    <3>2. ASSUME Position(c) <= Position(d) PROVE d \in scope
      <4>1. PICK i : i = Position(d) - Position(c) + 1
        OBVIOUS
      <4>2. i \in DOMAIN s /\ s[i] = d
        <5>1. i \in 1..(Len(Order) - Position(c) + 1)
              /\ Position(c) + i - 1 = Position(d)
          BY <3>1, <3>2, <4>1
        <5>. HIDE DEF s
        <5>. QED  BY <5>1, <2>2, <3>1
      <4>. HIDE DEF s
      <4>. QED  BY <4>2, <2>1 DEF ToSet
    <3>3. ASSUME d \in scope PROVE Position(c) <= Position(d)
      <4>. HIDE DEF s
      <4>1. PICK i \in DOMAIN s : s[i] = d
        BY <3>3, <2>1 DEF ToSet
      <4>2. PICK k : k = Position(c) + i - 1
        OBVIOUS
      <4>3. k \in DOMAIN Order /\ Order[k] = d /\ k >= Position(c)
        BY <4>1, <4>2, <2>2, <3>1, Positions
      <4>. QED  BY <4>3, Positions
    <3>. QED  BY <3>2, <3>3
  <2>4. ASSUME NEW d \in Child, Unasked(d, run, st), d \notin ToSet(q),
               NEW i \in DOMAIN q
        PROVE  Position(d) < Position(q[i])
    <3>1. d \notin scope
      BY <2>4, <1>2, <1>4
    <3>2. q[i] \in Child /\ q[i] \in scope
      BY <1>4, <1>5
    <3>. HIDE DEF scope
    <3>3. Position(d) \in Nat /\ Position(c) \in Nat /\ Position(q[i]) \in Nat
      BY <3>2, Positions
    <3>. QED  BY <3>1, <3>2, <3>3, <2>3
  <2>. QED  BY <1>3, <1>4, <2>4 DEF ToAsk
<1>. QED  BY <1>6, <1>7, <1>8 DEF Strategy
\* What is left to ask when c is done, or no longer runs.
LEMMA AskedLess ==
  ASSUME NEW q, NEW run, NEW st, ToAsk(q, run, st), NEW c \in Child,
         NEW run2, NEW st2,
         \A d \in Child : Unasked(d, run2, st2) => d # c /\ Unasked(d, run, st)
  PROVE  ToAsk(q, run2, st2) /\ ToAsk(RemoveFirst(q, c), run2, st2)
<1>1. q \in Seq(Child) /\ Descending(q)
  BY DEF ToAsk
<1>2. PICK r : r = RemoveFirst(q, c)
  OBVIOUS
<1>3. /\ r \in Seq(Child) /\ Descending(r)
      /\ \A x : x \in ToSet(r) <=> x \in ToSet(q) /\ x # c
  BY <1>1, <1>2, CrossedOff
<1>4. ASSUME NEW d \in Child, Unasked(d, run2, st2), d \notin ToSet(r),
             NEW i \in DOMAIN r
      PROVE  Position(d) < Position(r[i])
  <2>1. d \notin ToSet(q) /\ Unasked(d, run, st)
    BY <1>3, <1>4
  <2>2. r[i] \in ToSet(q)
    BY <1>3 DEF ToSet
  <2>3. PICK j \in DOMAIN q : q[j] = r[i]
    BY <2>2 DEF ToSet
  <2>. QED  BY <2>1, <2>3 DEF ToAsk
<1>5. ToAsk(r, run2, st2)
  BY <1>3, <1>4 DEF ToAsk
<1>6. ToAsk(q, run2, st2)
  BY DEF ToAsk
<1>. QED  BY <1>2, <1>5, <1>6

LEMMA AskedFirst ==
  ASSUME NEW q \in Seq(Child), NEW c \in Child, NEW run, NEW st,
         ToAsk(<<c>> \o q, run, st), NEW run2, NEW st2,
         \A d \in Child : Unasked(d, run2, st2) => d # c /\ Unasked(d, run, st)
  PROVE  ToAsk(q, run2, st2)
<1>1. PICK r \in Seq(Child) : r = <<c>> \o q
  <2>1. <<c>> \in Seq(Child)
    OBVIOUS
  <2>. QED  BY <2>1, ConcatProperties
<1>2. /\ DOMAIN r = 1..(Len(q) + 1) /\ DOMAIN q = 1..Len(q) /\ Len(q) \in Nat
      /\ r[1] = c /\ \A i \in DOMAIN q : r[i + 1] = q[i]
  BY <1>1
<1>3. \A i \in DOMAIN q : i + 1 \in DOMAIN r
  BY <1>2
<1>4. ToAsk(r, run, st)
  BY <1>1
<1>5. Descending(q)
  <2>. SUFFICES ASSUME NEW i \in DOMAIN q, NEW j \in DOMAIN q, i < j
                PROVE  Position(q[j]) < Position(q[i])
    BY DEF Descending
  <2>1. i + 1 \in DOMAIN r /\ j + 1 \in DOMAIN r /\ i + 1 < j + 1
    BY <1>2
  <2>2. Position(r[j + 1]) < Position(r[i + 1])
    BY <1>4, <2>1 DEF ToAsk, Descending
  <2>. QED  BY <2>2, <1>2
<1>6. ASSUME NEW d \in Child, Unasked(d, run2, st2)
      PROVE  d \in ToSet(q) \/ \A i \in DOMAIN q : Position(d) < Position(q[i])
  <2>1. d # c /\ (d \in ToSet(r) \/ \A i \in DOMAIN r : Position(d) < Position(r[i]))
    BY <1>4, <1>6 DEF ToAsk
  <2>2. CASE d \in ToSet(r)
    <3>1. PICK k \in DOMAIN r : r[k] = d
      BY <2>2 DEF ToSet
    <3>2. k # 1
      BY <3>1, <2>1, <1>2
    <3>3. k - 1 \in DOMAIN q /\ (k - 1) + 1 = k
      BY <3>2, <1>2
    <3>4. q[k - 1] = d
      BY <3>1, <3>3, <1>2
    <3>. QED  BY <3>3, <3>4 DEF ToSet
  <2>3. CASE \A i \in DOMAIN r : Position(d) < Position(r[i])
    BY <2>3, <1>2, <1>3
  <2>. QED  BY <2>1, <2>2, <2>3
<1>. QED  BY <1>5, <1>6 DEF ToAsk

\* The queue of a plan, whatever else is in it.
LEMMA CrossedQueue ==
  ASSUME NEW p, IsShutdownPlan(p) \/ IsRestartPlan(p), NEW c
  PROVE  /\ Crossed(p, c).queue \in {p.queue, RemoveFirst(p.queue, c)}
         /\ [p EXCEPT !.active = <<>>].queue = p.queue
<1>1. CASE IsShutdownPlan(p)
  <2>1. PICK active, queue, reason :
          p = [kind |-> "Shutdown", active |-> active, queue |-> queue,
               reason |-> reason]
    BY <1>1 DEF IsShutdownPlan
  <2>2. [p EXCEPT !.active = <<>>] =
          [kind |-> "Shutdown", active |-> <<>>, queue |-> queue,
           reason |-> reason]
    BY <2>1
  <2>3. [p EXCEPT !.queue = RemoveFirst(@, c)] =
          [kind |-> "Shutdown", active |-> active,
           queue |-> RemoveFirst(queue, c), reason |-> reason]
    BY <2>1
  <2>. QED  BY <2>1, <2>2, <2>3 DEF Crossed
<1>2. CASE IsRestartPlan(p)
  <2>1. PICK active, queue, s :
          p = [kind |-> "Restart", active |-> active, queue |-> queue, start |-> s]
    BY <1>2 DEF IsRestartPlan
  <2>2. [p EXCEPT !.active = <<>>] =
          [kind |-> "Restart", active |-> <<>>, queue |-> queue, start |-> s]
    BY <2>1
  <2>3. [p EXCEPT !.queue = RemoveFirst(@, c)] =
          [kind |-> "Restart", active |-> active,
           queue |-> RemoveFirst(queue, c), start |-> s]
    BY <2>1
  <2>. QED  BY <2>1, <2>2, <2>3 DEF Crossed
<1>. QED  BY <1>1, <1>2

LEMMA PoppedQueue ==
  ASSUME NEW p, IsShutdownPlan(p) \/ IsRestartPlan(p), p.queue # <<>>,
         p.queue \in Seq(Child), ToAsk(p.queue, running', status'),
         plan' = [p EXCEPT !.active = <<Head(p.queue)>>, !.queue = Tail(@)],
         todo' = [op |-> "shutdown", child |-> Head(p.queue)]
  PROVE  QueueInv'
<1>1. plan'.queue = Tail(p.queue)
  <2>1. CASE IsShutdownPlan(p)
    <3>1. PICK active, queue, reason :
            p = [kind |-> "Shutdown", active |-> active, queue |-> queue,
                 reason |-> reason]
      BY <2>1 DEF IsShutdownPlan
    <3>2. plan' = [kind |-> "Shutdown", active |-> <<Head(queue)>>,
                   queue |-> Tail(queue), reason |-> reason]
      BY <3>1
    <3>. QED  BY <3>1, <3>2
  <2>2. CASE IsRestartPlan(p)
    <3>1. PICK active, queue, s :
            p = [kind |-> "Restart", active |-> active, queue |-> queue, start |-> s]
      BY <2>2 DEF IsRestartPlan
    <3>2. plan' = [kind |-> "Restart", active |-> <<Head(queue)>>,
                   queue |-> Tail(queue), start |-> s]
      BY <3>1
    <3>. QED  BY <3>1, <3>2
  <2>. QED  BY <2>1, <2>2
<1>2. todo'.op = "shutdown" /\ todo'.child = Head(p.queue)
  OBVIOUS
<1>3. Head(p.queue) \in Child /\ Tail(p.queue) \in Seq(Child)
  OBVIOUS
<1>4. Pending' = <<Head(p.queue)>> \o Tail(p.queue)
  BY <1>1, <1>2 DEF Pending
<1>5. Pending' = p.queue
  BY <1>4, PoppedIsPending
<1>. QED  BY <1>1, <1>2, <1>3, <1>5 DEF QueueInv

LEMMA ShutdownNextQueue ==
  ASSUME NEW p, IsShutdownPlan(p), ToAsk(p.queue, running', status'),
         ShutdownNext(p)
  PROVE  QueueInv'
<1>1. CASE p.queue = <<>>
  <2>1. plan' = NoPlan
    BY <1>1 DEF ShutdownNext, Stop
  <2>. QED  BY <2>1 DEF QueueInv, NoPlan
<1>2. CASE p.queue # <<>>
  BY <1>2, PoppedQueue DEF ShutdownNext, Continue, ToAsk
<1>. QED  BY <1>1, <1>2

LEMMA RestartNextQueue ==
  ASSUME NEW p, IsRestartPlan(p), ToAsk(p.queue, running', status'),
         RestartNext(p)
  PROVE  QueueInv'
<1>1. CASE p.queue = <<>>
  <2>1. todo'.op = "start"
    BY <1>1 DEF RestartNext, Continue
  <2>. QED  BY <2>1 DEF QueueInv
<1>2. CASE p.queue # <<>>
  BY <1>2, PoppedQueue DEF RestartNext, Continue, ToAsk
<1>. QED  BY <1>1, <1>2

LEMMA BeginShutdownQueue ==
  ASSUME NEW reason, BeginShutdown(running', reason)
  PROVE  QueueInv'
<1>. DEFINE p == [kind |-> "Shutdown", active |-> <<>>,
                  queue |-> RunningReverse(running', Child), reason |-> reason]
<1>1. ShutdownNext(p)
  BY DEF BeginShutdown
<1>2. IsShutdownPlan(p) /\ p.queue = RunningReverse(running', Child)
  BY ShutdownPlanShape
<1>3. ToAsk(RunningReverse(running', Child), running', status')
  BY EveryRunning
<1>. HIDE DEF p
<1>. QED  BY <1>1, <1>2, <1>3, ShutdownNextQueue

LEMMA BeginRestartQueue ==
  ASSUME NEW strategy \in Strategy, NEW c \in Child, running'[c] = None,
         BeginRestart(RestartScope(strategy, c), running')
  PROVE  QueueInv'
<1>1. PICK scope \in Seq(Child) : scope = RestartScope(strategy, c)
  BY ScopeIsAList
<1>. DEFINE p == [kind |-> "Restart", active |-> <<>>,
                  queue |-> RunningReverse(running', ToSet(scope)), start |-> scope]
<1>2. RestartNext(RestartOf(scope, running')) \/ BeginShutdown(running', "Error")
  BY <1>1 DEF BeginRestart
<1>3. RestartOf(scope, running') = p
  BY DEF RestartOf
<1>4. IsRestartPlan(p) /\ p.queue = RunningReverse(running', ToSet(scope))
  BY RestartPlanShape
<1>5. ToAsk(RunningReverse(running', ToSet(scope)), running', status')
  BY <1>1, ScopeRunning
<1>. HIDE DEF p
<1>. QED  BY <1>2, <1>3, <1>4, <1>5, RestartNextQueue, BeginShutdownQueue

\* A step that leaves the plan alone, and asks no child and starts none.
LEMMA SameQueue ==
  ASSUME QueueInv, UNCHANGED <<plan, todo>>,
         \A d \in Child : Unasked(d, running', status') => Unasked(d, running, status)
  PROVE  QueueInv'
<1>1. Pending' = Pending
  BY DEF Pending
<1>. QED  BY <1>1 DEF QueueInv, ToAsk
\* Between two turns, what is left to ask is the queue.
LEMMA IdleQueue ==
  ASSUME Idle, QueueInv, plan.kind \in {"Shutdown", "Restart"}
  PROVE  ToAsk(plan.queue, running, status)
<1>1. todo.op = "nothing"
  BY DEF Idle, Nothing
<1>2. Pending = plan.queue
  BY <1>1 DEF Pending
<1>. QED  BY <1>1, <1>2 DEF QueueInv

LEMMA AdvanceShutdownQueue ==
  ASSUME NEW p, IsShutdownPlan(p), NEW c \in Child, NEW run, NEW st,
         ToAsk(p.queue, run, st), AdvanceShutdown(p, c),
         \A d \in Child : Unasked(d, running', status') =>
           d # c /\ Unasked(d, run, st)
  PROVE  QueueInv'
<1>1. PICK q : q = Crossed(p, c)
  OBVIOUS
<1>2. IsShutdownPlan(q) /\ q.queue \in {p.queue, RemoveFirst(p.queue, c)}
  BY <1>1, CrossedShutdown, CrossedQueue
<1>3. ToAsk(q.queue, running', status')
  BY <1>2, AskedLess
<1>. QED  BY <1>1, <1>2, <1>3, ShutdownNextQueue DEF AdvanceShutdown

LEMMA AdvanceRestartQueue ==
  ASSUME NEW p, IsRestartPlan(p), NEW c \in Child, NEW run, NEW st,
         ToAsk(p.queue, run, st), AdvanceRestart(p, c, running'),
         \A d \in Child : Unasked(d, running', status') =>
           d # c /\ Unasked(d, run, st)
  PROVE  QueueInv'
<1>1. PICK q : q = Crossed(p, c)
  OBVIOUS
<1>2. IsRestartPlan(q) /\ q.queue \in {p.queue, RemoveFirst(p.queue, c)}
  BY <1>1, CrossedRestart, CrossedQueue
<1>3. ToAsk(q.queue, running', status')
  BY <1>2, AskedLess
<1>. QED
  BY <1>1, <1>2, <1>3, RestartNextQueue, BeginShutdownQueue DEF AdvanceRestart

LEMMA HandleChildExitQueue ==
  ASSUME TypeInv, QueueInv, HandleChildExit
  PROVE  QueueInv'
<1>1. PICK c \in Child :
        /\ running' = Forgotten(c)
        /\ \/ plan.kind = "Shutdown" /\ AdvanceShutdown(plan, c)
           \/ plan.kind = "Restart" /\ AdvanceRestart(plan, c, running')
           \/ /\ plan.kind = "None"
              /\ BeginRestart(RestartScope(flags.strategy, c), running')
           \/ plan.kind = "None" /\ Continue(NoPlan, Nothing)
  BY DEF HandleChildExit
<1>2. Idle /\ status' = status
  BY DEF HandleChildExit, actors
<1>3. PlanOK /\ flags.strategy \in Strategy
  BY DEF TypeInv, ControlOK, SupervisorFlags
<1>4. running'[c] = None /\ \A d \in Child : d # c => running'[d] = running[d]
  BY <1>1 DEF Forgotten, TypeInv, MapsOK
<1>5. \A d \in Child : Unasked(d, running', status') =>
        d # c /\ Unasked(d, running, status)
  BY <1>2, <1>4 DEF Unasked
<1>6. CASE plan.kind = "Shutdown" /\ AdvanceShutdown(plan, c)
  <2>1. IsShutdownPlan(plan) /\ ToAsk(plan.queue, running, status)
    BY <1>2, <1>3, <1>6, PlanOfKind, IdleQueue
  <2>. QED  BY <1>5, <1>6, <2>1, AdvanceShutdownQueue
<1>7. CASE plan.kind = "Restart" /\ AdvanceRestart(plan, c, running')
  <2>1. IsRestartPlan(plan) /\ ToAsk(plan.queue, running, status)
    BY <1>2, <1>3, <1>7, PlanOfKind, IdleQueue
  <2>. QED  BY <1>5, <1>7, <2>1, AdvanceRestartQueue
<1>8. CASE BeginRestart(RestartScope(flags.strategy, c), running')
  BY <1>3, <1>4, <1>8, BeginRestartQueue
<1>9. CASE Continue(NoPlan, Nothing)
  BY <1>9 DEF Continue, QueueInv, NoPlan
<1>. QED  BY <1>1, <1>6, <1>7, <1>8, <1>9

LEMMA RequestQueue ==
  ASSUME TypeInv, QueueInv, RequestShutdown \/ RequestShutdownNoProc
  PROVE  QueueInv'
<1>1. todo.op = "shutdown" /\ plan.kind \in {"Shutdown", "Restart"} /\ PlanOK
  <2>1. todo.op = "shutdown"
    BY DEF RequestShutdown, RequestShutdownNoProc
  <2>2. todo # Nothing /\ todo # [op |-> "start"]
        /\ todo \notin [op : {"remember"}, actor : Instance]
    BY <2>1 DEF Nothing
  <2>. QED  BY <2>1, <2>2 DEF TypeInv, ControlOK, TodoOK
<1>2. PICK c \in Child : c = todo.child
  BY <1>1 DEF QueueInv
<1>3. PICK q \in Seq(Child) : q = plan.queue
  BY <1>1 DEF QueueInv
<1>4. ToAsk(<<c>> \o q, running, status)
  BY <1>1, <1>2, <1>3 DEF QueueInv, Pending
<1>5. CASE RequestShutdown
  <2>1. /\ IsLive(running[c])
        /\ status' = [status EXCEPT ![running[c]] =
                        IF @ = "killed" THEN @ ELSE Requested(c)]
        /\ running' = running /\ plan' = plan /\ todo' = Nothing
    BY <1>2, <1>5 DEF RequestShutdown, Continue
  <2>2. status'[running[c]] # "alive"
    BY <2>1 DEF IsLive, Requested, TypeInv, ActorsOK
  <2>3. \A a \in Instance : status'[a] = "alive" => status[a] = "alive"
    BY <2>1 DEF Requested, TypeInv, ActorsOK
  <2>4. \A d \in Child : Unasked(d, running', status') =>
          d # c /\ Unasked(d, running, status)
    BY <2>1, <2>2, <2>3 DEF Unasked, TypeInv, MapsOK
  <2>5. ToAsk(q, running', status')
    BY <1>4, <2>4, AskedFirst
  <2>6. todo'.op = "nothing"
    BY <2>1 DEF Nothing
  <2>7. Pending' = q
    BY <1>3, <2>1, <2>6 DEF Pending
  <2>. QED  BY <1>3, <2>1, <2>5, <2>6, <2>7 DEF QueueInv
<1>6. CASE RequestShutdownNoProc
  <2>. DEFINE p == [plan EXCEPT !.active = <<>>]
  <2>1. /\ running' = Forgotten(c) /\ status' = status
        /\ \/ plan.kind = "Shutdown" /\ AdvanceShutdown(p, c)
           \/ plan.kind # "Shutdown" /\ AdvanceRestart(p, c, running')
    BY <1>2, <1>6 DEF RequestShutdownNoProc, actors
  <2>2. running'[c] = None /\ \A d \in Child : d # c => running'[d] = running[d]
    BY <2>1 DEF Forgotten, TypeInv, MapsOK
  <2>3. \A d \in Child : Unasked(d, running', status') =>
          d # c /\ Unasked(d, running, status)
    BY <2>1, <2>2 DEF Unasked
  <2>4. ToAsk(q, running', status')
    BY <1>4, <2>3, AskedFirst
  <2>5. IsShutdownPlan(plan) \/ IsRestartPlan(plan)
    BY <1>1, PlanOfKind
  <2>6. p.queue = q
    BY <1>3, <2>5, CrossedQueue
  <2>7. CASE plan.kind = "Shutdown" /\ AdvanceShutdown(p, c)
    <3>1. IsShutdownPlan(p)
      BY <1>1, <2>7, PlanOfKind, InactiveShape
    <3>. HIDE DEF p
    <3>. QED  BY <2>3, <2>4, <2>6, <2>7, <3>1, AdvanceShutdownQueue
  <2>8. CASE plan.kind # "Shutdown" /\ AdvanceRestart(p, c, running')
    <3>1. IsRestartPlan(p)
      BY <1>1, <2>8, PlanOfKind, InactiveShape
    <3>. HIDE DEF p
    <3>. QED  BY <2>3, <2>4, <2>6, <2>8, <3>1, AdvanceRestartQueue
  <2>. QED  BY <2>1, <2>7, <2>8
<1>. QED  BY <1>5, <1>6

LEMMA OtherTurnQueue ==
  ASSUME TypeInv, QueueInv,
         \/ HandleExternalExit \/ HandleShutdown \/ HandleCodeChange
         \/ ForcedExit \/ SpawnChild \/ RememberChild \/ StartFails
  PROVE  QueueInv'
<1>1. CASE HandleExternalExit
  <2>1. Idle /\ UNCHANGED <<running, status>>
    BY <1>1 DEF HandleExternalExit, actors
  <2>2. CASE plan.kind = "Shutdown"
    <3>1. plan' = plan /\ todo' = todo
      BY <1>1, <2>2 DEF HandleExternalExit, Continue, Idle
    <3>. QED  BY <2>1, <3>1, SameQueue
  <2>3. CASE plan.kind # "Shutdown"
    <3>1. BeginShutdown(running', Head(mailbox).reason)
      BY <1>1, <2>1, <2>3 DEF HandleExternalExit
    <3>. QED  BY <3>1, BeginShutdownQueue
  <2>. QED  BY <2>2, <2>3
<1>2. CASE HandleShutdown
  <2>1. BeginShutdown(running', "Shutdown")
    BY <1>2 DEF HandleShutdown
  <2>. QED  BY <2>1, BeginShutdownQueue
<1>3. CASE HandleCodeChange
  BY <1>3, SameQueue DEF HandleCodeChange, turn, actors
<1>4. CASE ForcedExit
  BY <1>4 DEF ForcedExit, Stop, QueueInv, NoPlan
<1>5. CASE SpawnChild
  BY <1>5 DEF SpawnChild, Continue, QueueInv
<1>6. CASE RememberChild
  BY <1>6 DEF RememberChild, QueueInv, NoPlan
<1>7. CASE StartFails
  <2>1. running' = running
    BY <1>7 DEF StartFails
  <2>2. Stop("Error") \/ BeginShutdown(running', "Error")
    BY <1>7, <2>1 DEF StartFails
  <2>3. CASE Stop("Error")
    BY <2>3 DEF Stop, QueueInv, NoPlan
  <2>. QED  BY <2>2, <2>3, BeginShutdownQueue
<1>. QED  BY <1>1, <1>2, <1>3, <1>4, <1>5, <1>6, <1>7

LEMMA WorldQueue ==
  ASSUME TypeInv, QueueInv,
         \/ \E a \in Instance :
              \/ ChildCrashes(a) \/ ChildStops(a) \/ ShutdownTimesOut(a)
              \/ ExitArrives(a) \/ SupervisorExitReaches(a)
         \/ ForeignExit \/ Tick \/ Snapshot \/ UNCHANGED vars
  PROVE  QueueInv'
<1>1. UNCHANGED <<plan, todo, running>>
  BY DEF ChildCrashes, ChildStops, ShutdownTimesOut, ExitArrives,
     SupervisorExitReaches, ForeignExit, Tick, Snapshot, Finalize, vars, turn,
     actors
<1>2. \A b \in Instance : status'[b] = "alive" => status[b] = "alive"
  BY DEF ChildCrashes, ChildStops, ShutdownTimesOut, ExitArrives,
     SupervisorExitReaches, ForeignExit, Tick, Snapshot, Finalize, vars, turn,
     actors, TypeInv, ActorsOK
<1>3. \A d \in Child : Unasked(d, running', status') => Unasked(d, running, status)
  BY <1>1, <1>2 DEF Unasked, TypeInv, MapsOK
<1>. QED  BY <1>1, <1>3, SameQueue

\* Shutdown requests go out in reverse declared order (running_children_reverse,
\* all_running_reverse, next_shutdown and next_child), whatever exits are
\* crossed off the queue on the way and whichever shutdown takes over.
THEOREM LastDeclaredFirst == Spec => []ReverseOrder
<1>1. Init => QueueInv
  BY DEF Init, QueueInv
<1>2. Inv /\ QueueInv /\ [Next]_vars => QueueInv'
  BY HandleChildExitQueue, RequestQueue, OtherTurnQueue, WorldQueue
     DEF Inv, Next, Turn
<1>3. Inv /\ QueueInv => ReverseOrder
  <2>. SUFFICES ASSUME Inv, QueueInv, todo.op = "shutdown", NEW d \in Child,
                       Position(d) > Position(todo.child), running[d] # None,
                       status[running[d]] = "alive"
                PROVE  FALSE
    BY DEF ReverseOrder
  <2>1. plan.kind \in {"Shutdown", "Restart"}
    <3>1. todo # Nothing /\ todo # [op |-> "start"]
          /\ todo \notin [op : {"remember"}, actor : Instance]
      BY DEF Nothing
    <3>. QED  BY <3>1 DEF Inv, TypeInv, ControlOK, TodoOK
  <2>2. PICK c \in Child, q \in Seq(Child) : c = todo.child /\ q = plan.queue
    BY <2>1 DEF QueueInv
  <2>3. PICK r : r = <<c>> \o q
    OBVIOUS
  <2>4. ToAsk(r, running, status)
    BY <2>1, <2>2, <2>3 DEF QueueInv, Pending
  <2>5. 1 \in DOMAIN r /\ r[1] = c /\ DOMAIN r = 1..(Len(q) + 1) /\ Len(q) \in Nat
    BY <2>3
  <2>6. Position(c) \in Nat /\ Position(d) \in Nat /\ Position(d) > Position(c)
    BY <2>2, Positions
  <2>7. d \in ToSet(r)
    BY <2>4, <2>5, <2>6 DEF ToAsk, Unasked
  <2>8. PICK i \in DOMAIN r : r[i] = d
    BY <2>7 DEF ToSet
  <2>9. i # 1
    BY <2>5, <2>6, <2>8
  <2>10. 1 < i
    BY <2>5, <2>8, <2>9
  <2>11. Position(d) < Position(c)
    BY <2>4, <2>5, <2>8, <2>10 DEF ToAsk, Descending
  <2>. QED  BY <2>6, <2>11
<1>. QED  BY <1>1, <1>2, <1>3, InvKept, PTL DEF Spec
-----------------------------------------------------------------------------
(* The restart window.                                                     *)

\* The restarts since h.
Recent(times, h) == {i \in DOMAIN times : times[i] >= h}

\* Every restart that was allowed since h has an entry of its own in the
\* window.
Counted(window, times, h) ==
  \E at \in [Recent(times, h) -> DOMAIN window] :
    /\ \A i \in Recent(times, h) : window[at[i]] = times[i]
    /\ \A i, j \in Recent(times, h) : at[i] = at[j] => i = j

\* Every restart since the horizon lies within the period in force, and each
\* that was allowed is counted.
WindowInv ==
  /\ restarts \in Seq(Nat) /\ accepted \in Seq(Nat)
  /\ now \in Nat /\ horizon \in Nat
  /\ horizon <= now /\ now <= horizon + flags.period
  /\ \A i \in DOMAIN accepted : accepted[i] <= now
  /\ Counted(restarts, accepted, horizon)

LEMMA LaterCounted ==
  ASSUME NEW w \in Seq(Nat), NEW a \in Seq(Nat), NEW h \in Nat, NEW k \in Nat,
         h <= k, Counted(w, a, h)
  PROVE  Counted(w, a, k)
<1>1. PICK at \in [Recent(a, h) -> DOMAIN w] :
        /\ \A i \in Recent(a, h) : w[at[i]] = a[i]
        /\ \A i, j \in Recent(a, h) : at[i] = at[j] => i = j
  BY DEF Counted
<1>2. Recent(a, k) \subseteq Recent(a, h)
  <2>1. \A i \in DOMAIN a : a[i] \in Nat
    OBVIOUS
  <2>. QED  BY <2>1 DEF Recent
<1>. DEFINE to == [i \in Recent(a, k) |-> at[i]]
<1>3. /\ to \in [Recent(a, k) -> DOMAIN w]
      /\ \A i \in Recent(a, k) : to[i] = at[i]
  BY <1>1, <1>2
<1>. HIDE DEF to
<1>. QED  BY <1>1, <1>2, <1>3 DEF Counted

\* Where the window of a period begins, at a time not before the last one.
LEMMA Begins ==
  ASSUME WindowInv, NEW t \in Nat, now <= t, NEW p \in Nat
  PROVE  /\ WindowBegins(t, p) \in Nat
         /\ horizon <= WindowBegins(t, p)
         /\ WindowBegins(t, p) <= t /\ t <= WindowBegins(t, p) + p
  BY DEF WindowInv, WindowBegins

\* prune with a period drops no restart since the window of it began.
LEMMA PrunedCounted ==
  ASSUME WindowInv, NEW p \in Nat, NEW h \in Nat,
         horizon <= h, now <= h + p
  PROVE  Pruned(p) \in Seq(Nat) /\ Counted(Pruned(p), accepted, h)
<1>. DEFINE inside == {i \in DOMAIN restarts :
                         restarts[i] <= now /\ now - restarts[i] <= p}
<1>1. PICK w \in Seq(Nat), a \in Seq(Nat), t \in Nat :
        w = restarts /\ a = accepted /\ t = now
  BY DEF WindowInv
<1>0. Counted(w, a, h)
  BY <1>1, LaterCounted DEF WindowInv
<1>2. PICK at \in [Recent(a, h) -> DOMAIN w] :
        /\ \A i \in Recent(a, h) : w[at[i]] = a[i]
        /\ \A i, j \in Recent(a, h) : at[i] = at[j] => i = j
  BY <1>0 DEF Counted
<1>3. \A i \in Recent(a, h) : at[i] \in inside
  <2>1. \A i \in Recent(a, h) : a[i] \in Nat /\ a[i] <= t /\ t - a[i] <= p
    BY <1>1 DEF WindowInv, Recent
  <2>. QED  BY <1>1, <1>2, <2>1
<1>4. CASE inside = {}
  <2>1. Recent(a, h) = {}
    BY <1>3, <1>4
  <2>2. Pruned(p) = <<>>
    BY <1>4 DEF Pruned
  <2>3. at \in [Recent(a, h) -> DOMAIN <<>>]
    BY <1>2, <2>1
  <2>. QED  BY <1>1, <1>2, <2>2, <2>3 DEF Counted
<1>5. CASE inside # {}
  <2>1. inside \subseteq DOMAIN w /\ DOMAIN w = 1..Len(w) /\ Len(w) \in Nat
    BY <1>1
  <2>2. PICK least \in inside : \A j \in inside : least <= j
    <3>1. inside \subseteq Nat
      BY <2>1
    <3>. HIDE DEF inside
    <3>. QED  BY <1>5, <3>1, LeastOf
  <2>3. PICK m \in inside : m = Min(inside) /\ \A j \in inside : m <= j
    BY <2>2 DEF Min
  <2>4. Pruned(p) = SubSeq(w, m, Len(w))
    BY <1>1, <1>5, <2>3 DEF Pruned
  <2>5. PICK r : r = SubSeq(w, m, Len(w))
    OBVIOUS
  <2>. HIDE DEF inside
  <2>6. m \in 1..Len(w)
    BY <2>1
  <2>7. /\ r \in Seq(Nat) /\ Len(r) = Len(w) - m + 1
        /\ \A i \in 1..(Len(w) - m + 1) : r[i] = w[m + i - 1]
    <3>1. \A i \in m..Len(w) : w[i] \in Nat
      BY <2>1, <2>6
    <3>2. m \in Int /\ Len(w) \in Int /\ m <= Len(w)
      BY <2>1, <2>6
    <3>3. /\ r \in Seq(Nat)
          /\ Len(r) = IF m <= Len(w) THEN Len(w) - m + 1 ELSE 0
          /\ \A i \in 1..(Len(w) - m + 1) : r[i] = w[m + i - 1]
      BY <2>5, <3>1, <3>2, SubSeqProperties
    <3>. QED  BY <3>2, <3>3
  <2>8. DOMAIN r = 1..(Len(w) - m + 1)
    BY <2>7
  <2>. DEFINE to == [i \in Recent(a, h) |-> at[i] - m + 1]
  <2>9. ASSUME NEW i \in Recent(a, h)
        PROVE  to[i] \in DOMAIN r /\ m + to[i] - 1 = at[i] /\ r[to[i]] = a[i]
    <3>1. at[i] \in 1..Len(w) /\ m <= at[i]
      BY <1>3, <2>1, <2>3
    <3>2. to[i] \in DOMAIN r /\ m + to[i] - 1 = at[i]
      BY <2>1, <2>6, <2>8, <3>1
    <3>. HIDE DEF to
    <3>. QED  BY <1>2, <2>7, <2>8, <3>2
  <2>10. to \in [Recent(a, h) -> DOMAIN r]
    BY <2>9
  <2>. HIDE DEF to
  <2>11. \A i, j \in Recent(a, h) : to[i] = to[j] => i = j
    <3>1. \A i, j \in Recent(a, h) : to[i] = to[j] => at[i] = at[j]
      BY <2>9
    <3>. QED  BY <1>2, <3>1
  <2>12. Counted(r, a, h)
    BY <2>9, <2>10, <2>11 DEF Counted
  <2>. QED  BY <1>1, <2>4, <2>5, <2>7, <2>12
<1>. QED  BY <1>4, <1>5

LEMMA AppendedCounted ==
  ASSUME NEW w \in Seq(Nat), NEW a \in Seq(Nat), NEW t \in Nat,
         NEW h \in Nat, h <= t, Counted(w, a, h)
  PROVE  /\ Counted(Append(w, t), a, h)
         /\ Counted(Append(w, t), Append(a, t), h)
<1>1. PICK at \in [Recent(a, h) -> DOMAIN w] :
        /\ \A i \in Recent(a, h) : w[at[i]] = a[i]
        /\ \A i, j \in Recent(a, h) : at[i] = at[j] => i = j
  BY DEF Counted
<1>2. PICK r : r = Append(w, t)
  OBVIOUS
<1>3. /\ DOMAIN w = 1..Len(w) /\ Len(w) \in Nat /\ DOMAIN r = 1..(Len(w) + 1)
      /\ r[Len(w) + 1] = t /\ \A i \in DOMAIN w : r[i] = w[i] /\ i \in DOMAIN r
  BY <1>2
<1>4. PICK b : b = Append(a, t)
  OBVIOUS
<1>5. /\ DOMAIN a = 1..Len(a) /\ Len(a) \in Nat /\ DOMAIN b = 1..(Len(a) + 1)
      /\ b[Len(a) + 1] = t /\ \A i \in DOMAIN a : b[i] = a[i] /\ i \in DOMAIN b
  BY <1>4
<1>6. Counted(r, a, h)
  <2>1. at \in [Recent(a, h) -> DOMAIN r]
    BY <1>1, <1>3
  <2>2. \A i \in Recent(a, h) : r[at[i]] = a[i]
    BY <1>1, <1>3
  <2>. QED  BY <1>1, <2>1, <2>2 DEF Counted
<1>7. Recent(b, h) \subseteq Recent(a, h) \cup {Len(a) + 1}
      /\ Len(a) + 1 \notin Recent(a, h)
  BY <1>5 DEF Recent
<1>. DEFINE to == [i \in Recent(b, h) |->
                     IF i = Len(a) + 1 THEN Len(w) + 1 ELSE at[i]]
<1>8. ASSUME NEW i \in Recent(b, h)
      PROVE  /\ to[i] \in DOMAIN r /\ r[to[i]] = b[i]
             /\ i # Len(a) + 1 => /\ i \in Recent(a, h) /\ to[i] = at[i]
                                  /\ to[i] # Len(w) + 1
  <2>1. CASE i = Len(a) + 1
    BY <1>3, <1>5, <2>1
  <2>2. CASE i # Len(a) + 1
    <3>1. i \in Recent(a, h) /\ to[i] = at[i]
      BY <1>7, <2>2
    <3>2. at[i] \in DOMAIN w /\ at[i] # Len(w) + 1 /\ i \in DOMAIN a
      BY <1>1, <1>3, <3>1 DEF Recent
    <3>. HIDE DEF to
    <3>. QED  BY <1>1, <1>3, <1>5, <3>1, <3>2
  <2>. QED  BY <2>1, <2>2
<1>9. \A i \in Recent(b, h) : i = Len(a) + 1 => to[i] = Len(w) + 1
  OBVIOUS
<1>10. to \in [Recent(b, h) -> DOMAIN r]
  BY <1>8
<1>. HIDE DEF to
<1>11. \A i, j \in Recent(b, h) : to[i] = to[j] => i = j
  BY <1>1, <1>8, <1>9
<1>12. Counted(r, b, h)
  BY <1>8, <1>10, <1>11 DEF Counted
<1>. QED  BY <1>2, <1>4, <1>6, <1>12

\* Restarts with entries of their own are no more than the window has entries.
LEMMA CountedBound ==
  ASSUME NEW w \in Seq(Nat), NEW a, NEW t, Counted(w, a, t)
  PROVE  Cardinality(Recent(a, t)) <= Len(w) /\ Cardinality(Recent(a, t)) \in Nat
<1>1. PICK at \in [Recent(a, t) -> DOMAIN w] :
        \A i, j \in Recent(a, t) : at[i] = at[j] => i = j
  BY DEF Counted
<1>2. DOMAIN w = 1..Len(w) /\ Len(w) \in Nat
  OBVIOUS
<1>3. at \in Injection(Recent(a, t), 1..Len(w))
  BY <1>1, <1>2 DEF Injection, IsInjective
<1>4. IsFiniteSet(1..Len(w)) /\ Cardinality(1..Len(w)) = Len(w)
  <2>1. /\ IsFiniteSet(1..Len(w))
        /\ Cardinality(1..Len(w)) = IF 1 > Len(w) THEN 0 ELSE Len(w) - 1 + 1
    BY <1>2, FS_Interval
  <2>. QED  BY <1>2, <2>1
<1>5. /\ IsFiniteSet(Recent(a, t))
      /\ Cardinality(Recent(a, t)) <= Cardinality(1..Len(w))
  BY <1>3, <1>4, FS_Injection
<1>. QED  BY <1>4, <1>5, FS_CardinalityType
\* Only a restart that is asked for enters the window, and is counted.
RestartAsked ==
  /\ restarts' = Append(Pruned(flags.period), now)
  /\ \/ accepted' = accepted
     \/ /\ accepted' = Append(accepted, now)
        /\ Len(Pruned(flags.period)) + 1 <= flags.intensity

LEMMA WindowSteps ==
  ASSUME [Next]_vars
  PROVE  \/ RestartAsked /\ UNCHANGED <<now, horizon, flags>>
         \/ /\ restarts' \in {restarts, Pruned(flags.period)}
            /\ UNCHANGED <<accepted, now, horizon, flags>>
         \/ /\ \E new \in Flags : Reconfigure(new)
            /\ UNCHANGED <<accepted, now>>
         \/ Tick
<1>1. CASE HandleChildExit
  <2>1. UNCHANGED <<now, horizon, flags>>
    BY <1>1 DEF HandleChildExit
  <2>2. CASE UNCHANGED <<restarts, accepted>>
    BY <2>1, <2>2
  <2>3. CASE \E c \in Child :
               BeginRestart(RestartScope(flags.strategy, c), Forgotten(c))
    <3>1. PICK c \in Child :
            BeginRestart(RestartScope(flags.strategy, c), Forgotten(c))
      BY <2>3
    <3>2. RestartAsked
      BY <3>1 DEF BeginRestart, RecordRestart, RestartAsked
    <3>. QED  BY <2>1, <3>2
  <2>. QED  BY <1>1, <2>2, <2>3 DEF HandleChildExit
<1>2. CASE HandleCodeChange
  BY <1>2 DEF HandleCodeChange
<1>3. CASE HandleExternalExit \/ HandleShutdown \/ ForcedExit \/ RequestShutdown
           \/ RequestShutdownNoProc \/ SpawnChild \/ RememberChild \/ StartFails
  BY <1>3 DEF HandleExternalExit, HandleShutdown, ForcedExit, RequestShutdown,
     RequestShutdownNoProc, SpawnChild, RememberChild, StartFails
<1>4. CASE Snapshot
  BY <1>4 DEF Snapshot
<1>5. CASE \/ \E a \in Instance :
                \/ ChildCrashes(a) \/ ChildStops(a) \/ ShutdownTimesOut(a)
                \/ ExitArrives(a) \/ SupervisorExitReaches(a)
           \/ ForeignExit \/ UNCHANGED vars
  BY <1>5 DEF ChildCrashes, ChildStops, ShutdownTimesOut, ExitArrives,
     SupervisorExitReaches, ForeignExit, Finalize, vars
<1>. QED  BY <1>1, <1>2, <1>3, <1>4, <1>5 DEF Next, Turn

LEMMA FlagsTyped ==
  ASSUME ControlOK
  PROVE  /\ flags.period \in Nat /\ flags.intensity \in Nat
         /\ \A new \in Flags : new.period \in Nat
  BY SpecsAssumption DEF ControlOK, SupervisorFlags

\* prune with the period in force.
LEMMA PrunedInForce ==
  ASSUME ControlOK, WindowInv
  PROVE  /\ Pruned(flags.period) \in Seq(Nat)
         /\ Counted(Pruned(flags.period), accepted, horizon)
<1>1. PICK p \in Nat, h \in Nat : p = flags.period /\ h = horizon
  BY FlagsTyped DEF WindowInv
<1>2. horizon <= h /\ now <= h + p
  BY <1>1 DEF WindowInv
<1>3. Pruned(p) \in Seq(Nat) /\ Counted(Pruned(p), accepted, h)
  BY <1>2, PrunedCounted
<1>. QED  BY <1>1, <1>3

LEMMA WindowNext ==
  ASSUME ControlOK, WindowInv, [Next]_vars
  PROVE  WindowInv'
<1>1. /\ restarts \in Seq(Nat) /\ accepted \in Seq(Nat)
      /\ now \in Nat /\ horizon \in Nat
      /\ horizon <= now /\ now <= horizon + flags.period
      /\ \A i \in DOMAIN accepted : accepted[i] <= now /\ accepted[i] \in Nat
      /\ Counted(restarts, accepted, horizon)
  BY DEF WindowInv
<1>2. /\ Pruned(flags.period) \in Seq(Nat)
      /\ Counted(Pruned(flags.period), accepted, horizon)
  BY PrunedInForce
<1>3. CASE RestartAsked /\ UNCHANGED <<now, horizon, flags>>
  <2>1. PICK w : w = Append(Pruned(flags.period), now)
    OBVIOUS
  <2>2. PICK a : a = Append(accepted, now)
    OBVIOUS
  <2>3. restarts' = w /\ accepted' \in {accepted, a}
    BY <1>3, <2>1, <2>2 DEF RestartAsked
  <2>4. w \in Seq(Nat) /\ a \in Seq(Nat)
    BY <1>1, <1>2, <2>1, <2>2
  <2>5. Counted(w, accepted, horizon) /\ Counted(w, a, horizon)
    BY <1>1, <1>2, <2>1, <2>2, AppendedCounted
  <2>6. \A i \in DOMAIN a : a[i] <= now
    <3>1. /\ DOMAIN a = 1..(Len(accepted) + 1) /\ Len(accepted) \in Nat
          /\ DOMAIN accepted = 1..Len(accepted)
          /\ a[Len(accepted) + 1] = now
          /\ \A i \in DOMAIN accepted : a[i] = accepted[i]
      BY <1>1, <2>2
    <3>2. \A i \in DOMAIN a : i \in DOMAIN accepted \/ i = Len(accepted) + 1
      BY <3>1
    <3>3. ASSUME NEW i \in DOMAIN a
          PROVE  a[i] <= now
      <4>1. CASE i \in DOMAIN accepted
        BY <1>1, <3>1, <4>1
      <4>2. CASE i = Len(accepted) + 1
        BY <1>1, <3>1, <4>2
      <4>. QED  BY <3>2, <4>1, <4>2
    <3>. QED  BY <3>3
  <2>. QED  BY <1>1, <1>3, <2>3, <2>4, <2>5, <2>6 DEF WindowInv
<1>4. CASE /\ restarts' \in {restarts, Pruned(flags.period)}
           /\ UNCHANGED <<accepted, now, horizon, flags>>
  BY <1>1, <1>2, <1>4 DEF WindowInv
<1>5. ASSUME NEW new \in Flags, Reconfigure(new), UNCHANGED <<accepted, now>>
      PROVE  WindowInv'
  <2>1. PICK h : h = WindowBegins(now, new.period)
    OBVIOUS
  <2>2. /\ h \in Nat /\ new.period \in Nat
        /\ horizon <= h /\ h <= now /\ now <= h + new.period
    <3>1. PICK t \in Nat, p \in Nat : t = now /\ p = new.period
      BY <1>1, FlagsTyped
    <3>2. now <= t
      BY <3>1
    <3>3. /\ WindowBegins(t, p) \in Nat
          /\ horizon <= WindowBegins(t, p)
          /\ WindowBegins(t, p) <= t /\ t <= WindowBegins(t, p) + p
      BY <3>2, Begins
    <3>. QED  BY <2>1, <3>1, <3>3
  <2>3. /\ Pruned(new.period) \in Seq(Nat)
        /\ Counted(Pruned(new.period), accepted, h)
    BY <2>2, PrunedCounted
  <2>4. flags' = new /\ restarts' = Pruned(new.period) /\ horizon' = h
    BY <1>5, <2>1 DEF Reconfigure
  <2>. QED  BY <1>1, <1>5, <2>2, <2>3, <2>4 DEF WindowInv
<1>6. CASE Tick
  <2>1. PICK h : h = WindowBegins(now + 1, flags.period)
    OBVIOUS
  <2>2. /\ h \in Nat /\ now + 1 \in Nat
        /\ horizon <= h /\ h <= now + 1 /\ now + 1 <= h + flags.period
    <3>1. PICK t \in Nat, p \in Nat : t = now + 1 /\ p = flags.period
      <4>1. now + 1 \in Nat /\ flags.period \in Nat
        BY <1>1, FlagsTyped
      <4>. QED  BY <4>1
    <3>2. now <= t
      BY <1>1, <3>1
    <3>3. /\ WindowBegins(t, p) \in Nat
          /\ horizon <= WindowBegins(t, p)
          /\ WindowBegins(t, p) <= t /\ t <= WindowBegins(t, p) + p
      BY <3>2, Begins
    <3>. QED  BY <2>1, <3>1, <3>3
  <2>3. Counted(restarts, accepted, h)
    BY <1>1, <2>2, LaterCounted
  <2>4. /\ now' = now + 1 /\ horizon' = h
        /\ UNCHANGED <<restarts, accepted, flags>>
    BY <1>6, <2>1 DEF Tick, WindowBegins
  <2>5. \A i \in DOMAIN accepted : accepted[i] <= now + 1
    BY <1>1
  <2>. QED  BY <1>1, <2>2, <2>3, <2>4, <2>5 DEF WindowInv
<1>. QED  BY <1>3, <1>4, <1>5, <1>6, WindowSteps

LEMMA WindowInit ==
  ASSUME Init
  PROVE  WindowInv
<1>1. accepted = <<>> /\ restarts = <<>> /\ now = 0 /\ horizon = 0
  BY DEF Init
<1>2. Recent(<<>>, 0) = {}
  BY DEF Recent
<1>3. [i \in {} |-> 0] \in [Recent(<<>>, 0) -> DOMAIN <<>>]
  BY <1>2
<1>4. Counted(<<>>, <<>>, 0)
  BY <1>2, <1>3 DEF Counted
<1>5. flags.period \in Nat
  BY SpecsAssumption DEF Init, SupervisorFlags
<1>. QED  BY <1>1, <1>4, <1>5 DEF WindowInv

\* A restart that is allowed is within the intensity of the flags in force:
\* counting it, no more than that have been allowed since the restart window
\* began, whatever prunings, refused restarts and changes of the intensity or
\* the period came before (RestartIntensity::record_restart, reconfigure and
\* prune).
THEOREM WithinIntensity == Spec => IntensityRespected
<1>1. Init => WindowInv
  BY WindowInit
<1>2. Inv /\ WindowInv /\ [Next]_vars => WindowInv'
  BY WindowNext DEF Inv, TypeInv
<1>3. Inv /\ WindowInv /\ [Next]_vars =>
        [accepted' # accepted =>
           Cardinality({i \in DOMAIN accepted' : accepted'[i] >= horizon})
             <= flags.intensity]_vars
  <2>. SUFFICES ASSUME Inv, WindowInv, [Next]_vars, accepted' # accepted
                PROVE  Cardinality({i \in DOMAIN accepted' :
                                      accepted'[i] >= horizon})
                         <= flags.intensity
    OBVIOUS
  <2>0. flags.period \in Nat /\ flags.intensity \in Nat
    BY FlagsTyped DEF Inv, TypeInv
  <2>1. RestartAsked
    BY WindowSteps DEF Tick
  <2>2. /\ accepted' = Append(accepted, now)
        /\ restarts' = Append(Pruned(flags.period), now)
        /\ Len(Pruned(flags.period)) + 1 <= flags.intensity
    BY <2>1 DEF RestartAsked
  <2>3. /\ Pruned(flags.period) \in Seq(Nat)
        /\ Counted(Pruned(flags.period), accepted, horizon)
    BY PrunedInForce DEF Inv, TypeInv
  <2>4. PICK w \in Seq(Nat) : w = Pruned(flags.period)
    BY <2>3
  <2>5. PICK r \in Seq(Nat), a \in Seq(Nat) :
          r = Append(w, now) /\ a = Append(accepted, now)
    <3>1. Append(w, now) \in Seq(Nat) /\ Append(accepted, now) \in Seq(Nat)
      BY DEF WindowInv
    <3>. QED  BY <3>1
  <2>6. Counted(r, a, horizon)
    BY <2>3, <2>4, <2>5, AppendedCounted DEF WindowInv
  <2>7. Len(r) = Len(w) + 1 /\ Len(w) \in Nat
    BY <2>4, <2>5
  <2>8. /\ Cardinality(Recent(a, horizon)) <= Len(r)
        /\ Cardinality(Recent(a, horizon)) \in Nat
    BY <2>6, CountedBound
  <2>9. Recent(a, horizon) = {i \in DOMAIN accepted' : accepted'[i] >= horizon}
    BY <2>2, <2>5 DEF Recent
  <2>10. PICK n : n = Cardinality(Recent(a, horizon))
    OBVIOUS
  <2>11. n <= flags.intensity
    <3>1. n \in Nat /\ n <= Len(w) + 1
      BY <2>7, <2>8, <2>10
    <3>2. Len(w) + 1 <= flags.intensity
      BY <2>2, <2>4
    <3>. QED  BY <2>0, <2>7, <3>1, <3>2
  <2>. QED  BY <2>9, <2>10, <2>11
<1>. QED  BY <1>1, <1>2, <1>3, InvKept, PTL DEF Spec, IntensityRespected
=============================================================================
