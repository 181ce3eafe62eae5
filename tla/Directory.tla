----------------------------- MODULE Directory ------------------------------
(***************************************************************************)
(* Who exists and what it is called: the slot allocator that hands out     *)
(* actor ids, the table of live actors, the snapshots kept of the ones     *)
(* that are gone, and the name registry.  Both runtimes change all of them *)
(* under exclusive access, so a spawn, a registration and an exit are one  *)
(* action each.                                                            *)
(*                                                                         *)
(* The table is a map from slots: an insert into a slot that is in use     *)
(* would silently replace a live actor, and a lookup compares the whole    *)
(* id, slot and generation, so that an old id never finds a newcomer.      *)
(***************************************************************************)
EXTENDS Naturals, Sequences, FiniteSets

CONSTANTS
  Name,       \* registry names
  NoName,
  MaxLive,    \* SchedulerConfig::max_actors
  MaxSpawns   \* bound: spawn requests

ASSUME NameAssumption == NoName \notin Name

ASSUME MaxAssumption == MaxLive \in Nat /\ MaxSpawns \in Nat

VARIABLES
  nextSlot,     \* ActorSlotAllocator::next_slot
  freeSlots,    \* ActorSlotAllocator::free_slots, a stack
  generations,  \* ActorSlotAllocator::generations, 0 for a slot not yet used
  actors,       \* ids of the live actors, keyed by slot in the code
  liveActors,   \* live_actors
  completed,    \* ids that have a final snapshot
  byName,       \* Registry::by_name, NoId for a free name
  byActor,      \* Registry::by_actor, as a set of [actor, name]
  leaked,       \* history: slots of spawns that were refused
  spawns        \* number of spawn requests

allocator == <<nextSlot, freeSlots, generations>>
registry  == <<byName, byActor>>
directoryVars ==
  <<allocator, actors, liveActors, completed, registry, leaked, spawns>>

Slot    == 0..(MaxSpawns - 1)
ActorId == [slot : Slot, generation : Nat]
NoId    == [slot |-> MaxSpawns, generation |-> 0]

DirectoryInit ==
  /\ nextSlot = 0
  /\ freeSlots = <<>>
  /\ generations = [s \in Slot |-> 0]
  /\ actors = {}
  /\ liveActors = 0
  /\ completed = {}
  /\ byName = [n \in Name |-> NoId]
  /\ byActor = {}
  /\ leaked = {}
  /\ spawns = 0
-----------------------------------------------------------------------------
(* ActorSlotAllocator.                                                     *)

\* allocate: the slot freed last, or a new one.
Allocated ==
  LET slot == IF freeSlots = <<>> THEN nextSlot ELSE freeSlots[Len(freeSlots)]
  IN  [slot |-> slot, generation |-> generations[slot]]

\* Faulty: a new slot is counted twice.
AllocateSkips ==
  /\ UNCHANGED generations
  /\ IF freeSlots = <<>>
     THEN nextSlot' = nextSlot + 2 /\ UNCHANGED freeSlots
     ELSE /\ freeSlots' = SubSeq(freeSlots, 1, Len(freeSlots) - 1)
          /\ UNCHANGED nextSlot

Allocate ==
  /\ UNCHANGED generations
  /\ IF freeSlots = <<>>
     THEN nextSlot' = nextSlot + 1 /\ UNCHANGED freeSlots
     ELSE /\ freeSlots' = SubSeq(freeSlots, 1, Len(freeSlots) - 1)
          /\ UNCHANGED nextSlot

\* Faulty: the slot keeps its generation.
ReleaseSameGeneration(id) ==
  /\ freeSlots' = IF generations[id.slot] = id.generation
                  THEN Append(freeSlots, id.slot) ELSE freeSlots
  /\ UNCHANGED <<nextSlot, generations>>

\* Faulty: the slot is pushed twice.
ReleaseTwice(id) ==
  /\ generations' = [generations EXCEPT ![id.slot] = @ + 1]
  /\ freeSlots' = freeSlots \o <<id.slot, id.slot>>
  /\ UNCHANGED nextSlot

\* release: an id that is not the slot's current one is ignored.
Release(id) ==
  /\ IF generations[id.slot] = id.generation
     THEN /\ generations' = [generations EXCEPT ![id.slot] = @ + 1]
          /\ freeSlots' = Append(freeSlots, id.slot)
     ELSE UNCHANGED <<generations, freeSlots>>
  /\ UNCHANGED nextSlot
-----------------------------------------------------------------------------
(* Registry.                                                               *)

NamesOf(id) == {e \in byActor : e.actor = id}

\* register succeeds: the actor has no other name, the name no other actor.
CanRegister(id, name) ==
  IF NamesOf(id) = {} THEN byName[name] = NoId
                      ELSE [actor |-> id, name |-> name] \in byActor

Register(id, name) ==
  /\ byName' = [byName EXCEPT ![name] = id]
  /\ byActor' = byActor \cup {[actor |-> id, name |-> name]}

\* Faulty: the actor's own entry goes, the name still resolves to it.
UnregisterHalf(id) ==
  /\ byActor' = byActor \ NamesOf(id)
  /\ UNCHANGED byName

\* unregister, a no-op for an actor without a name.
Unregister(id) ==
  /\ byActor' = byActor \ NamesOf(id)
  /\ byName' = [n \in Name |->
       IF [actor |-> id, name |-> n] \in byActor THEN NoId ELSE byName[n]]
-----------------------------------------------------------------------------
\* Faulty: one actor too many is let in.
SpawnOneMore(name) ==
  LET id      == Allocated
      refused == \/ liveActors > MaxLive
                 \/ name # NoName /\ ~CanRegister(id, name)
  IN  /\ spawns < MaxSpawns
      /\ spawns' = spawns + 1
      /\ Allocate
      /\ \/ /\ refused
            /\ leaked' = leaked \cup {id.slot}
            /\ UNCHANGED <<actors, liveActors, registry>>
         \/ /\ ~refused
            /\ actors' = {x \in actors : x.slot # id.slot} \cup {id}
            /\ liveActors' = liveActors + 1
            /\ IF name = NoName THEN UNCHANGED registry ELSE Register(id, name)
            /\ UNCHANGED leaked
      /\ UNCHANGED completed

\* spawn: the id is allocated before the request can be refused, for want of
\* room or for its name, and a refused id is not released.
Spawn(name) ==
  LET id      == Allocated
      refused == \/ liveActors >= MaxLive
                 \/ name # NoName /\ ~CanRegister(id, name)
  IN  /\ spawns < MaxSpawns
      /\ spawns' = spawns + 1
      /\ Allocate
      /\ \/ /\ refused
            /\ leaked' = leaked \cup {id.slot}
            /\ UNCHANGED <<actors, liveActors, registry>>
         \/ /\ ~refused
            /\ actors' = {x \in actors : x.slot # id.slot} \cup {id}
            /\ liveActors' = liveActors + 1
            /\ IF name = NoName THEN UNCHANGED registry ELSE Register(id, name)
            /\ UNCHANGED leaked
      /\ UNCHANGED completed

\* register_name of an actor that is live.
RegisterName(id, name) ==
  /\ id \in actors
  /\ CanRegister(id, name)
  /\ Register(id, name)
  /\ UNCHANGED <<allocator, actors, liveActors, completed, leaked, spawns>>

\* unregister_name, by any id somebody holds.
UnregisterName(id) ==
  /\ Unregister(id)
  /\ UNCHANGED <<allocator, actors, liveActors, completed, leaked, spawns>>

\* finalize_actor: record, name, snapshot, slot.
Finalize(id) ==
  /\ id \in actors
  /\ actors' = actors \ {id}
  /\ Unregister(id)
  /\ completed' = completed \cup {id}
  /\ Release(id)
  /\ liveActors' = IF liveActors = 0 THEN 0 ELSE liveActors - 1
  /\ UNCHANGED <<leaked, spawns>>

DirectoryNext ==
  \/ \E name \in Name \cup {NoName} : Spawn(name)
  \/ \E id \in actors : Finalize(id)
  \/ \E id \in actors : \E name \in Name : RegisterName(id, name)
  \/ \E id \in actors \cup completed : UnregisterName(id)

DirectorySpec == DirectoryInit /\ [][DirectoryNext]_directoryVars
-----------------------------------------------------------------------------
\* Every variable keeps its type.
DirectoryTypeOK ==
  /\ nextSlot \in 0..MaxSpawns
  /\ spawns \in 0..MaxSpawns
  /\ nextSlot <= spawns
  /\ freeSlots \in Seq(Slot)
  /\ generations \in [Slot -> Nat]
  /\ actors \subseteq ActorId
  /\ liveActors \in Nat
  /\ completed \subseteq ActorId
  /\ byName \in [Name -> ActorId \cup {NoId}]
  /\ byActor \subseteq [actor : ActorId, name : Name]
  /\ leaked \subseteq Slot

\* An id names one actor for all time: the live actors carry the current
\* generation of their slots, the ones that are gone an older one, so a late
\* message, link or shutdown for a dead actor never reaches the next occupant
\* of its slot.
IdsNameOneActor ==
  /\ \A id \in actors : id.generation = generations[id.slot]
  /\ \A id \in completed : id.generation < generations[id.slot]

\* No spawn replaces a live actor in the table: live_actors, on which the
\* capacity check rests, is the number of live actors.
LiveCounted == liveActors = Cardinality(actors) /\ liveActors <= MaxLive

\* Both directions of the registry agree, an actor has one name at most, and
\* only live actors are registered: whereis never returns a dead actor.
NamesAgree ==
  /\ \A n \in Name : byName[n] # NoId =>
       byName[n] \in actors /\ [actor |-> byName[n], name |-> n] \in byActor
  /\ \A e \in byActor : byName[e.name] = e.actor
  /\ \A e, f \in byActor : e.actor = f.actor => e = f

\* A slot that was ever used is free, in use, or was lost to a refused spawn,
\* and only one of these.
SlotsAccounted ==
  /\ \A i \in DOMAIN freeSlots : /\ freeSlots[i] < nextSlot
                                 /\ freeSlots[i] \notin leaked
                                 /\ \A id \in actors : id.slot # freeSlots[i]
  /\ \A i, j \in DOMAIN freeSlots : freeSlots[i] = freeSlots[j] => i = j
  /\ \A id \in actors : id.slot < nextSlot /\ id.slot \notin leaked
  /\ \A s \in leaked : s < nextSlot
  /\ \A s \in 0..(nextSlot - 1) :
       \/ s \in leaked
       \/ \E i \in DOMAIN freeSlots : freeSlots[i] = s
       \/ \E id \in actors : id.slot = s
=============================================================================
