--------------------------- MODULE UpgradeProofs ----------------------------
(***************************************************************************)
(* Proofs about the control plane: for any tree, in both runtimes.         *)
(*                                                                         *)
(* A step of the system changes several actors' records at once (an exit   *)
(* also reaches the parent and the children), but each record in one of    *)
(* few ways.  "Motion" lists them, on a record r before and a record q     *)
(* after the step, and the invariants of an actor are stated of a record,  *)
(* so that they are proved once per motion and not once per action.        *)
(***************************************************************************)
EXTENDS Upgrade, SequenceTheorems, TLAPS

Message == {"Suspend", "Resume", "GetState", "ReplaceState", "CodeChange"}

Envelope ==
  {User} \cup {Exit(a) : a \in Actor}
    \cup [kind : {"System"}, msg : Message, version : {0, Target}, n : Nat,
          tx : Nat]

InTurn == {"taken", "running"}
Place  == InTurn \cup {"loop", "parking", "parked", "exiting", "dead"}

Record ==
  [live : BOOLEAN, at : Place,
   status : {"Waiting", "Runnable", "Running", "Exiting", "Dead"},
   suspended : BOOLEAN, mailbox : Seq(Envelope),
   hand : Envelope \cup {Nothing}, forced : BOOLEAN, version : {0, Target},
   schema : {0, Target}]

RecordsOK == act \in [Actor -> Record]

Item == [op : {"visit", "leave", "skip"}, actor : Actor]

Plan == [suspendOrder : Seq(Actor), upgradeOrder : Seq(Actor),
         resumeTargets : Seq(Actor)]

HostRecord ==
  [pc : {"idle", "drive", "await", "plan", "suspend", "quiesce", "change",
         "resume", "drain", "returned"},
   todo : Seq(Item), plan : Plan, i : Nat, n : Nat,
   reply : {"none", "ok", "err", "closed"}, tx : Nat,
   failed : {"no", "plan", "suspend", "quiesce", "change", "resume"},
   suspended : SUBSET Actor, upgraded : SUBSET Actor,
   refused : SUBSET Actor]

HostOK == host \in HostRecord

\* Where the host is in its transaction.
PlaceOK ==
  /\ host.pc = "suspend" => host.i >= 1
  /\ host.pc = "change" => host.i >= 1
  /\ host.pc = "await" /\ host.tx # 0 =>
       host.i \in 1..Len(host.plan.upgradeOrder)
  /\ host.pc = "resume" => host.i <= Len(host.plan.resumeTargets)
  /\ host.pc \in {"idle", "drive"} => host.tx = 0
  /\ host.tx = 0 => /\ host.pc \in {"idle", "drive", "await"}
                    /\ host.plan = NoPlan /\ host.upgraded = {}
  /\ host.tx # 0 => host.tx = upgrades
  /\ host.pc \in {"resume", "drain"} => host.failed \in {"no", "change"}
  /\ host.pc \notin {"resume", "drain", "returned"} => host.failed = "no"

TypeInv ==
  /\ RecordsOK
  /\ running \in [Super -> SUBSET Actor]
  /\ upgrades \in Nat
  /\ HostOK
  /\ PlaceOK
-----------------------------------------------------------------------------
(* What is true of an actor's record.                                      *)

IsTurn(env, m) == env.kind = "System" /\ env.msg = m

\* The actor holds an envelope exactly in a turn, and no user mail while it is
\* suspended; a record that is gone holds none.
Sound(r) ==
  /\ r.hand = Nothing <=> r.at \notin InTurn
  /\ r.live <=> r.at # "dead"
  /\ r.suspended /\ r.at \in InTurn => r.hand.kind # "User"
  /\ r.schema = r.version

Other(m) == IF m = "Suspend" THEN "Resume" ELSE "Suspend"

NoneQueued(r, m) == \A i \in DOMAIN r.mailbox : ~IsTurn(r.mailbox[i], m)

\* The mailbox holds m, and nothing after it that undoes it.
QueuedLast(r, m) ==
  \E i \in DOMAIN r.mailbox :
    /\ IsTurn(r.mailbox[i], m)
    /\ \A j \in DOMAIN r.mailbox : j > i => ~IsTurn(r.mailbox[j], Other(m))

\* m has taken effect, and nothing that undoes it is on its way.
InForce(r, m) ==
  /\ r.suspended = (m = "Suspend")
  /\ r.at = "taken" => ~IsTurn(r.hand, Other(m))
  /\ NoneQueued(r, Other(m))

\* Once the actor has taken the mail it has, m is what it is.
EndsAs(r, m) ==
  \/ QueuedLast(r, m)
  \/ r.at = "taken" /\ IsTurn(r.hand, m) /\ NoneQueued(r, Other(m))
  \/ InForce(r, m)
-----------------------------------------------------------------------------
(* How a step changes an actor's record.                                   *)

Like(r, q) ==
  /\ q.live = r.live /\ q.suspended = r.suspended
  /\ q.version = r.version /\ q.schema = r.schema

\* Nothing but its place outside a turn, its status and forced changes.
Rests(r, q) ==
  /\ Like(r, q) /\ q.mailbox = r.mailbox /\ q.hand = r.hand
  /\ \/ q.at = r.at
     \/ r.at \notin InTurn \cup {"dead"} /\ q.at \notin InTurn \cup {"dead"}

\* It is sent an envelope.
Posts(r, q, env) ==
  /\ Like(r, q) /\ q.hand = r.hand /\ q.at = r.at
  /\ q.mailbox = Append(r.mailbox, env)

Takes(r, q) ==
  /\ r.at \notin InTurn \cup {"dead"} /\ q.at = "taken" /\ Like(r, q)
  /\ \E i \in DOMAIN r.mailbox :
       /\ TakesNext(r.mailbox, r.suspended, i)
       /\ q.mailbox = RemoveEntry(r.mailbox, i) /\ q.hand = r.mailbox[i]

Begins(r, q) ==
  /\ r.at = "taken" /\ q.at = "running"
  /\ q.suspended = Affected(r.suspended, r.hand)
  /\ q.live = r.live /\ q.version = r.version /\ q.schema = r.schema
  /\ q.mailbox = r.mailbox /\ q.hand = r.hand

\* The turn is over, whether the actor goes on or exits.
Finishes(r, q) ==
  /\ r.at = "running" /\ q.at \notin InTurn \cup {"dead"} /\ q.hand = Nothing
  /\ q.live = r.live /\ q.suspended = r.suspended /\ q.mailbox = r.mailbox
  /\ r.schema = r.version => q.schema = q.version

\* A turn of the local runtime.
TurnsAtOnce(r, q) ==
  /\ r.live /\ q.live /\ q.at = "loop" /\ q.hand = Nothing
  /\ r.at \notin InTurn
  /\ r.schema = r.version => q.schema = q.version
  /\ \E i \in DOMAIN r.mailbox :
       /\ TakesNext(r.mailbox, r.suspended, i)
       /\ q.mailbox = RemoveEntry(r.mailbox, i)
       /\ q.suspended = Affected(r.suspended, r.mailbox[i])

Dies(r, q) ==
  /\ ~q.live /\ q.at = "dead" /\ q.mailbox = <<>> /\ q.hand = Nothing
  /\ q.version = r.version /\ q.schema = r.schema

\* One of these; it is sent none but the envelopes of E.
Motion(r, q, E) ==
  \/ Rests(r, q) \/ Takes(r, q) \/ Begins(r, q) \/ Finishes(r, q)
  \/ TurnsAtOnce(r, q) \/ Dies(r, q)
  \/ \E env \in E : Posts(r, q, env)

\* What actors are sent by others than the host.
Ordinary == {User} \cup {Exit(a) : a \in Actor}
-----------------------------------------------------------------------------
(* The invariants.                                                         *)

SoundInv == \A a \in Actor : Sound(act[a])

\* The local runtime has no actor in the middle of a turn.
LocalInv == rt = "local" => \A a \in Actor : act[a].at \notin InTurn

Targets == host.plan.resumeTargets

PlanInv == ToSetOf(Targets) \subseteq ToSetOf(host.plan.suspendOrder)

\* The targets that have been sent their Suspend.
Suspended ==
  CASE host.pc = "suspend" -> {Targets[j] : j \in {j \in DOMAIN Targets : j < host.i}}
    [] host.pc = "quiesce" -> ToSetOf(Targets)
    [] OTHER -> {}

SuspendInv ==
  \A a \in Suspended : act[a].live => EndsAs(act[a], "Suspend")

\* While code is changed the Suspend is in force.
QuietInv ==
  rt # "local" /\ host.tx # 0 /\ host.pc \in {"change", "await"} =>
    \A a \in ToSetOf(Targets) : act[a].live => InForce(act[a], "Suspend")

\* The targets that have been sent their Resume.
Resumed ==
  CASE host.pc = "resume" -> {Targets[j] : j \in {j \in DOMAIN Targets : j > host.i}}
    [] host.pc = "drain" -> ToSetOf(Targets)
    [] host.pc = "returned" /\ host.failed \in {"no", "change"} ->
         ToSetOf(Targets) \ host.refused
    [] OTHER -> {}

ResumeInv ==
  \A a \in Resumed : act[a].live => EndsAs(act[a], "Resume")

Holds(r, env) == r.hand = env \/ \E i \in DOMAIN r.mailbox : r.mailbox[i] = env

\* Requests are numbered; the one that an upgrade waits for is its code change
\* of the actor it has come to.
NumberInv ==
  \A a \in Actor : \A env \in Envelope :
    Holds(act[a], env) /\ env.kind = "System" =>
      /\ env.n <= host.n /\ env.tx <= upgrades
      /\ (env.n = host.n /\ env.n # 0 /\ host.pc = "await" /\ host.tx # 0)
           => /\ env.msg = "CodeChange" /\ env.tx = upgrades
              /\ a = host.plan.upgradeOrder[host.i]

\* An actor with a code change of this upgrade, done or on its way, is in the
\* upgrade order, and all before it are done.
Turned(a) ==
  \E j \in DOMAIN host.plan.upgradeOrder :
    /\ host.plan.upgradeOrder[j] = a
    /\ \A k \in DOMAIN host.plan.upgradeOrder :
         k < j => host.plan.upgradeOrder[k] \in changed

OrderInv ==
  host.tx # 0 =>
    /\ \A a \in changed : Turned(a)
    /\ \A a \in Actor : \A env \in Envelope :
         Holds(act[a], env) /\ OfThisUpgrade(env) => host.pc # "plan" /\ Turned(a)
    /\ host.pc = "plan" => changed = {}

\* What counts as upgraded has been changed.
DoneInv ==
  /\ host.upgraded \subseteq changed
  /\ host.pc = "await" /\ host.tx # 0 /\ host.reply = "ok" =>
       host.plan.upgradeOrder[host.i] \in changed
  /\ host.pc \in {"change", "await"} /\ host.tx # 0 =>
       \A j \in DOMAIN host.plan.upgradeOrder :
         j < host.i => host.plan.upgradeOrder[j] \in host.upgraded
  /\ host.pc \in {"resume", "drain", "returned"} /\ host.failed = "no" =>
       Planned \subseteq host.upgraded
-----------------------------------------------------------------------------
(* Mailboxes.                                                              *)

LEMMA RemoveEntryHas ==
  ASSUME NEW S, NEW q \in Seq(S), NEW i \in DOMAIN q
  PROVE  /\ RemoveEntry(q, i) \in Seq(S)
         /\ DOMAIN q = 1..Len(q) /\ Len(q) \in Nat \ {0}
         /\ DOMAIN RemoveEntry(q, i) = 1..(Len(q) - 1)
         /\ \A j \in 1..(Len(q) - 1) :
              RemoveEntry(q, i)[j] = q[IF j < i THEN j ELSE j + 1]
<1>1. /\ Len(q) \in Nat /\ DOMAIN q = 1..Len(q)
      /\ \A k \in 1..Len(q) : q[k] \in S
  BY LenProperties, ElementOfSeq
<1>2. /\ Len(q) - 1 \in Nat
      /\ \A j \in 1..(Len(q) - 1) : (IF j < i THEN j ELSE j + 1) \in 1..Len(q)
  BY <1>1
<1>3. RemoveEntry(q, i) \in [1..(Len(q) - 1) -> S]
  BY <1>1, <1>2 DEF RemoveEntry
<1> QED
  BY <1>1, <1>2, <1>3, IsASeq DEF RemoveEntry

LEMMA AppendHas ==
  ASSUME NEW S, NEW q \in Seq(S), NEW x \in S
  PROVE  /\ Append(q, x) \in Seq(S)
         /\ Len(q) \in Nat /\ DOMAIN q = 1..Len(q)
         /\ Len(Append(q, x)) = Len(q) + 1
         /\ DOMAIN Append(q, x) = 1..(Len(q) + 1)
         /\ \A i \in 1..Len(q) : Append(q, x)[i] = q[i]
         /\ Append(q, x)[Len(q) + 1] = x
BY AppendProperties, LenProperties

\* Whatever is taken next, control traffic at position k waits for no later
\* one, and no other control traffic comes before the one that is taken.
LEMMA TakesHas ==
  ASSUME NEW q \in Seq(Envelope), NEW s \in BOOLEAN, NEW i \in DOMAIN q,
         TakesNext(q, s, i)
  PROVE  /\ s => q[i].kind # "User"
         /\ \A k \in DOMAIN q : q[k].kind = "System" => i <= k
<1>. USE DEF TakesNext, FirstMatch, RunnableWhileSuspended, CanRunWhileSuspended,
             SystemMessages, IsSystemMessage, AnyMatching
<1>0. DOMAIN q = 1..Len(q) /\ Len(q) \in Nat
  BY LenProperties
<1>1. CASE s
  BY <1>0, <1>1
<1>2. CASE ~s
  BY <1>0, <1>2
<1>. QED  BY <1>1, <1>2

LEMMA RecordHas ==
  ASSUME NEW r \in Record
  PROVE  /\ r.live \in BOOLEAN /\ r.at \in Place /\ r.suspended \in BOOLEAN
         /\ r.mailbox \in Seq(Envelope) /\ r.hand \in Envelope \cup {Nothing}
         /\ r.forced \in BOOLEAN /\ r.version \in {0, Target}
         /\ r.schema \in {0, Target}
         /\ r.status \in {"Waiting", "Runnable", "Running", "Exiting", "Dead"}
BY DEF Record
-----------------------------------------------------------------------------
(* The invariants of a record, per motion.                                 *)

LEMMA EnvelopeKinds ==
  ASSUME NEW env \in Envelope
  PROVE  /\ env.kind \in {"User", "Exit", "System"}
         /\ env # Nothing
         /\ env.kind = "System" =>
              /\ env.msg \in Message /\ env.version \in {0, Target}
              /\ env.n \in Nat /\ env.tx \in Nat
BY DEF Envelope, User, Exit, Nothing

LEMMA SoundKept ==
  ASSUME NEW r \in Record, NEW q \in Record, NEW E, E \subseteq Envelope,
         Sound(r), Motion(r, q, E)
  PROVE  Sound(q)
<1>0. /\ r.mailbox \in Seq(Envelope) /\ r.suspended \in BOOLEAN
      /\ q.suspended \in BOOLEAN /\ r.live \in BOOLEAN /\ q.live \in BOOLEAN
      /\ r.hand \in Envelope \cup {Nothing}
  BY RecordHas
<1>1. CASE Rests(r, q)
  BY <1>1 DEF Rests, Sound, Like, InTurn
<1>2. CASE Takes(r, q)
  <2>1. PICK i \in DOMAIN r.mailbox :
          /\ TakesNext(r.mailbox, r.suspended, i) /\ q.hand = r.mailbox[i]
    BY <1>2 DEF Takes
  <2>2. r.mailbox[i] \in Envelope
    BY <1>0, ElementOfSeq, LenProperties
  <2>3. q.hand # Nothing /\ (r.suspended => q.hand.kind # "User")
    BY <2>1, <2>2, <1>0, TakesHas, EnvelopeKinds
  <2>4. /\ r.at \notin InTurn \cup {"dead"} /\ q.at = "taken" /\ Like(r, q)
    BY <1>2 DEF Takes
  <2>. QED  BY <2>3, <2>4 DEF Sound, Like, InTurn
<1>3. CASE Begins(r, q)
  BY <1>3 DEF Begins, Sound, Affected, InTurn
<1>4. CASE Finishes(r, q)
  BY <1>4 DEF Finishes, Sound, InTurn
<1>5. CASE TurnsAtOnce(r, q)
  BY <1>5 DEF TurnsAtOnce, Sound, InTurn
<1>6. CASE Dies(r, q)
  BY <1>6 DEF Dies, Sound, InTurn
<1>7. CASE \E env \in E : Posts(r, q, env)
  BY <1>7 DEF Posts, Sound, Like, InTurn
<1>. QED  BY <1>1, <1>2, <1>3, <1>4, <1>5, <1>6, <1>7 DEF Motion

\* What is taken away from the front part of a mailbox, and what is left.
LEMMA NoneLeft ==
  ASSUME NEW m, NEW r, NEW q, NEW i \in DOMAIN r.mailbox,
         r.mailbox \in Seq(Envelope), q.mailbox = RemoveEntry(r.mailbox, i),
         NoneQueued(r, m)
  PROVE  NoneQueued(q, m)
<1>1. \A j \in DOMAIN q.mailbox : \E k \in DOMAIN r.mailbox :
        q.mailbox[j] = r.mailbox[k]
  <2>1. /\ DOMAIN r.mailbox = 1..Len(r.mailbox) /\ Len(r.mailbox) \in Nat \ {0}
        /\ DOMAIN q.mailbox = 1..(Len(r.mailbox) - 1)
        /\ \A j \in 1..(Len(r.mailbox) - 1) :
             q.mailbox[j] = r.mailbox[IF j < i THEN j ELSE j + 1]
    BY RemoveEntryHas
  <2>2. \A j \in 1..(Len(r.mailbox) - 1) :
          (IF j < i THEN j ELSE j + 1) \in DOMAIN r.mailbox
    BY <2>1
  <2>. QED  BY <2>1, <2>2
<1>. QED  BY <1>1 DEF NoneQueued

LEMMA QueuedTaken ==
  ASSUME NEW m \in {"Suspend", "Resume"}, NEW r, NEW q,
         NEW i \in DOMAIN r.mailbox, r.mailbox \in Seq(Envelope),
         r.suspended \in BOOLEAN, TakesNext(r.mailbox, r.suspended, i),
         q.mailbox = RemoveEntry(r.mailbox, i), QueuedLast(r, m)
  PROVE  \/ QueuedLast(q, m)
         \/ IsTurn(r.mailbox[i], m) /\ NoneQueued(q, Other(m))
<1>0. /\ DOMAIN r.mailbox = 1..Len(r.mailbox) /\ Len(r.mailbox) \in Nat \ {0}
      /\ DOMAIN q.mailbox = 1..(Len(r.mailbox) - 1)
      /\ \A j \in 1..(Len(r.mailbox) - 1) :
           q.mailbox[j] = r.mailbox[IF j < i THEN j ELSE j + 1]
  BY RemoveEntryHas
<1>1. PICK k \in DOMAIN r.mailbox :
        /\ IsTurn(r.mailbox[k], m)
        /\ \A j \in DOMAIN r.mailbox : j > k => ~IsTurn(r.mailbox[j], Other(m))
  BY DEF QueuedLast
<1>2. /\ r.mailbox[k].kind = "System"
      /\ \A l \in DOMAIN r.mailbox : r.mailbox[l].kind = "System" => i <= l
  BY <1>1, TakesHas DEF IsTurn
<1>3. CASE i = k
  <2>1. \A l \in DOMAIN r.mailbox : l # k => ~IsTurn(r.mailbox[l], Other(m))
    BY <1>0, <1>1, <1>2, <1>3 DEF IsTurn
  <2>2. \A j \in DOMAIN q.mailbox :
          LET l == IF j < i THEN j ELSE j + 1
          IN  l \in DOMAIN r.mailbox /\ l # k /\ q.mailbox[j] = r.mailbox[l]
    BY <1>0, <1>3
  <2>3. NoneQueued(q, Other(m))
    BY <2>1, <2>2 DEF NoneQueued
  <2>. QED  BY <1>1, <1>3, <2>3
<1>4. CASE i # k
  <2>1. i < k /\ k - 1 \in DOMAIN q.mailbox /\ q.mailbox[k - 1] = r.mailbox[k]
    BY <1>0, <1>2, <1>4
  <2>2. \A j \in DOMAIN q.mailbox : j > k - 1 =>
          j + 1 \in DOMAIN r.mailbox /\ j + 1 > k /\ q.mailbox[j] = r.mailbox[j + 1]
    BY <1>0, <2>1
  <2>3. \A j \in DOMAIN q.mailbox : j > k - 1 => ~IsTurn(q.mailbox[j], Other(m))
    BY <1>1, <2>2
  <2>4. QueuedLast(q, m)
    BY <1>1, <2>1, <2>3 DEF QueuedLast
  <2>. QED  BY <2>4
<1>. QED  BY <1>3, <1>4

\* What has been sent to be, or is in force, stays so unless the opposite is
\* sent.
LEMMA ForceKept ==
  ASSUME NEW m \in {"Suspend", "Resume"}, NEW r \in Record, NEW q \in Record,
         NEW E, E \subseteq Envelope, Motion(r, q, E), q.live,
         \A env \in E : ~IsTurn(env, Other(m)), InForce(r, m)
  PROVE  InForce(q, m) /\ r.live
<1>0. /\ r.mailbox \in Seq(Envelope) /\ r.suspended \in BOOLEAN
      /\ r.hand \in Envelope \cup {Nothing}
  BY RecordHas
<1>m. m # Other(m)
  BY DEF Other
<1>1. CASE Rests(r, q)
  BY <1>1 DEF Rests, Like, InForce, InTurn, NoneQueued
<1>2. CASE Takes(r, q)
  <2>1. PICK i \in DOMAIN r.mailbox :
          /\ TakesNext(r.mailbox, r.suspended, i) /\ q.hand = r.mailbox[i]
          /\ q.mailbox = RemoveEntry(r.mailbox, i)
    BY <1>2 DEF Takes
  <2>2. NoneQueued(q, Other(m)) /\ ~IsTurn(q.hand, Other(m))
    BY <1>0, <2>1, NoneLeft DEF InForce, NoneQueued
  <2>. QED  BY <1>2, <2>2 DEF Takes, Like, InForce
<1>3. CASE Begins(r, q)
  <2>1. ~IsTurn(r.hand, Other(m))
    BY <1>3 DEF Begins, InForce
  <2>2. Affected(r.suspended, r.hand) = (m = "Suspend")
    BY <2>1 DEF Affected, IsTurn, Other, InForce
  <2>. QED  BY <1>3, <2>2 DEF Begins, InForce, NoneQueued
<1>4. CASE Finishes(r, q)
  BY <1>4 DEF Finishes, InForce, NoneQueued, InTurn
<1>5. CASE TurnsAtOnce(r, q)
  <2>1. PICK i \in DOMAIN r.mailbox :
          /\ q.mailbox = RemoveEntry(r.mailbox, i)
          /\ q.suspended = Affected(r.suspended, r.mailbox[i])
    BY <1>5 DEF TurnsAtOnce
  <2>2. NoneQueued(q, Other(m)) /\ ~IsTurn(r.mailbox[i], Other(m))
    BY <1>0, <2>1, NoneLeft DEF InForce, NoneQueued
  <2>3. Affected(r.suspended, r.mailbox[i]) = (m = "Suspend")
    BY <2>2 DEF Affected, IsTurn, Other, InForce
  <2>. QED  BY <1>5, <2>1, <2>2, <2>3 DEF TurnsAtOnce, InForce
<1>6. CASE Dies(r, q)
  BY <1>6 DEF Dies
<1>7. ASSUME NEW env \in E, Posts(r, q, env)
      PROVE  InForce(q, m) /\ r.live
  <2>1. \A j \in DOMAIN q.mailbox :
          q.mailbox[j] = env \/ \E k \in DOMAIN r.mailbox : q.mailbox[j] = r.mailbox[k]
    BY <1>0, <1>7, AppendHas DEF Posts
  <2>2. NoneQueued(q, Other(m))
    BY <2>1 DEF InForce, NoneQueued
  <2>. QED  BY <1>7, <2>2 DEF Posts, Like, InForce
<1>. QED  BY <1>1, <1>2, <1>3, <1>4, <1>5, <1>6, <1>7 DEF Motion

LEMMA EndKept ==
  ASSUME NEW m \in {"Suspend", "Resume"}, NEW r \in Record, NEW q \in Record,
         NEW E, E \subseteq Envelope, Motion(r, q, E), q.live,
         \A env \in E : ~IsTurn(env, Other(m)), EndsAs(r, m)
  PROVE  EndsAs(q, m) /\ r.live
<1>0. /\ r.mailbox \in Seq(Envelope) /\ r.suspended \in BOOLEAN
      /\ r.hand \in Envelope \cup {Nothing}
  BY RecordHas
<1>l. r.live
  BY DEF Motion, Rests, Takes, Begins, Finishes, TurnsAtOnce, Dies, Posts, Like
<1>. SUFFICES EndsAs(q, m)
  BY <1>l
<1>1. CASE InForce(r, m)
  BY <1>1, ForceKept DEF EndsAs
<1>2. CASE QueuedLast(r, m)
  <2>1. q.mailbox = r.mailbox => EndsAs(q, m)
    BY <1>2 DEF QueuedLast, EndsAs
  <2>2. CASE Takes(r, q)
    <3>1. PICK i \in DOMAIN r.mailbox :
            /\ TakesNext(r.mailbox, r.suspended, i) /\ q.hand = r.mailbox[i]
            /\ q.mailbox = RemoveEntry(r.mailbox, i)
      BY <2>2 DEF Takes
    <3>. QED  BY <1>0, <1>2, <2>2, <3>1, QueuedTaken DEF Takes, EndsAs
  <2>3. CASE TurnsAtOnce(r, q)
    <3>1. PICK i \in DOMAIN r.mailbox :
            /\ TakesNext(r.mailbox, r.suspended, i)
            /\ q.mailbox = RemoveEntry(r.mailbox, i)
            /\ q.suspended = Affected(r.suspended, r.mailbox[i])
      BY <2>3 DEF TurnsAtOnce
    <3>2. \/ QueuedLast(q, m)
          \/ IsTurn(r.mailbox[i], m) /\ NoneQueued(q, Other(m))
      BY <1>0, <1>2, <3>1, QueuedTaken
    <3>3. IsTurn(r.mailbox[i], m) => q.suspended = (m = "Suspend")
      BY <3>1 DEF IsTurn, Affected
    <3>4. q.at = "loop"
      BY <2>3 DEF TurnsAtOnce
    <3>. QED  BY <3>2, <3>3, <3>4 DEF EndsAs, InForce
  <2>4. ASSUME NEW env \in E, Posts(r, q, env)
        PROVE  EndsAs(q, m)
    <3>1. PICK k \in DOMAIN r.mailbox :
            /\ IsTurn(r.mailbox[k], m)
            /\ \A j \in DOMAIN r.mailbox : j > k => ~IsTurn(r.mailbox[j], Other(m))
      BY <1>2 DEF QueuedLast
    <3>2. /\ k \in DOMAIN q.mailbox /\ q.mailbox[k] = r.mailbox[k]
          /\ \A j \in DOMAIN q.mailbox :
               \/ q.mailbox[j] = env
               \/ j \in DOMAIN r.mailbox /\ q.mailbox[j] = r.mailbox[j]
      BY <1>0, <2>4, AppendHas DEF Posts
    <3>3. QueuedLast(q, m)
      BY <3>1, <3>2 DEF QueuedLast
    <3>. QED  BY <3>3 DEF EndsAs
  <2>5. CASE Rests(r, q) \/ Begins(r, q) \/ Finishes(r, q)
    BY <2>1, <2>5 DEF Rests, Begins, Finishes
  <2>. QED  BY <2>2, <2>3, <2>4, <2>5 DEF Motion, Dies
<1>3. CASE r.at = "taken" /\ IsTurn(r.hand, m) /\ NoneQueued(r, Other(m))
  <2>1. CASE Rests(r, q)
    BY <1>3, <2>1 DEF Rests, EndsAs, NoneQueued, InTurn
  <2>2. CASE Begins(r, q)
    <3>1. q.suspended = (m = "Suspend")
      BY <1>3, <2>2 DEF Begins, IsTurn, Affected
    <3>. QED  BY <1>3, <2>2, <3>1 DEF Begins, InForce, EndsAs, NoneQueued
  <2>3. ASSUME NEW env \in E, Posts(r, q, env)
        PROVE  EndsAs(q, m)
    <3>1. \A j \in DOMAIN q.mailbox :
            q.mailbox[j] = env \/ \E k \in DOMAIN r.mailbox : q.mailbox[j] = r.mailbox[k]
      BY <1>0, <2>3, AppendHas DEF Posts
    <3>2. NoneQueued(q, Other(m))
      BY <1>3, <3>1 DEF NoneQueued
    <3>. QED  BY <1>3, <2>3, <3>2 DEF Posts, EndsAs
  <2>4. ~Takes(r, q) /\ ~Finishes(r, q) /\ ~TurnsAtOnce(r, q) /\ ~Dies(r, q)
    BY <1>3 DEF Takes, Finishes, TurnsAtOnce, Dies, InTurn
  <2>. QED  BY <2>1, <2>2, <2>3, <2>4 DEF Motion
<1>. QED  BY <1>l, <1>1, <1>2, <1>3 DEF EndsAs

\* A turn that is sent is the last word.
LEMMA EndSent ==
  ASSUME NEW m \in {"Suspend", "Resume"}, NEW r \in Record, NEW q \in Record,
         NEW env \in Envelope, Posts(r, q, env), IsTurn(env, m)
  PROVE  EndsAs(q, m)
<1>1. r.mailbox \in Seq(Envelope)
  BY RecordHas
<1>2. /\ Len(r.mailbox) + 1 \in DOMAIN q.mailbox
      /\ q.mailbox[Len(r.mailbox) + 1] = env
      /\ \A j \in DOMAIN q.mailbox : ~(j > Len(r.mailbox) + 1)
  BY <1>1, AppendHas DEF Posts
<1>. QED  BY <1>2 DEF EndsAs, QueuedLast

\* What the quiet actors of a tree were sent has taken effect.
LEMMA QuietInForce ==
  ASSUME NEW r \in Record, r.suspended, EndsAs(r, "Suspend"),
         \A i \in DOMAIN r.mailbox : ~CanRunWhileSuspended(r.mailbox[i])
  PROVE  InForce(r, "Suspend")
<1>1. ~QueuedLast(r, "Suspend")
  BY DEF QueuedLast, IsTurn, CanRunWhileSuspended
<1>2. r.at = "taken" /\ IsTurn(r.hand, "Suspend") => ~IsTurn(r.hand, "Resume")
  BY DEF IsTurn
<1>. QED  BY <1>1, <1>2 DEF EndsAs, InForce, Other

\* An actor holds what it held before, or what it is sent.
LEMMA HoldsBefore ==
  ASSUME NEW r \in Record, NEW q \in Record, NEW E, E \subseteq Envelope,
         Motion(r, q, E), NEW env \in Envelope, Holds(q, env)
  PROVE  Holds(r, env) \/ env \in E
<1>0. /\ r.mailbox \in Seq(Envelope) /\ env # Nothing
  BY RecordHas, EnvelopeKinds
<1>1. ASSUME NEW i \in DOMAIN r.mailbox, q.mailbox = RemoveEntry(r.mailbox, i)
      PROVE  \A j \in DOMAIN q.mailbox : \E k \in DOMAIN r.mailbox :
               q.mailbox[j] = r.mailbox[k]
  <2>1. /\ DOMAIN r.mailbox = 1..Len(r.mailbox) /\ Len(r.mailbox) \in Nat \ {0}
        /\ DOMAIN q.mailbox = 1..(Len(r.mailbox) - 1)
        /\ \A j \in 1..(Len(r.mailbox) - 1) :
             q.mailbox[j] = r.mailbox[IF j < i THEN j ELSE j + 1]
    BY <1>0, <1>1, RemoveEntryHas
  <2>2. \A j \in 1..(Len(r.mailbox) - 1) :
          (IF j < i THEN j ELSE j + 1) \in DOMAIN r.mailbox
    BY <2>1
  <2>. QED  BY <2>1, <2>2
<1>2. CASE Takes(r, q) \/ TurnsAtOnce(r, q)
  BY <1>0, <1>1, <1>2 DEF Takes, TurnsAtOnce, Holds
<1>3. CASE Rests(r, q) \/ Begins(r, q) \/ Finishes(r, q)
  BY <1>0, <1>3 DEF Rests, Begins, Finishes, Holds
<1>4. CASE Dies(r, q)
  BY <1>0, <1>4 DEF Dies, Holds
<1>5. ASSUME NEW e \in E, Posts(r, q, e)
      PROVE  Holds(r, env) \/ env \in E
  <2>1. \A j \in DOMAIN q.mailbox :
          q.mailbox[j] = e \/ \E k \in DOMAIN r.mailbox : q.mailbox[j] = r.mailbox[k]
    BY <1>0, <1>5, AppendHas DEF Posts
  <2>. QED  BY <1>5, <2>1 DEF Posts, Holds
<1>. QED  BY <1>2, <1>3, <1>4, <1>5 DEF Motion

LEMMA ConcatHas ==
  ASSUME NEW S, NEW s \in Seq(S), NEW t \in Seq(S)
  PROVE  /\ s \o t \in Seq(S)
         /\ Len(s) \in Nat /\ Len(t) \in Nat
         /\ DOMAIN s = 1..Len(s) /\ DOMAIN t = 1..Len(t)
         /\ DOMAIN (s \o t) = 1..(Len(s) + Len(t))
         /\ \A i \in 1..Len(s) : (s \o t)[i] = s[i]
         /\ \A i \in 1..Len(t) : (s \o t)[Len(s) + i] = t[i]
<1>1. /\ Len(s) \in Nat /\ Len(t) \in Nat
      /\ DOMAIN s = 1..Len(s) /\ DOMAIN t = 1..Len(t)
  BY LenProperties
<1>2. /\ s \o t \in Seq(S) /\ Len(s \o t) = Len(s) + Len(t)
      /\ \A i \in 1..(Len(s) + Len(t)) :
           (s \o t)[i] = IF i <= Len(s) THEN s[i] ELSE t[i - Len(s)]
  BY ConcatProperties
<1>3. DOMAIN (s \o t) = 1..(Len(s) + Len(t))
  BY <1>2, LenProperties
<1>4. \A i \in 1..Len(t) :
        /\ Len(s) + i \in 1..(Len(s) + Len(t)) /\ ~(Len(s) + i <= Len(s))
        /\ Len(s) + i - Len(s) = i
  BY <1>1
<1>. QED  BY <1>1, <1>2, <1>3, <1>4

\* WillBeSuspended looks at the same mail as EndsAs.
LEMMA WillResume ==
  ASSUME RecordsOK, NEW a \in Actor, EndsAs(act[a], "Resume"), Sound(act[a])
  PROVE  ~WillBeSuspended(a)
<1>. DEFINE hd == IF act[a].at = "taken" THEN <<act[a].hand>> ELSE <<>>
            box == act[a].mailbox
            queue == hd \o box
            turns == {i \in DOMAIN queue :
                        /\ queue[i].kind = "System"
                        /\ queue[i].msg \in {"Suspend", "Resume"}}
<1>1. /\ act[a] \in Record /\ box \in Seq(Envelope)
      /\ act[a].hand \in Envelope \cup {Nothing} /\ act[a].suspended \in BOOLEAN
  BY RecordHas DEF RecordsOK
<1>2. act[a].at = "taken" => act[a].hand \in Envelope
  BY <1>1 DEF Sound, InTurn
<1>3. hd \in Seq(Envelope)
  BY <1>2
<1>4. /\ Len(hd) \in Nat /\ Len(box) \in Nat /\ DOMAIN box = 1..Len(box)
      /\ DOMAIN queue = 1..(Len(hd) + Len(box))
      /\ \A i \in 1..Len(hd) : queue[i] = hd[i]
      /\ \A i \in 1..Len(box) : queue[Len(hd) + i] = box[i]
  <2>. HIDE DEF hd, box
  <2>. QED  BY <1>1, <1>3, ConcatHas
<1>5. /\ act[a].at = "taken" => Len(hd) = 1 /\ hd[1] = act[a].hand
      /\ act[a].at # "taken" => Len(hd) = 0
  OBVIOUS
<1>6. WillBeSuspended(a) =
        IF turns = {} THEN act[a].suspended
        ELSE \E i \in turns : /\ \A j \in turns : j <= i
                              /\ queue[i].msg = "Suspend"
  BY DEF WillBeSuspended
<1>. HIDE DEF hd, box, queue
<1>h. box = act[a].mailbox
  BY DEF box
<1>7. \A i \in DOMAIN queue :
        \/ i = 1 /\ act[a].at = "taken" /\ queue[i] = act[a].hand
        \/ i - Len(hd) \in DOMAIN box /\ queue[i] = box[i - Len(hd)]
  <2>1. CASE act[a].at = "taken"
    <3>0. Len(hd) = 1 /\ hd[1] = act[a].hand
      BY <2>1, <1>5
    <3>1. Len(hd) = 1 /\ queue[1] = act[a].hand
      BY <3>0, <1>4
    <3>2. ASSUME NEW i \in DOMAIN queue, i # 1
          PROVE  i - 1 \in 1..Len(box) /\ 1 + (i - 1) = i
      BY <3>1, <3>2, <1>4
    <3>3. \A i \in 1..Len(box) : queue[1 + i] = box[i]
      BY <3>1, <1>4
    <3>4. ASSUME NEW i \in DOMAIN queue, i # 1
          PROVE  i - 1 \in DOMAIN box /\ queue[i] = box[i - 1]
      BY <3>2, <3>3, <3>4, <1>4
    <3>. QED  BY <2>1, <3>1, <3>4
  <2>2. CASE act[a].at # "taken"
    <3>1. Len(hd) = 0 /\ \A i \in DOMAIN queue : i - 0 = i /\ 0 + i = i
      BY <2>2, <1>4, <1>5
    <3>. QED  BY <3>1, <1>4
  <2>. QED  BY <2>1, <2>2
<1>t. /\ act[a].at = "taken" => 1 \in DOMAIN queue /\ queue[1] = act[a].hand
      /\ \A i \in DOMAIN queue : i \in Nat
  BY <1>4, <1>5
<1>8. CASE QueuedLast(act[a], "Resume")
  <2>1. PICK k \in DOMAIN box :
          /\ IsTurn(box[k], "Resume")
          /\ \A j \in DOMAIN box : j > k => ~IsTurn(box[j], "Suspend")
    BY <1>8, <1>h DEF QueuedLast, Other
  <2>2. Len(hd) + k \in turns /\ queue[Len(hd) + k] = box[k]
    BY <2>1, <1>4 DEF IsTurn
  <2>3. ASSUME NEW i \in turns, \A j \in turns : j <= i
        PROVE  queue[i].msg # "Suspend"
    <3>1. i \in Nat /\ Len(hd) + k <= i /\ queue[i].kind = "System"
      BY <2>2, <2>3, <1>t
    <3>2. k \in Nat \ {0} /\ Len(hd) \in Nat
      BY <1>4
    <3>3. i = 1 => act[a].at # "taken"
      BY <3>1, <3>2, <1>5
    <3>4. i - Len(hd) \in DOMAIN box /\ queue[i] = box[i - Len(hd)]
      BY <3>3, <1>7
    <3>5. i - Len(hd) >= k /\ i - Len(hd) \in Nat
      BY <3>1, <3>2
    <3>6. i - Len(hd) = k \/ ~IsTurn(box[i - Len(hd)], "Suspend")
      BY <3>2, <3>4, <3>5, <2>1
    <3>7. i - Len(hd) = k => queue[i].msg = "Resume"
      BY <3>4, <2>1 DEF IsTurn
    <3>. QED  BY <3>1, <3>4, <3>6, <3>7 DEF IsTurn
  <2>. QED  BY <2>2, <2>3, <1>6
<1>9. CASE ~QueuedLast(act[a], "Resume")
  <2>1. \A i \in turns : queue[i].msg # "Suspend"
    BY <1>9, <1>7, <1>h DEF EndsAs, InForce, NoneQueued, IsTurn, Other
  <2>2. turns = {} => ~act[a].suspended
    <3>1. ASSUME act[a].at = "taken", IsTurn(act[a].hand, "Resume")
          PROVE  1 \in turns
      BY <3>1, <1>t DEF IsTurn
    <3>2. InForce(act[a], "Resume") => ~act[a].suspended
      BY DEF InForce
    <3>. QED  BY <3>1, <3>2, <1>9 DEF EndsAs
  <2>. QED  BY <2>1, <2>2, <1>6
<1>. QED  BY <1>8, <1>9
-----------------------------------------------------------------------------
(* What the operations on the actors' records do.                          *)

Records == [Actor -> Record]

LEMMA PushedHas ==
  ASSUME NEW acts \in Records, NEW a \in Actor, NEW env \in Envelope
  PROVE  /\ Pushed(acts, a, env) \in Records
         /\ Posts(acts[a], Pushed(acts, a, env)[a], env)
         /\ \A b \in Actor : b # a => Pushed(acts, a, env)[b] = acts[b]
<1>. DEFINE r == acts[a]
            q == [r EXCEPT !.mailbox = Append(@, env),
                           !.status = IF @ = "Waiting" THEN "Runnable" ELSE @]
<1>1. r \in Record /\ r.mailbox \in Seq(Envelope)
  BY RecordHas DEF Records
<1>2. Append(r.mailbox, env) \in Seq(Envelope)
  BY <1>1, AppendHas
<1>3. q \in Record
  BY <1>1, <1>2 DEF Record
<1>4. Posts(r, q, env)
  BY <1>1 DEF Record, Posts, Like
<1>5. Pushed(acts, a, env) = [acts EXCEPT ![a] = q]
  BY <1>1 DEF Pushed, Records, Record
<1>. HIDE DEF q
<1>. QED  BY <1>3, <1>4, <1>5 DEF Records

LEMMA OrphanedHas ==
  ASSUME NEW acts \in Records, NEW a \in Actor
  PROVE  /\ Orphaned(acts, a) \in Records
         /\ \A b \in Actor :
              \/ Orphaned(acts, a)[b] = acts[b]
              \/ Orphaned(acts, a)[b] = [acts[b] EXCEPT !.forced = TRUE]
<1>1. \A b \in Actor : acts[b] \in Record /\ [acts[b] EXCEPT !.forced = TRUE] \in Record
  BY DEF Records, Record
<1>. QED  BY <1>1 DEF Orphaned, Records

LEMMA ForcedHas ==
  ASSUME NEW r \in Record
  PROVE  /\ [r EXCEPT !.forced = TRUE] \in Record
         /\ Rests(r, [r EXCEPT !.forced = TRUE])
BY DEF Record, Rests, Like

LEMMA GoneHas ==
  ASSUME NEW acts \in Records, NEW a \in Actor
  PROVE  /\ Gone(acts, a) \in Records
         /\ Dies(acts[a], Gone(acts, a)[a])
         /\ \A b \in Actor : b # a =>
              \/ Rests(acts[b], Gone(acts, a)[b])
              \/ Posts(acts[b], Gone(acts, a)[b], Exit(a))
<1>. DEFINE d == [acts[a] EXCEPT !.live = FALSE, !.at = "dead",
                                 !.status = "Dead", !.mailbox = <<>>,
                                 !.hand = Nothing]
            dead == [acts EXCEPT ![a] = d]
            parents == {s \in Super : a \in running[s] /\ acts[s].live}
<1>1. acts[a] \in Record /\ <<>> \in Seq(Envelope)
  BY DEF Records
<1>2. d \in Record /\ Dies(acts[a], d) /\ ~d.live
  BY <1>1 DEF Record, Dies, Place
<1>. HIDE DEF d
<1>3. dead \in Records /\ dead[a] = d /\ \A b \in Actor : b # a => dead[b] = acts[b]
  BY <1>2 DEF Records
<1>4. Exit(a) \in Envelope
  BY DEF Envelope
<1>5. Gone(acts, a) =
        [b \in Actor |->
           IF b \notin parents THEN dead[b]
           ELSE IF Refuses(dead, b, Exit(a))
           THEN [dead[b] EXCEPT !.forced = TRUE]
           ELSE Pushed(dead, b, Exit(a))[b]]
  BY DEF Gone, d
<1>. HIDE DEF dead, parents
<1>6. \A b \in Actor : /\ dead[b] \in Record
                       /\ [dead[b] EXCEPT !.forced = TRUE] \in Record
                       /\ Rests(dead[b], [dead[b] EXCEPT !.forced = TRUE])
  BY <1>3, ForcedHas DEF Records
<1>7. \A b \in Actor : /\ Pushed(dead, b, Exit(a)) \in Records
                       /\ Posts(dead[b], Pushed(dead, b, Exit(a))[b], Exit(a))
  BY <1>3, <1>4, PushedHas
<1>8. Gone(acts, a) \in Records
  BY <1>5, <1>6, <1>7 DEF Records
<1>9. Refuses(dead, a, Exit(a))
  BY <1>2, <1>3 DEF Refuses
<1>10. Dies(acts[a], Gone(acts, a)[a])
  <2>1. Dies(acts[a], [d EXCEPT !.forced = TRUE])
    BY <1>2 DEF Dies, Record
  <2>. QED  BY <1>2, <1>3, <1>5, <1>9, <2>1
<1>11. ASSUME NEW b \in Actor, b # a
       PROVE  \/ Rests(acts[b], Gone(acts, a)[b])
              \/ Posts(acts[b], Gone(acts, a)[b], Exit(a))
  <2>1. dead[b] = acts[b]
    BY <1>3, <1>11
  <2>2. Rests(dead[b], dead[b])
    BY DEF Rests, Like
  <2>. QED  BY <1>5, <1>6, <1>7, <2>1, <2>2
<1>. QED  BY <1>8, <1>10, <1>11

\* What a turn leaves of the actor's versions, and its answer.
LEMMA OutcomeHas ==
  ASSUME RecordsOK, NEW a \in Actor, NEW env \in Envelope,
         NEW willing \in BOOLEAN, NEW r \in Record,
         r.version = act[a].version, r.schema = act[a].schema
  PROVE  LET out == IF env.kind # "System" \/ ~willing
                    THEN UnwillingOutcome(r) ELSE WillingOutcome(a, env)
         IN  /\ out.version \in {0, Target} /\ out.schema \in {0, Target}
             /\ out.reply \in {"ok", "err"}
             /\ r.schema = r.version => out.schema = out.version
<1>1. r.version \in {0, Target} /\ r.schema \in {0, Target}
  BY RecordHas
<1>2. env.kind = "System" => env.version \in {0, Target} /\ env.msg \in Message
  BY EnvelopeKinds
<1>3. CASE env.kind # "System" \/ ~willing
  BY <1>1, <1>3 DEF UnwillingOutcome
<1>4. CASE env.kind = "System" /\ willing
  <2>1. CASE env.msg = "CodeChange"
    BY <1>2, <1>4, <2>1 DEF WillingOutcome
  <2>2. CASE env.msg = "ReplaceState" /\ AcceptsSnapshot(a, env)
    BY <1>1, <1>2, <1>4, <2>2 DEF WillingOutcome, AcceptsSnapshot
  <2>3. CASE env.msg = "ReplaceState" /\ ~AcceptsSnapshot(a, env)
    BY <1>1, <1>4, <2>3 DEF WillingOutcome
  <2>4. CASE env.msg \notin {"CodeChange", "ReplaceState"}
    BY <1>1, <1>4, <2>4 DEF WillingOutcome
  <2>. QED  BY <2>1, <2>2, <2>3, <2>4
<1>. QED  BY <1>3, <1>4
-----------------------------------------------------------------------------
(* The steps of the actors, and what the host sees of them.                *)

\* An envelope that actor a holds has been answered.
AnsweredOf(a, env) ==
  /\ env \in Envelope /\ Holds(act[a], env)
  /\ env.kind = "System" /\ env.n # 0 /\ env.n = host.n
  /\ OfThisUpgrade(env) => a \in changed'

HostListens ==
  \/ host' = host
  \/ /\ host.pc = "await" /\ host.reply = "none"
     /\ \E answer \in {"ok", "err", "closed"} :
          /\ host' = [host EXCEPT !.reply = answer]
          /\ answer = "ok" => \E a \in Actor, env \in Envelope : AnsweredOf(a, env)

\* Code is changed by a code change of the upgrade.
ChangesOnRequest ==
  /\ changed \subseteq changed'
  /\ \A a \in changed' \ changed :
       /\ a \in Actor
       /\ \E env \in Envelope : Holds(act[a], env) /\ OfThisUpgrade(env)

ByActors ==
  /\ RecordsOK'
  /\ \A b \in Actor : Motion(act[b], act'[b], Ordinary)
  /\ rt = "local" => \A b \in Actor : act[b].at \notin InTurn =>
                                        act'[b].at \notin InTurn
  /\ running' \in [Super -> SUBSET Actor]
  /\ UNCHANGED <<rt, upgrades>>
  /\ HostListens
  /\ ChangesOnRequest

LEMMA OrdinaryHas == Ordinary \subseteq Envelope
BY DEF Ordinary, Envelope

LEMMA AnsweredHas ==
  ASSUME NEW a \in Actor, NEW env \in Envelope \cup {Nothing},
         NEW answer \in {"ok", "err", "closed"},
         Holds(act[a], env), host' = Answered(env, answer),
         answer = "ok" /\ OfThisUpgrade(env) => a \in changed'
  PROVE  HostListens
BY EnvelopeKinds DEF Answered, HostListens, AnsweredOf, Nothing

LEMMA DroppedHas ==
  ASSUME NEW a \in Actor, host' = Dropped(a)
  PROVE  HostListens
<1>1. host' = host \/ \E env : Answered(env, "closed") # host
                               /\ host' = [host EXCEPT !.reply = "closed"]
  BY DEF Dropped
<1>. QED  BY <1>1 DEF Answered, HostListens

\* One actor's record changes.
LEMMA OneMoves ==
  ASSUME TypeInv, NEW a \in Actor, NEW q \in Record,
         act' = [act EXCEPT ![a] = q], Motion(act[a], q, Ordinary),
         rt = "local" /\ act[a].at \notin InTurn => q.at \notin InTurn
  PROVE  /\ RecordsOK'
         /\ \A b \in Actor : Motion(act[b], act'[b], Ordinary)
         /\ rt = "local" => \A b \in Actor : act[b].at \notin InTurn =>
                                               act'[b].at \notin InTurn
<1>1. act \in [Actor -> Record]
  BY DEF TypeInv, RecordsOK
<1>2. RecordsOK' /\ act'[a] = q /\ \A b \in Actor : b # a => act'[b] = act[b]
  BY <1>1 DEF RecordsOK
<1>3. \A b \in Actor : Rests(act[b], act[b])
  BY DEF Rests, Like
<1>. QED  BY <1>2, <1>3 DEF Motion

LEMMA TakenHas ==
  ASSUME RecordsOK, NEW a \in Actor, NEW i \in Takeable(a)
  PROVE  /\ Taken(a, i) \in Record
         /\ act[a] \in Record /\ i \in DOMAIN act[a].mailbox
         /\ TakesNext(act[a].mailbox, act[a].suspended, i)
         /\ act[a].mailbox[i] \in Envelope
         /\ Holds(act[a], act[a].mailbox[i])
         /\ Taken(a, i).mailbox = RemoveEntry(act[a].mailbox, i)
         /\ Taken(a, i).hand = act[a].mailbox[i]
         /\ Like(act[a], Taken(a, i))
<1>1. /\ act[a] \in Record /\ act[a].mailbox \in Seq(Envelope)
      /\ i \in DOMAIN act[a].mailbox
      /\ TakesNext(act[a].mailbox, act[a].suspended, i)
  BY RecordHas DEF RecordsOK, Takeable
<1>2. /\ act[a].mailbox[i] \in Envelope
      /\ RemoveEntry(act[a].mailbox, i) \in Seq(Envelope)
  BY <1>1, RemoveEntryHas, ElementOfSeq, LenProperties
<1>3. Taken(a, i) = [act[a] EXCEPT
                       !.mailbox = RemoveEntry(act[a].mailbox, i),
                       !.hand = act[a].mailbox[i]]
  BY <1>1 DEF Taken, Record
<1>4. /\ Taken(a, i) \in Record
      /\ Taken(a, i).mailbox = RemoveEntry(act[a].mailbox, i)
      /\ Taken(a, i).hand = act[a].mailbox[i]
      /\ Like(act[a], Taken(a, i))
  BY <1>1, <1>2, <1>3 DEF Record, Like
<1>. QED  BY <1>1, <1>2, <1>4 DEF Holds

LEMMA QuietActorSteps ==
  ASSUME TypeInv, SoundInv, NEW a \in Actor,
         Take(a) \/ TakeNone(a) \/ Park(a) \/ Begin(a)
  PROVE  ByActors
<1>1. /\ UNCHANGED <<rt, running, host, upgrades, changed>>
      /\ running' \in [Super -> SUBSET Actor]
      /\ HostListens /\ ChangesOnRequest
  BY DEF Take, TakeNone, Park, Begin, bounds, HostListens, ChangesOnRequest, TypeInv
<1>2. act \in [Actor -> Record] /\ act[a] \in Record
  BY DEF TypeInv, RecordsOK
<1>. SUFFICES \E q \in Record :
       /\ act' = [act EXCEPT ![a] = q] /\ Motion(act[a], q, Ordinary)
       /\ rt = "local" /\ act[a].at \notin InTurn => q.at \notin InTurn
  BY <1>1, OneMoves DEF ByActors
<1>3. CASE Take(a)
  <2>1. PICK i \in Takeable(a) :
          act' = [act EXCEPT ![a] = [Taken(a, i) EXCEPT !.at = "taken"]]
    BY <1>3 DEF Take
  <2>. DEFINE t == Taken(a, i)
              q == [t EXCEPT !.at = "taken"]
  <2>t. /\ t \in Record /\ i \in DOMAIN act[a].mailbox
        /\ TakesNext(act[a].mailbox, act[a].suspended, i)
        /\ t.mailbox = RemoveEntry(act[a].mailbox, i)
        /\ t.hand = act[a].mailbox[i] /\ Like(act[a], t)
    BY TakenHas DEF TypeInv
  <2>3. rt = "concurrent" /\ act[a].at \in {"loop", "parked"}
    BY <1>3 DEF Take, Awake
  <2>. HIDE DEF t
  <2>2. q \in Record /\ q.mailbox = t.mailbox /\ q.hand = t.hand /\ q.at = "taken"
        /\ Like(t, q)
    BY <2>t DEF Record, Place, InTurn, Like
  <2>. HIDE DEF q
  <2>4. Takes(act[a], q)
    BY <2>t, <2>2, <2>3 DEF Takes, Like, InTurn
  <2>5. act' = [act EXCEPT ![a] = q]
    BY <2>1 DEF q, t
  <2>. QED  BY <2>2, <2>3, <2>4, <2>5 DEF Motion
<1>4. CASE TakeNone(a)
  <2>. DEFINE q == [act[a] EXCEPT !.at = "parking"]
  <2>1. act' = [act EXCEPT ![a] = q] /\ act[a].at = "loop"
    BY <1>4 DEF TakeNone
  <2>2. q \in Record /\ Rests(act[a], q) /\ q.at \notin InTurn
    BY <1>2, <2>1 DEF Record, Place, InTurn, Rests, Like
  <2>. HIDE DEF q
  <2>. QED  BY <2>1, <2>2 DEF Motion
<1>5. CASE Park(a)
  <2>. DEFINE q == [act[a] EXCEPT !.at = "parked", !.status = "Waiting"]
  <2>1. act' = [act EXCEPT ![a] = q] /\ act[a].at = "parking"
    BY <1>5 DEF Park
  <2>2. q \in Record /\ Rests(act[a], q) /\ q.at \notin InTurn
    BY <1>2, <2>1 DEF Record, Place, InTurn, Rests, Like
  <2>. HIDE DEF q
  <2>. QED  BY <2>1, <2>2 DEF Motion
<1>6. CASE Begin(a)
  <2>. DEFINE s == Affected(act[a].suspended, act[a].hand)
              q == [act[a] EXCEPT !.at = "running", !.status = "Running",
                                  !.suspended = s]
  <2>1. act' = [act EXCEPT ![a] = q] /\ act[a].at = "taken"
    BY <1>6 DEF Begin
  <2>2. s \in BOOLEAN
    BY <1>2, RecordHas DEF Affected
  <2>3. act[a].at \in InTurn
    BY <2>1 DEF InTurn
  <2>. HIDE DEF s
  <2>4. q \in Record /\ q.at = "running" /\ q.suspended = s /\ q.hand = act[a].hand
        /\ q.live = act[a].live /\ q.version = act[a].version
        /\ q.schema = act[a].schema /\ q.mailbox = act[a].mailbox
    BY <1>2, <2>2 DEF Record, Place, InTurn
  <2>5. Begins(act[a], q)
    BY <2>1, <2>4 DEF Begins, s
  <2>. HIDE DEF q
  <2>. QED  BY <2>1, <2>3, <2>4, <2>5 DEF Motion
<1>. QED  BY <1>3, <1>4, <1>5, <1>6

LEMMA HandleHas ==
  ASSUME TypeInv, NEW a \in Actor, NEW r \in Record, NEW env \in Envelope,
         r.version = act[a].version, r.schema = act[a].schema,
         Holds(act[a], env), Handle(a, r, env), UNCHANGED upgrades
  PROVE  /\ running' \in [Super -> SUBSET Actor]
         /\ HostListens /\ ChangesOnRequest
         /\ \E q \in Record :
              /\ act' = [act EXCEPT ![a] = q]
              /\ q.at = "loop" /\ q.hand = Nothing
              /\ q.live = r.live /\ q.suspended = r.suspended
              /\ q.mailbox = r.mailbox
              /\ r.schema = r.version => q.schema = q.version
<1>1. running' \in [Super -> SUBSET Actor]
  BY DEF Handle, TypeInv
<1>2. PICK willing \in BOOLEAN :
        LET out == IF env.kind # "System" \/ ~willing
                   THEN UnwillingOutcome(r) ELSE WillingOutcome(a, env)
        IN  /\ act' = [act EXCEPT ![a] =
                         [TurnOver(r) EXCEPT !.version = out.version,
                                             !.schema = out.schema]]
            /\ host' = Answered(env, out.reply)
            /\ changed' = IF OfThisUpgrade(env) /\ out.reply = "ok"
                          THEN changed \cup {a} ELSE changed
  BY DEF Handle
<1>. DEFINE out == IF env.kind # "System" \/ ~willing
                   THEN UnwillingOutcome(r) ELSE WillingOutcome(a, env)
            q == [TurnOver(r) EXCEPT !.version = out.version,
                                     !.schema = out.schema]
<1>3. /\ out.version \in {0, Target} /\ out.schema \in {0, Target}
      /\ out.reply \in {"ok", "err"}
      /\ r.schema = r.version => out.schema = out.version
  BY OutcomeHas DEF TypeInv
<1>4. /\ act' = [act EXCEPT ![a] = q] /\ host' = Answered(env, out.reply)
      /\ changed' = IF OfThisUpgrade(env) /\ out.reply = "ok"
                    THEN changed \cup {a} ELSE changed
  BY <1>2
<1>. HIDE DEF out
<1>5. /\ q \in Record /\ q.at = "loop" /\ q.hand = Nothing
      /\ q.live = r.live /\ q.suspended = r.suspended
      /\ q.mailbox = r.mailbox
      /\ q.version = out.version /\ q.schema = out.schema
  BY <1>3 DEF TurnOver, Record, Place
<1>. HIDE DEF q
<1>6. HostListens
  BY <1>3, <1>4, AnsweredHas
<1>7. ChangesOnRequest
  BY <1>4 DEF ChangesOnRequest
<1>. QED  BY <1>1, <1>3, <1>4, <1>5, <1>6, <1>7

LEMMA FinishTurnStep ==
  ASSUME TypeInv, SoundInv, NEW a \in Actor, FinishTurn(a)
  PROVE  ByActors
<1>1. /\ act[a].at = "running" /\ Handle(a, act[a], act[a].hand)
      /\ UNCHANGED <<rt, upgrades>>
  BY DEF FinishTurn, bounds
<1>2. act[a] \in Record
  BY DEF TypeInv, RecordsOK
<1>3. act[a].hand \in Envelope /\ Holds(act[a], act[a].hand)
  BY <1>1, <1>2, RecordHas DEF SoundInv, Sound, InTurn, Holds
<1>4. /\ running' \in [Super -> SUBSET Actor]
      /\ HostListens /\ ChangesOnRequest
      /\ \E q \in Record :
           /\ act' = [act EXCEPT ![a] = q]
           /\ q.at = "loop" /\ q.hand = Nothing
           /\ q.live = act[a].live /\ q.suspended = act[a].suspended
           /\ q.mailbox = act[a].mailbox
           /\ act[a].schema = act[a].version => q.schema = q.version
  BY <1>1, <1>2, <1>3, HandleHas
<1>5. PICK q \in Record :
        /\ act' = [act EXCEPT ![a] = q]
        /\ q.at = "loop" /\ q.hand = Nothing
        /\ q.live = act[a].live /\ q.suspended = act[a].suspended
        /\ q.mailbox = act[a].mailbox
        /\ act[a].schema = act[a].version => q.schema = q.version
  BY <1>4
<1>6. Finishes(act[a], q) /\ q.at \notin InTurn
  BY <1>1, <1>5 DEF Finishes, InTurn
<1>. QED  BY <1>1, <1>4, <1>5, <1>6, OneMoves DEF ByActors, Motion

\* A turn that stops, and a forced exit, of the concurrent runtime.
LEMMA ExitingSteps ==
  ASSUME TypeInv, SoundInv, NEW a \in Actor, StopTurn(a) \/ TakeForcedExit(a)
  PROVE  ByActors
<1>0. act \in Records /\ act[a] \in Record
  BY DEF TypeInv, RecordsOK, Records
<1>1. PICK x \in Record :
        /\ act' = Orphaned([act EXCEPT ![a] = x], a)
        /\ Finishes(act[a], x) \/ Rests(act[a], x)
        /\ x.at \notin InTurn
  <2>1. CASE StopTurn(a)
    <3>. DEFINE q == [act[a] EXCEPT !.at = "exiting", !.hand = Nothing,
                                    !.status = "Exiting"]
    <3>1. act' = Orphaned([act EXCEPT ![a] = q], a) /\ act[a].at = "running"
      BY <2>1 DEF StopTurn
    <3>2. q \in Record /\ Finishes(act[a], q) /\ q.at \notin InTurn
      BY <1>0, <3>1 DEF Finishes, Record, Place, InTurn
    <3>. QED  BY <3>1, <3>2
  <2>2. CASE TakeForcedExit(a)
    <3>. DEFINE q == [act[a] EXCEPT !.at = "exiting", !.status = "Exiting"]
    <3>1. act' = Orphaned([act EXCEPT ![a] = q], a) /\ act[a].at \in {"loop", "parked"}
      BY <2>2 DEF TakeForcedExit, Awake
    <3>2. q \in Record /\ Rests(act[a], q) /\ q.at \notin InTurn
      BY <1>0, <3>1 DEF Rests, Like, Record, Place, InTurn
    <3>. QED  BY <3>1, <3>2
  <2>. QED  BY <2>1, <2>2
<1>. DEFINE acts == [act EXCEPT ![a] = x]
<1>2. acts \in Records /\ acts[a] = x /\ \A b \in Actor : b # a => acts[b] = act[b]
  BY <1>0, <1>1 DEF Records
<1>3. act' = Orphaned(acts, a)
  BY <1>1
<1>. HIDE DEF acts
<1>4. /\ act' \in Records
      /\ \A b \in Actor : \/ act'[b] = acts[b]
                          \/ act'[b] = [acts[b] EXCEPT !.forced = TRUE]
  BY <1>2, <1>3, OrphanedHas
<1>5. \A b \in Actor : Rests(acts[b], act'[b]) /\ act'[b].at = acts[b].at
  <2>. TAKE b \in Actor
  <2>1. acts[b] \in Record
    BY <1>2 DEF Records
  <2>2. [acts[b] EXCEPT !.forced = TRUE].at = acts[b].at
    BY <2>1 DEF Record
  <2>. QED  BY <1>4, <2>1, <2>2, ForcedHas DEF Rests, Like
<1>6. Finishes(act[a], act'[a]) \/ Rests(act[a], act'[a])
  BY <1>1, <1>2, <1>5 DEF Finishes, Rests, Like, InTurn
<1>7. \A b \in Actor : b # a => Rests(act[b], act'[b]) /\ act'[b].at = act[b].at
  BY <1>2, <1>5
<1>8. act'[a].at \notin InTurn
  BY <1>1, <1>2, <1>5
<1>9. /\ UNCHANGED <<rt, running, upgrades, changed>>
      /\ ChangesOnRequest /\ running' \in [Super -> SUBSET Actor]
  BY DEF StopTurn, TakeForcedExit, bounds, ChangesOnRequest, TypeInv
<1>10. HostListens
  <2>1. CASE StopTurn(a)
    <3>1. host' = Answered(act[a].hand, "closed")
      BY <2>1 DEF StopTurn
    <3>2. act[a].hand \in Envelope \cup {Nothing} /\ Holds(act[a], act[a].hand)
      BY <1>0, RecordHas DEF Holds
    <3>. QED  BY <3>1, <3>2, AnsweredHas
  <2>2. CASE TakeForcedExit(a)
    BY <2>2 DEF TakeForcedExit, HostListens
  <2>. QED  BY <2>1, <2>2
<1>11. \A b \in Actor : Motion(act[b], act'[b], Ordinary)
  BY <1>6, <1>7 DEF Motion
<1>. QED  BY <1>4, <1>7, <1>8, <1>9, <1>10, <1>11 DEF ByActors, RecordsOK, Records

\* An actor that is gone: finalize_actor, and the exits of the local runtime.
LEMMA GoneSteps ==
  ASSUME TypeInv, SoundInv, NEW a \in Actor,
         Finalize(a) \/ LocalStop(a) \/ LocalForcedExit(a)
  PROVE  ByActors
<1>0. act \in Records
  BY DEF TypeInv, RecordsOK, Records
<1>1. PICK acts \in Records :
        /\ act' = Gone(acts, a)
        /\ \A b \in Actor : acts[b] = act[b] \/ acts[b] = [act[b] EXCEPT !.forced = TRUE]
  <2>1. CASE Finalize(a)
    BY <1>0, <2>1 DEF Finalize
  <2>2. CASE LocalStop(a) \/ LocalForcedExit(a)
    <3>1. act' = Gone(Orphaned(act, a), a)
      BY <2>2 DEF LocalStop, LocalForcedExit
    <3>. QED  BY <1>0, <3>1, OrphanedHas
  <2>. QED  BY <2>1, <2>2
<1>2. /\ act' \in Records /\ Dies(acts[a], act'[a])
      /\ \A b \in Actor : b # a => Rests(acts[b], act'[b])
                                   \/ Posts(acts[b], act'[b], Exit(a))
  BY <1>1, GoneHas
<1>3. \A b \in Actor : Rests(act[b], acts[b]) /\ acts[b].at = act[b].at
  <2>. TAKE b \in Actor
  <2>1. act[b] \in Record
    BY <1>0 DEF Records
  <2>2. [act[b] EXCEPT !.forced = TRUE].at = act[b].at
    BY <2>1 DEF Record
  <2>. QED  BY <1>1, <2>1, <2>2, ForcedHas DEF Rests, Like
<1>4. Dies(act[a], act'[a])
  BY <1>2, <1>3 DEF Dies, Rests, Like
<1>5. ASSUME NEW b \in Actor, b # a
      PROVE  /\ Rests(act[b], act'[b]) \/ Posts(act[b], act'[b], Exit(a))
             /\ act[b].at \notin InTurn => act'[b].at \notin InTurn
  BY <1>2, <1>3, <1>5 DEF Rests, Posts, Like
<1>6. act'[a].at \notin InTurn
  BY <1>4 DEF Dies, InTurn
<1>7. /\ UNCHANGED <<rt, running, upgrades, changed>>
      /\ ChangesOnRequest /\ running' \in [Super -> SUBSET Actor]
  BY DEF Finalize, LocalStop, LocalForcedExit, bounds, ChangesOnRequest, TypeInv
<1>8. HostListens
  BY DroppedHas DEF Finalize, LocalStop, LocalForcedExit
<1>9. \A b \in Actor : Motion(act[b], act'[b], Ordinary)
  BY <1>4, <1>5 DEF Motion, Ordinary
<1>. QED  BY <1>2, <1>5, <1>6, <1>7, <1>8, <1>9 DEF ByActors, RecordsOK, Records

LEMMA LocalTurnStep ==
  ASSUME TypeInv, SoundInv, LocalInv, NEW a \in Actor, LocalTurn(a)
  PROVE  ByActors
<1>1. PICK i \in Takeable(a) :
        Handle(a, [Taken(a, i) EXCEPT
                     !.suspended = Affected(act[a].suspended, act[a].mailbox[i])],
               act[a].mailbox[i])
  BY DEF LocalTurn
<1>2. UNCHANGED <<rt, upgrades>> /\ rt = "local" /\ act[a].live
  BY DEF LocalTurn, Driving, bounds
<1>. DEFINE env == act[a].mailbox[i]
            s == Affected(act[a].suspended, env)
            t == Taken(a, i)
            r == [t EXCEPT !.suspended = s]
<1>3. /\ t \in Record /\ act[a] \in Record /\ env \in Envelope
      /\ Holds(act[a], env) /\ i \in DOMAIN act[a].mailbox
      /\ TakesNext(act[a].mailbox, act[a].suspended, i)
      /\ t.mailbox = RemoveEntry(act[a].mailbox, i) /\ Like(act[a], t)
  BY TakenHas DEF TypeInv
<1>4. s \in BOOLEAN
  BY <1>3, RecordHas DEF Affected
<1>5. Handle(a, r, env)
  BY <1>1
<1>. HIDE DEF env, s, t
<1>6. /\ r \in Record /\ r.suspended = s /\ r.mailbox = t.mailbox
      /\ r.live = t.live /\ r.version = t.version /\ r.schema = t.schema
  BY <1>3, <1>4 DEF Record
<1>. HIDE DEF r
<1>v. r.version = act[a].version /\ r.schema = act[a].schema /\ UNCHANGED upgrades
  BY <1>2, <1>3, <1>6 DEF Like
<1>7. /\ running' \in [Super -> SUBSET Actor]
      /\ HostListens /\ ChangesOnRequest
      /\ \E q \in Record :
           /\ act' = [act EXCEPT ![a] = q]
           /\ q.at = "loop" /\ q.hand = Nothing
           /\ q.live = r.live /\ q.suspended = r.suspended
           /\ q.mailbox = r.mailbox
           /\ r.schema = r.version => q.schema = q.version
  BY <1>3, <1>5, <1>6, <1>v, HandleHas
<1>8. PICK q \in Record :
        /\ act' = [act EXCEPT ![a] = q]
        /\ q.at = "loop" /\ q.hand = Nothing
        /\ q.live = r.live /\ q.suspended = r.suspended
        /\ q.mailbox = r.mailbox
        /\ r.schema = r.version => q.schema = q.version
  BY <1>7
<1>9. act[a].at \notin InTurn
  BY <1>2 DEF LocalInv
<1>10. TurnsAtOnce(act[a], q)
  BY <1>2, <1>3, <1>6, <1>8, <1>9 DEF TurnsAtOnce, Like, s, env
<1>11. q.at \notin InTurn
  BY <1>8 DEF InTurn
<1>. QED  BY <1>2, <1>7, <1>8, <1>10, <1>11, OneMoves DEF ByActors, Motion

LEMMA UserMailStep ==
  ASSUME TypeInv, NEW a \in Actor, UserMail(a)
  PROVE  ByActors
<1>0. act \in Records /\ User \in Envelope /\ User \in Ordinary
  BY DEF TypeInv, RecordsOK, Records, Envelope, Ordinary
<1>1. /\ act' = Pushed(act, a, User)
      /\ UNCHANGED <<rt, running, host, upgrades, changed>>
      /\ running' \in [Super -> SUBSET Actor]
  BY DEF UserMail, TypeInv
<1>2. /\ act' \in Records /\ Posts(act[a], act'[a], User)
      /\ \A b \in Actor : b # a => act'[b] = act[b]
  BY <1>0, <1>1, PushedHas
<1>3. \A b \in Actor : Rests(act[b], act[b])
  BY DEF Rests, Like
<1>4. HostListens /\ ChangesOnRequest
  BY <1>1 DEF HostListens, ChangesOnRequest
<1>. QED  BY <1>0, <1>1, <1>2, <1>3, <1>4
          DEF ByActors, Motion, RecordsOK, Records, Posts, Like

LEMMA ByActorsHas ==
  ASSUME TypeInv, SoundInv, LocalInv,
         NEW a \in Actor,
         \/ Turn(a) \/ StopTurn(a) \/ LocalTurn(a) \/ LocalStop(a)
         \/ LocalForcedExit(a) \/ UserMail(a)
  PROVE  ByActors
BY QuietActorSteps, FinishTurnStep, ExitingSteps, GoneSteps, LocalTurnStep,
   UserMailStep DEF Turn
-----------------------------------------------------------------------------
(* The steps of the host keep the types.                                   *)

\* The actors' records when the host sends at most the envelopes of E.
Sending(E) ==
  /\ RecordsOK'
  /\ \A b \in Actor : \/ act'[b] = act[b]
                       \/ \E env \in E : Posts(act[b], act'[b], env)

\* The actors' records move, and are sent at most the envelopes of E.
Moving(E) == RecordsOK' /\ \A b \in Actor : Motion(act[b], act'[b], E)

LEMMA SendingMoves == ASSUME NEW E, Sending(E) PROVE Moving(E)
BY DEF Sending, Moving, Motion, Rests, Like

LEMMA SystemHas ==
  ASSUME NEW msg \in Message, NEW version \in {0, Target}, NEW n \in Nat,
         NEW tx \in Nat
  PROVE  /\ System(msg, version, n, tx) \in Envelope
         /\ System(msg, version, n, tx).kind = "System"
         /\ System(msg, version, n, tx).msg = msg
         /\ System(msg, version, n, tx).n = n
         /\ System(msg, version, n, tx).tx = tx
BY DEF System, Envelope

LEMMA SendingHas ==
  ASSUME RecordsOK, NEW a \in Actor, NEW env \in Envelope,
         act' = Pushed(act, a, env)
  PROVE  /\ Sending({env}) /\ Posts(act[a], act'[a], env)
         /\ \A b \in Actor : b # a => act'[b] = act[b]
<1>1. act \in Records
  BY DEF RecordsOK, Records
<1>2. /\ act' \in Records /\ Posts(act[a], act'[a], env)
      /\ \A b \in Actor : b # a => act'[b] = act[b]
  BY <1>1, PushedHas
<1>. QED  BY <1>2 DEF Sending, RecordsOK, Records

LEMMA NotSendingHas ==
  ASSUME RecordsOK, UNCHANGED act, NEW E
  PROVE  Sending(E)
BY DEF RecordsOK, Sending

LEMMA HostHas ==
  ASSUME TypeInv
  PROVE  /\ host.todo \in Seq(Item) /\ host.plan \in Plan
         /\ host.plan.suspendOrder \in Seq(Actor)
         /\ host.plan.upgradeOrder \in Seq(Actor)
         /\ host.plan.resumeTargets \in Seq(Actor)
         /\ host.i \in Nat /\ host.n \in Nat /\ host.tx \in Nat
         /\ upgrades \in Nat
         /\ host.upgraded \in SUBSET Actor /\ host.refused \in SUBSET Actor
         /\ host.suspended \in SUBSET Actor
         /\ DOMAIN host.plan.upgradeOrder = 1..Len(host.plan.upgradeOrder)
         /\ Len(host.plan.upgradeOrder) \in Nat
         /\ \A i \in 1..Len(host.plan.upgradeOrder) :
              host.plan.upgradeOrder[i] \in Actor
         /\ DOMAIN host.plan.resumeTargets = 1..Len(host.plan.resumeTargets)
         /\ Len(host.plan.resumeTargets) \in Nat
         /\ \A i \in 1..Len(host.plan.resumeTargets) :
              host.plan.resumeTargets[i] \in Actor
<1>1. /\ host.todo \in Seq(Item) /\ host.plan \in Plan
      /\ host.i \in Nat /\ host.n \in Nat /\ host.tx \in Nat
      /\ upgrades \in Nat
      /\ host.upgraded \in SUBSET Actor /\ host.refused \in SUBSET Actor
      /\ host.suspended \in SUBSET Actor
  BY DEF TypeInv, HostOK, HostRecord
<1>2. /\ host.plan.suspendOrder \in Seq(Actor)
      /\ host.plan.upgradeOrder \in Seq(Actor)
      /\ host.plan.resumeTargets \in Seq(Actor)
  BY <1>1 DEF Plan
<1>. QED  BY <1>1, <1>2, LenProperties, ElementOfSeq

LEMMA TypeInit == Init => TypeInv
<1>. SUFFICES ASSUME Init PROVE TypeInv
  OBVIOUS
<1>1. NewActor \in Record
  BY DEF NewActor, Record, Place, Nothing
<1>2. NoPlan \in Plan
  BY DEF NoPlan, Plan
<1>3. HostIdle \in HostRecord
  BY <1>2 DEF HostIdle, HostRecord
<1>4. running \in [Super -> SUBSET Actor]
  <2>1. \A s \in Super : ToSetOf(Kids[s]) \subseteq Actor
    <3>. TAKE s \in Super
    <3>1. Kids[s] \in Seq(Actor)
      BY TreeAssumption
    <3>. QED  BY <3>1, ElementOfSeq, LenProperties DEF ToSetOf
  <2>. QED  BY <2>1 DEF Init
<1>5. PlaceOK
  BY DEF Init, HostIdle, PlaceOK
<1>. QED  BY <1>1, <1>3, <1>4, <1>5 DEF Init, TypeInv, RecordsOK, HostOK

LEMMA TypeByActors ==
  ASSUME TypeInv, ByActors
  PROVE  TypeInv'
<1>1. host' = host \/ \E answer \in {"ok", "err", "closed"} :
                        host' = [host EXCEPT !.reply = answer]
  BY DEF ByActors, HostListens
<1>2. HostOK' /\ host'.pc = host.pc /\ host'.i = host.i /\ host'.tx = host.tx
      /\ host'.plan = host.plan /\ host'.failed = host.failed
      /\ host'.upgraded = host.upgraded
  BY <1>1 DEF TypeInv, HostOK, HostRecord
<1>3. PlaceOK'
  BY <1>2 DEF TypeInv, PlaceOK, ByActors
<1>. QED  BY <1>2, <1>3 DEF TypeInv, ByActors

\* The single calls of the host.
LEMMA TypeCalls ==
  ASSUME TypeInv,
         \/ \E a \in Called : \/ Suspend(a) \/ Resume(a) \/ GetState(a)
                              \/ ReplaceState(a) \/ CodeChange(a)
         \/ RunUntilIdle \/ RanUntilIdle \/ ReturnToCaller
  PROVE  TypeInv'
<1>0. RecordsOK /\ host \in HostRecord /\ host.n \in Nat /\ Called \subseteq Actor
  BY TreeAssumption DEF TypeInv, HostOK, HostRecord
<1>1. ASSUME NEW a \in Called, NEW msg \in {"Suspend", "Resume"}, SendControl(a, msg)
      PROVE  TypeInv'
  <2>1. UNCHANGED <<host, running, upgrades>>
        /\ (UNCHANGED act \/ act' = Pushed(act, a, System(msg, 0, 0, 0)))
    BY <1>1 DEF SendControl
  <2>2. System(msg, 0, 0, 0) \in Envelope
    BY SystemHas DEF Message
  <2>3. RecordsOK'
    BY <1>0, <2>1, <2>2, SendingHas, NotSendingHas DEF Sending
  <2>. QED  BY <2>1, <2>3 DEF TypeInv, HostOK, PlaceOK
<1>2. ASSUME NEW a \in Called, NEW msg \in {"GetState", "ReplaceState", "CodeChange"},
             NEW version \in {0, Target}, Request(a, msg, version)
      PROVE  TypeInv'
  <2>. DEFINE env == System(msg, version, host.n + 1, 0)
  <2>1. /\ UNCHANGED <<running, upgrades>> /\ host.pc = "idle"
        /\ \/ UNCHANGED <<act, host>>
           \/ /\ act' = Pushed(act, a, env)
              /\ host' = [host EXCEPT !.pc = "await", !.n = @ + 1,
                                      !.reply = "none"]
    BY <1>2 DEF Request, MayCall
  <2>2. env \in Envelope
    BY <1>0, SystemHas DEF Message
  <2>. HIDE DEF env
  <2>3. RecordsOK'
    BY <1>0, <2>1, <2>2, SendingHas, NotSendingHas DEF Sending
  <2>4. CASE UNCHANGED host
    BY <2>1, <2>3, <2>4 DEF TypeInv, HostOK, PlaceOK
  <2>5. CASE host' = [host EXCEPT !.pc = "await", !.n = @ + 1, !.reply = "none"]
    <3>. DEFINE n1 == host.n + 1
    <3>0. /\ n1 \in Nat
          /\ host' = [host EXCEPT !.pc = "await", !.n = n1, !.reply = "none"]
      BY <1>0, <2>5
    <3>. HIDE DEF n1
    <3>1. /\ HostOK' /\ host'.pc = "await" /\ host'.tx = host.tx
          /\ host'.plan = host.plan /\ host'.failed = host.failed
          /\ host'.upgraded = host.upgraded
      BY <1>0, <3>0 DEF HostOK, HostRecord
    <3>2. PlaceOK'
      BY <2>1, <3>1 DEF TypeInv, PlaceOK
    <3>. QED  BY <2>1, <2>3, <3>1, <3>2 DEF TypeInv
  <2>. QED  BY <2>1, <2>4, <2>5
<1>3. CASE RunUntilIdle \/ RanUntilIdle
  <2>1. /\ UNCHANGED <<act, running, upgrades>>
        /\ host.pc \in {"idle", "drive"}
        /\ \E pc \in {"idle", "drive"} : host' = [host EXCEPT !.pc = pc]
    BY <1>3 DEF RunUntilIdle, RanUntilIdle, MayCall, bounds
  <2>2. /\ HostOK' /\ host'.pc \in {"idle", "drive"} /\ host'.tx = host.tx
        /\ host'.plan = host.plan /\ host'.failed = host.failed
        /\ host'.upgraded = host.upgraded
    BY <1>0, <2>1 DEF HostOK, HostRecord
  <2>3. PlaceOK'
    BY <2>1, <2>2 DEF TypeInv, PlaceOK
  <2>. QED  BY <2>1, <2>2, <2>3 DEF TypeInv, RecordsOK
<1>4. CASE ReturnToCaller
  <2>1. /\ UNCHANGED <<act, running, upgrades>>
        /\ host' = [HostIdle EXCEPT !.n = host.n]
    BY <1>4 DEF ReturnToCaller, bounds
  <2>2. NoPlan \in Plan
    BY DEF NoPlan, Plan
  <2>. DEFINE n0 == host.n
  <2>n. n0 \in Nat
    BY <1>0
  <2>i. host' = [HostIdle EXCEPT !.n = n0]
    BY <2>1
  <2>. HIDE DEF n0
  <2>h. HostIdle \in HostRecord
    BY <2>2 DEF HostRecord, HostIdle
  <2>e. /\ HostIdle.pc = "idle" /\ HostIdle.tx = 0 /\ HostIdle.plan = NoPlan
        /\ HostIdle.failed = "no" /\ HostIdle.upgraded = {}
    BY DEF HostIdle
  <2>3. /\ HostOK' /\ host'.pc = "idle" /\ host'.tx = 0
        /\ host'.plan = NoPlan /\ host'.failed = "no" /\ host'.upgraded = {}
    BY <2>n, <2>i, <2>h, <2>e DEF HostOK, HostRecord
  <2>4. PlaceOK'
    BY <2>3 DEF PlaceOK
  <2>. QED  BY <2>1, <2>3, <2>4 DEF TypeInv, RecordsOK
<1>. QED  BY <1>1, <1>2, <1>3, <1>4
          DEF Suspend, Resume, GetState, ReplaceState, CodeChange

\* The waits, the code changes and the resumes.
LEMMA TypeWaits ==
  ASSUME TypeInv, AwaitReply \/ LocalAwaitReply
  PROVE  TypeInv'
<1>. DEFINE order == host.plan.upgradeOrder
            last == Len(host.plan.resumeTargets)
<1>0. /\ RecordsOK /\ host \in HostRecord /\ host.i \in Nat /\ last \in Nat
      /\ order \in Seq(Actor) /\ host.upgraded \in SUBSET Actor
      /\ \A i \in 1..Len(order) : order[i] \in Actor
  BY HostHas DEF TypeInv, HostOK
<1>1. /\ UNCHANGED <<act, running, upgrades>> /\ host.pc = "await"
      /\ \/ host.tx = 0 /\ host' = [host EXCEPT !.pc = "idle"]
         \/ /\ host.tx # 0
            /\ host' = [host EXCEPT !.pc = "change", !.i = @ + 1,
                          !.upgraded = @ \cup {order[host.i]}]
         \/ host.tx # 0 /\ host' = ChangeFailed
  BY DEF AwaitReply, LocalAwaitReply, bounds
<1>2. host.tx # 0 => order[host.i] \in Actor
  BY <1>0, <1>1 DEF TypeInv, PlaceOK
<1>3. CASE host.tx = 0 /\ host' = [host EXCEPT !.pc = "idle"]
  <2>1. /\ HostOK' /\ host'.pc = "idle" /\ host'.tx = 0 /\ host'.plan = host.plan
        /\ host'.failed = host.failed /\ host'.upgraded = host.upgraded
    BY <1>0, <1>3 DEF HostOK, HostRecord
  <2>2. PlaceOK'
    BY <1>1, <1>3, <2>1 DEF TypeInv, PlaceOK
  <2>. QED  BY <1>1, <2>1, <2>2 DEF TypeInv, RecordsOK
<1>4. CASE /\ host.tx # 0
           /\ host' = [host EXCEPT !.pc = "change", !.i = @ + 1,
                         !.upgraded = @ \cup {order[host.i]}]
  <2>. DEFINE j == host.i + 1
              up == host.upgraded \cup {order[host.i]}
  <2>0. /\ j \in Nat /\ j >= 1 /\ up \in SUBSET Actor
        /\ host' = [host EXCEPT !.pc = "change", !.i = j, !.upgraded = up]
    BY <1>0, <1>2, <1>4
  <2>. HIDE DEF j, up
  <2>1. /\ HostOK' /\ host'.pc = "change" /\ host'.i = j /\ host'.tx = host.tx
        /\ host'.plan = host.plan /\ host'.failed = host.failed
    BY <1>0, <2>0 DEF HostOK, HostRecord
  <2>2. PlaceOK'
    BY <1>1, <1>4, <2>0, <2>1 DEF TypeInv, PlaceOK
  <2>. QED  BY <1>1, <2>1, <2>2 DEF TypeInv, RecordsOK
<1>5. CASE host.tx # 0 /\ host' = ChangeFailed
  <2>0. host' = [host EXCEPT !.pc = "resume", !.failed = "change", !.i = last]
    BY <1>5 DEF ChangeFailed
  <2>. HIDE DEF last
  <2>1. /\ HostOK' /\ host'.pc = "resume" /\ host'.i = last /\ host'.tx = host.tx
        /\ host'.plan = host.plan /\ host'.failed = "change"
    BY <1>0, <2>0 DEF HostOK, HostRecord
  <2>2. PlaceOK'
    BY <1>0, <1>1, <1>5, <2>1 DEF TypeInv, PlaceOK, last
  <2>. QED  BY <1>1, <2>1, <2>2 DEF TypeInv, RecordsOK
<1>. QED  BY <1>1, <1>3, <1>4, <1>5

LEMMA TypeChange ==
  ASSUME TypeInv, ChangeNext
  PROVE  TypeInv'
<1>. DEFINE order == host.plan.upgradeOrder
            last == Len(host.plan.resumeTargets)
            env == System("CodeChange", Target, host.n + 1, host.tx)
            n1 == host.n + 1
<1>0. /\ RecordsOK /\ host \in HostRecord /\ host.i \in Nat /\ last \in Nat
      /\ n1 \in Nat /\ host.tx \in Nat /\ Len(order) \in Nat
      /\ \A i \in 1..Len(order) : order[i] \in Actor
  BY HostHas DEF TypeInv, HostOK
<1>t. host.tx # 0 /\ host.i >= 1 /\ host.failed = "no" /\ host.pc = "change"
  BY DEF TypeInv, PlaceOK, ChangeNext
<1>e. env \in Envelope
  BY <1>0, SystemHas DEF Message
<1>1. /\ UNCHANGED <<running, upgrades>>
      /\ \/ /\ UNCHANGED act
            /\ \E why \in {"no", "change"} :
                 host' = [host EXCEPT !.pc = "resume", !.failed = why, !.i = last]
         \/ /\ host.i <= Len(order) /\ act' = Pushed(act, order[host.i], env)
            /\ host' = [host EXCEPT !.pc = "await", !.n = n1, !.reply = "none"]
  <2>1. host \in HostRecord => [host EXCEPT !.pc = "resume", !.i = last]
          = [host EXCEPT !.pc = "resume", !.failed = host.failed, !.i = last]
    BY DEF HostRecord
  <2>. QED  BY <1>0, <1>t, <2>1 DEF ChangeNext, ChangeFailed, bounds
<1>. HIDE DEF env, n1
<1>2. CASE /\ UNCHANGED act
           /\ \E why \in {"no", "change"} :
                host' = [host EXCEPT !.pc = "resume", !.failed = why, !.i = last]
  <2>. HIDE DEF last
  <2>1. /\ HostOK' /\ host'.pc = "resume" /\ host'.i = last /\ host'.tx = host.tx
        /\ host'.plan = host.plan /\ host'.failed \in {"no", "change"}
    BY <1>0, <1>2 DEF HostOK, HostRecord
  <2>2. PlaceOK'
    BY <1>0, <1>1, <1>t, <2>1 DEF TypeInv, PlaceOK, last
  <2>. QED  BY <1>1, <1>2, <2>1, <2>2 DEF TypeInv, RecordsOK
<1>3. CASE /\ host.i <= Len(order) /\ act' = Pushed(act, order[host.i], env)
           /\ host' = [host EXCEPT !.pc = "await", !.n = n1, !.reply = "none"]
  <2>1. /\ HostOK' /\ host'.pc = "await" /\ host'.i = host.i /\ host'.tx = host.tx
        /\ host'.plan = host.plan /\ host'.failed = host.failed
    BY <1>0, <1>3 DEF HostOK, HostRecord
  <2>2. host.i \in 1..Len(order)
    BY <1>0, <1>t, <1>3
  <2>3. PlaceOK'
    BY <1>1, <1>t, <2>1, <2>2 DEF TypeInv, PlaceOK
  <2>4. RecordsOK'
    BY <1>0, <1>e, <1>3, <2>2, SendingHas DEF Sending
  <2>. QED  BY <1>1, <2>1, <2>3, <2>4 DEF TypeInv
<1>. QED  BY <1>1, <1>2, <1>3

\* The transaction returns to its caller.
LEMMA TypeReturn ==
  ASSUME TypeInv, UNCHANGED <<act, running, upgrades>>, host.tx # 0,
         NEW why \in {"no", "plan", "suspend", "quiesce", "change", "resume"},
         NEW refused \in SUBSET Actor, NEW named \in SUBSET Actor,
         host' = [host EXCEPT !.pc = "returned", !.failed = why,
                              !.suspended = named, !.refused = refused]
  PROVE  TypeInv'
<1>0. host \in HostRecord
  BY DEF TypeInv, HostOK
<1>1. /\ HostOK' /\ host'.pc = "returned" /\ host'.tx = host.tx
      /\ host'.plan = host.plan
  BY <1>0 DEF HostOK, HostRecord
<1>2. PlaceOK'
  BY <1>1 DEF TypeInv, PlaceOK
<1>. QED  BY <1>1, <1>2 DEF TypeInv, RecordsOK

LEMMA ReturnHas ==
  ASSUME HostOK, NEW why
  PROVE  /\ Return(why) =
              [host EXCEPT !.pc = "returned", !.failed = why,
                           !.suspended = host.suspended,
                           !.refused = host.refused]
         /\ [Return(why) EXCEPT !.suspended = {}] =
              [host EXCEPT !.pc = "returned", !.failed = why,
                           !.suspended = {}, !.refused = host.refused]
         /\ \A refused :
              [Return(why) EXCEPT !.refused = refused] =
                [host EXCEPT !.pc = "returned", !.failed = why,
                             !.suspended = host.suspended,
                             !.refused = refused]
BY DEF Return, HostOK, HostRecord

LEMMA TypeSends ==
  ASSUME TypeInv, SuspendNext \/ ResumeNext
  PROVE  TypeInv'
<1>. DEFINE targets == host.plan.resumeTargets
            moved == host.i + 1
            back == host.i - 1
            named == host.suspended \cup {targets[host.i]}
            left == {targets[j] : j \in 1..host.i}
<1>0. /\ RecordsOK /\ host \in HostRecord /\ host.i \in Nat /\ Len(targets) \in Nat
      /\ moved \in Nat /\ moved >= 1
      /\ \A i \in 1..Len(targets) : targets[i] \in Actor
      /\ host.refused \in SUBSET Actor /\ HostOK
      /\ host.suspended \in SUBSET Actor
  BY HostHas DEF TypeInv, HostOK
<1>t. host.tx # 0 /\ (host.pc = "suspend" => host.failed = "no" /\ host.i >= 1)
      /\ (host.pc = "resume" => host.failed \in {"no", "change"}
                                /\ host.i <= Len(targets))
      /\ host.pc \in {"suspend", "resume"}
  BY DEF TypeInv, PlaceOK, SuspendNext, ResumeNext
<1>l. host.pc = "resume" => left \in SUBSET Actor
  BY <1>0, <1>t
<1>1. /\ UNCHANGED <<running, upgrades>>
      /\ \/ UNCHANGED act
         \/ \E msg \in {"Suspend", "Resume"} :
              /\ host.i \in 1..Len(targets)
              /\ act' = Pushed(act, targets[host.i], System(msg, 0, 0, 0))
  BY <1>0, <1>t DEF SuspendNext, ResumeNext, bounds
<1>2. RecordsOK'
  <2>1. \A msg \in {"Suspend", "Resume"} : System(msg, 0, 0, 0) \in Envelope
    BY SystemHas DEF Message
  <2>. QED  BY <1>0, <1>1, <2>1, SendingHas, NotSendingHas DEF Sending
<1>3. CASE SuspendNext
  <2>1. /\ host.pc = "suspend"
        /\ \/ host' = [host EXCEPT !.pc = "quiesce"]
           \/ host' = Return("suspend") /\ UNCHANGED act
           \/ /\ host.i <= Len(targets)
              /\ host' = [host EXCEPT !.i = moved, !.suspended = named]
    BY <1>3 DEF SuspendNext
  <2>n. host.i <= Len(targets) => named \in SUBSET Actor
    BY <1>0, <1>t, <2>1
  <2>. HIDE DEF moved, named
  <2>2. CASE host' = [host EXCEPT !.pc = "quiesce"]
    <3>1. /\ HostOK' /\ host'.pc = "quiesce" /\ host'.tx = host.tx
          /\ host'.plan = host.plan /\ host'.failed = host.failed
      BY <1>0, <2>2 DEF HostOK, HostRecord
    <3>2. PlaceOK'
      BY <1>1, <1>t, <2>1, <3>1 DEF TypeInv, PlaceOK
    <3>. QED  BY <1>1, <1>2, <3>1, <3>2 DEF TypeInv
  <2>3. CASE host' = Return("suspend") /\ UNCHANGED act
    BY <1>0, <1>1, <1>t, <2>3, ReturnHas, TypeReturn
  <2>4. CASE /\ host.i <= Len(targets)
             /\ host' = [host EXCEPT !.i = moved, !.suspended = named]
    <3>1. /\ HostOK' /\ host'.pc = host.pc /\ host'.tx = host.tx
          /\ host'.plan = host.plan /\ host'.failed = host.failed
          /\ host'.i = moved
      BY <1>0, <2>n, <2>4 DEF HostOK, HostRecord
    <3>2. PlaceOK'
      BY <1>0, <1>1, <1>t, <2>1, <3>1 DEF TypeInv, PlaceOK
    <3>. QED  BY <1>1, <1>2, <3>1, <3>2 DEF TypeInv
  <2>. QED  BY <2>1, <2>2, <2>3, <2>4
<1>4. CASE ResumeNext
  <2>1. /\ host.pc = "resume"
        /\ \/ host' = [host EXCEPT !.pc = "drain"]
           \/ UNCHANGED act /\ host' = [Return(Worst("resume")) EXCEPT !.refused = left]
           \/ host.i > 0 /\ host' = [host EXCEPT !.i = back]
    BY <1>4 DEF ResumeNext
  <2>b. host.i > 0 => back \in Nat /\ back <= Len(targets)
    BY <1>0, <1>t, <2>1
  <2>. HIDE DEF back
  <2>2. CASE host' = [host EXCEPT !.pc = "drain"]
    <3>1. /\ HostOK' /\ host'.pc = "drain" /\ host'.tx = host.tx
          /\ host'.plan = host.plan /\ host'.failed = host.failed
      BY <1>0, <2>2 DEF HostOK, HostRecord
    <3>2. PlaceOK'
      BY <1>1, <1>t, <2>1, <3>1 DEF TypeInv, PlaceOK
    <3>. QED  BY <1>1, <1>2, <3>1, <3>2 DEF TypeInv
  <2>3. CASE UNCHANGED act /\ host' = [Return(Worst("resume")) EXCEPT !.refused = left]
    <3>1. Worst("resume") \in {"no", "plan", "suspend", "quiesce", "change", "resume"}
      BY <1>t, <2>1 DEF Worst
    <3>2. host' = [host EXCEPT !.pc = "returned", !.failed = Worst("resume"),
                               !.suspended = host.suspended,
                               !.refused = left]
      BY <1>0, <2>3, ReturnHas
    <3>3. UNCHANGED <<act, running, upgrades>> /\ host.tx # 0
          /\ host.suspended \in SUBSET Actor /\ left \in SUBSET Actor
      BY <1>0, <1>1, <1>t, <1>l, <2>1, <2>3
    <3>. DEFINE why == Worst("resume")
    <3>. HIDE DEF why, left
    <3>4. why \in {"no", "plan", "suspend", "quiesce", "change", "resume"}
          /\ host' = [host EXCEPT !.pc = "returned", !.failed = why,
                                  !.suspended = host.suspended,
                                  !.refused = left]
      BY <3>1, <3>2 DEF why
    <3>. QED  BY <3>3, <3>4, TypeReturn
  <2>4. CASE host.i > 0 /\ host' = [host EXCEPT !.i = back]
    <3>1. /\ HostOK' /\ host'.pc = host.pc /\ host'.tx = host.tx
          /\ host'.plan = host.plan /\ host'.failed = host.failed
          /\ host'.i = back
      BY <1>0, <2>b, <2>4 DEF HostOK, HostRecord
    <3>2. PlaceOK'
      BY <1>0, <1>1, <1>t, <2>1, <2>b, <2>4, <3>1 DEF TypeInv, PlaceOK
    <3>. QED  BY <1>1, <1>2, <3>1, <3>2 DEF TypeInv
  <2>. QED  BY <2>1, <2>2, <2>3, <2>4
<1>. QED  BY <1>3, <1>4

LEMMA TypeQuiets ==
  ASSUME TypeInv, Quiesce \/ LocalQuiesce \/ Drain \/ LocalDrain
  PROVE  TypeInv'
<1>0. /\ host \in HostRecord /\ HostOK /\ host.refused \in SUBSET Actor
      /\ host.suspended \in SUBSET Actor
      /\ host.tx # 0 /\ host.pc \in {"quiesce", "drain"}
      /\ host.failed \in {"no", "change"}
      /\ host.pc = "quiesce" => host.failed = "no"
  BY HostHas DEF TypeInv, HostOK, PlaceOK, Quiesce, LocalQuiesce, Drain, LocalDrain
<1>1. /\ UNCHANGED <<act, running, upgrades>>
      /\ \/ host.pc = "quiesce" /\ host' = [host EXCEPT !.pc = "change", !.i = 1]
         \/ host' = [Return("quiesce") EXCEPT !.suspended = {}]
         \/ host' = Return(host.failed) \/ host' = Return(Worst("resume"))
  BY DEF Quiesce, LocalQuiesce, Drain, LocalDrain, bounds
<1>2. CASE host.pc = "quiesce" /\ host' = [host EXCEPT !.pc = "change", !.i = 1]
  <2>1. /\ HostOK' /\ host'.pc = "change" /\ host'.tx = host.tx /\ host'.i = 1
        /\ host'.plan = host.plan /\ host'.failed = host.failed
    BY <1>0, <1>2 DEF HostOK, HostRecord
  <2>2. PlaceOK'
    BY <1>0, <1>1, <1>2, <2>1 DEF TypeInv, PlaceOK
  <2>. QED  BY <1>1, <2>1, <2>2 DEF TypeInv, RecordsOK
<1>3. ASSUME NEW why \in {"quiesce", "no", "change", "resume"},
             \/ host' = Return(why)
             \/ host' = [Return(why) EXCEPT !.suspended = {}]
      PROVE  TypeInv'
  <2>1. PICK named \in SUBSET Actor :
          host' = [host EXCEPT !.pc = "returned", !.failed = why,
                               !.suspended = named, !.refused = host.refused]
    BY <1>0, <1>3, ReturnHas
  <2>. QED  BY <1>0, <1>1, <2>1, TypeReturn
<1>4. Worst("resume") \in {"no", "change", "resume"}
  BY <1>0 DEF Worst
<1>. QED  BY <1>0, <1>1, <1>2, <1>3, <1>4

LEMMA TypeStart ==
  ASSUME TypeInv, StartUpgrade
  PROVE  TypeInv'
<1>. DEFINE tx == upgrades + 1
            n0 == host.n
            todo == <<Visit(Root)>>
<1>0. /\ host \in HostRecord /\ n0 \in Nat /\ tx \in Nat /\ tx # 0
      /\ host.pc = "idle" /\ host.tx = 0 /\ host.plan = NoPlan /\ host.upgraded = {}
  BY HostHas DEF TypeInv, HostOK, PlaceOK, StartUpgrade
<1>1. /\ UNCHANGED <<act, running>> /\ upgrades' = tx
      /\ \/ host' = [HostIdle EXCEPT !.pc = "plan", !.tx = tx, !.n = n0, !.todo = todo]
         \/ host' = [Return("plan") EXCEPT !.tx = tx]
  BY DEF StartUpgrade, PlanLocalUpgrade
<1>2. todo \in Seq(Item)
  BY TreeAssumption DEF Item, Visit
<1>3. NoPlan \in Plan
  BY DEF NoPlan, Plan
<1>4. /\ HostIdle \in HostRecord /\ HostIdle.failed = "no" /\ HostIdle.plan = NoPlan
      /\ HostIdle.upgraded = {}
  BY <1>3 DEF HostRecord, HostIdle
<1>. HIDE DEF tx, n0, todo
<1>5. CASE host' = [HostIdle EXCEPT !.pc = "plan", !.tx = tx, !.n = n0, !.todo = todo]
  <2>1. /\ HostOK' /\ host'.pc = "plan" /\ host'.tx = tx /\ host'.failed = "no"
    BY <1>0, <1>2, <1>4, <1>5 DEF HostOK, HostRecord
  <2>2. PlaceOK'
    BY <1>0, <1>1, <2>1 DEF PlaceOK
  <2>. QED  BY <1>0, <1>1, <2>1, <2>2 DEF TypeInv, RecordsOK
<1>6. CASE host' = [Return("plan") EXCEPT !.tx = tx]
  <2>0. host' = [host EXCEPT !.pc = "returned", !.failed = "plan", !.tx = tx]
    BY <1>0, <1>6 DEF Return, HostRecord
  <2>1. /\ HostOK' /\ host'.pc = "returned" /\ host'.tx = tx
    BY <1>0, <2>0 DEF HostOK, HostRecord
  <2>2. PlaceOK'
    BY <1>0, <1>1, <2>1 DEF PlaceOK
  <2>. QED  BY <1>0, <1>1, <2>1, <2>2 DEF TypeInv, RecordsOK
<1>. QED  BY <1>1, <1>5, <1>6
-----------------------------------------------------------------------------
(* A step of the walk.                                                     *)

Order == host.plan.upgradeOrder

\* The host walks on; all it changes is the plan and what is left to do.
Walks ==
  /\ HostOK' /\ host'.plan \in Plan /\ host'.todo \in Seq(Item)
  /\ host'.pc = "plan" /\ host'.tx = host.tx /\ host'.i = host.i
  /\ host'.n = host.n /\ host'.failed = host.failed
  /\ host'.upgraded = host.upgraded /\ host'.refused = host.refused
  /\ host'.reply = host.reply

\* The actor is entered in the plan.
Enters(a) ==
  /\ host'.plan.suspendOrder = Append(host.plan.suspendOrder, a)
  /\ host'.plan.resumeTargets \in {Targets, Append(Targets, a)}

StaysOut ==
  /\ host'.plan.suspendOrder = host.plan.suspendOrder
  /\ host'.plan.resumeTargets = Targets

\* The actor joins the upgrade order.
Joins(a) == host'.plan.upgradeOrder = Append(Order, a)

WalkStep(item, a, rest) ==
  \/ /\ item.op = "leave" /\ Walks /\ StaysOut /\ Joins(a) /\ host'.todo = rest
  \/ /\ item.op = "skip" /\ Walks /\ host'.plan = host.plan /\ host'.todo = rest
  \/ /\ item.op = "visit" /\ a \in Super
     /\ Walks /\ Enters(a) /\ host'.plan.upgradeOrder = Order
     /\ host'.todo = Listed(a) \o <<Leave(a)>> \o rest
  \/ /\ item.op = "visit" /\ a \notin Super
     /\ Walks /\ Enters(a) /\ Joins(a) /\ host'.todo = rest

LEMMA ListedHas ==
  ASSUME NEW s \in Super
  PROVE  /\ Listed(s) \in Seq(Item)
         /\ Len(Listed(s)) \in Nat
         /\ DOMAIN Listed(s) = 1..Len(Listed(s))
         /\ DOMAIN Kids[s] = 1..Len(Listed(s))
         /\ \A i \in 1..Len(Listed(s)) :
              /\ Kids[s][i] \in Actor /\ Listed(s)[i].actor = Kids[s][i]
              /\ Listed(s)[i].op \in {"visit", "skip"}
<1>1. Kids[s] \in Seq(Actor)
  BY TreeAssumption
<1>2. /\ Len(Kids[s]) \in Nat /\ DOMAIN Kids[s] = 1..Len(Kids[s])
      /\ \A i \in 1..Len(Kids[s]) : Kids[s][i] \in Actor
  BY <1>1, LenProperties, ElementOfSeq
<1>3. /\ Listed(s) \in [1..Len(Kids[s]) -> Item]
      /\ \A i \in 1..Len(Kids[s]) : /\ Listed(s)[i].actor = Kids[s][i]
                                    /\ Listed(s)[i].op \in {"visit", "skip"}
  BY <1>2 DEF Listed, Item, Visit, Skip
<1>4. Listed(s) \in Seq(Item)
  BY <1>2, <1>3, IsASeq
<1>5. Len(Listed(s)) = Len(Kids[s])
  BY <1>2, <1>3, <1>4, LenProperties
<1>. QED  BY <1>2, <1>3, <1>4, <1>5

LEMMA TailHas ==
  ASSUME NEW S, NEW q \in Seq(S), q # <<>>
  PROVE  /\ Head(q) \in S /\ Head(q) = q[1]
         /\ Tail(q) \in Seq(S)
         /\ Len(q) \in Nat \ {0} /\ DOMAIN q = 1..Len(q)
         /\ Len(Tail(q)) = Len(q) - 1
         /\ DOMAIN Tail(q) = 1..(Len(q) - 1)
         /\ \A i \in 1..(Len(q) - 1) : Tail(q)[i] = q[i + 1]
<1>1. Len(q) \in Nat \ {0} /\ DOMAIN q = 1..Len(q)
  BY EmptySeq, LenProperties
<1>2. /\ Head(q) \in S /\ Tail(q) \in Seq(S) /\ Len(Tail(q)) = Len(q) - 1
      /\ \A i \in 1..Len(Tail(q)) : Tail(q)[i] = q[i + 1]
  BY HeadTailProperties
<1> QED
  BY <1>1, <1>2, LenProperties

LEMMA CollectHas ==
  ASSUME TypeInv, host.pc = "plan", host.todo # <<>>, host' = Collect
  PROVE  /\ Head(host.todo) \in Item /\ Head(host.todo).actor \in Actor
         /\ Tail(host.todo) \in Seq(Item)
         /\ \/ WalkStep(Head(host.todo), Head(host.todo).actor, Tail(host.todo))
            \/ host' = Return("plan")
<1>. DEFINE item == Head(host.todo)
            a == item.actor
            rest == Tail(host.todo)
            targets == IF act[a].suspended THEN Targets ELSE Append(Targets, a)
            down == Listed(a) \o <<Leave(a)>> \o rest
            p == host.plan
            p0 == Joined(host.plan, a)
            both == JoinedLeaf(host.plan, a)
<1>1. item \in Item /\ rest \in Seq(Item) /\ a \in Actor
      /\ item.op \in {"visit", "leave", "skip"}
  <2>1. host.todo \in Seq(Item)
    BY HostHas
  <2>2. item \in Item /\ rest \in Seq(Item)
    BY <2>1, TailHas
  <2>. QED  BY <2>2 DEF Item
<1>2. /\ p \in Plan /\ host \in HostRecord
      /\ p.suspendOrder \in Seq(Actor) /\ p.upgradeOrder \in Seq(Actor)
      /\ Targets \in Seq(Actor)
  BY HostHas DEF TypeInv, HostOK, Targets
<1>3. /\ Append(p.suspendOrder, a) \in Seq(Actor)
      /\ Append(p.upgradeOrder, a) \in Seq(Actor)
      /\ targets \in Seq(Actor) /\ targets \in {Targets, Append(Targets, a)}
  BY <1>1, <1>2
<1>4. a \in Super => down \in Seq(Item)
  <2>1. <<Leave(a)>> \in Seq(Item)
    BY <1>1 DEF Leave, Item
  <2>. QED  BY <1>1, <2>1, ListedHas, ConcatHas
<1>5. \/ /\ item.op = "leave"
         /\ host' = [host EXCEPT !.plan.upgradeOrder = Append(@, a), !.todo = rest]
      \/ item.op = "skip" /\ host' = [host EXCEPT !.todo = rest]
      \/ /\ item.op = "visit" /\ a \in Super
         /\ host' = [host EXCEPT !.plan = Joined(@, a), !.todo = down]
      \/ /\ item.op = "visit" /\ a \notin Super
         /\ host' = [host EXCEPT !.plan = both, !.todo = rest]
      \/ host' = Return("plan")
  BY <1>1 DEF Collect
<1>j. Joined(p, a) = [p EXCEPT !.suspendOrder = Append(p.suspendOrder, a),
                               !.resumeTargets = targets]
  BY <1>2 DEF Joined, Plan, Targets
<1>b. both = [p0 EXCEPT !.upgradeOrder = Append(@, a)]
  BY DEF JoinedLeaf
<1>. HIDE DEF item, a, rest, targets, down, p, p0, both
<1>p. p = host.plan
  BY DEF p
<1>6. CASE item.op = "leave"
           /\ host' = [host EXCEPT !.plan.upgradeOrder = Append(@, a), !.todo = rest]
  <2>. DEFINE p1 == [p EXCEPT !.upgradeOrder = Append(p.upgradeOrder, a)]
  <2>1. host' = [host EXCEPT !.plan = p1, !.todo = rest]
    BY <1>2, <1>6, <1>p DEF HostRecord, Plan
  <2>2. /\ p1 \in Plan /\ p1.suspendOrder = p.suspendOrder
        /\ p1.resumeTargets = p.resumeTargets
        /\ p1.upgradeOrder = Append(p.upgradeOrder, a)
    BY <1>2, <1>3 DEF Plan
  <2>. HIDE DEF p1
  <2>3. /\ host'.plan = p1 /\ host'.todo = rest /\ Walks
    BY <1>1, <1>2, <2>1, <2>2 DEF HostRecord, HostOK, Walks
  <2>. QED  BY <1>1, <1>6, <1>p, <2>2, <2>3
            DEF WalkStep, StaysOut, Joins, Order, Targets, item, a, rest
<1>7. CASE item.op = "skip" /\ host' = [host EXCEPT !.todo = rest]
  <2>1. host'.plan = host.plan /\ host'.todo = rest /\ Walks
    BY <1>1, <1>2, <1>7, <1>p DEF HostRecord, HostOK, Walks
  <2>. QED  BY <1>1, <1>7, <2>1 DEF WalkStep, item, a, rest
<1>8. CASE /\ item.op = "visit" /\ a \in Super
           /\ host' = [host EXCEPT !.plan = Joined(@, a), !.todo = down]
  <2>. DEFINE p1 == Joined(p, a)
  <2>1. host' = [host EXCEPT !.plan = p1, !.todo = down]
    BY <1>2, <1>8, <1>p DEF HostRecord
  <2>2. /\ p1 \in Plan /\ p1.suspendOrder = Append(p.suspendOrder, a)
        /\ p1.resumeTargets = targets /\ p1.upgradeOrder = p.upgradeOrder
    BY <1>2, <1>3, <1>j DEF Plan
  <2>. HIDE DEF p1
  <2>3. /\ host'.plan = p1 /\ host'.todo = down /\ Walks
    BY <1>2, <1>4, <1>8, <2>1, <2>2 DEF HostRecord, HostOK, Walks
  <2>. QED  BY <1>1, <1>3, <1>8, <1>p, <2>2, <2>3
            DEF WalkStep, Enters, Order, Targets, item, a, rest, down
<1>9. CASE /\ item.op = "visit" /\ a \notin Super
           /\ host' = [host EXCEPT !.plan = both, !.todo = rest]
  <2>0. /\ p0 \in Plan /\ p0.suspendOrder = Append(p.suspendOrder, a)
        /\ p0.resumeTargets = targets /\ p0.upgradeOrder = p.upgradeOrder
    BY <1>2, <1>3, <1>j, <1>p DEF Plan, p0
  <2>2. /\ both \in Plan /\ both.suspendOrder = Append(p.suspendOrder, a)
        /\ both.resumeTargets = targets
        /\ both.upgradeOrder = Append(p.upgradeOrder, a)
    BY <1>3, <1>b, <2>0 DEF Plan
  <2>3. /\ host'.plan = both /\ host'.todo = rest /\ Walks
    BY <1>1, <1>2, <1>9, <2>2 DEF HostRecord, HostOK, Walks
  <2>. QED  BY <1>1, <1>3, <1>9, <1>p, <2>2, <2>3
            DEF WalkStep, Enters, Joins, Order, Targets, item, a, rest
<1>10. CASE host' = Return("plan")
  BY <1>1, <1>10 DEF item, a, rest
<1>. QED  BY <1>5, <1>6, <1>7, <1>8, <1>9, <1>10

LEMMA TypePlan ==
  ASSUME TypeInv, PlanUpgrade
  PROVE  TypeInv'
<1>0. /\ UNCHANGED <<act, running, upgrades>> /\ host.pc = "plan"
      /\ host \in HostRecord /\ HostOK /\ host.refused \in SUBSET Actor
      /\ host.suspended \in SUBSET Actor
      /\ host.tx # 0 /\ host.failed = "no"
  BY HostHas DEF TypeInv, HostOK, PlanUpgrade, bounds, PlaceOK
<1>1. CASE host' = [host EXCEPT !.pc = "suspend", !.i = 1]
  <2>1. /\ HostOK' /\ host'.pc = "suspend" /\ host'.tx = host.tx /\ host'.i = 1
        /\ host'.plan = host.plan /\ host'.failed = host.failed
    BY <1>0, <1>1 DEF HostOK, HostRecord
  <2>2. PlaceOK'
    BY <1>0, <2>1 DEF TypeInv, PlaceOK
  <2>. QED  BY <1>0, <2>1, <2>2 DEF TypeInv, RecordsOK
<1>2. CASE host' = Return("plan")
  <2>1. host' = [host EXCEPT !.pc = "returned", !.failed = "plan",
                             !.suspended = host.suspended,
                             !.refused = host.refused]
    BY <1>0, <1>2, ReturnHas
  <2>. QED  BY <1>0, <2>1, TypeReturn
<1>3. CASE host' = Collect /\ host.todo # <<>> /\ host' # Return("plan")
  <2>1. Walks
    BY <1>0, <1>3, CollectHas DEF WalkStep
  <2>4. PlaceOK'
    BY <1>0, <2>1 DEF TypeInv, PlaceOK, Walks
  <2>. QED  BY <1>0, <2>1, <2>4 DEF TypeInv, RecordsOK, Walks
<1>. QED  BY <1>1, <1>2, <1>3 DEF PlanUpgrade

LEMMA TypeStep ==
  TypeInv /\ SoundInv /\ LocalInv /\ [Next]_vars => TypeInv'
<1>. SUFFICES ASSUME TypeInv, SoundInv, LocalInv, [Next]_vars PROVE TypeInv'
  OBVIOUS
<1>1. ASSUME NEW a \in Actor,
             \/ Turn(a) \/ StopTurn(a) \/ LocalTurn(a) \/ LocalStop(a)
             \/ LocalForcedExit(a) \/ UserMail(a)
      PROVE  TypeInv'
  BY <1>1, ByActorsHas, TypeByActors
<1>2. CASE UNCHANGED vars
  BY <1>2 DEF vars, bounds, TypeInv, RecordsOK, HostOK, PlaceOK
<1>3. CASE UpgradeTree \/ LocalUpgradeTree
  BY <1>3, TypeStart, TypePlan, TypeSends, TypeQuiets, TypeChange
     DEF UpgradeTree, LocalUpgradeTree, LocalPlanUpgrade
<1>. QED  BY <1>1, <1>2, <1>3, TypeCalls, TypeWaits DEF Next
-----------------------------------------------------------------------------
(* The steps of the host, one by one: what they do to its transaction.     *)

\* Single calls and their waits.
CallStep ==
  /\ host.tx = 0 /\ host'.tx = 0
  /\ host.pc \in {"idle", "drive", "await"} /\ host'.pc \in {"idle", "drive", "await"}
  /\ host'.n \in {host.n, host.n + 1}
  /\ UNCHANGED <<upgrades, changed>>
  /\ \E E \in SUBSET Envelope :
       /\ Sending(E)
       /\ E # {} => host.pc = "idle"
       /\ \A env \in E : env.kind = "System" /\ env.n <= host'.n /\ env.tx = 0

BackStep ==
  /\ host.pc = "returned" /\ host'.pc = "idle" /\ host'.tx = 0
  /\ host'.n = host.n
  /\ UNCHANGED <<act, upgrades, changed>>

StartStep ==
  /\ host.pc = "idle" /\ UNCHANGED act
  /\ host'.tx = upgrades' /\ upgrades' = upgrades + 1 /\ changed' = {}
  /\ host'.plan = NoPlan /\ host'.upgraded = {} /\ host'.n = host.n
  /\ \/ host'.pc = "plan" /\ host'.todo = <<Visit(Root)>>
     \/ host'.pc = "returned" /\ host'.failed = "plan"

\* The host goes on in its transaction: from pc to pc2.
Goes(pc, pc2) ==
  /\ host.tx # 0 /\ host.pc = pc /\ host'.pc = pc2
  /\ host'.tx = host.tx /\ host'.plan = host.plan
  /\ UNCHANGED <<upgrades, changed>>

Calm == UNCHANGED act /\ host'.n = host.n /\ host'.upgraded = host.upgraded

WalkOn ==
  /\ host.tx # 0 /\ host.pc = "plan" /\ Calm /\ UNCHANGED <<upgrades, changed>>
  /\ host.todo # <<>> /\ Walks
  /\ Head(host.todo) \in Item /\ Tail(host.todo) \in Seq(Item)
  /\ WalkStep(Head(host.todo), Head(host.todo).actor, Tail(host.todo))

WalkDone ==
  Goes("plan", "suspend") /\ Calm /\ host.todo = <<>> /\ host'.i = 1

\* The envelope env goes to actor a.
Sends(a, env) ==
  /\ env \in Envelope /\ Sending({env}) /\ Posts(act[a], act'[a], env)
  /\ \A b \in Actor : b # a => act'[b] = act[b]
  /\ host'.upgraded = host.upgraded

SuspendOne ==
  /\ Goes("suspend", "suspend") /\ host.i \in DOMAIN Targets
  /\ host'.i = host.i + 1 /\ host'.n = host.n
  /\ Sends(Targets[host.i], System("Suspend", 0, 0, 0))

SuspendsDone ==
  Goes("suspend", "quiesce") /\ Calm /\ host.i > Len(Targets)

QuietStep ==
  /\ Goes("quiesce", "change") /\ Calm /\ host'.i = 1
  /\ rt = "local" \/ StuckAt(host.plan.suspendOrder, QuietActors) = {}

ChangeOne ==
  /\ Goes("change", "await") /\ host.i \in DOMAIN Order
  /\ host'.i = host.i /\ host'.n = host.n + 1 /\ host'.reply = "none"
  /\ Sends(Order[host.i], System("CodeChange", Target, host.n + 1, host.tx))

AwaitOk ==
  /\ Goes("await", "change") /\ UNCHANGED act /\ host'.n = host.n
  /\ host.reply = "ok" /\ host'.i = host.i + 1 /\ host.i \in DOMAIN Order
  /\ host'.upgraded = host.upgraded \cup {Order[host.i]}

ChangesDone ==
  /\ Goes("change", "resume") \/ Goes("await", "resume")
  /\ Calm /\ host'.i = Len(Targets)
  /\ host'.failed = "no" => host.pc = "change" /\ host.i > Len(Order)

ResumeOne ==
  /\ Goes("resume", "resume") /\ host.i \in DOMAIN Targets
  /\ host'.i = host.i - 1 /\ host'.n = host.n /\ host'.failed = host.failed
  /\ \/ Sends(Targets[host.i], System("Resume", 0, 0, 0))
     \/ Calm /\ ~act[Targets[host.i]].live

ResumesDone ==
  Goes("resume", "drain") /\ Calm /\ host.i = 0 /\ host'.failed = host.failed

\* The transaction is over; from "drain" it is when all was sent.
Returns ==
  /\ \E pc \in {"plan", "suspend", "quiesce", "resume", "drain"} : Goes(pc, "returned")
  /\ Calm
  /\ host'.failed \in {"no", "change"} =>
       /\ host.pc \in {"resume", "drain"}
       /\ host'.failed = "no" => host.pc = "drain" /\ host.failed = "no"
       /\ host.pc = "resume" =>
            host'.refused = {Targets[j] : j \in 1..host.i}

HostStep ==
  \/ CallStep \/ BackStep \/ StartStep \/ WalkOn \/ WalkDone
  \/ SuspendOne \/ SuspendsDone \/ QuietStep \/ ChangeOne \/ AwaitOk
  \/ ChangesDone \/ ResumeOne \/ ResumesDone \/ Returns

LEMMA CallSteps ==
  ASSUME TypeInv,
         \E a \in Called : \/ Suspend(a) \/ Resume(a) \/ GetState(a)
                           \/ ReplaceState(a) \/ CodeChange(a)
  PROVE  CallStep
<1>0. /\ RecordsOK /\ host \in HostRecord /\ host.n \in Nat /\ Called \subseteq Actor
  BY TreeAssumption, HostHas DEF TypeInv, HostOK
<1>e. {} \in SUBSET Envelope /\ (UNCHANGED act => Sending({}))
  BY <1>0, NotSendingHas
<1>1. ASSUME NEW a \in Called, NEW msg \in {"Suspend", "Resume"}, SendControl(a, msg)
      PROVE  CallStep
  <2>. DEFINE env == System(msg, 0, 0, 0)
  <2>1. /\ UNCHANGED <<host, upgrades, changed>> /\ host.pc = "idle" /\ host.tx = 0
        /\ (UNCHANGED act \/ act' = Pushed(act, a, env))
    BY <1>1 DEF SendControl, MayCall, TypeInv, PlaceOK
  <2>2. /\ env \in Envelope /\ env.kind = "System" /\ env.n = 0 /\ env.tx = 0
    BY SystemHas DEF Message
  <2>. HIDE DEF env
  <2>3. act' = Pushed(act, a, env) => Sending({env})
    BY <1>0, <2>2, SendingHas
  <2>4. \E E \in SUBSET Envelope :
          Sending(E) /\ \A e \in E : e.kind = "System" /\ e.n <= host'.n /\ e.tx = 0
    <3>1. CASE UNCHANGED act
      BY <1>e, <3>1
    <3>2. CASE act' = Pushed(act, a, env)
      <4>1. {env} \in SUBSET Envelope /\ Sending({env}) /\ env.n <= host'.n
        BY <1>0, <2>1, <2>2, <2>3, <3>2
      <4>. QED  BY <2>2, <4>1
    <3>. QED  BY <2>1, <3>1, <3>2
  <2>. QED  BY <2>1, <2>4 DEF CallStep
<1>2. ASSUME NEW a \in Called, NEW msg \in {"GetState", "ReplaceState", "CodeChange"},
             NEW version \in {0, Target}, Request(a, msg, version)
      PROVE  CallStep
  <2>. DEFINE n1 == host.n + 1
              env == System(msg, version, n1, 0)
  <2>1. /\ UNCHANGED <<upgrades, changed>> /\ host.pc = "idle" /\ host.tx = 0
        /\ \/ UNCHANGED <<act, host>>
           \/ /\ act' = Pushed(act, a, env)
              /\ host' = [host EXCEPT !.pc = "await", !.n = n1, !.reply = "none"]
    BY <1>2 DEF Request, MayCall, TypeInv, PlaceOK
  <2>n. n1 \in Nat /\ n1 <= n1
    BY <1>0
  <2>2. env \in Envelope /\ env.kind = "System" /\ env.n = n1 /\ env.tx = 0
    BY <1>0, <2>n, SystemHas DEF Message
  <2>n1. n1 = host.n + 1
    OBVIOUS
  <2>. HIDE DEF env, n1
  <2>3. CASE UNCHANGED <<act, host>>
    BY <1>e, <2>1, <2>3 DEF CallStep
  <2>4. CASE /\ act' = Pushed(act, a, env)
             /\ host' = [host EXCEPT !.pc = "await", !.n = n1, !.reply = "none"]
    <3>1. Sending({env}) /\ {env} \in SUBSET Envelope
      BY <1>0, <2>2, <2>4, SendingHas
    <3>2. host'.pc = "await" /\ host'.tx = host.tx /\ host'.n = n1
      BY <1>0, <2>4 DEF HostRecord
    <3>3. \A e \in {env} : e.kind = "System" /\ e.n <= host'.n /\ e.tx = 0
      BY <2>n, <2>2, <3>2
    <3>. QED  BY <2>1, <2>n1, <3>1, <3>2, <3>3 DEF CallStep
  <2>. QED  BY <2>1, <2>3, <2>4
<1>. QED  BY <1>1, <1>2
          DEF Suspend, Resume, GetState, ReplaceState, CodeChange

LEMMA IdleSteps ==
  ASSUME TypeInv, RunUntilIdle \/ RanUntilIdle \/ ReturnToCaller
  PROVE  HostStep
<1>0. /\ RecordsOK /\ host \in HostRecord /\ host.n \in Nat
      /\ host.pc \in {"idle", "drive"} => host.tx = 0
  BY HostHas DEF TypeInv, HostOK, PlaceOK
<1>e. {} \in SUBSET Envelope /\ (UNCHANGED act => Sending({}))
  BY <1>0, NotSendingHas
<1>1. CASE RunUntilIdle \/ RanUntilIdle
  <2>1. /\ UNCHANGED <<act, upgrades, changed>> /\ host.pc \in {"idle", "drive"}
        /\ \E pc \in {"idle", "drive"} : host' = [host EXCEPT !.pc = pc]
    BY <1>1 DEF RunUntilIdle, RanUntilIdle, MayCall, bounds
  <2>2. host'.pc \in {"idle", "drive"} /\ host'.tx = host.tx /\ host'.n = host.n
    BY <1>0, <2>1 DEF HostRecord
  <2>. QED  BY <1>0, <1>e, <2>1, <2>2 DEF HostStep, CallStep
<1>2. CASE ReturnToCaller
  BY <1>0, <1>2 DEF ReturnToCaller, HostIdle, HostStep, BackStep, bounds
<1>. QED  BY <1>1, <1>2

LEMMA StartSteps ==
  ASSUME TypeInv, StartUpgrade
  PROVE  StartStep
<1>. DEFINE tx == upgrades + 1
            n0 == host.n
            todo == <<Visit(Root)>>
<1>0. /\ host \in HostRecord /\ n0 \in Nat /\ tx \in Nat /\ upgrades + 1 = tx
      /\ host.plan = NoPlan /\ host.upgraded = {}
  BY HostHas DEF TypeInv, HostOK, PlaceOK, StartUpgrade
<1>1. /\ UNCHANGED act /\ upgrades' = tx /\ changed' = {} /\ host.pc = "idle"
      /\ \/ host' = [HostIdle EXCEPT !.pc = "plan", !.tx = tx, !.n = n0, !.todo = todo]
         \/ host' = [Return("plan") EXCEPT !.tx = tx]
  BY DEF StartUpgrade, PlanLocalUpgrade
<1>2. todo = <<Visit(Root)>> /\ n0 = host.n
  OBVIOUS
<1>. HIDE DEF tx, n0, todo
<1>3. CASE host' = [HostIdle EXCEPT !.pc = "plan", !.tx = tx, !.n = n0, !.todo = todo]
  <2>1. /\ host'.pc = "plan" /\ host'.tx = tx /\ host'.n = n0 /\ host'.todo = todo
        /\ host'.plan = NoPlan /\ host'.upgraded = {}
    BY <1>3 DEF HostIdle
  <2>. QED  BY <1>0, <1>1, <1>2, <2>1 DEF StartStep
<1>4. CASE host' = [Return("plan") EXCEPT !.tx = tx]
  <2>1. /\ host'.pc = "returned" /\ host'.tx = tx /\ host'.n = n0
        /\ host'.failed = "plan" /\ host'.plan = NoPlan /\ host'.upgraded = {}
    BY <1>0, <1>2, <1>4 DEF Return, HostRecord
  <2>. QED  BY <1>0, <1>1, <1>2, <2>1 DEF StartStep
<1>. QED  BY <1>1, <1>3, <1>4

LEMMA WaitSteps ==
  ASSUME TypeInv, AwaitReply \/ LocalAwaitReply
  PROVE  CallStep \/ AwaitOk \/ ChangesDone
<1>. DEFINE order == host.plan.upgradeOrder
            last == Len(host.plan.resumeTargets)
            j == host.i + 1
            up == host.upgraded \cup {order[host.i]}
<1>0. /\ RecordsOK /\ host \in HostRecord /\ host.i \in Nat /\ last \in Nat
      /\ j \in Nat /\ DOMAIN order = 1..Len(order)
      /\ host.pc = "await" /\ host.tx # 0 => host.i \in DOMAIN order
  BY HostHas DEF TypeInv, HostOK, PlaceOK
<1>1. /\ UNCHANGED <<act, upgrades, changed>> /\ host.pc = "await"
      /\ \/ host.tx = 0 /\ host' = [host EXCEPT !.pc = "idle"]
         \/ /\ host.tx # 0 /\ host.reply = "ok"
            /\ host' = [host EXCEPT !.pc = "change", !.i = j, !.upgraded = up]
         \/ /\ host.tx # 0
            /\ host' = [host EXCEPT !.pc = "resume", !.failed = "change", !.i = last]
  BY DEF AwaitReply, LocalAwaitReply, bounds, ChangeFailed
<1>. HIDE DEF j, up, last
<1>2. CASE host.tx = 0 /\ host' = [host EXCEPT !.pc = "idle"]
  <2>1. {} \in SUBSET Envelope /\ Sending({})
    BY <1>0, <1>1, NotSendingHas
  <2>2. host'.pc = "idle" /\ host'.tx = 0 /\ host'.n = host.n
    BY <1>0, <1>2 DEF HostRecord
  <2>. QED  BY <1>1, <1>2, <2>1, <2>2 DEF CallStep
<1>3. CASE /\ host.tx # 0 /\ host.reply = "ok"
           /\ host' = [host EXCEPT !.pc = "change", !.i = j, !.upgraded = up]
  <2>1. /\ host'.pc = "change" /\ host'.i = j /\ host'.upgraded = up
        /\ host'.tx = host.tx /\ host'.plan = host.plan /\ host'.n = host.n
    BY <1>0, <1>3 DEF HostRecord
  <2>. QED  BY <1>0, <1>1, <1>3, <2>1 DEF AwaitOk, Goes, Order, j, up
<1>4. CASE /\ host.tx # 0
           /\ host' = [host EXCEPT !.pc = "resume", !.failed = "change", !.i = last]
  <2>1. /\ host'.pc = "resume" /\ host'.i = last /\ host'.failed = "change"
        /\ host'.tx = host.tx /\ host'.plan = host.plan /\ host'.n = host.n
        /\ host'.upgraded = host.upgraded
    BY <1>0, <1>4 DEF HostRecord
  <2>. QED  BY <1>1, <1>4, <2>1 DEF ChangesDone, Goes, Calm, Targets, last
<1>. QED  BY <1>1, <1>2, <1>3, <1>4

LEMMA PlanSteps ==
  ASSUME TypeInv, PlanUpgrade
  PROVE  WalkOn \/ WalkDone \/ Returns
<1>0. /\ UNCHANGED <<act, upgrades, changed>> /\ host.pc = "plan" /\ host.tx # 0
      /\ host \in HostRecord
  BY DEF PlanUpgrade, bounds, TypeInv, PlaceOK, HostOK
<1>1. CASE host.todo = <<>>
  <2>1. host' = [host EXCEPT !.pc = "suspend", !.i = 1]
    BY <1>1 DEF PlanUpgrade
  <2>. QED  BY <1>0, <1>1, <2>1 DEF WalkDone, Goes, Calm, HostRecord
<1>2. CASE host.todo # <<>> /\ host' # Return("plan")
  <2>1. host' = Collect
    BY <1>2 DEF PlanUpgrade
  <2>2. /\ Head(host.todo) \in Item /\ Tail(host.todo) \in Seq(Item)
        /\ WalkStep(Head(host.todo), Head(host.todo).actor, Tail(host.todo))
    BY <1>0, <1>2, <2>1, CollectHas
  <2>3. Walks
    BY <1>2, <2>2 DEF WalkStep
  <2>. QED  BY <1>0, <1>2, <2>2, <2>3 DEF WalkOn, Calm, Walks
<1>3. CASE host' = Return("plan")
  BY <1>0, <1>3 DEF Return, Returns, Goes, Calm, HostRecord
<1>. QED  BY <1>1, <1>2, <1>3

LEMMA SuspendSteps ==
  ASSUME TypeInv, SuspendNext
  PROVE  SuspendOne \/ SuspendsDone \/ Returns
<1>. DEFINE env == System("Suspend", 0, 0, 0)
            moved == host.i + 1
            named == host.suspended \cup {Targets[host.i]}
<1>0. /\ UNCHANGED <<upgrades, changed>> /\ host.pc = "suspend" /\ host.tx # 0
      /\ host \in HostRecord /\ RecordsOK /\ host.i \in Nat /\ host.i >= 1
      /\ DOMAIN Targets = 1..Len(Targets) /\ Len(Targets) \in Nat
      /\ \A i \in 1..Len(Targets) : Targets[i] \in Actor
  BY HostHas DEF SuspendNext, bounds, TypeInv, PlaceOK, HostOK, Targets
<1>e. env \in Envelope
  BY SystemHas DEF Message
<1>1. \/ /\ host.i > Len(Targets) /\ host' = [host EXCEPT !.pc = "quiesce"]
         /\ UNCHANGED act
      \/ host' = Return("suspend") /\ UNCHANGED act
      \/ /\ host.i <= Len(Targets)
         /\ host' = [host EXCEPT !.i = moved, !.suspended = named]
         /\ act' = Pushed(act, Targets[host.i], env)
  BY DEF SuspendNext, Targets
<1>m. moved = host.i + 1
  OBVIOUS
<1>. HIDE DEF moved, named
<1>2. CASE /\ host.i > Len(Targets) /\ host' = [host EXCEPT !.pc = "quiesce"]
           /\ UNCHANGED act
  BY <1>0, <1>2 DEF SuspendsDone, Goes, Calm, HostRecord
<1>3. CASE host' = Return("suspend") /\ UNCHANGED act
  BY <1>0, <1>3 DEF Return, Returns, Goes, Calm, HostRecord
<1>4. CASE /\ host.i <= Len(Targets)
           /\ host' = [host EXCEPT !.i = moved, !.suspended = named]
           /\ act' = Pushed(act, Targets[host.i], env)
  <2>1. host.i \in DOMAIN Targets /\ Targets[host.i] \in Actor
    BY <1>0, <1>4
  <2>. HIDE DEF env
  <2>2. /\ Sending({env}) /\ Posts(act[Targets[host.i]], act'[Targets[host.i]], env)
        /\ \A b \in Actor : b # Targets[host.i] => act'[b] = act[b]
    BY <1>0, <1>e, <1>4, <2>1, SendingHas
  <2>3. /\ host'.pc = "suspend" /\ host'.i = moved /\ host'.tx = host.tx
        /\ host'.plan = host.plan /\ host'.n = host.n
        /\ host'.upgraded = host.upgraded
    BY <1>0, <1>4 DEF HostRecord
  <2>. QED  BY <1>0, <1>e, <1>m, <2>1, <2>2, <2>3 DEF SuspendOne, Goes, Sends, env
<1>. QED  BY <1>1, <1>2, <1>3, <1>4

LEMMA ResumeSteps ==
  ASSUME TypeInv, ResumeNext
  PROVE  ResumeOne \/ ResumesDone \/ Returns
<1>. DEFINE env == System("Resume", 0, 0, 0)
            back == host.i - 1
            left == {Targets[j] : j \in 1..host.i}
<1>0. /\ UNCHANGED <<upgrades, changed>> /\ host.pc = "resume" /\ host.tx # 0
      /\ host \in HostRecord /\ RecordsOK /\ host.i \in Nat /\ host.i <= Len(Targets)
      /\ DOMAIN Targets = 1..Len(Targets) /\ Len(Targets) \in Nat
      /\ \A i \in 1..Len(Targets) : Targets[i] \in Actor
      /\ host.failed \in {"no", "change"}
  BY HostHas DEF ResumeNext, bounds, TypeInv, PlaceOK, HostOK, Targets
<1>e. env \in Envelope
  BY SystemHas DEF Message
<1>1. \/ host.i = 0 /\ host' = [host EXCEPT !.pc = "drain"] /\ UNCHANGED act
      \/ /\ host.i > 0 /\ host' = [host EXCEPT !.i = back] /\ UNCHANGED act
         /\ ~act[Targets[host.i]].live
      \/ /\ host.i > 0 /\ UNCHANGED act
         /\ host' = [Return(Worst("resume")) EXCEPT !.refused = left]
      \/ /\ host.i > 0 /\ host' = [host EXCEPT !.i = back]
         /\ act' = Pushed(act, Targets[host.i], env)
  BY DEF ResumeNext, Targets
<1>m. back = host.i - 1 /\ left = {Targets[j] : j \in 1..host.i}
  OBVIOUS
<1>. HIDE DEF back, left
<1>2. CASE host.i = 0 /\ host' = [host EXCEPT !.pc = "drain"] /\ UNCHANGED act
  BY <1>0, <1>2 DEF ResumesDone, Goes, Calm, HostRecord
<1>3. CASE /\ host.i > 0 /\ UNCHANGED act
           /\ host' = [Return(Worst("resume")) EXCEPT !.refused = left]
  <2>1. Worst("resume") \in {"resume", "change"}
    BY <1>0 DEF Worst
  <2>2. /\ host'.pc = "returned" /\ host'.failed = Worst("resume")
        /\ host'.refused = left /\ host'.tx = host.tx /\ host'.plan = host.plan
        /\ host'.n = host.n /\ host'.upgraded = host.upgraded
    BY <1>0, <1>3 DEF Return, HostRecord
  <2>. QED  BY <1>0, <1>m, <1>3, <2>1, <2>2 DEF Returns, Goes, Calm
<1>4. CASE host.i > 0 /\ host' = [host EXCEPT !.i = back]
  <2>1. host.i \in DOMAIN Targets /\ Targets[host.i] \in Actor
    BY <1>0, <1>4
  <2>2. /\ host'.pc = "resume" /\ host'.i = back /\ host'.tx = host.tx
        /\ host'.plan = host.plan /\ host'.n = host.n
        /\ host'.upgraded = host.upgraded /\ host'.failed = host.failed
    BY <1>0, <1>4 DEF HostRecord
  <2>3. CASE UNCHANGED act /\ ~act[Targets[host.i]].live
    BY <1>0, <1>m, <2>1, <2>2, <2>3 DEF ResumeOne, Goes, Calm
  <2>4. CASE act' = Pushed(act, Targets[host.i], env)
    <3>. HIDE DEF env
    <3>1. /\ Sending({env}) /\ Posts(act[Targets[host.i]], act'[Targets[host.i]], env)
          /\ \A b \in Actor : b # Targets[host.i] => act'[b] = act[b]
      BY <1>0, <1>e, <2>1, <2>4, SendingHas
    <3>. QED  BY <1>0, <1>e, <1>m, <2>1, <2>2, <3>1 DEF ResumeOne, Goes, Sends, env
  <2>5. CASE host' = [Return(Worst("resume")) EXCEPT !.refused = left]
    BY <1>0, <1>4, <2>2, <2>5 DEF Return, HostRecord
  <2>6. CASE host.i = 0 /\ host' = [host EXCEPT !.pc = "drain"] /\ UNCHANGED act
    BY <1>0, <1>4, <2>6
  <2>. QED  BY <1>1, <2>3, <2>4, <2>5, <2>6
<1>. QED  BY <1>1, <1>2, <1>3, <1>4

LEMMA ChangeSteps ==
  ASSUME TypeInv, ChangeNext
  PROVE  ChangeOne \/ ChangesDone
<1>. DEFINE n1 == host.n + 1
            env == System("CodeChange", Target, n1, host.tx)
            last == Len(Targets)
<1>0. /\ UNCHANGED <<upgrades, changed>> /\ host.pc = "change" /\ host.tx # 0
      /\ host \in HostRecord /\ RecordsOK /\ host.i \in Nat /\ host.i >= 1
      /\ DOMAIN Order = 1..Len(Order) /\ Len(Order) \in Nat
      /\ \A i \in 1..Len(Order) : Order[i] \in Actor
      /\ n1 \in Nat /\ host.tx \in Nat /\ host.failed = "no"
  BY HostHas DEF ChangeNext, bounds, TypeInv, PlaceOK, HostOK, Order
<1>e. env \in Envelope
  BY <1>0, SystemHas DEF Message
<1>1. \/ /\ host.i > Len(Order) /\ UNCHANGED act
         /\ host' = [host EXCEPT !.pc = "resume", !.i = last]
      \/ /\ host' = [host EXCEPT !.pc = "resume", !.failed = "change", !.i = last]
         /\ UNCHANGED act
      \/ /\ host.i <= Len(Order) /\ act' = Pushed(act, Order[host.i], env)
         /\ host' = [host EXCEPT !.pc = "await", !.n = n1, !.reply = "none"]
  BY DEF ChangeNext, ChangeFailed, Order, Targets
<1>n. n1 = host.n + 1
  OBVIOUS
<1>. HIDE DEF n1, last
<1>2. CASE /\ host.i > Len(Order) /\ UNCHANGED act
           /\ host' = [host EXCEPT !.pc = "resume", !.i = last]
  BY <1>0, <1>2 DEF ChangesDone, Goes, Calm, HostRecord, last
<1>3. CASE /\ host' = [host EXCEPT !.pc = "resume", !.failed = "change", !.i = last]
           /\ UNCHANGED act
  BY <1>0, <1>3 DEF ChangesDone, Goes, Calm, HostRecord, last
<1>4. CASE /\ host.i <= Len(Order) /\ act' = Pushed(act, Order[host.i], env)
           /\ host' = [host EXCEPT !.pc = "await", !.n = n1, !.reply = "none"]
  <2>1. host.i \in DOMAIN Order /\ Order[host.i] \in Actor
    BY <1>0, <1>4
  <2>. HIDE DEF env
  <2>2. /\ Sending({env}) /\ Posts(act[Order[host.i]], act'[Order[host.i]], env)
        /\ \A b \in Actor : b # Order[host.i] => act'[b] = act[b]
    BY <1>0, <1>e, <1>4, <2>1, SendingHas
  <2>3. /\ host'.pc = "await" /\ host'.i = host.i /\ host'.tx = host.tx
        /\ host'.plan = host.plan /\ host'.n = n1 /\ host'.reply = "none"
        /\ host'.upgraded = host.upgraded
    BY <1>0, <1>4 DEF HostRecord
  <2>4. env = System("CodeChange", Target, host.n + 1, host.tx)
    BY <1>n DEF env
  <2>. QED  BY <1>0, <1>e, <1>n, <2>1, <2>2, <2>3, <2>4 DEF ChangeOne, Goes, Sends
<1>. QED  BY <1>1, <1>2, <1>3, <1>4

LEMMA QuietSteps ==
  ASSUME TypeInv,
         \/ rt = "concurrent" /\ (Quiesce \/ Drain)
         \/ rt = "local" /\ (LocalQuiesce \/ LocalDrain)
  PROVE  QuietStep \/ Returns
<1>0. /\ UNCHANGED <<act, upgrades, changed>> /\ host.tx # 0
      /\ host.pc \in {"quiesce", "drain"} /\ host \in HostRecord
      /\ host.failed \in {"no", "change"}
  BY DEF Quiesce, Drain, LocalQuiesce, LocalDrain, bounds, TypeInv, PlaceOK, HostOK
<1>1. \/ /\ host.pc = "quiesce" /\ host' = [host EXCEPT !.pc = "change", !.i = 1]
         /\ rt = "local" \/ StuckAt(host.plan.suspendOrder, QuietActors) = {}
      \/ host' = [Return("quiesce") EXCEPT !.suspended = {}]
      \/ host.pc = "drain" /\ host' = Return(host.failed)
      \/ host.pc = "drain" /\ host' = Return(Worst("resume"))
  BY DEF Quiesce, Drain, LocalQuiesce, LocalDrain
<1>2. CASE /\ host.pc = "quiesce" /\ host' = [host EXCEPT !.pc = "change", !.i = 1]
           /\ rt = "local" \/ StuckAt(host.plan.suspendOrder, QuietActors) = {}
  BY <1>0, <1>2 DEF QuietStep, Goes, Calm, HostRecord
<1>3. CASE host' = [Return("quiesce") EXCEPT !.suspended = {}]
  BY <1>0, <1>3 DEF Return, Returns, Goes, Calm, HostRecord
<1>4. CASE host.pc = "drain" /\ host' = Return(host.failed)
  BY <1>0, <1>4 DEF Return, Returns, Goes, Calm, HostRecord
<1>5. CASE host.pc = "drain" /\ host' = Return(Worst("resume"))
  BY <1>0, <1>5 DEF Return, Returns, Goes, Calm, HostRecord, Worst
<1>. QED  BY <1>1, <1>2, <1>3, <1>4, <1>5

\* Every step is one of an actor or one of these.
LEMMA StepHas ==
  ASSUME TypeInv, SoundInv, LocalInv, [Next]_vars
  PROVE  \/ ByActors
         \/ HostStep /\ UNCHANGED <<rt, running>>
         \/ UNCHANGED <<rt, running, act, host, upgrades, changed>>
<1>1. ASSUME NEW a \in Actor,
             \/ Turn(a) \/ StopTurn(a) \/ LocalTurn(a) \/ LocalStop(a)
             \/ LocalForcedExit(a) \/ UserMail(a)
      PROVE  ByActors
  BY <1>1, ByActorsHas
<1>2. CASE UpgradeTree \/ LocalUpgradeTree
  <2>1. UNCHANGED <<rt, running>>
    BY <1>2 DEF UpgradeTree, LocalUpgradeTree, LocalPlanUpgrade, StartUpgrade,
         PlanUpgrade, SuspendNext, Quiesce, ChangeNext, ResumeNext, Drain,
         LocalQuiesce, LocalDrain
  <2>2. HostStep
    BY <1>2, StartSteps, PlanSteps, SuspendSteps, QuietSteps, ChangeSteps, ResumeSteps
       DEF UpgradeTree, LocalUpgradeTree, LocalPlanUpgrade, HostStep
  <2>. QED  BY <2>1, <2>2
<1>3. CASE \E a \in Called : \/ Suspend(a) \/ Resume(a) \/ GetState(a)
                             \/ ReplaceState(a) \/ CodeChange(a)
  <2>1. UNCHANGED <<rt, running>>
    BY <1>3 DEF Suspend, Resume, GetState, ReplaceState, CodeChange, SendControl,
         Request
  <2>. QED  BY <1>3, <2>1, CallSteps DEF HostStep
<1>4. CASE RunUntilIdle \/ RanUntilIdle \/ ReturnToCaller
  <2>1. UNCHANGED <<rt, running>>
    BY <1>4 DEF RunUntilIdle, RanUntilIdle, ReturnToCaller
  <2>. QED  BY <1>4, <2>1, IdleSteps
<1>5. CASE AwaitReply \/ LocalAwaitReply
  <2>1. UNCHANGED <<rt, running>>
    BY <1>5 DEF AwaitReply, LocalAwaitReply
  <2>. QED  BY <1>5, <2>1, WaitSteps DEF HostStep
<1>6. CASE UNCHANGED vars
  BY <1>6 DEF vars, bounds
<1>. QED  BY <1>1, <1>2, <1>3, <1>4, <1>5, <1>6 DEF Next

LEMMA ByActorsHost ==
  ASSUME TypeInv, ByActors
  PROVE  /\ host'.pc = host.pc /\ host'.i = host.i /\ host'.n = host.n
         /\ host'.tx = host.tx /\ host'.plan = host.plan /\ host'.todo = host.todo
         /\ host'.failed = host.failed /\ host'.upgraded = host.upgraded
         /\ host'.refused = host.refused
         /\ upgrades' = upgrades
<1>1. host \in HostRecord
  BY DEF TypeInv, HostOK
<1>. QED  BY <1>1 DEF ByActors, HostListens, HostRecord

\* A Suspend is only sent by a call or while the tree is suspended, a Resume
\* only by a call or while it is resumed.
LEMMA HostSending ==
  ASSUME TypeInv, HostStep
  PROVE  \E E \in SUBSET Envelope :
           /\ Sending(E)
           /\ \A env \in E :
                /\ IsTurn(env, "Suspend") => host.pc \in {"idle", "suspend"}
                /\ IsTurn(env, "Resume") => host.pc \in {"idle", "resume"}
<1>0. RecordsOK /\ host.n \in Nat /\ host.tx \in Nat /\ {} \in SUBSET Envelope
  BY HostHas DEF TypeInv
<1>1. CASE UNCHANGED act
  BY <1>0, <1>1, NotSendingHas
<1>2. CASE CallStep
  BY <1>2 DEF CallStep
<1>3. CASE SuspendOne
  <2>1. IsTurn(System("Suspend", 0, 0, 0), "Suspend")
        /\ ~IsTurn(System("Suspend", 0, 0, 0), "Resume")
    BY DEF System, IsTurn
  <2>. QED  BY <1>3, <2>1 DEF SuspendOne, Sends, Goes
<1>4. CASE ResumeOne /\ ~UNCHANGED act
  <2>1. IsTurn(System("Resume", 0, 0, 0), "Resume")
        /\ ~IsTurn(System("Resume", 0, 0, 0), "Suspend")
    BY DEF System, IsTurn
  <2>. QED  BY <1>4, <2>1 DEF ResumeOne, Sends, Goes, Calm
<1>5. CASE ChangeOne
  <2>. DEFINE env == System("CodeChange", Target, host.n + 1, host.tx)
  <2>1. ~IsTurn(env, "Resume") /\ ~IsTurn(env, "Suspend")
    BY DEF System, IsTurn
  <2>. HIDE DEF env
  <2>2. env \in Envelope /\ Sending({env})
    BY <1>5 DEF ChangeOne, Sends, env
  <2>. QED  BY <2>1, <2>2
<1>6. BackStep \/ StartStep \/ WalkOn \/ WalkDone \/ SuspendsDone \/ QuietStep
      \/ AwaitOk \/ ChangesDone \/ ResumesDone \/ Returns => UNCHANGED act
  BY DEF BackStep, StartStep, WalkOn, WalkDone, SuspendsDone, QuietStep,
         AwaitOk, ChangesDone, ResumesDone, Returns, Calm
<1>. QED  BY <1>1, <1>2, <1>3, <1>4, <1>5, <1>6 DEF HostStep

LEMMA SoundStep ==
  TypeInv /\ SoundInv /\ LocalInv /\ [Next]_vars => SoundInv' /\ LocalInv'
<1>. SUFFICES ASSUME TypeInv, SoundInv, LocalInv, [Next]_vars
              PROVE  SoundInv' /\ LocalInv'
  OBVIOUS
<1>0. \A a \in Actor : act[a] \in Record
  BY DEF TypeInv, RecordsOK
<1>1. ASSUME NEW E \in SUBSET Envelope, Moving(E)
      PROVE  SoundInv'
  <2>. SUFFICES ASSUME NEW a \in Actor PROVE Sound(act'[a])
    BY DEF SoundInv
  <2>1. act'[a] \in Record /\ Motion(act[a], act'[a], E)
    BY <1>1 DEF Moving, RecordsOK
  <2>2. E \subseteq Envelope
    OBVIOUS
  <2>. QED  BY <1>0, <2>1, <2>2, SoundKept DEF SoundInv
<1>2. CASE ByActors
  <2>1. Moving(Ordinary)
    BY <1>2 DEF ByActors, Moving
  <2>2. LocalInv'
    BY <1>2 DEF ByActors, LocalInv
  <2>. QED  BY <1>1, <2>1, <2>2, OrdinaryHas
<1>3. CASE HostStep /\ UNCHANGED <<rt, running>>
  <2>1. PICK E \in SUBSET Envelope : Sending(E)
    BY <1>3, HostSending
  <2>2. \A a \in Actor : act'[a].at = act[a].at
    BY <2>1 DEF Sending, Posts
  <2>. QED  BY <1>1, <1>3, <2>1, <2>2, SendingMoves DEF LocalInv
<1>4. CASE UNCHANGED <<rt, running, act, host, upgrades, changed>>
  BY <1>4 DEF SoundInv, LocalInv
<1>. QED  BY <1>2, <1>3, <1>4, StepHas
-----------------------------------------------------------------------------
(* A tree is quiet while its code is changed.                              *)

\* What an actor was sent, or is in force, stays in a step that does not send
\* the opposite.
LEMMA MovingKeeps ==
  ASSUME TypeInv, NEW E \in SUBSET Envelope, Moving(E),
         NEW m \in {"Suspend", "Resume"}, \A env \in E : ~IsTurn(env, Other(m)),
         NEW a \in Actor, act'[a].live
  PROVE  /\ act[a].live
         /\ EndsAs(act[a], m) => EndsAs(act'[a], m)
         /\ InForce(act[a], m) => InForce(act'[a], m)
<1>1. act[a] \in Record /\ act'[a] \in Record /\ Motion(act[a], act'[a], E)
  BY DEF TypeInv, RecordsOK, Moving
<1>2. act[a].live
  BY <1>1 DEF Motion, Rests, Takes, Begins, Finishes, TurnsAtOnce, Dies, Posts, Like
<1>3. E \subseteq Envelope
  OBVIOUS
<1>. QED  BY <1>1, <1>2, <1>3, EndKept, ForceKept

\* Every step moves the actors in such a way.
LEMMA StepMoves ==
  ASSUME TypeInv, SoundInv, LocalInv, [Next]_vars
  PROVE  \E E \in SUBSET Envelope :
           /\ Moving(E)
           /\ \A env \in E :
                /\ IsTurn(env, "Suspend") => host.pc \in {"idle", "suspend"}
                /\ IsTurn(env, "Resume") => host.pc \in {"idle", "resume"}
<1>1. CASE ByActors
  <2>1. Moving(Ordinary) /\ Ordinary \in SUBSET Envelope
    BY <1>1, OrdinaryHas DEF ByActors, Moving
  <2>2. \A env \in Ordinary : ~IsTurn(env, "Suspend") /\ ~IsTurn(env, "Resume")
    BY DEF Ordinary, User, Exit, IsTurn
  <2>. QED  BY <2>1, <2>2
<1>2. CASE HostStep
  BY <1>2, HostSending, SendingMoves
<1>3. CASE UNCHANGED act
  <2>1. Sending({}) /\ {} \in SUBSET Envelope
    BY <1>3, NotSendingHas DEF TypeInv
  <2>. QED  BY <2>1, SendingMoves
<1>. QED  BY <1>1, <1>2, <1>3, StepHas

LEMMA SetOfAppend ==
  ASSUME NEW S, NEW q \in Seq(S), NEW x \in S
  PROVE  ToSetOf(Append(q, x)) = ToSetOf(q) \cup {x}
<1>. DEFINE t == Append(q, x)
<1>1. /\ DOMAIN q = 1..Len(q) /\ Len(q) \in Nat /\ DOMAIN t = 1..(Len(q) + 1)
      /\ \A i \in 1..Len(q) : t[i] = q[i]
      /\ t[Len(q) + 1] = x
  BY AppendHas
<1>. HIDE DEF t
<1>2. \A i \in DOMAIN t : (i \in DOMAIN q /\ t[i] = q[i]) \/ t[i] = x
  BY <1>1
<1>3. \A i \in DOMAIN q : i \in DOMAIN t /\ t[i] = q[i]
  BY <1>1
<1>4. \E i \in DOMAIN t : t[i] = x
  BY <1>1
<1>5. ToSetOf(t) = ToSetOf(q) \cup {x}
  BY <1>2, <1>3, <1>4 DEF ToSetOf
<1>. QED  BY <1>5 DEF t

LEMMA PlanStep ==
  ASSUME TypeInv, TypeInv', SoundInv, LocalInv, PlanInv, [Next]_vars
  PROVE  PlanInv'
<1>1. CASE host'.plan = host.plan
  BY <1>1 DEF PlanInv, Targets
<1>2. CASE host'.plan = NoPlan
  BY <1>2 DEF PlanInv, Targets, NoPlan, ToSetOf
<1>3. CASE WalkOn
  <2>1. CASE StaysOut
    BY <2>1 DEF StaysOut, PlanInv, Targets
  <2>2. ASSUME NEW a \in Actor, Enters(a)
        PROVE  PlanInv'
    <3>. DEFINE s == host.plan.suspendOrder
    <3>1. s \in Seq(Actor) /\ Targets \in Seq(Actor)
      BY HostHas DEF Targets
    <3>2. /\ ToSetOf(Append(s, a)) = ToSetOf(s) \cup {a}
          /\ ToSetOf(Append(Targets, a)) = ToSetOf(Targets) \cup {a}
      BY <3>1, SetOfAppend
    <3>. QED  BY <2>2, <3>2 DEF Enters, PlanInv, Targets
  <2>3. Head(host.todo).actor \in Actor
    BY <1>3 DEF WalkOn, Item
  <2>. QED  BY <1>1, <1>3, <2>1, <2>2, <2>3 DEF WalkOn, WalkStep
<1>4. ByActors => host'.plan = host.plan
  BY ByActorsHost
<1>5. CallStep \/ BackStep => host'.plan = NoPlan
  BY DEF CallStep, BackStep, TypeInv, PlaceOK
<1>6. StartStep => host'.plan = NoPlan
  BY DEF StartStep
<1>7. \/ WalkDone \/ SuspendOne \/ SuspendsDone \/ QuietStep \/ ChangeOne \/ AwaitOk
      \/ ChangesDone \/ ResumeOne \/ ResumesDone \/ Returns
      => host'.plan = host.plan
  BY DEF WalkDone, SuspendOne, SuspendsDone, QuietStep, ChangeOne, AwaitOk,
         ChangesDone, ResumeOne, ResumesDone, Returns, Goes
<1>. QED  BY <1>1, <1>2, <1>3, <1>4, <1>5, <1>6, <1>7, StepHas DEF HostStep

\* The targets that have been sent their Suspend keep it.
LEMMA SuspendStep ==
  ASSUME TypeInv, TypeInv', SoundInv, LocalInv, SuspendInv, [Next]_vars
  PROVE  SuspendInv'
<1>0. /\ Targets \in Seq(Actor) /\ DOMAIN Targets = 1..Len(Targets)
      /\ Len(Targets) \in Nat /\ host.i \in Nat
      /\ \A i \in 1..Len(Targets) : Targets[i] \in Actor
  BY HostHas DEF Targets
<1>s. Suspended \subseteq Actor
  BY <1>0 DEF Suspended, ToSetOf
<1>1. ASSUME Suspended' \subseteq Suspended, host.pc \in {"suspend", "quiesce"}
      PROVE  SuspendInv'
  <2>. SUFFICES ASSUME NEW a \in Suspended, act'[a].live
                PROVE  EndsAs(act'[a], "Suspend")
    BY <1>1 DEF SuspendInv
  <2>1. PICK E \in SUBSET Envelope :
          Moving(E) /\ \A env \in E : ~IsTurn(env, Other("Suspend"))
    BY <1>1, StepMoves DEF Other
  <2>2. a \in Actor
    BY <1>s
  <2>. QED  BY <2>1, <2>2, MovingKeeps DEF SuspendInv
<1>2. CASE Suspended' = {}
  BY <1>2 DEF SuspendInv
<1>3. CASE SuspendOne
  <2>. DEFINE b == Targets[host.i]
              env == System("Suspend", 0, 0, 0)
  <2>1. /\ b \in Actor /\ env \in Envelope /\ Posts(act[b], act'[b], env)
        /\ IsTurn(env, "Suspend")
    BY <1>0, <1>3 DEF SuspendOne, Sends, System, IsTurn
  <2>2. act[b] \in Record /\ act'[b] \in Record
    BY <2>1 DEF TypeInv, RecordsOK
  <2>3. EndsAs(act'[b], "Suspend")
    <3>. HIDE DEF b, env
    <3>. QED  BY <2>1, <2>2, EndSent
  <2>4. Suspended' \subseteq Suspended \cup {b}
    <3>1. /\ Suspended' = {Targets[j] : j \in {j \in DOMAIN Targets : j < host.i + 1}}
          /\ Suspended = {Targets[j] : j \in {j \in DOMAIN Targets : j < host.i}}
      BY <1>3 DEF SuspendOne, Goes, Suspended, Targets
    <3>2. \A j \in DOMAIN Targets : j < host.i + 1 => j < host.i \/ j = host.i
      BY <1>0
    <3>. QED  BY <3>1, <3>2
  <2>. SUFFICES ASSUME NEW a \in Suspended, act'[a].live
                PROVE  EndsAs(act'[a], "Suspend")
    BY <2>3, <2>4 DEF SuspendInv
  <2>5. PICK E \in SUBSET Envelope :
          Moving(E) /\ \A e \in E : ~IsTurn(e, Other("Suspend"))
    BY <1>3, StepMoves DEF Other, SuspendOne, Goes
  <2>6. a \in Actor
    BY <1>s
  <2>. QED  BY <2>5, <2>6, MovingKeeps DEF SuspendInv
<1>4. CASE SuspendsDone
  <2>1. Suspended' \subseteq Suspended
    <3>1. \A j \in DOMAIN Targets : j < host.i
      BY <1>0, <1>4 DEF SuspendsDone
    <3>2. Suspended' = ToSetOf(Targets)
      BY <1>4 DEF SuspendsDone, Goes, Suspended, Targets
    <3>3. Suspended = {Targets[j] : j \in {j \in DOMAIN Targets : j < host.i}}
      BY <1>4 DEF SuspendsDone, Goes, Suspended
    <3>. QED  BY <3>1, <3>2, <3>3 DEF ToSetOf
  <2>. QED  BY <1>1, <1>4, <2>1 DEF SuspendsDone, Goes
<1>5. CASE WalkDone
  <2>1. Suspended' = {Targets'[j] : j \in {j \in DOMAIN Targets' : j < 1}}
    BY <1>5 DEF WalkDone, Goes, Suspended
  <2>2. Targets' = Targets
    BY <1>5 DEF WalkDone, Goes, Targets
  <2>. QED  BY <1>0, <1>2, <2>1, <2>2
<1>6. CASE ByActors \/ UNCHANGED <<rt, running, act, host, upgrades, changed>>
  <2>1. host'.pc = host.pc /\ host'.i = host.i /\ host'.plan = host.plan
    BY <1>6, ByActorsHost
  <2>2. Suspended' = Suspended
    BY <2>1 DEF Suspended, Targets
  <2>3. host.pc \notin {"suspend", "quiesce"} => Suspended = {}
    BY DEF Suspended
  <2>. QED  BY <1>1, <1>2, <2>2, <2>3
<1>7. \/ CallStep \/ BackStep \/ StartStep \/ WalkOn \/ QuietStep
      \/ ChangeOne \/ AwaitOk \/ ChangesDone \/ ResumeOne \/ ResumesDone \/ Returns
      => host'.pc \notin {"suspend", "quiesce"}
  BY DEF CallStep, BackStep, StartStep, WalkOn, Walks, QuietStep, ChangeOne, AwaitOk,
         ChangesDone, ResumeOne, ResumesDone, Returns, Goes
<1>8. host'.pc \notin {"suspend", "quiesce"} => Suspended' = {}
  BY DEF Suspended
<1>. QED  BY <1>2, <1>3, <1>4, <1>5, <1>6, <1>7, <1>8, StepHas DEF HostStep

\* While code is changed the Suspend is in force.
LEMMA QuietStays ==
  ASSUME TypeInv, TypeInv', SoundInv, LocalInv, PlanInv, SuspendInv, QuietInv,
         [Next]_vars
  PROVE  QuietInv'
<1>0. /\ Targets \in Seq(Actor) /\ DOMAIN Targets = 1..Len(Targets)
      /\ \A i \in 1..Len(Targets) : Targets[i] \in Actor
  BY HostHas DEF Targets
<1>s. ToSetOf(Targets) \subseteq Actor
  BY <1>0 DEF ToSetOf
<1>1. ASSUME host.tx # 0, host.pc \in {"change", "await"},
             host'.plan = host.plan, rt' = rt
      PROVE  QuietInv'
  <2>. SUFFICES ASSUME rt # "local", NEW a \in ToSetOf(Targets), act'[a].live
                PROVE  InForce(act'[a], "Suspend")
    BY <1>1 DEF QuietInv, Targets
  <2>1. PICK E \in SUBSET Envelope :
          Moving(E) /\ \A env \in E : ~IsTurn(env, Other("Suspend"))
    BY <1>1, StepMoves DEF Other
  <2>2. a \in Actor
    BY <1>s
  <2>3. act[a].live
    BY <2>1, <2>2, MovingKeeps
  <2>4. InForce(act[a], "Suspend")
    BY <1>1, <2>3 DEF QuietInv
  <2>. QED  BY <2>1, <2>2, <2>4, MovingKeeps
<1>2. CASE QuietStep /\ rt' = rt
  <2>. SUFFICES ASSUME rt # "local", NEW a \in ToSetOf(Targets), act[a].live
                PROVE  InForce(act[a], "Suspend")
    BY <1>2 DEF QuietStep, Goes, Calm, QuietInv, Targets
  <2>1. a \in Actor /\ act[a] \in Record
    BY <1>s DEF TypeInv, RecordsOK
  <2>2. EndsAs(act[a], "Suspend")
    BY <1>2 DEF QuietStep, Goes, SuspendInv, Suspended
  <2>3. a \in QuietActors
    BY <1>2 DEF QuietStep, StuckAt, PlanInv
  <2>4. act[a].suspended /\ RunnableWhileSuspended(act[a].mailbox) = {}
    BY <2>3 DEF QuietActors, AnyMatching
  <2>. QED  BY <2>1, <2>2, <2>4, QuietInForce DEF RunnableWhileSuspended
<1>3. CASE host'.tx = 0 \/ host'.pc \notin {"change", "await"}
  BY <1>3 DEF QuietInv
<1>4. CASE ByActors \/ UNCHANGED <<rt, running, act, host, upgrades, changed>>
  <2>1. host'.pc = host.pc /\ host'.tx = host.tx /\ host'.plan = host.plan /\ rt' = rt
    BY <1>4, ByActorsHost DEF ByActors
  <2>. QED  BY <1>1, <1>3, <2>1
<1>5. CASE ChangeOne \/ AwaitOk
  BY <1>1, <1>5, StepHas DEF ByActors, ChangeOne, AwaitOk, Goes
<1>6. CallStep \/ BackStep => host'.tx = 0
  BY DEF CallStep, BackStep
<1>7. \/ StartStep \/ WalkOn \/ WalkDone \/ SuspendOne \/ SuspendsDone
      \/ ChangesDone \/ ResumeOne \/ ResumesDone \/ Returns
      => host'.pc \notin {"change", "await"}
  BY DEF StartStep, WalkOn, Walks, WalkDone, SuspendOne, SuspendsDone,
         ChangesDone, ResumeOne, ResumesDone, Returns, Goes
<1>. QED  BY <1>2, <1>3, <1>4, <1>5, <1>6, <1>7, StepHas DEF HostStep

\* The targets that have been sent their Resume keep it, also when the upgrade
\* has returned.
LEMMA ResumeStays ==
  ASSUME TypeInv, TypeInv', SoundInv, LocalInv, ResumeInv, [Next]_vars
  PROVE  ResumeInv'
<1>0. /\ Targets \in Seq(Actor) /\ DOMAIN Targets = 1..Len(Targets)
      /\ Len(Targets) \in Nat /\ host.i \in Nat
      /\ \A i \in 1..Len(Targets) : Targets[i] \in Actor
  BY HostHas DEF Targets
<1>s. Resumed \subseteq Actor
  BY <1>0 DEF Resumed, ToSetOf
<1>k. ASSUME host.pc \in {"resume", "drain", "returned"}, NEW a \in Resumed, act'[a].live
      PROVE  EndsAs(act'[a], "Resume")
  <2>1. PICK E \in SUBSET Envelope :
          Moving(E) /\ \A env \in E : ~IsTurn(env, Other("Resume"))
    BY <1>k, StepMoves DEF Other
  <2>2. a \in Actor
    BY <1>s
  <2>. QED  BY <1>k, <2>1, <2>2, MovingKeeps DEF ResumeInv
<1>1. ASSUME Resumed' \subseteq Resumed, host.pc \in {"resume", "drain", "returned"}
      PROVE  ResumeInv'
  BY <1>1, <1>k DEF ResumeInv
<1>2. CASE Resumed' = {}
  BY <1>2 DEF ResumeInv
<1>3. CASE ResumeOne
  <2>. DEFINE b == Targets[host.i]
              env == System("Resume", 0, 0, 0)
  <2>1. b \in Actor /\ host.pc = "resume"
    BY <1>0, <1>3 DEF ResumeOne, Goes
  <2>2. act'[b].live => EndsAs(act'[b], "Resume")
    <3>1. CASE Sends(b, env)
      <4>1. env \in Envelope /\ Posts(act[b], act'[b], env) /\ IsTurn(env, "Resume")
        BY <3>1 DEF Sends, System, IsTurn
      <4>2. act[b] \in Record /\ act'[b] \in Record
        BY <2>1 DEF TypeInv, RecordsOK
      <4>. HIDE DEF b, env
      <4>. QED  BY <4>1, <4>2, EndSent
    <3>2. CASE Calm /\ ~act[b].live
      BY <3>2 DEF Calm
    <3>. QED  BY <1>3, <3>1, <3>2 DEF ResumeOne
  <2>3. Resumed' \subseteq Resumed \cup {b}
    <3>1. /\ Resumed' = {Targets[j] : j \in {j \in DOMAIN Targets : j > host.i - 1}}
          /\ Resumed = {Targets[j] : j \in {j \in DOMAIN Targets : j > host.i}}
      BY <1>3 DEF ResumeOne, Goes, Resumed, Targets
    <3>2. \A j \in DOMAIN Targets : j > host.i - 1 => j > host.i \/ j = host.i
      BY <1>0
    <3>. QED  BY <3>1, <3>2
  <2>. QED  BY <1>k, <2>1, <2>2, <2>3 DEF ResumeInv
<1>4. CASE ResumesDone
  <2>1. Resumed' \subseteq Resumed
    <3>1. \A j \in DOMAIN Targets : j > host.i
      BY <1>0, <1>4 DEF ResumesDone
    <3>2. Resumed' = ToSetOf(Targets)
      BY <1>4 DEF ResumesDone, Goes, Resumed, Targets
    <3>3. Resumed = {Targets[j] : j \in {j \in DOMAIN Targets : j > host.i}}
      BY <1>4 DEF ResumesDone, Goes, Resumed
    <3>. QED  BY <3>1, <3>2, <3>3 DEF ToSetOf
  <2>. QED  BY <1>1, <1>4, <2>1 DEF ResumesDone, Goes
<1>5. CASE ChangesDone
  <2>1. Resumed' = {Targets'[j] : j \in {j \in DOMAIN Targets' : j > Len(Targets)}}
    BY <1>5 DEF ChangesDone, Goes, Resumed
  <2>2. Targets' = Targets
    BY <1>5 DEF ChangesDone, Goes, Targets
  <2>. QED  BY <1>0, <1>2, <2>1, <2>2
<1>6. CASE Returns
  <2>t. Targets' = Targets /\ host'.pc = "returned"
    BY <1>6 DEF Returns, Goes, Targets
  <2>1. CASE host'.failed \notin {"no", "change"}
    BY <1>2, <2>1, <2>t DEF Resumed
  <2>2. CASE host'.failed \in {"no", "change"} /\ host.pc = "drain"
    <3>1. Resumed' \subseteq ToSetOf(Targets) /\ Resumed = ToSetOf(Targets)
      BY <2>2, <2>t DEF Resumed
    <3>. QED  BY <1>1, <2>2, <3>1
  <2>3. CASE host'.failed \in {"no", "change"} /\ host.pc = "resume"
    <3>1. host'.refused = {Targets[j] : j \in 1..host.i}
      BY <1>6, <2>3 DEF Returns
    <3>2. Resumed' = ToSetOf(Targets) \ {Targets[j] : j \in 1..host.i}
      BY <2>3, <2>t, <3>1 DEF Resumed
    <3>3. Resumed = {Targets[j] : j \in {j \in DOMAIN Targets : j > host.i}}
      BY <2>3 DEF Resumed
    <3>4. \A j \in DOMAIN Targets : j \in 1..host.i \/ j > host.i
      BY <1>0
    <3>. QED  BY <1>1, <2>3, <3>2, <3>3, <3>4 DEF ToSetOf
  <2>. QED  BY <1>6, <2>1, <2>2, <2>3 DEF Returns
<1>7. CASE ByActors \/ UNCHANGED <<rt, running, act, host, upgrades, changed>>
  <2>1. /\ host'.pc = host.pc /\ host'.i = host.i /\ host'.plan = host.plan
        /\ host'.failed = host.failed /\ host'.refused = host.refused
    BY <1>7, ByActorsHost
  <2>2. Resumed' = Resumed
    BY <2>1 DEF Resumed, Targets
  <2>3. host.pc \notin {"resume", "drain", "returned"} => Resumed = {}
    BY DEF Resumed
  <2>. QED  BY <1>1, <1>2, <2>2, <2>3
<1>8. CASE StartStep
  <2>1. host'.pc = "plan" \/ (host'.pc = "returned" /\ host'.failed = "plan")
    BY <1>8 DEF StartStep
  <2>. QED  BY <1>2, <2>1 DEF Resumed
<1>9. \/ CallStep \/ BackStep \/ WalkOn \/ WalkDone \/ SuspendOne \/ SuspendsDone
      \/ QuietStep \/ ChangeOne \/ AwaitOk
      => host'.pc \notin {"resume", "drain", "returned"}
  BY DEF CallStep, BackStep, WalkOn, Walks, WalkDone, SuspendOne, SuspendsDone,
         QuietStep, ChangeOne, AwaitOk, Goes
<1>10. host'.pc \notin {"resume", "drain", "returned"} => Resumed' = {}
  BY DEF Resumed
<1>. QED  BY <1>2, <1>3, <1>4, <1>5, <1>6, <1>7, <1>8, <1>9, <1>10, StepHas
          DEF HostStep

QuietSafety ==
  TypeInv /\ SoundInv /\ LocalInv /\ PlanInv /\ SuspendInv /\ QuietInv /\ ResumeInv

LEMMA QuietInit == Init => QuietSafety
<1>. SUFFICES ASSUME Init PROVE QuietSafety
  OBVIOUS
<1>1. \A a \in Actor : Sound(act[a]) /\ act[a].at \notin InTurn
  BY DEF Init, NewActor, Sound, InTurn
<1>2. host.pc = "idle" /\ host.plan = NoPlan
  BY DEF Init, HostIdle
<1>3. PlanInv
  BY <1>2 DEF PlanInv, Targets, NoPlan, ToSetOf
<1>4. Suspended = {} /\ Resumed = {}
  BY <1>2 DEF Suspended, Resumed
<1>. QED  BY <1>1, <1>2, <1>3, <1>4, TypeInit
          DEF QuietSafety, SoundInv, LocalInv, SuspendInv, QuietInv, ResumeInv

LEMMA QuietStep2 == QuietSafety /\ [Next]_vars => QuietSafety'
BY TypeStep, SoundStep, PlanStep, SuspendStep, QuietStays, ResumeStays
   DEF QuietSafety

\* For every tree and in both runtimes: while an upgrade changes code, no actor
\* that it has suspended holds or handles user mail.
THEOREM TreeIsQuiet == Spec => []QuietWhileChanging
<1>1. QuietSafety => QuietWhileChanging
  <2>. SUFFICES ASSUME QuietSafety, host.tx # 0, host.pc \in {"change", "await"},
                       NEW a \in ToSetOf(Targets)
                PROVE  act[a].hand.kind # "User"
    BY DEF QuietWhileChanging, Targets
  <2>1. a \in Actor
    <3>1. /\ TypeInv /\ DOMAIN Targets = 1..Len(Targets)
          /\ \A i \in 1..Len(Targets) : Targets[i] \in Actor
      BY HostHas DEF QuietSafety, Targets
    <3>. QED  BY <3>1 DEF ToSetOf
  <2>2. Sound(act[a])
    BY <2>1 DEF QuietSafety, SoundInv
  <2>3. Nothing.kind # "User"
    BY DEF Nothing
  <2>4. CASE act[a].at \notin InTurn
    BY <2>2, <2>3, <2>4 DEF Sound
  <2>5. CASE act[a].at \in InTurn
    <3>1. rt # "local" /\ act[a].live
      BY <2>1, <2>2, <2>5 DEF QuietSafety, LocalInv, Sound, InTurn
    <3>2. act[a].suspended
      BY <3>1 DEF QuietSafety, QuietInv, InForce
    <3>. QED  BY <2>2, <2>5, <3>2 DEF Sound
  <2>. QED  BY <2>4, <2>5
<1>. QED  BY <1>1, QuietInit, QuietStep2, PTL DEF Spec

\* For every tree and in both runtimes: the state of an actor has the schema of
\* its version, whenever its snapshots were taken and are written back.
THEOREM SchemasMatch == Spec => []SchemaMatches
<1>1. QuietSafety => SchemaMatches
  BY DEF QuietSafety, SoundInv, Sound, SchemaMatches
<1>. QED  BY <1>1, QuietInit, QuietStep2, PTL DEF Spec
-----------------------------------------------------------------------------
(* What an upgrade reports, and the order in which it changes code.        *)

\* An envelope that is held after a step was held or is sent in it.
LEMMA HeldBefore ==
  ASSUME TypeInv, NEW E \in SUBSET Envelope, Moving(E), NEW a \in Actor,
         NEW env \in Envelope, Holds(act'[a], env)
  PROVE  Holds(act[a], env) \/ env \in E
<1>1. act[a] \in Record /\ act'[a] \in Record /\ Motion(act[a], act'[a], E)
  BY DEF TypeInv, RecordsOK, Moving
<1>2. E \subseteq Envelope
  OBVIOUS
<1>. QED  BY <1>1, <1>2, HoldsBefore

\* The System envelopes that the host's steps send: none, one of a single call,
\* a Suspend or a Resume, or the next code change.
LEMMA HeldAfter ==
  ASSUME TypeInv, SoundInv, LocalInv, [Next]_vars, NEW a \in Actor,
         NEW env \in Envelope, env.kind = "System", Holds(act'[a], env)
  PROVE  \/ Holds(act[a], env)
         \/ CallStep /\ env.n <= host'.n /\ env.tx = 0
         \/ /\ env.n = 0 /\ env.tx = 0 /\ env.msg # "CodeChange"
            /\ SuspendOne \/ ResumeOne
         \/ /\ ChangeOne /\ a = Order[host.i] /\ env.n = host.n + 1
            /\ env.tx = host.tx /\ env.msg = "CodeChange"
<1>1. CASE ByActors
  <2>1. Moving(Ordinary) /\ Ordinary \in SUBSET Envelope
    BY <1>1, OrdinaryHas DEF ByActors, Moving
  <2>2. env \notin Ordinary
    BY DEF Ordinary, User, Exit
  <2>. QED  BY <2>1, <2>2, HeldBefore
<1>2. CASE UNCHANGED act
  BY <1>2
<1>3. CASE CallStep
  <2>1. PICK E \in SUBSET Envelope :
          Sending(E) /\ \A e \in E : e.kind = "System" /\ e.n <= host'.n /\ e.tx = 0
    BY <1>3 DEF CallStep
  <2>. QED  BY <1>3, <2>1, SendingMoves, HeldBefore
<1>4. ASSUME NEW b, NEW e, Sends(b, e), Holds(act[a], env) \/ ~(a = b /\ env = e)
      PROVE  Holds(act[a], env)
  <2>1. Moving({e}) /\ {e} \in SUBSET Envelope
    BY <1>4, SendingMoves DEF Sends
  <2>2. CASE a = b
    BY <1>4, <2>1, <2>2, HeldBefore
  <2>3. CASE a # b
    BY <1>4, <2>3 DEF Sends
  <2>. QED  BY <2>2, <2>3
<1>5. CASE SuspendOne
  <2>. DEFINE e == System("Suspend", 0, 0, 0)
  <2>1. Sends(Targets[host.i], e)
    BY <1>5 DEF SuspendOne
  <2>2. e.n = 0 /\ e.tx = 0 /\ e.msg # "CodeChange"
    BY DEF System
  <2>. HIDE DEF e
  <2>. QED  BY <1>4, <1>5, <2>1, <2>2
<1>6. CASE ResumeOne /\ ~UNCHANGED act
  <2>. DEFINE e == System("Resume", 0, 0, 0)
  <2>1. Sends(Targets[host.i], e)
    BY <1>6 DEF ResumeOne, Calm
  <2>2. e.n = 0 /\ e.tx = 0 /\ e.msg # "CodeChange"
    BY DEF System
  <2>. HIDE DEF e
  <2>. QED  BY <1>4, <1>6, <2>1, <2>2
<1>7. CASE ChangeOne
  <2>. DEFINE e == System("CodeChange", Target, host.n + 1, host.tx)
  <2>1. Sends(Order[host.i], e)
    BY <1>7 DEF ChangeOne
  <2>2. e.n = host.n + 1 /\ e.tx = host.tx /\ e.msg = "CodeChange"
    BY DEF System
  <2>. HIDE DEF e
  <2>. QED  BY <1>4, <1>7, <2>1, <2>2
<1>8. BackStep \/ StartStep \/ WalkOn \/ WalkDone \/ SuspendsDone \/ QuietStep
      \/ AwaitOk \/ ChangesDone \/ ResumesDone \/ Returns => UNCHANGED act
  BY DEF BackStep, StartStep, WalkOn, WalkDone, SuspendsDone, QuietStep,
         AwaitOk, ChangesDone, ResumesDone, Returns, Calm
<1>. QED  BY <1>1, <1>2, <1>3, <1>5, <1>6, <1>7, <1>8, StepHas DEF HostStep

LEMMA NumberStep ==
  ASSUME TypeInv, TypeInv', SoundInv, LocalInv, NumberInv, [Next]_vars
  PROVE  NumberInv'
<1>. SUFFICES ASSUME NEW a \in Actor, NEW env \in Envelope,
                     Holds(act'[a], env), env.kind = "System"
              PROVE  /\ env.n <= host'.n /\ env.tx <= upgrades'
                     /\ (/\ env.n = host'.n /\ env.n # 0
                         /\ host'.pc = "await" /\ host'.tx # 0)
                          => /\ env.msg = "CodeChange" /\ env.tx = upgrades'
                             /\ a = host'.plan.upgradeOrder[host'.i]
  BY DEF NumberInv
<1>0. /\ host.n \in Nat /\ host.tx \in Nat /\ upgrades \in Nat
      /\ env.n \in Nat /\ env.tx \in Nat /\ host'.n \in Nat /\ upgrades' \in Nat
      /\ host.tx # 0 => host.tx = upgrades
  BY HostHas, EnvelopeKinds DEF TypeInv, PlaceOK, HostOK, HostRecord
<1>1. ASSUME Holds(act[a], env)
      PROVE  /\ env.n <= host.n /\ env.tx <= upgrades
             /\ (/\ env.n = host.n /\ env.n # 0
                 /\ host.pc = "await" /\ host.tx # 0)
                  => /\ env.msg = "CodeChange" /\ env.tx = upgrades
                     /\ a = host.plan.upgradeOrder[host.i]
  BY <1>1 DEF NumberInv
<1>2. CASE ByActors \/ UNCHANGED <<rt, running, act, host, upgrades, changed>>
  <2>1. /\ host'.pc = host.pc /\ host'.i = host.i /\ host'.n = host.n
        /\ host'.tx = host.tx /\ host'.plan = host.plan /\ upgrades' = upgrades
    BY <1>2, ByActorsHost
  <2>2. Holds(act[a], env)
    <3>1. CASE ByActors
      <4>1. Moving(Ordinary) /\ Ordinary \in SUBSET Envelope
        BY <3>1, OrdinaryHas DEF ByActors, Moving
      <4>2. env \notin Ordinary
        BY DEF Ordinary, User, Exit
      <4>. QED  BY <4>1, <4>2, HeldBefore
    <3>2. CASE UNCHANGED act
      BY <3>2
    <3>. QED  BY <1>2, <3>1, <3>2
  <2>. QED  BY <1>1, <2>1, <2>2, HeldAfter
<1>3. CASE CallStep \/ BackStep
  <2>1. /\ host'.tx = 0 /\ upgrades' = upgrades
        /\ host'.n = host.n \/ host'.n = host.n + 1
    BY <1>3 DEF CallStep, BackStep
  <2>2. env.n <= host'.n /\ env.tx <= upgrades
    <3>1. CASE Holds(act[a], env)
      BY <1>0, <1>1, <2>1, <3>1
    <3>2. CASE env.n <= host'.n /\ env.tx = 0
      BY <1>0, <3>2
    <3>3. CASE env.n = 0 /\ env.tx = 0
      BY <1>0, <3>3
    <3>4. ~ChangeOne
      BY <1>3 DEF CallStep, BackStep, ChangeOne, Goes
    <3>. QED  BY <3>1, <3>2, <3>3, <3>4, HeldAfter
  <2>. QED  BY <2>1, <2>2
<1>4. CASE ChangeOne
  <2>1. /\ host'.pc = "await" /\ host'.i = host.i /\ host'.n = host.n + 1
        /\ host'.tx = host.tx /\ host'.plan = host.plan /\ upgrades' = upgrades
        /\ host.tx # 0 /\ ~CallStep /\ ~SuspendOne /\ ~ResumeOne
    BY <1>4 DEF ChangeOne, Goes, CallStep, SuspendOne, ResumeOne
  <2>2. CASE Holds(act[a], env)
    BY <1>0, <1>1, <2>1, <2>2
  <2>3. CASE /\ a = Order[host.i] /\ env.n = host.n + 1
             /\ env.tx = host.tx /\ env.msg = "CodeChange"
    BY <1>0, <2>1, <2>3 DEF Order
  <2>. QED  BY <2>1, <2>2, <2>3, HeldAfter
<1>5. CASE \/ StartStep \/ WalkOn \/ WalkDone \/ SuspendOne \/ SuspendsDone
           \/ QuietStep \/ AwaitOk \/ ChangesDone \/ ResumeOne \/ ResumesDone
           \/ Returns
  <2>1. /\ host'.n = host.n /\ host'.pc # "await"
        /\ upgrades' = upgrades \/ upgrades' = upgrades + 1
        /\ ~CallStep /\ ~ChangeOne
    BY <1>5 DEF StartStep, WalkOn, Walks, WalkDone, SuspendOne, SuspendsDone,
         QuietStep, AwaitOk, ChangesDone, ResumeOne, ResumesDone, Returns, Goes, Calm,
         CallStep, ChangeOne
  <2>2. CASE Holds(act[a], env)
    BY <1>0, <1>1, <2>1, <2>2
  <2>3. CASE env.n = 0 /\ env.tx = 0
    BY <1>0, <2>1, <2>3
  <2>. QED  BY <2>1, <2>2, <2>3, HeldAfter
<1>. QED  BY <1>2, <1>3, <1>4, <1>5, StepHas DEF HostStep

LEMMA DoneStep ==
  ASSUME TypeInv, TypeInv', SoundInv, LocalInv, NumberInv, DoneInv, [Next]_vars
  PROVE  DoneInv'
<1>0. /\ DOMAIN Order = 1..Len(Order) /\ Len(Order) \in Nat /\ host.i \in Nat
      /\ host.tx \in Nat
  BY HostHas DEF Order
<1>1. CASE ByActors \/ UNCHANGED <<rt, running, act, host, upgrades, changed>>
  <2>1. /\ host'.pc = host.pc /\ host'.i = host.i /\ host'.tx = host.tx
        /\ host'.plan = host.plan /\ host'.failed = host.failed
        /\ host'.upgraded = host.upgraded /\ upgrades' = upgrades
        /\ changed \subseteq changed'
    BY <1>1, ByActorsHost DEF ByActors, ChangesOnRequest
  <2>2. ASSUME host.pc = "await", host.tx # 0, host'.reply = "ok"
        PROVE  Order[host.i] \in changed'
    <3>1. CASE host'.reply = host.reply
      BY <2>1, <2>2, <3>1 DEF DoneInv, Order
    <3>2. CASE host'.reply # host.reply
      <4>1. PICK answer \in {"ok", "err", "closed"} :
              /\ host' = [host EXCEPT !.reply = answer]
              /\ answer = "ok" =>
                   \E b \in Actor, env \in Envelope : AnsweredOf(b, env)
        BY <1>1, <3>2 DEF ByActors, HostListens
      <4>2. answer = "ok"
        BY <2>2, <4>1 DEF TypeInv, HostOK, HostRecord
      <4>3. PICK b \in Actor, env \in Envelope : AnsweredOf(b, env)
        BY <4>1, <4>2
      <4>4. env.msg = "CodeChange" /\ env.tx = upgrades /\ b = Order[host.i]
        BY <2>2, <4>3 DEF AnsweredOf, NumberInv, Order
      <4>. QED  BY <4>3, <4>4 DEF AnsweredOf, OfThisUpgrade
    <3>. QED  BY <3>1, <3>2
  <2>3. host'.pc = "await" /\ host'.tx # 0 /\ host'.reply = "ok"
          => host'.plan.upgradeOrder[host'.i] \in changed'
    BY <2>1, <2>2 DEF Order
  <2>. QED  BY <2>1, <2>3 DEF DoneInv, Planned
<1>2. CASE CallStep \/ BackStep
  <2>1. host'.tx = 0 /\ host'.pc \in {"idle", "drive", "await"}
    BY <1>2 DEF CallStep, BackStep
  <2>2. host'.upgraded = {}
    BY <2>1 DEF TypeInv, PlaceOK
  <2>. QED  BY <2>1, <2>2 DEF DoneInv
<1>3. CASE StartStep
  BY <1>3 DEF StartStep, DoneInv
<1>4. CASE WalkOn
  BY <1>4 DEF WalkOn, Walks, DoneInv
<1>5. CASE WalkDone \/ SuspendOne \/ SuspendsDone
  <2>1. /\ host'.upgraded = host.upgraded /\ changed' = changed
        /\ host'.pc \in {"suspend", "quiesce"}
    BY <1>5 DEF WalkDone, SuspendOne, SuspendsDone, Goes, Calm, Sends
  <2>. QED  BY <2>1 DEF DoneInv
<1>6. CASE QuietStep
  <2>1. /\ host'.upgraded = host.upgraded /\ changed' = changed
        /\ host'.pc = "change" /\ host'.i = 1 /\ host'.plan = host.plan
    BY <1>6 DEF QuietStep, Goes, Calm
  <2>2. \A j \in DOMAIN Order : ~(j < 1)
    BY <1>0
  <2>. QED  BY <2>1, <2>2 DEF DoneInv, Order
<1>7. CASE ChangeOne
  <2>1. /\ host'.upgraded = host.upgraded /\ changed' = changed
        /\ host'.pc = "await" /\ host.pc = "change" /\ host'.i = host.i
        /\ host'.plan = host.plan
        /\ host'.reply = "none" /\ host.tx # 0
    BY <1>7 DEF ChangeOne, Goes, Sends
  <2>. QED  BY <2>1 DEF DoneInv
<1>8. CASE AwaitOk
  <2>1. /\ host'.upgraded = host.upgraded \cup {Order[host.i]}
        /\ changed' = changed /\ host.tx # 0
        /\ host'.pc = "change" /\ host.pc = "await" /\ host'.i = host.i + 1
        /\ host'.plan = host.plan /\ host.reply = "ok"
    BY <1>8 DEF AwaitOk, Goes
  <2>2. Order[host.i] \in changed
    BY <2>1 DEF DoneInv, Order
  <2>3. \A j \in DOMAIN Order : j < host.i + 1 => j < host.i \/ j = host.i
    BY <1>0
  <2>4. \A j \in DOMAIN Order : j < host.i + 1 => Order[j] \in host'.upgraded
    BY <2>1, <2>3 DEF DoneInv, Order
  <2>. QED  BY <2>1, <2>2, <2>4 DEF DoneInv, Order
<1>9. CASE ChangesDone
  <2>1. /\ host'.upgraded = host.upgraded /\ changed' = changed /\ host.tx # 0
        /\ host'.pc = "resume" /\ host'.plan = host.plan
        /\ host'.failed = "no" => host.pc = "change" /\ host.i > Len(Order)
    BY <1>9 DEF ChangesDone, Goes, Calm
  <2>2. host'.failed = "no" => Planned \subseteq host.upgraded
    <3>1. host.i > Len(Order) => \A j \in DOMAIN Order : j < host.i
      BY <1>0
    <3>. QED  BY <2>1, <3>1 DEF DoneInv, Planned, ToSetOf, Order
  <2>. QED  BY <2>1, <2>2 DEF DoneInv, Planned
<1>10. CASE ResumeOne \/ ResumesDone
  <2>1. /\ host'.upgraded = host.upgraded /\ changed' = changed
        /\ host.pc = "resume" /\ host'.pc \in {"resume", "drain"}
        /\ host'.plan = host.plan /\ host'.failed = host.failed
    BY <1>10 DEF ResumeOne, ResumesDone, Goes, Calm, Sends
  <2>. QED  BY <2>1 DEF DoneInv, Planned
<1>11. CASE Returns
  <2>1. /\ host'.upgraded = host.upgraded /\ changed' = changed
        /\ host'.pc = "returned" /\ host'.plan = host.plan
        /\ host'.failed = "no" => host.pc = "drain" /\ host.failed = "no"
    BY <1>11 DEF Returns, Goes, Calm
  <2>. QED  BY <2>1 DEF DoneInv, Planned
<1>. QED  BY <1>1, <1>2, <1>3, <1>4, <1>5, <1>6, <1>7, <1>8, <1>9, <1>10, <1>11,
             StepHas DEF HostStep

UpgradeSafety == QuietSafety /\ NumberInv /\ DoneInv

LEMMA UpgradeInit == Init => UpgradeSafety
<1>. SUFFICES ASSUME Init PROVE NumberInv /\ DoneInv
  BY QuietInit DEF UpgradeSafety
<1>1. \A a \in Actor : \A env \in Envelope : ~Holds(act[a], env)
  BY EnvelopeKinds DEF Init, NewActor, Holds
<1>2. host.pc = "idle" /\ host.tx = 0 /\ host.upgraded = {}
  BY DEF Init, HostIdle
<1>. QED  BY <1>1, <1>2 DEF NumberInv, DoneInv

LEMMA UpgradeStep == UpgradeSafety /\ [Next]_vars => UpgradeSafety'
BY QuietStep2, NumberStep, DoneStep DEF UpgradeSafety, QuietSafety

\* For every tree and in both runtimes, what an upgrade reports is true: those
\* it names as upgraded are changed, all of the plan when it reports success,
\* and those it had suspended are resumed, but for what a refused Resume kept
\* it from.
THEOREM ReportTrue == Spec => []ReportIsTrue
<1>1. UpgradeSafety => ReportIsTrue
  <2>. SUFFICES ASSUME UpgradeSafety, host.pc = "returned", host.tx # 0
                PROVE  /\ host.upgraded \subseteq changed
                       /\ host.failed = "no" => Planned \subseteq changed
                       /\ host.failed \in {"no", "change"} =>
                            \A a \in ToSetOf(host.plan.resumeTargets) \ host.refused :
                              act[a].live => ~WillBeSuspended(a)
    BY DEF ReportIsTrue
  <2>0. TypeInv /\ SoundInv /\ ResumeInv /\ DoneInv
    BY DEF UpgradeSafety, QuietSafety
  <2>1. ASSUME host.failed \in {"no", "change"},
               NEW a \in ToSetOf(Targets) \ host.refused, act[a].live
        PROVE  ~WillBeSuspended(a)
    <3>1. a \in Actor
      <4>1. /\ DOMAIN Targets = 1..Len(Targets)
            /\ \A i \in 1..Len(Targets) : Targets[i] \in Actor
        BY <2>0, HostHas DEF Targets
      <4>. QED  BY <4>1 DEF ToSetOf
    <3>2. a \in Resumed
      BY <2>1 DEF Resumed
    <3>3. EndsAs(act[a], "Resume") /\ Sound(act[a]) /\ RecordsOK
      BY <2>0, <2>1, <3>1, <3>2 DEF ResumeInv, SoundInv, TypeInv
    <3>. QED  BY <3>1, <3>3, WillResume
  <2>. QED  BY <2>0, <2>1 DEF DoneInv, Targets
<1>. QED  BY <1>1, UpgradeInit, UpgradeStep, PTL DEF Spec
-----------------------------------------------------------------------------
(* The order in which an upgrade changes code.                             *)

LEMMA TurnedKept ==
  ASSUME host'.plan = host.plan, changed \subseteq changed', NEW a, Turned(a)
  PROVE  Turned(a)'
BY DEF Turned

LEMMA OrderStep ==
  ASSUME TypeInv, TypeInv', SoundInv, LocalInv, NumberInv, DoneInv, OrderInv,
         [Next]_vars
  PROVE  OrderInv'
<1>0. /\ DOMAIN Order = 1..Len(Order) /\ Len(Order) \in Nat /\ host.i \in Nat
      /\ host.tx \in Nat /\ upgrades \in Nat
      /\ host.tx # 0 => host.tx = upgrades
  BY HostHas DEF Order, TypeInv, PlaceOK
\* Steps that keep the plan and send no code change of this upgrade.
<1>k. ASSUME host'.plan = host.plan, changed \subseteq changed', host.tx # 0,
             upgrades' = upgrades,
             host'.pc = "plan" => host.pc = "plan" /\ changed' = changed,
             \A a \in changed' \ changed :
               \E env \in Envelope :
                 a \in Actor /\ Holds(act[a], env) /\ OfThisUpgrade(env),
             \A a \in Actor : \A env \in Envelope :
               Holds(act'[a], env) /\ OfThisUpgrade(env) => Holds(act[a], env)
      PROVE  OrderInv'
  <2>1. \A a \in Actor : \A env \in Envelope :
          Holds(act[a], env) /\ OfThisUpgrade(env) => host.pc # "plan" /\ Turned(a)
    BY <1>k DEF OrderInv
  <2>2. \A a \in changed' : Turned(a)
    BY <1>k, <2>1 DEF OrderInv
  <2>3. \A env : OfThisUpgrade(env)' <=> OfThisUpgrade(env)
    BY <1>k DEF OfThisUpgrade
  <2>4. \A a \in Actor : \A env \in Envelope :
          Holds(act[a], env)' /\ OfThisUpgrade(env)'
            => host.pc # "plan" /\ Turned(a)
    BY <1>k, <2>1, <2>3 DEF Holds
  <2>5. \A a : Turned(a) => Turned(a)'
    BY <1>k, TurnedKept
  <2>6. host'.pc = "plan" => changed' = {}
    BY <1>k DEF OrderInv
  <2>. QED  BY <1>k, <2>2, <2>4, <2>5, <2>6 DEF OrderInv
<1>h. ASSUME ~CallStep, ~ChangeOne, NEW a \in Actor, NEW env \in Envelope,
             Holds(act'[a], env), OfThisUpgrade(env)
      PROVE  Holds(act[a], env)
  BY <1>h, HeldAfter DEF OfThisUpgrade
<1>t. CASE host'.tx = 0
  BY <1>t DEF OrderInv
<1>1. CASE /\ ByActors \/ UNCHANGED <<rt, running, act, host, upgrades, changed>>
           /\ host'.tx # 0
  <2>1. /\ host'.pc = host.pc /\ host'.tx = host.tx /\ host'.plan = host.plan
        /\ upgrades' = upgrades /\ ChangesOnRequest
    BY <1>1, ByActorsHost DEF ByActors, ChangesOnRequest
  <2>2. \A a \in Actor : \A env \in Envelope :
          Holds(act'[a], env) /\ OfThisUpgrade(env) => Holds(act[a], env)
    <3>1. CASE ByActors
      <4>1. Moving(Ordinary) /\ Ordinary \in SUBSET Envelope
        BY <3>1, OrdinaryHas DEF ByActors, Moving
      <4>2. \A env : OfThisUpgrade(env) => env \notin Ordinary
        BY DEF Ordinary, User, Exit, OfThisUpgrade
      <4>. QED  BY <4>1, <4>2, HeldBefore
    <3>2. CASE UNCHANGED act
      BY <3>2
    <3>. QED  BY <1>1, <3>1, <3>2
  <2>3. host.pc = "plan" => changed' = changed
    BY <1>1, <2>1 DEF OrderInv, ChangesOnRequest
  <2>. QED  BY <1>1, <1>k, <2>1, <2>2, <2>3 DEF ChangesOnRequest
<1>2. CASE CallStep \/ BackStep
  BY <1>t, <1>2 DEF CallStep, BackStep
<1>3. CASE StartStep
  <2>1. changed' = {} /\ upgrades' = upgrades + 1 /\ act' = act
    BY <1>3 DEF StartStep
  <2>2. \A a \in Actor : \A env \in Envelope :
          ~(Holds(act'[a], env) /\ OfThisUpgrade(env)')
    <3>. SUFFICES ASSUME NEW a \in Actor, NEW env \in Envelope,
                         Holds(act[a], env), OfThisUpgrade(env)'
                  PROVE  FALSE
      BY <2>1
    <3>1. env.kind = "System" /\ env.tx = upgrades + 1 /\ env.tx <= upgrades
      BY <2>1 DEF OfThisUpgrade, NumberInv
    <3>. QED  BY <1>0, <3>1
  <2>. QED  BY <2>1, <2>2 DEF OrderInv, Holds
<1>4. CASE WalkOn
  <2>1. /\ host.tx # 0 /\ host.pc = "plan" /\ act' = act /\ changed' = changed
        /\ upgrades' = upgrades /\ host'.pc = "plan"
    BY <1>4 DEF WalkOn, Calm, Walks
  <2>2. /\ changed = {}
        /\ \A a \in Actor : \A env \in Envelope :
             ~(Holds(act[a], env) /\ OfThisUpgrade(env))
    BY <2>1 DEF OrderInv
  <2>. QED  BY <2>1, <2>2 DEF OrderInv, Holds, OfThisUpgrade
<1>5. CASE WalkDone \/ SuspendOne \/ SuspendsDone \/ QuietStep \/ AwaitOk
           \/ ChangesDone \/ ResumeOne \/ ResumesDone \/ Returns
  <2>1. /\ host.tx # 0 /\ host'.plan = host.plan /\ changed' = changed
        /\ upgrades' = upgrades /\ host'.pc # "plan"
    BY <1>5 DEF WalkDone, SuspendOne, SuspendsDone, QuietStep, AwaitOk,
               ChangesDone, ResumeOne, ResumesDone, Returns, Goes
  <2>2. ~CallStep
    BY <2>1 DEF CallStep
  <2>3. ~ChangeOne
    BY <1>5 DEF WalkDone, SuspendOne, SuspendsDone, QuietStep, AwaitOk,
               ChangesDone, ResumeOne, ResumesDone, Returns, Goes, ChangeOne
  <2>. QED  BY <1>k, <1>h, <2>1, <2>2, <2>3
<1>6. CASE ChangeOne
  <2>1. /\ host.tx # 0 /\ host'.plan = host.plan /\ changed' = changed
        /\ upgrades' = upgrades /\ host.pc = "change" /\ host'.pc = "await"
        /\ host.i \in DOMAIN Order
    BY <1>6 DEF ChangeOne, Goes
  <2>2. Turned(Order[host.i])
    <3>1. \A j \in DOMAIN Order : j < host.i => Order[j] \in changed
      BY <2>1 DEF DoneInv, Order
    <3>. QED  BY <2>1, <3>1 DEF Turned, Order
  <2>3. ASSUME NEW a \in Actor, NEW env \in Envelope,
               Holds(act'[a], env), OfThisUpgrade(env)
        PROVE  Turned(a)
    <3>1. ~CallStep
      BY <2>1 DEF CallStep
    <3>2. Holds(act[a], env) \/ a = Order[host.i]
      BY <2>3, <3>1, HeldAfter DEF OfThisUpgrade
    <3>. QED  BY <2>1, <2>2, <2>3, <3>2 DEF OrderInv
  <2>4. \A a \in Actor : \A env \in Envelope :
          Holds(act[a], env)' /\ OfThisUpgrade(env)' => Turned(a)
    BY <2>1, <2>3 DEF Holds, OfThisUpgrade
  <2>5. \A a : Turned(a) => Turned(a)'
    BY <2>1, TurnedKept
  <2>. QED  BY <2>1, <2>4, <2>5 DEF OrderInv
<1>. QED  BY <1>t, <1>1, <1>2, <1>3, <1>4, <1>5, <1>6, StepHas DEF HostStep
-----------------------------------------------------------------------------
(* The walk over the tree, as a stack of items to do: what is visited is    *)
(* entered in the suspend order, what is ordered in the upgrade order.      *)

KidsOf(s) == ToSetOf(Kids[s])

HasParent(a, visited) == a = Root \/ \E s \in Super \cap visited : a \in KidsOf(s)

\* Items that stand for an actor: skips do not.
Open(todo) == {p \in DOMAIN todo : todo[p].op # "skip"}

\* Each open item has its own actor; below an actor's item in the stack is the
\* one that leaves its parent.
WalkSound(todo, visited, ordered) ==
  /\ ordered \subseteq visited
  /\ \A a \in visited : HasParent(a, visited)
  /\ \A p, q \in Open(todo) : todo[p].actor = todo[q].actor => p = q
  /\ \A p \in Open(todo) : todo[p].op = "visit" =>
       todo[p].actor \notin visited /\ HasParent(todo[p].actor, visited)
  /\ \A p \in Open(todo) : todo[p].op = "leave" =>
       todo[p].actor \in (Super \cap visited) \ ordered
  /\ \A p \in Open(todo) : \A s \in Super : todo[p].actor \in KidsOf(s) =>
       \E q \in Open(todo) : q > p /\ todo[q] = Leave(s)

Visited == ToSetOf(host.plan.suspendOrder)

WalkInv == host.pc = "plan" => WalkSound(host.todo, Visited, Planned)

\* In the upgrade order children come before their parent.
KidsFirst ==
  \A j, l \in DOMAIN Order :
    Order[j] \in Super /\ Order[l] \in KidsOf(Order[j]) => l < j

LEMMA OpenTail ==
  ASSUME NEW t \in Seq(Item), t # <<>>
  PROVE  /\ 1 \in DOMAIN t /\ Head(t) = t[1]
         /\ \A p \in Open(Tail(t)) :
              /\ p \in Nat /\ p + 1 > 1 /\ p + 1 \in Open(t)
              /\ Tail(t)[p] = t[p + 1]
         /\ \A p \in Open(t) : p \in Nat /\ (p > 1 =>
              p - 1 \in Open(Tail(t)) /\ Tail(t)[p - 1] = t[p])
<1>1. /\ Head(t) = t[1] /\ Len(t) \in Nat \ {0} /\ DOMAIN t = 1..Len(t)
      /\ DOMAIN Tail(t) = 1..(Len(t) - 1)
      /\ \A i \in 1..(Len(t) - 1) : Tail(t)[i] = t[i + 1]
  BY TailHas
<1>2. \A p \in 1..(Len(t) - 1) : p + 1 \in 1..Len(t) /\ p + 1 > 1 /\ p \in Nat
  BY <1>1
<1>3. \A p \in 1..Len(t) : p > 1 => p - 1 \in 1..(Len(t) - 1) /\ (p - 1) + 1 = p
  BY <1>1
<1>4. ASSUME NEW p \in Open(t), p > 1
      PROVE  p - 1 \in Open(Tail(t)) /\ Tail(t)[p - 1] = t[p]
  <2>1. p \in 1..Len(t) /\ t[p].op # "skip"
    BY <1>1 DEF Open
  <2>2. p - 1 \in 1..(Len(t) - 1) /\ (p - 1) + 1 = p
    BY <1>3, <1>4, <2>1
  <2>3. Tail(t)[p - 1] = t[(p - 1) + 1]
    BY <1>1, <2>2
  <2>. QED  BY <1>1, <2>1, <2>2, <2>3 DEF Open
<1>5. \A p \in Open(t) : p \in Nat
  BY <1>1 DEF Open
<1>6. 1 \in DOMAIN t
  BY <1>1
<1>7. ASSUME NEW p \in Open(Tail(t))
      PROVE  /\ p \in Nat /\ p + 1 > 1 /\ p + 1 \in Open(t)
             /\ Tail(t)[p] = t[p + 1]
  BY <1>1, <1>2, <1>7 DEF Open
<1>. QED  BY <1>1, <1>4, <1>5, <1>6, <1>7

\* What is below the top item stays sound when that item is dealt with.
LEMMA RestSound ==
  ASSUME NEW t \in Seq(Item), t # <<>>, NEW V, NEW O, WalkSound(t, V, O),
         NEW V2, NEW O2, V \subseteq V2, O2 \subseteq V2,
         \A x \in V2 \ V : Head(t).op # "skip" /\ x = Head(t).actor,
         \A x \in O2 \ O : Head(t).op # "skip" /\ x = Head(t).actor,
         \A x \in V2 : HasParent(x, V2)
  PROVE  /\ WalkSound(Tail(t), V2, O2)
         /\ Head(t).op # "skip" =>
              \A p \in Open(Tail(t)) : Tail(t)[p].actor # Head(t).actor
<1>. DEFINE r == Tail(t)
            h == Head(t)
<1>1. /\ 1 \in DOMAIN t /\ h = t[1]
      /\ \A p \in Open(r) : /\ p \in Nat /\ p + 1 > 1 /\ p + 1 \in Open(t)
                            /\ r[p] = t[p + 1]
      /\ \A p \in Open(t) : p \in Nat /\ (p > 1 =>
           p - 1 \in Open(r) /\ r[p - 1] = t[p])
  BY OpenTail
<1>2. /\ \A p, q \in Open(t) : t[p].actor = t[q].actor => p = q
      /\ \A p \in Open(t) : t[p].op = "visit" =>
           t[p].actor \notin V /\ HasParent(t[p].actor, V)
      /\ \A p \in Open(t) : t[p].op = "leave" =>
           t[p].actor \in (Super \cap V) \ O
      /\ \A p \in Open(t) : \A s \in Super : t[p].actor \in KidsOf(s) =>
           \E q \in Open(t) : q > p /\ t[q] = Leave(s)
  BY DEF WalkSound
<1>. HIDE DEF r, h
<1>3. h.op # "skip" => \A p \in Open(r) : r[p].actor # h.actor
  <2>. SUFFICES ASSUME h.op # "skip", NEW p \in Open(r), r[p].actor = h.actor
                PROVE  FALSE
    OBVIOUS
  <2>1. 1 \in Open(t)
    BY <1>1 DEF Open
  <2>2. p + 1 \in Open(t) /\ t[p + 1].actor = t[1].actor /\ p + 1 # 1
    BY <1>1
  <2>. QED  BY <1>2, <2>1, <2>2
<1>4. \A x : HasParent(x, V) => HasParent(x, V2)
  BY DEF HasParent
<1>5. \A p, q \in Open(r) : r[p].actor = r[q].actor => p = q
  <2>. SUFFICES ASSUME NEW p \in Open(r), NEW q \in Open(r), r[p].actor = r[q].actor
                PROVE  p = q
    OBVIOUS
  <2>1. p + 1 = q + 1
    BY <1>1, <1>2
  <2>. QED  BY <1>1, <2>1
<1>6. \A p \in Open(r) : r[p].op = "visit" =>
        r[p].actor \notin V2 /\ HasParent(r[p].actor, V2)
  <2>. SUFFICES ASSUME NEW p \in Open(r), r[p].op = "visit"
                PROVE  r[p].actor \notin V2 /\ HasParent(r[p].actor, V2)
    OBVIOUS
  <2>1. r[p].actor \notin V /\ HasParent(r[p].actor, V)
    BY <1>1, <1>2
  <2>. QED  BY <1>3, <1>4, <2>1 DEF h
<1>7. \A p \in Open(r) : r[p].op = "leave" => r[p].actor \in (Super \cap V2) \ O2
  <2>. SUFFICES ASSUME NEW p \in Open(r), r[p].op = "leave"
                PROVE  r[p].actor \in (Super \cap V2) \ O2
    OBVIOUS
  <2>1. r[p].actor \in (Super \cap V) \ O
    BY <1>1, <1>2
  <2>. QED  BY <1>3, <2>1 DEF h
<1>8. ASSUME NEW p \in Open(r), NEW s \in Super, r[p].actor \in KidsOf(s)
      PROVE  \E q \in Open(r) : q > p /\ r[q] = Leave(s)
  <2>1. p + 1 \in Open(t) /\ t[p + 1].actor \in KidsOf(s) /\ p \in Nat
    BY <1>1, <1>8
  <2>2. PICK q \in Open(t) : q > p + 1 /\ t[q] = Leave(s)
    BY <1>2, <2>1
  <2>3. q \in Nat /\ q > 1 /\ q - 1 > p
    BY <1>1, <2>1, <2>2
  <2>. QED  BY <1>1, <2>2, <2>3
<1>. QED  BY <1>3, <1>5, <1>6, <1>7, <1>8 DEF WalkSound, r, h

\* The stack when the children of a supervisor have been put on it.
Below(a, r) == Listed(a) \o <<Leave(a)>> \o r

LEMMA DownHas ==
  ASSUME NEW a \in Super, NEW r \in Seq(Item)
  PROVE  LET d == Below(a, r)
             L == Len(Listed(a))
         IN  /\ L \in Nat /\ Len(r) \in Nat
             /\ \A p \in Open(d) : \/ p \in 1..L /\ d[p].op = "visit"
                                      /\ p \in DOMAIN Kids[a]
                                      /\ d[p].actor = Kids[a][p]
                                   \/ p = L + 1 /\ d[p] = Leave(a)
                                   \/ /\ p - (L + 1) \in Open(r) /\ p > L + 1
                                      /\ d[p] = r[p - (L + 1)] /\ p \in Nat
             /\ L + 1 \in Open(d) /\ d[L + 1] = Leave(a)
             /\ \A q \in Open(r) : /\ q \in Nat /\ q >= 1
                                   /\ q + (L + 1) \in Open(d)
                                   /\ d[q + (L + 1)] = r[q]
<1>. DEFINE d == Below(a, r)
            L == Len(Listed(a))
            l == Listed(a)
            m == l \o <<Leave(a)>>
<1>1. /\ l \in Seq(Item) /\ L \in Nat /\ L = Len(l)
      /\ DOMAIN Kids[a] = 1..L
      /\ \A i \in 1..L : l[i].actor = Kids[a][i] /\ l[i].op \in {"visit", "skip"}
  BY ListedHas
<1>2. /\ <<Leave(a)>> \in Seq(Item) /\ Len(<<Leave(a)>>) = 1
      /\ <<Leave(a)>>[1] = Leave(a)
  BY TreeAssumption DEF Leave, Item
<1>. HIDE DEF l, L
<1>3. /\ m \in Seq(Item) /\ Len(m) = L + 1
      /\ \A i \in 1..L : m[i] = l[i]
      /\ m[L + 1] = Leave(a)
  <2>1. /\ m \in Seq(Item) /\ DOMAIN m = 1..(L + 1)
        /\ \A i \in 1..L : m[i] = l[i]
        /\ \A i \in 1..1 : m[L + i] = <<Leave(a)>>[i]
    BY <1>1, <1>2, ConcatHas
  <2>. HIDE DEF m
  <2>2. Len(m) = L + 1
    BY <1>1, <2>1, LenProperties
  <2>3. 1 \in 1..1
    OBVIOUS
  <2>. QED  BY <1>2, <2>1, <2>2, <2>3
<1>4. d = m \o r
  BY DEF l, Below
<1>. HIDE DEF m, d
<1>5. /\ Len(r) \in Nat /\ DOMAIN r = 1..Len(r)
      /\ DOMAIN d = 1..(L + 1 + Len(r))
      /\ \A i \in 1..(L + 1) : d[i] = m[i]
      /\ \A i \in 1..Len(r) : d[L + 1 + i] = r[i]
  BY <1>3, <1>4, ConcatHas
<1>6. \A i \in 1..L : i \in 1..(L + 1)
  BY <1>1
<1>7. L + 1 \in 1..(L + 1) /\ L + 1 \in DOMAIN d
  BY <1>1, <1>5
<1>8. L + 1 \in Open(d) /\ d[L + 1] = Leave(a)
  BY <1>3, <1>5, <1>7 DEF Open, Leave
<1>9. ASSUME NEW q \in Open(r)
      PROVE  /\ q \in Nat /\ q >= 1
             /\ q + (L + 1) \in Open(d) /\ d[q + (L + 1)] = r[q]
  <2>1. q \in 1..Len(r) /\ r[q].op # "skip"
    BY <1>5 DEF Open
  <2>2. q \in Nat /\ q >= 1 /\ q + (L + 1) = L + 1 + q /\ q + (L + 1) \in DOMAIN d
    BY <1>1, <1>5, <2>1
  <2>. QED  BY <1>5, <2>1, <2>2 DEF Open
<1>10. ASSUME NEW p \in Open(d)
       PROVE  \/ p \in 1..L /\ d[p].op = "visit"
                 /\ p \in DOMAIN Kids[a] /\ d[p].actor = Kids[a][p]
              \/ p = L + 1 /\ d[p] = Leave(a)
              \/ /\ p - (L + 1) \in Open(r) /\ p > L + 1
                 /\ d[p] = r[p - (L + 1)] /\ p \in Nat
  <2>1. p \in 1..(L + 1 + Len(r)) /\ d[p].op # "skip"
    BY <1>5 DEF Open
  <2>2. CASE p \in 1..L
    BY <1>1, <1>3, <1>5, <1>6, <2>1, <2>2
  <2>3. CASE p = L + 1
    BY <1>8, <2>3
  <2>4. CASE p \notin 1..L /\ p # L + 1
    <3>. DEFINE q == p - (L + 1)
    <3>0. /\ L \in Nat /\ Len(r) \in Nat /\ p \in 1..(L + 1 + Len(r))
          /\ p \notin 1..L /\ p # L + 1
      BY <1>1, <1>5, <2>1, <2>4
    <3>1. q \in 1..Len(r) /\ L + 1 + q = p /\ p > L + 1 /\ p \in Nat
      BY <3>0
    <3>2. d[p] = r[q]
      BY <1>5, <3>1
    <3>. QED  BY <1>5, <2>1, <3>1, <3>2 DEF Open
  <2>. QED  BY <2>2, <2>3, <2>4
<1>. QED  BY <1>1, <1>5, <1>8, <1>9, <1>10 DEF d, L

LEMMA DownSound ==
  ASSUME NEW a \in Super, NEW r \in Seq(Item), NEW V, NEW O,
         WalkSound(r, V, O), a \in V \ O,
         \A p \in Open(r) : r[p].actor # a /\ r[p].actor \notin KidsOf(a),
         KidsOf(a) \cap V = {},
         \A s \in Super : a \in KidsOf(s) => \E q \in Open(r) : r[q] = Leave(s)
  PROVE  WalkSound(Below(a, r), V, O)
<1>. DEFINE d == Below(a, r)
            L == Len(Listed(a))
<1>1. /\ L \in Nat /\ Len(r) \in Nat
      /\ \A p \in Open(d) : \/ p \in 1..L /\ d[p].op = "visit"
                               /\ p \in DOMAIN Kids[a]
                               /\ d[p].actor = Kids[a][p]
                            \/ p = L + 1 /\ d[p] = Leave(a)
                            \/ /\ p - (L + 1) \in Open(r) /\ p > L + 1
                               /\ d[p] = r[p - (L + 1)] /\ p \in Nat
      /\ L + 1 \in Open(d) /\ d[L + 1] = Leave(a)
      /\ \A q \in Open(r) : /\ q \in Nat /\ q >= 1
                            /\ q + (L + 1) \in Open(d)
                            /\ d[q + (L + 1)] = r[q]
  BY DownHas
<1>. HIDE DEF d, L
<1>2. /\ O \subseteq V /\ \A x \in V : HasParent(x, V)
      /\ \A p, q \in Open(r) : r[p].actor = r[q].actor => p = q
      /\ \A p \in Open(r) : r[p].op = "visit" =>
           r[p].actor \notin V /\ HasParent(r[p].actor, V)
      /\ \A p \in Open(r) : r[p].op = "leave" => r[p].actor \in (Super \cap V) \ O
      /\ \A p \in Open(r) : \A s \in Super : r[p].actor \in KidsOf(s) =>
           \E q \in Open(r) : q > p /\ r[q] = Leave(s)
  BY DEF WalkSound
<1>3. \A i \in DOMAIN Kids[a] : Kids[a][i] \in KidsOf(a)
  BY DEF KidsOf, ToSetOf
<1>4. Leave(a).actor = a /\ Leave(a).op = "leave"
  BY DEF Leave
<1>5. \A i, j \in DOMAIN Kids[a] : Kids[a][i] = Kids[a][j] => i = j
  BY TreeAssumption
<1>6. \A s \in Super : \A i \in DOMAIN Kids[a] : Kids[a][i] \in KidsOf(s) => s = a
  BY TreeAssumption DEF KidsOf, ToSetOf
<1>7. ASSUME NEW p \in Open(d), NEW q \in Open(d), d[p].actor = d[q].actor
      PROVE  p = q
  <2>1. CASE p \in 1..L /\ q \in 1..L
    <3>1. p \in DOMAIN Kids[a] /\ d[p].actor = Kids[a][p]
      BY <1>1, <2>1
    <3>2. q \in DOMAIN Kids[a] /\ d[q].actor = Kids[a][q]
      BY <1>1, <2>1
    <3>. QED  BY <1>5, <1>7, <3>1, <3>2
  <2>2. CASE p = L + 1 /\ q = L + 1
    BY <2>2
  <2>3. CASE p > L + 1 /\ q > L + 1
    <3>1. /\ p - (L + 1) \in Open(r) /\ d[p] = r[p - (L + 1)]
          /\ q - (L + 1) \in Open(r) /\ d[q] = r[q - (L + 1)]
          /\ p \in Nat /\ q \in Nat
      BY <1>1, <2>3
    <3>2. p - (L + 1) = q - (L + 1)
      BY <1>2, <1>7, <3>1
    <3>. QED  BY <1>1, <3>1, <3>2
  <2>4. \A x \in Open(d) :
          /\ x \in 1..L => d[x].actor \in KidsOf(a)
          /\ x = L + 1 => d[x].actor = a
          /\ x > L + 1 => d[x].actor # a /\ d[x].actor \notin KidsOf(a)
          /\ x \in 1..L \/ x = L + 1 \/ x > L + 1
    <3>. SUFFICES ASSUME NEW x \in Open(d)
                  PROVE  /\ x \in 1..L => d[x].actor \in KidsOf(a)
                         /\ x = L + 1 => d[x].actor = a
                         /\ x > L + 1 => d[x].actor # a /\ d[x].actor \notin KidsOf(a)
                         /\ x \in 1..L \/ x = L + 1 \/ x > L + 1
      OBVIOUS
    <3>1. x \in 1..L => d[x].actor \in KidsOf(a)
      BY <1>1, <1>3
    <3>2. x = L + 1 => d[x].actor = a
      BY <1>1, <1>4
    <3>3. x > L + 1 => x - (L + 1) \in Open(r) /\ d[x] = r[x - (L + 1)]
      BY <1>1
    <3>4. x > L + 1 => d[x].actor # a /\ d[x].actor \notin KidsOf(a)
      BY <3>3
    <3>. QED  BY <1>1, <3>1, <3>2, <3>4
  <2>5. a \notin KidsOf(a)
    OBVIOUS
  <2>. QED  BY <1>7, <2>1, <2>2, <2>3, <2>4, <2>5
<1>8. ASSUME NEW p \in Open(d), d[p].op = "visit"
      PROVE  d[p].actor \notin V /\ HasParent(d[p].actor, V)
  <2>1. CASE p \in DOMAIN Kids[a] /\ d[p].actor = Kids[a][p]
    BY <1>3, <2>1 DEF HasParent
  <2>2. CASE p - (L + 1) \in Open(r) /\ d[p] = r[p - (L + 1)]
    BY <1>2, <1>8, <2>2
  <2>. QED  BY <1>1, <1>4, <1>8, <2>1, <2>2
<1>9. ASSUME NEW p \in Open(d), d[p].op = "leave"
      PROVE  d[p].actor \in (Super \cap V) \ O
  <2>1. CASE d[p] = Leave(a)
    BY <1>4, <2>1
  <2>2. CASE p - (L + 1) \in Open(r) /\ d[p] = r[p - (L + 1)]
    BY <1>2, <1>9, <2>2
  <2>. QED  BY <1>1, <1>9, <2>1, <2>2
<1>10. ASSUME NEW p \in Open(d), NEW s \in Super, d[p].actor \in KidsOf(s)
       PROVE  \E q \in Open(d) : q > p /\ d[q] = Leave(s)
  <2>1. CASE p \in 1..L /\ p \in DOMAIN Kids[a] /\ d[p].actor = Kids[a][p]
    <3>1. s = a /\ L + 1 > p
      BY <1>1, <1>6, <1>10, <2>1
    <3>. QED  BY <1>1, <3>1
  <2>2. CASE p = L + 1 /\ d[p] = Leave(a)
    <3>1. PICK q \in Open(r) : r[q] = Leave(s)
      BY <1>4, <1>10, <2>2
    <3>2. q \in Nat /\ q >= 1 /\ q + (L + 1) \in Open(d) /\ d[q + (L + 1)] = r[q]
      BY <1>1
    <3>3. q + (L + 1) > L + 1
      BY <1>1, <3>2
    <3>. QED  BY <2>2, <3>1, <3>2, <3>3
  <2>3. CASE /\ p - (L + 1) \in Open(r) /\ p > L + 1
             /\ d[p] = r[p - (L + 1)] /\ p \in Nat
    <3>1. PICK q \in Open(r) : q > p - (L + 1) /\ r[q] = Leave(s)
      BY <1>2, <1>10, <2>3
    <3>2. q \in Nat /\ q + (L + 1) \in Open(d) /\ d[q + (L + 1)] = r[q]
      BY <1>1
    <3>3. q + (L + 1) > p
      BY <1>1, <2>3, <3>1, <3>2
    <3>. QED  BY <3>1, <3>2, <3>3
  <2>. QED  BY <1>1, <2>1, <2>2, <2>3
<1>. QED  BY <1>2, <1>7, <1>8, <1>9, <1>10 DEF WalkSound, d

\* The top item, when it stands for an actor.
LEMMA TopHas ==
  ASSUME NEW t \in Seq(Item), t # <<>>, NEW V, NEW O, WalkSound(t, V, O),
         Head(t).op # "skip"
  PROVE  LET a == Head(t).actor
             r == Tail(t)
         IN  /\ Head(t).op = "visit" => a \notin V /\ HasParent(a, V)
             /\ Head(t).op = "leave" => a \in (Super \cap V) \ O
             /\ \A s \in Super : a \in KidsOf(s) =>
                  s \notin O /\ s # a /\ \E q \in Open(r) : r[q] = Leave(s)
             /\ a \in Super => \A p \in Open(r) : r[p].actor \notin KidsOf(a)
             /\ a \in Super /\ a \notin V => KidsOf(a) \cap V = {}
<1>. DEFINE r == Tail(t)
            h == Head(t)
            a == h.actor
<1>1. /\ 1 \in DOMAIN t /\ h = t[1]
      /\ \A p \in Open(r) : /\ p \in Nat /\ p + 1 > 1 /\ p + 1 \in Open(t)
                            /\ r[p] = t[p + 1]
      /\ \A p \in Open(t) : p \in Nat /\ (p > 1 =>
           p - 1 \in Open(r) /\ r[p - 1] = t[p])
  BY OpenTail
<1>2. /\ O \subseteq V /\ \A x \in V : HasParent(x, V)
      /\ \A p, q \in Open(t) : t[p].actor = t[q].actor => p = q
      /\ \A p \in Open(t) : t[p].op = "visit" =>
           t[p].actor \notin V /\ HasParent(t[p].actor, V)
      /\ \A p \in Open(t) : t[p].op = "leave" =>
           t[p].actor \in (Super \cap V) \ O
      /\ \A p \in Open(t) : \A s \in Super : t[p].actor \in KidsOf(s) =>
           \E q \in Open(t) : q > p /\ t[q] = Leave(s)
  BY DEF WalkSound
<1>3. 1 \in Open(t) /\ a = t[1].actor /\ h = t[1]
  BY <1>1 DEF Open
<1>. HIDE DEF r, a, h
<1>4. \A q \in Open(t) : q > 1 => t[q].actor # a
  BY <1>1, <1>2, <1>3
<1>5. \A s : Leave(s).actor = s /\ Leave(s).op = "leave"
  BY DEF Leave
<1>6. ASSUME NEW s \in Super, a \in KidsOf(s)
      PROVE  s \notin O /\ s # a /\ \E q \in Open(r) : r[q] = Leave(s)
  <2>1. PICK q \in Open(t) : q > 1 /\ t[q] = Leave(s)
    BY <1>2, <1>3, <1>6
  <2>. QED  BY <1>1, <1>2, <1>4, <1>5, <2>1
<1>7. ASSUME a \in Super, NEW p \in Open(r), r[p].actor \in KidsOf(a)
      PROVE  FALSE
  <2>1. PICK q \in Open(t) : q > p + 1 /\ t[q] = Leave(a)
    BY <1>1, <1>2, <1>7
  <2>2. q \in Nat /\ p \in Nat
    BY <1>1
  <2>3. q > 1
    BY <2>1, <2>2
  <2>. QED  BY <1>4, <1>5, <2>1, <2>3
<1>8. ASSUME a \in Super, a \notin V, NEW c \in KidsOf(a), c \in V
      PROVE  FALSE
  <2>1. HasParent(c, V)
    BY <1>2, <1>8
  <2>2. c # Root
    BY <1>8, TreeAssumption DEF KidsOf, ToSetOf
  <2>3. PICK s \in Super \cap V : c \in KidsOf(s)
    BY <2>1, <2>2 DEF HasParent
  <2>4. s = a
    BY <1>8, <2>3, TreeAssumption DEF KidsOf, ToSetOf
  <2>. QED  BY <1>8, <2>3, <2>4
<1>9. /\ h.op = "visit" => a \notin V /\ HasParent(a, V)
      /\ h.op = "leave" => a \in (Super \cap V) \ O
  BY <1>2, <1>3
<1>10. a \in Super => \A p \in Open(r) : r[p].actor \notin KidsOf(a)
  BY <1>7
<1>11. a \in Super /\ a \notin V => KidsOf(a) \cap V = {}
  BY <1>8
<1>. QED  BY <1>6, <1>9, <1>10, <1>11 DEF r, a, h

\* An actor may join the upgrade order after all its children, and not after
\* its parent.
LEMMA JoinsLast ==
  ASSUME TypeInv, KidsFirst, NEW a \in Actor, Joins(a),
         a \in Super => a \notin KidsOf(a),
         \A s \in Super : a \in KidsOf(s) => s \notin Planned
  PROVE  KidsFirst' /\ Planned' = Planned \cup {a}
<1>1. Order \in Seq(Actor) /\ Order' = Append(Order, a)
  BY HostHas DEF Order, Joins
<1>2. /\ Len(Order) \in Nat /\ DOMAIN Order = 1..Len(Order)
      /\ DOMAIN Order' = 1..(Len(Order) + 1)
      /\ \A i \in 1..Len(Order) : Order'[i] = Order[i]
      /\ Order'[Len(Order) + 1] = a
  BY <1>1, AppendHas
<1>3. Planned' = Planned \cup {a}
  BY <1>1, SetOfAppend DEF Planned, Order, ToSetOf
<1>4. ASSUME NEW j \in DOMAIN Order', NEW l \in DOMAIN Order',
             Order'[j] \in Super, Order'[l] \in KidsOf(Order'[j])
      PROVE  l < j
  <2>1. \A i \in DOMAIN Order' :
          \/ i \in DOMAIN Order /\ Order'[i] = Order[i] /\ Order[i] \in Planned
          \/ i = Len(Order) + 1 /\ Order'[i] = a
    <3>1. \A i \in 1..(Len(Order) + 1) : i \in 1..Len(Order) \/ i = Len(Order) + 1
      BY <1>2
    <3>. QED  BY <1>2, <3>1 DEF Planned, ToSetOf, Order
  <2>2. CASE j \in DOMAIN Order /\ l \in DOMAIN Order
    BY <1>2, <1>4, <2>2 DEF KidsFirst
  <2>3. CASE j = Len(Order) + 1 /\ l \in DOMAIN Order
    BY <1>2, <2>3
  <2>4. ~(l = Len(Order) + 1 /\ Order'[l] = a)
    BY <1>4, <2>1, <1>2
  <2>. QED  BY <2>1, <2>2, <2>3, <2>4
<1>. QED  BY <1>3, <1>4 DEF KidsFirst

LEMMA WalkOnStays ==
  ASSUME TypeInv, WalkInv, KidsFirst, WalkOn
  PROVE  WalkInv' /\ KidsFirst'
<1>. DEFINE h == Head(host.todo)
            a == h.actor
            r == Tail(host.todo)
<1>1. /\ host.todo \in Seq(Item) /\ host.todo # <<>> /\ h \in Item
      /\ r \in Seq(Item) /\ a \in Actor
      /\ WalkSound(host.todo, Visited, Planned)
      /\ WalkStep(h, a, r)
  BY HostHas DEF WalkOn, WalkInv, Item
<1>2. h.op # "skip" =>
        /\ h.op = "visit" => a \notin Visited /\ HasParent(a, Visited)
        /\ h.op = "leave" => a \in (Super \cap Visited) \ Planned
        /\ \A s \in Super : a \in KidsOf(s) =>
             s \notin Planned /\ s # a /\ \E q \in Open(r) : r[q] = Leave(s)
        /\ a \in Super => \A p \in Open(r) : r[p].actor \notin KidsOf(a)
        /\ a \in Super /\ a \notin Visited => KidsOf(a) \cap Visited = {}
  BY <1>1, TopHas
<1>3. Planned \subseteq Visited /\ \A x \in Visited : HasParent(x, Visited)
  BY <1>1 DEF WalkSound
<1>v. ASSUME Enters(a)
      PROVE  Visited' = Visited \cup {a}
  <2>. DEFINE q == host.plan.suspendOrder
  <2>1. q \in Seq(Actor) /\ host'.plan.suspendOrder = Append(q, a)
    BY <1>v, HostHas DEF Enters
  <2>2. Visited' = ToSetOf(Append(q, a))
    BY <2>1 DEF Visited, ToSetOf
  <2>. QED  BY <1>1, <2>1, <2>2, SetOfAppend DEF Visited
<1>s. ASSUME host'.plan.suspendOrder = host.plan.suspendOrder
      PROVE  Visited' = Visited
  BY <1>s DEF Visited, ToSetOf
<1>o. ASSUME host'.plan.upgradeOrder = host.plan.upgradeOrder
      PROVE  Planned' = Planned /\ KidsFirst'
  BY <1>o DEF Planned, ToSetOf, KidsFirst, Order
<1>j. ASSUME Joins(a), h.op # "skip"
      PROVE  KidsFirst' /\ Planned' = Planned \cup {a}
  BY <1>1, <1>2, <1>j, JoinsLast
<1>r. ASSUME NEW V2, NEW O2, Visited \subseteq V2, O2 \subseteq V2,
             \A x \in V2 \ Visited : h.op # "skip" /\ x = a,
             \A x \in O2 \ Planned : h.op # "skip" /\ x = a,
             \A x \in V2 : HasParent(x, V2)
      PROVE  /\ WalkSound(r, V2, O2)
             /\ h.op # "skip" => \A p \in Open(r) : r[p].actor # a
  BY <1>1, <1>r, RestSound
<1>p. \A x : HasParent(x, Visited) => HasParent(x, Visited \cup {a})
  BY DEF HasParent
<1>. HIDE DEF h, a, r
<1>4. CASE h.op = "leave" /\ StaysOut /\ Joins(a) /\ host'.todo = r
  <2>1. Visited' = Visited /\ Planned' = Planned \cup {a} /\ KidsFirst'
    BY <1>4, <1>j, <1>s DEF StaysOut
  <2>2. WalkSound(r, Visited, Planned \cup {a})
    BY <1>2, <1>3, <1>4, <1>r
  <2>3. WalkSound(host'.todo, Visited', Planned')
    BY <1>4, <2>1, <2>2
  <2>. QED  BY <2>1, <2>3 DEF WalkInv, WalkSound
<1>5. CASE h.op = "skip" /\ host'.plan = host.plan /\ host'.todo = r
  <2>1. Visited' = Visited /\ Planned' = Planned /\ KidsFirst'
    BY <1>5, <1>o, <1>s
  <2>2. WalkSound(r, Visited, Planned)
    BY <1>3, <1>r
  <2>3. WalkSound(host'.todo, Visited', Planned')
    BY <1>5, <2>1, <2>2
  <2>. QED  BY <2>1, <2>3 DEF WalkInv, WalkSound
<1>6. CASE /\ h.op = "visit" /\ a \in Super /\ Enters(a)
           /\ host'.plan.upgradeOrder = Order
           /\ host'.todo = Listed(a) \o <<Leave(a)>> \o r
  <2>1. Visited' = Visited \cup {a} /\ Planned' = Planned /\ KidsFirst'
    BY <1>6, <1>o, <1>v DEF Order
  <2>2. /\ WalkSound(r, Visited \cup {a}, Planned)
        /\ \A p \in Open(r) : r[p].actor # a
    BY <1>2, <1>3, <1>6, <1>p, <1>r
  <2>3. a \notin Planned /\ KidsOf(a) \cap (Visited \cup {a}) = {}
    BY <1>2, <1>3, <1>6
  <2>4. WalkSound(Below(a, r), Visited \cup {a}, Planned)
    BY <1>1, <1>2, <1>6, <2>2, <2>3, DownSound DEF r
  <2>5. WalkSound(host'.todo, Visited', Planned')
    BY <1>6, <2>1, <2>4 DEF Below
  <2>. QED  BY <2>1, <2>5 DEF WalkInv, WalkSound
<1>7. CASE /\ h.op = "visit" /\ a \notin Super /\ Enters(a) /\ Joins(a)
           /\ host'.todo = r
  <2>1. /\ Visited' = Visited \cup {a} /\ Planned' = Planned \cup {a}
        /\ KidsFirst'
    BY <1>7, <1>j, <1>v
  <2>2. WalkSound(r, Visited \cup {a}, Planned \cup {a})
    BY <1>2, <1>3, <1>7, <1>p, <1>r
  <2>3. WalkSound(host'.todo, Visited', Planned')
    BY <1>7, <2>1, <2>2
  <2>. QED  BY <2>1, <2>3 DEF WalkInv, WalkSound
<1>. QED  BY <1>1, <1>4, <1>5, <1>6, <1>7 DEF WalkStep

LEMMA RootAlone == WalkSound(<<Visit(Root)>>, {}, {})
<1>. DEFINE t == <<Visit(Root)>>
<1>1. DOMAIN t = {1} /\ t[1] = Visit(Root)
  OBVIOUS
<1>2. t[1].op = "visit" /\ t[1].actor = Root
  BY DEF Visit
<1>. HIDE DEF t
<1>3. \A p \in Open(t) : p = 1
  BY <1>1 DEF Open
<1>4. \A s \in Super : Root \notin KidsOf(s)
  BY TreeAssumption DEF KidsOf, ToSetOf
<1>. QED  BY <1>2, <1>3, <1>4 DEF WalkSound, HasParent, t

LEMMA WalkStays ==
  ASSUME TypeInv, TypeInv', SoundInv, LocalInv, WalkInv, KidsFirst, [Next]_vars
  PROVE  WalkInv' /\ KidsFirst'
<1>1. ASSUME host'.plan = host.plan, host'.pc # "plan"
      PROVE  WalkInv' /\ KidsFirst'
  BY <1>1 DEF WalkInv, KidsFirst, Order
<1>2. ASSUME host'.plan = NoPlan
      PROVE  KidsFirst'
  BY <1>2 DEF KidsFirst, Order, NoPlan
<1>3. CASE ByActors \/ UNCHANGED <<rt, running, act, host, upgrades, changed>>
  <2>1. /\ host'.pc = host.pc /\ host'.plan = host.plan
        /\ host'.todo = host.todo
    BY <1>3, ByActorsHost
  <2>2. KidsFirst'
    BY <2>1 DEF KidsFirst, Order
  <2>3. Visited' = Visited /\ Planned' = Planned
    BY <2>1 DEF Visited, Planned, ToSetOf
  <2>4. host'.pc = "plan" => WalkSound(host'.todo, Visited', Planned')
    BY <2>1, <2>3 DEF WalkInv
  <2>. QED  BY <2>2, <2>4 DEF WalkInv, WalkSound
<1>4. CASE CallStep \/ BackStep
  <2>1. host'.tx = 0 /\ host'.pc # "plan"
    BY <1>4 DEF CallStep, BackStep
  <2>2. host'.plan = NoPlan
    BY <2>1 DEF TypeInv, PlaceOK
  <2>. QED  BY <1>2, <2>1, <2>2 DEF WalkInv
<1>5. CASE StartStep
  <2>1. host'.plan = NoPlan /\ (host'.pc = "plan" => host'.todo = <<Visit(Root)>>)
    BY <1>5 DEF StartStep
  <2>2. Visited' = {} /\ Planned' = {}
    BY <2>1 DEF NoPlan, Visited, Planned, ToSetOf
  <2>3. host'.pc = "plan" => WalkSound(host'.todo, Visited', Planned')
    BY <2>1, <2>2, RootAlone
  <2>. QED  BY <1>2, <2>1, <2>3 DEF WalkInv, WalkSound
<1>6. \/ WalkDone \/ SuspendOne \/ SuspendsDone \/ QuietStep \/ ChangeOne
      \/ AwaitOk \/ ChangesDone \/ ResumeOne \/ ResumesDone \/ Returns
      => host'.plan = host.plan /\ host'.pc # "plan"
  BY DEF WalkDone, SuspendOne, SuspendsDone, QuietStep, ChangeOne, AwaitOk,
         ChangesDone, ResumeOne, ResumesDone, Returns, Goes
<1>. QED  BY <1>1, <1>3, <1>4, <1>5, <1>6, WalkOnStays, StepHas DEF HostStep

OrderSafety == UpgradeSafety /\ OrderInv /\ WalkInv /\ KidsFirst

LEMMA OrderInit == Init => OrderSafety
<1>. SUFFICES ASSUME Init PROVE OrderInv /\ WalkInv /\ KidsFirst
  BY UpgradeInit DEF OrderSafety
<1>1. host.pc = "idle" /\ host.tx = 0 /\ Order = <<>>
  BY DEF Init, HostIdle, NoPlan, Order
<1>. QED  BY <1>1 DEF OrderInv, WalkInv, KidsFirst

LEMMA OrderStep2 == OrderSafety /\ [Next]_vars => OrderSafety'
BY UpgradeStep, OrderStep, WalkStays DEF OrderSafety, UpgradeSafety, QuietSafety

\* For every tree and in both runtimes: when an upgrade has changed the code of
\* a supervisor, it has changed that of its planned children.
THEOREM ChildrenFirst == Spec => []LeavesFirst
<1>1. OrderSafety => LeavesFirst
  <2>. SUFFICES ASSUME OrderSafety, host.tx # 0, NEW s \in Super \cap changed,
                       NEW a \in ToSetOf(Kids[s]) \cap Planned
                PROVE  a \in changed
    BY DEF LeavesFirst
  <2>1. PICK j \in DOMAIN Order :
          /\ Order[j] = s
          /\ \A k \in DOMAIN Order : k < j => Order[k] \in changed
    BY DEF OrderSafety, OrderInv, Turned, Order
  <2>2. PICK l \in DOMAIN Order : a = Order[l]
    BY DEF Planned, ToSetOf, Order
  <2>3. l < j
    BY <2>1, <2>2 DEF OrderSafety, KidsFirst, KidsOf
  <2>. QED  BY <2>1, <2>2, <2>3
<1>. QED  BY <1>1, OrderInit, OrderStep2, PTL DEF Spec
=============================================================================
