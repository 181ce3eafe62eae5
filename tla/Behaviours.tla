----------------------------- MODULE Behaviours -----------------------------
(***************************************************************************)
(* A typed server on the local runtime and an actor that calls it.  The    *)
(* server is a gen_server or a gen_statem: an adapter that sorts each      *)
(* envelope into call, cast, info and runtime information, hands it to the *)
(* behaviour, and turns the outcome into a reply, a new state or an exit;  *)
(* control messages reach the behaviour's hooks instead.                   *)
(* What the behaviour decides is free.  A ReplyToken is Copy: a callback   *)
(* may answer any call it has been handed, as often as it likes, and so    *)
(* may anybody else that the token was passed to.  The caller, its         *)
(* timeouts and the driver are module LocalWaits.                          *)
(*                                                                         *)
(* The local runtime runs one actor at a time.  A turn of the server is    *)
(* several steps, its begin, the replies of its callback and its end, so   *)
(* that the pool may report in between.  Not modelled: a caller that       *)
(* replies to a call of its own.                                           *)
(***************************************************************************)
EXTENDS LocalWaits

CONSTANTS
  Behaviour,   \* the behaviours considered: "gen_server", "gen_statem"
  Phase,       \* the states of a gen_statem; 0 is where it starts
  MaxMessages, \* bound: casts, infos and signals sent to the server
  MaxReplies   \* bound: replies to a call, the outcome of handle_call not
               \* counted

ASSUME BehaviourAssumption ==
  /\ Behaviour \subseteq {"gen_server", "gen_statem"} /\ 0 \in Phase
  /\ MaxReplies \in Nat

VARIABLES
  server,     \* the adapter and its mailbox
  sent,       \* messages sent to it, other than calls
  \* history
  asked,      \* per reference: how it was asked
  replies     \* per reference: the replies given while the caller lives, and
              \* the numbers of those that were accepted

peer == <<server, sent, asked, replies>>
vars == <<waiter, peer>>

Init ==
  /\ InitWaits
  /\ \E b \in Behaviour :
       server = [behaviour |-> b, live |-> TRUE, up |-> FALSE, phase |-> 0,
                 inbox |-> <<>>, held |-> {}, busy |-> FALSE, terminated |-> 0]
  /\ sent = 0
  /\ asked = [r \in Ref |-> "no"]
  /\ replies = [r \in Ref |-> [given |-> 0, accepted |-> {}]]
-----------------------------------------------------------------------------
(* Outcomes, as the behaviours may return them.                            *)

\* CallOutcome: Reply, ReplyAndStop, NoReply, Stop.
ServerCallOutcomes == [reply : BOOLEAN, stop : BOOLEAN, next : {server.phase}]

\* StatemCallOutcome has a transition with Reply and with NoReply as well.
StatemCallOutcomes ==
  ServerCallOutcomes \cup [reply : BOOLEAN, stop : {FALSE}, next : Phase]

CallOutcomes ==
  IF server.behaviour = "gen_server" THEN ServerCallOutcomes
                                     ELSE StatemCallOutcomes

\* ServerOutcome; Yield is Continue here.
ServerOutcomes == [stop : BOOLEAN, next : {server.phase}]

StatemOutcomes == ServerOutcomes \cup [stop : {FALSE}, next : Phase]

Outcomes ==
  IF server.behaviour = "gen_server" THEN ServerOutcomes ELSE StatemOutcomes

\* The control hooks end well or are refused, which leaves the state alone;
\* neither stops the server.
HookOutcomes == {out \in Outcomes : ~out.stop}

\* What receive_next hands to the server, and what stays in its mailbox.
Claimed == CHOOSE i \in DOMAIN server.inbox : TakesNext(server.inbox, FALSE, i)
Rest    == RemoveEntry(server.inbox, Claimed)

\* A callback has returned.  The tokens it was handed stay with the behaviour.
Returned(out) ==
  [server EXCEPT !.inbox = Rest, !.phase = out.next, !.busy = FALSE]

\* handle_call was handed the token of r.
AfterCall(r, out) == [Returned(out) EXCEPT !.held = @ \cup {r}]

\* finish_actor: terminate runs if there is a state, and the mailbox goes.
Stopped(s) ==
  [s EXCEPT !.live = FALSE, !.inbox = <<>>, !.held = {}, !.busy = FALSE,
            !.phase = 0, !.terminated = IF s.up THEN @ + 1 ELSE @]

StoppedIf(stop, s) == IF stop THEN Stopped(s) ELSE s

\* A step without a reply.
NoReply ==
  UNCHANGED <<present, mailbox, tasks, wait, mail, robbed, heard, replies>>

\* Reply r is one more, and it may find the caller's mailbox full.
Counted(r) ==
  LET n == replies[r].given + 1
  IN  replies' = [replies EXCEPT ![r] =
                    [given |-> n,
                     accepted |-> IF RefusesReply(r) THEN @.accepted
                                                     ELSE @.accepted \cup {n}]]

\* ctx.reply: whether the call was answered before does not matter, and what
\* becomes of the reply may be ignored.
ReplyTo(r) ==
  IF present THEN AcceptReply(r, replies[r].given + 1) /\ Counted(r)
             ELSE NoReply

EndOfTurn == turn' = "none"
-----------------------------------------------------------------------------
(* The server's turns.                                                     *)

\* run_once with the server in front of the run queue.
ServerBegin ==
  /\ server.live /\ turn = "none" /\ events = <<>>
  /\ ~server.up \/ server.inbox # <<>>
  /\ turn' = "other"
  /\ UNCHANGED <<present, mailbox, tasks, wait, mail, robbed, heard, peer>>

\* init of the adapter: the state is there.
Initialized == [server EXCEPT !.up = TRUE]

\* run_init: init may fail, and may ask to exit.
ServerInit ==
  /\ turn = "other" /\ ~server.up
  /\ NoReply /\ EndOfTurn
  /\ \/ server' = Initialized
     \/ server' = Stopped(server)
     \/ server' = Stopped(Initialized)
  /\ UNCHANGED <<sent, asked>>

\* What a payload is, and what a control message asks for, shows when it is
\* taken.
NextEnvelope(kinds) ==
  /\ turn = "other" /\ server.up
  /\ server.inbox[Claimed].kind \in kinds

\* The tokens a callback may use: what the behaviour was handed before, and in
\* handle_call the one of the request.
Tokens ==
  server.held
    \cup {r \in Ref : server.inbox[Claimed] = [kind |-> "Request", ref |-> r]}

MayReply(r) == asked[r] # "no" /\ replies[r].given < MaxReplies

\* A running callback replies.
ReplyInCallback(r) ==
  /\ NextEnvelope({"Request", "User", "Exit", "System"})
  /\ r \in Tokens /\ MayReply(r)
  /\ ReplyTo(r)
  /\ server' = [server EXCEPT !.busy = TRUE]
  /\ UNCHANGED <<turn, sent, asked>>

\* handle_call of a payload of the right type.
HandleCall ==
  /\ NextEnvelope({"Request"})
  /\ LET r == server.inbox[Claimed].ref
     IN  \E out \in CallOutcomes :
           /\ server' = StoppedIf(out.stop, AfterCall(r, out))
           /\ IF out.reply THEN ReplyTo(r) ELSE NoReply
  /\ EndOfTurn
  /\ UNCHANGED <<sent, asked>>

\* A callback other than handle_call returns.
Callback(outcomes) ==
  /\ \E out \in outcomes : server' = StoppedIf(out.stop, Returned(out))
  /\ NoReply /\ EndOfTurn

\* handle_cast and handle_info.
HandleUser ==
  /\ NextEnvelope({"User"})
  /\ Callback(Outcomes)
  /\ UNCHANGED <<sent, asked>>

\* handle_info of runtime information, and of a Shutdown.
HandleRuntimeInfo ==
  /\ NextEnvelope({"Exit", "System"})
  /\ Callback(Outcomes)
  /\ UNCHANGED <<sent, asked>>

\* inspect_state, replace_state and code_change: the reserved control messages
\* that handle does not see.  Who asks and what it is told is in Upgrade.
InspectState ==
  /\ NextEnvelope({"System"})
  /\ Callback({out \in HookOutcomes : out.next = server.phase})
  /\ UNCHANGED <<sent, asked>>

ReplaceState ==
  /\ NextEnvelope({"System"})
  /\ Callback(HookOutcomes)
  /\ UNCHANGED <<sent, asked>>

CodeChange ==
  /\ NextEnvelope({"System"})
  /\ Callback(HookOutcomes)
  /\ UNCHANGED <<sent, asked>>

\* downcast_payload and downcast_user_message: a payload of another type
\* stops the server.
RejectPayload ==
  /\ NextEnvelope({"Request", "User"}) /\ ~server.busy
  /\ server' = Stopped(server)
  /\ NoReply /\ EndOfTurn
  /\ UNCHANGED <<sent, asked>>

ServerTurn ==
  \/ ServerBegin \/ ServerInit \/ HandleCall \/ HandleUser
  \/ HandleRuntimeInfo \/ InspectState \/ ReplaceState \/ CodeChange
  \/ RejectPayload \/ \E r \in Ref : ReplyInCallback(r)
-----------------------------------------------------------------------------
(* What reaches the server.                                                *)

Item(kind, ref) == [kind |-> kind, ref |-> ref]

InboxFull(kind) ==
  IsFullFor(server.inbox, kind, Capacity, RuntimeReserve, Unbounded)

\* ask: a refused request is an error, and no timeout is armed.
Ask(r, timed) ==
  /\ asked[r] = "no"
  /\ server.live /\ ~InboxFull("Request")
  /\ server' = [server EXCEPT !.inbox = Append(@, Item("Request", r))]
  /\ ArmCall(r, timed)
  /\ asked' = [asked EXCEPT ![r] = IF timed THEN "timed" ELSE "open"]
  /\ UNCHANGED <<sent, replies>>

\* classify_envelope: user mail, runtime information (an Exit stands for all
\* of it) and control messages.
Tell(kind) ==
  /\ turn = "none" /\ sent < MaxMessages /\ server.live
  /\ ~InboxFull(kind)
  /\ server' = [server EXCEPT !.inbox = Append(@, Item(kind, "host"))]
  /\ sent' = sent + 1
  /\ UNCHANGED <<waiter, asked, replies>>

\* Somebody else replies: the behaviour's terminate hook, the host, or an actor
\* that the caller (PendingCall.reply_to) or the behaviour gave the token to.
ReplyElsewhere(r) ==
  /\ turn = "none" /\ present /\ MayReply(r)
  /\ ReplyTo(r)
  /\ UNCHANGED <<turn, server, sent, asked>>
-----------------------------------------------------------------------------
Next ==
  \/ Waits /\ UNCHANGED peer
  \/ ServerTurn
  \/ \E r \in Ref : \/ \E timed \in BOOLEAN : Ask(r, timed)
                    \/ ReplyElsewhere(r)
  \/ \E kind \in {"User", "Exit", "System"} : Tell(kind)

\* The host keeps driving the runtime, sleeps end, and an actor that has mail
\* takes it: at the front, or in a wait state what it waits for.  No server
\* has to answer, nobody else has to, and no job has to end.
Spec ==
  /\ Init /\ [][Next]_vars
  /\ WF_vars(EndTurn /\ UNCHANGED peer)
  /\ WF_vars(ServerTurn)
  /\ WF_vars(DrainEvents /\ UNCHANGED peer)
  /\ WF_vars((ReceiveNext \/ ReceiveWithTimeout)
                /\ UNCHANGED peer)
  /\ \A n \in Task : WF_vars(Elapse(n) /\ UNCHANGED peer)
-----------------------------------------------------------------------------
Got(env)       == \E i \in DOMAIN heard : heard[i] = env
InMailbox(env) == \E i \in DOMAIN mailbox : mailbox[i] = env

\* A queue has a reply to call r.
HasReply(queue, r) ==
  \E i \in DOMAIN queue : queue[i].kind = "Reply" /\ queue[i].ref = r

\* A call as its caller sees it.
CallSeen ==
  [r \in Ref |->
     IF ~present THEN "gone"
     ELSE IF asked[r] = "no" THEN "idle"
     ELSE IF Got(Env("CallTimeout", r))
     THEN IF HasReply(heard, r) THEN "late" ELSE "expired"
     ELSE IF HasReply(heard, r) THEN "answered"
     ELSE IF HasReply(mailbox, r) THEN "replied"
     ELSE IF replies[r].given > 0 THEN "lost"
     ELSE asked[r]]

\* An actor hears once of whatever it waits for: no CallTimeout, no completion
\* and no single reply reaches it twice, and every reply that was accepted is
\* either in its mailbox or was received, however many replies, timeouts and
\* cancellations of one call cross each other.
HeardOnce ==
  /\ \A i, k \in DOMAIN heard : heard[i] = heard[k] => i = k
  /\ \A r \in Ref : \A n \in replies[r].accepted :
       /\ ~(InMailbox(Answer(r, n)) /\ Got(Answer(r, n)))
       /\ present => InMailbox(Answer(r, n)) \/ Got(Answer(r, n))

Promise == INSTANCE Calls WITH call <- CallSeen

\* A call to a typed server keeps the promise of module Calls, whatever the
\* behaviour returns or refuses to understand, and however often and by whom
\* the call is answered: no CallTimeout is received after a reply, received or
\* refused (cancel_call_timeout withdraws it, the channel's event finds no
\* handle), a reply that was accepted is received, and a call with a timeout
\* ends unless its replies found the caller's mailbox full.
CallsKeepPromise == Promise!Spec

\* "the runtime delivers Envelope::CallTimeout with the same reference if no
\* reply arrives before the deadline": a call with a timeout ends for a caller
\* that stays.
TimedCallsEnd ==
  \A r \in Ref : CallSeen[r] = "timed" ~> CallSeen[r] \notin {"timed", "lost"}
=============================================================================
