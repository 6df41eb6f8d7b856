------------------------------ MODULE Broadcast ------------------------------
(***************************************************************************)
(* The Redis broadcaster of c2cwsgiutils (broadcast/redis.py) and its      *)
(* listener thread (redis_utils.py, PubSubWorkerThread), for one broadcast *)
(* channel shared by all the processes.                                    *)
(*                                                                         *)
(* Each process owns one pub/sub connection, on which it subscribes and    *)
(* receives, and a listener thread that reads it.  PUBLISH goes over       *)
(* another connection, so the server may see it before a SUBSCRIBE sent    *)
(* earlier by the same thread.  A broadcast that expects answers (an       *)
(* "ask") subscribes to an answer channel of its own, publishes, waits for *)
(* as many answers as the server counted receivers or for the timeout, and *)
(* unsubscribes.                                                           *)
(*                                                                         *)
(* The random answer channel of the ask r is written r: a collision of ten *)
(* random characters is not modelled.  Time is abstracted: the timeout of  *)
(* a waiting ask may expire at any moment.                                 *)
(***************************************************************************)
EXTENDS Naturals, Sequences, FiniteSets, Functions

CONSTANTS
  Procs,      \* the processes
  Asks,       \* calls of broadcast() with expect_answers=True
  Tells,      \* calls of broadcast() with expect_answers=False
  Main,       \* the channel of the broadcasts
  Dummy,      \* the "c2c_dummy" channel that keeps the listener alive
  None,       \* Python's None
  MaxFaults   \* bound: connection losses and failed PUBLISH in a behaviour

Calls == Asks \cup Tells
Channels == Calls \cup {Main, Dummy}

ASSUME ConstantsDistinct ==
  /\ Asks \cap Tells = {}
  /\ Main # Dummy
  /\ {Main, Dummy} \cap Calls = {}
  /\ None \notin Procs \cup Channels

ASSUME FiniteProcs == IsFiniteSet(Procs)
ASSUME FaultBound == MaxFaults \in Nat

VARIABLES
  \* The threads calling broadcast().
  pc,         \* pc[r]: how far the call r is
  origin,     \* origin[r]: the process of the call
  receivers,  \* receivers[r]: who the server sent r to (nb_received counts them)
  answers,    \* answers[r]: the list of r, a process standing for its answer
  \* The processes: the client side of the pub/sub connection.
  phase,      \* phase[p]: the subscription of p to Main
  up,         \* up[p]: the connection works
  handlers,   \* handlers[p]: the channels with a handler (PubSub.channels)
  pending,    \* pending[p]: unsubscribed, not confirmed yet
  handling,   \* handling[p]: the call whose callback the listener runs
  \* The network and the server.
  commands,   \* commands[p]: sent on the connection, not seen by the server
  subscribed, \* subscribed[p]: the channels the server knows of
  inbox,      \* inbox[p]: sent by the server, not read by the listener
  faults,     \* faults so far
  \* History.
  log,        \* the published calls, in the server's order
  applied     \* applied[p]: the calls whose callback p has started, in order

callVars == <<pc, origin, receivers, answers>>
clientVars == <<phase, up, handlers, pending, handling>>
serverVars == <<commands, subscribed, inbox, faults>>
vars == <<callVars, clientVars, serverVars, log, applied>>

------------------------------------------------------------------------------
(* Messages and commands. *)

Request(r) == [kind |-> "request", id |-> r, from |-> None]
Answer(r, p) == [kind |-> "answer", id |-> r, from |-> p]
Unsubscribed(c) == [kind |-> "unsubscribed", id |-> c, from |-> None]

Message ==
  {Request(r) : r \in Calls} \cup {Answer(r, p) : r \in Asks, p \in Procs}
  \cup {Unsubscribed(c) : c \in Channels}

Command == [op : {"SUBSCRIBE", "UNSUBSCRIBE"}, channel : Channels]

CallStates == {"new", "subscribing", "publishing", "waiting", "returning",
               "raising", "done", "failed"}
Phases == {"starting", "subscribing", "serving", "left"}

\* The answer list got padded, so the timeout has expired.
TimedOut(r) == None \in Range(answers[r])

\* PubSubWorkerThread.run loops while the connection is subscribed to something.
ListenerAlive(p) == handlers[p] # {}

Send(p, op, c) ==
  commands' = [commands EXCEPT ![p] = Append(@, [op |-> op, channel |-> c])]

\* Second half of PubSub.subscribe: the handler is known after the command left.
AddHandler(p, c) ==
  /\ handlers' = [handlers EXCEPT ![p] = @ \cup {c}]
  /\ pending' = [pending EXCEPT ![p] = @ \ {c}]

\* PubSub.unsubscribe: on a broken connection the command raises after the
\* channel was marked.
SendUnsubscribe(p, c) ==
  /\ pending' = [pending EXCEPT ![p] = @ \cup {c}]
  /\ IF up[p] THEN Send(p, "UNSUBSCRIBE", c) ELSE UNCHANGED commands

------------------------------------------------------------------------------
(* The initial state: every broadcaster is constructed.                    *)

InitialHandlers == {Dummy}

Init ==
  /\ pc = [r \in Calls |-> "new"]
  /\ origin = [r \in Calls |-> None]
  /\ receivers = [r \in Calls |-> {}]
  /\ answers = [r \in Calls |-> <<>>]
  /\ phase = [p \in Procs |-> "starting"]
  /\ up = [p \in Procs |-> TRUE]
  /\ handlers = [p \in Procs |-> InitialHandlers]
  /\ pending = [p \in Procs |-> {}]
  /\ handling = [p \in Procs |-> None]
  /\ commands = [p \in Procs |-> <<>>]
  /\ subscribed = [p \in Procs |-> InitialHandlers]
  /\ inbox = [p \in Procs |-> <<>>]
  /\ faults = 0
  /\ log = <<>>
  /\ applied = [p \in Procs |-> <<>>]

------------------------------------------------------------------------------
(* subscribe() and unsubscribe() of the broadcast channel.                 *)

SubscribeMain(p) ==
  /\ phase[p] = "starting"
  /\ up[p]
  /\ Send(p, "SUBSCRIBE", Main)
  /\ phase' = [phase EXCEPT ![p] = "subscribing"]
  /\ UNCHANGED <<callVars, up, handlers, pending, handling>>
  /\ UNCHANGED <<subscribed, inbox, faults, log, applied>>

RegisterMain(p) ==
  /\ phase[p] = "subscribing"
  /\ AddHandler(p, Main)
  /\ phase' = [phase EXCEPT ![p] = "serving"]
  /\ UNCHANGED <<callVars, up, handling, serverVars, log, applied>>

UnsubscribeMain(p) ==
  /\ phase[p] = "serving"
  /\ SendUnsubscribe(p, Main)
  /\ phase' = [phase EXCEPT ![p] = "left"]
  /\ UNCHANGED <<callVars, up, handlers, handling>>
  /\ UNCHANGED <<subscribed, inbox, faults, log, applied>>

------------------------------------------------------------------------------
(* broadcast(): the calling thread.                                        *)

\* A call without answers goes straight to PUBLISH.
StartTell(r, p) ==
  /\ pc[r] = "new" /\ r \in Tells
  /\ origin' = [origin EXCEPT ![r] = p]
  /\ pc' = [pc EXCEPT ![r] = "publishing"]
  /\ UNCHANGED <<receivers, answers, clientVars, serverVars, log, applied>>

\* Subscribing to the answer channel raises when the connection is broken.
StartAsk(r, p) ==
  /\ pc[r] = "new" /\ r \in Asks
  /\ ListenerAlive(p)
  /\ origin' = [origin EXCEPT ![r] = p]
  /\ IF up[p]
     THEN Send(p, "SUBSCRIBE", r) /\ pc' = [pc EXCEPT ![r] = "subscribing"]
     ELSE UNCHANGED commands /\ pc' = [pc EXCEPT ![r] = "failed"]
  /\ UNCHANGED <<receivers, answers, clientVars, subscribed, inbox, faults>>
  /\ UNCHANGED <<log, applied>>

RegisterAnswers(r) ==
  /\ pc[r] = "subscribing"
  /\ AddHandler(origin[r], r)
  /\ pc' = [pc EXCEPT ![r] = "publishing"]
  /\ UNCHANGED <<origin, receivers, answers, phase, up, handling, serverVars>>
  /\ UNCHANGED <<log, applied>>

\* Faulty variant: the connection delivers the newest message first.
PublishNewestFirst(r) ==
  LET listening == {p \in Procs : Main \in subscribed[p]}
  IN /\ log' = Append(log, r)
     /\ receivers' = [receivers EXCEPT ![r] = listening]
     /\ inbox' = [p \in Procs |-> IF p \in listening
                                  THEN <<Request(r)>> \o inbox[p]
                                  ELSE inbox[p]]

\* The server hands the request to every connection subscribed to Main.
Publish(r) ==
  LET listening == {p \in Procs : Main \in subscribed[p]}
  IN /\ log' = Append(log, r)
     /\ receivers' = [receivers EXCEPT ![r] = listening]
     /\ inbox' = [p \in Procs |-> IF p \in listening
                                  THEN Append(inbox[p], Request(r))
                                  ELSE inbox[p]]

PublishCall(r) ==
  /\ pc[r] = "publishing"
  /\ Publish(r)
  /\ pc' = [pc EXCEPT ![r] = IF r \in Asks THEN "waiting" ELSE "done"]
  /\ UNCHANGED <<origin, answers, clientVars, commands, subscribed, faults>>
  /\ UNCHANGED applied

\* PUBLISH raises, before the server saw it or after (the reply got lost).
PublishFails(r) ==
  /\ pc[r] = "publishing"
  /\ faults < MaxFaults
  /\ faults' = faults + 1
  /\ Publish(r) \/ UNCHANGED <<log, receivers, inbox>>
  /\ pc' = [pc EXCEPT ![r] = IF r \in Asks THEN "raising" ELSE "failed"]
  /\ UNCHANGED <<origin, answers, clientVars, commands, subscribed, applied>>

\* Faulty variant: off by one in the loop of the wait.
AllButOneAnswerIn(r) == Len(answers[r]) + 1 >= Cardinality(receivers[r])

\* len(answers) >= nb_received.
AllAnswersIn(r) == Len(answers[r]) >= Cardinality(receivers[r])

GetAnswers(r) ==
  /\ pc[r] = "waiting"
  /\ AllAnswersIn(r)
  /\ pc' = [pc EXCEPT ![r] = "returning"]
  /\ UNCHANGED <<origin, receivers, answers, clientVars, serverVars>>
  /\ UNCHANGED <<log, applied>>

\* Faulty variant: the answers got so far are returned without padding.
TimeoutWithoutPadding(r) ==
  /\ pc[r] = "waiting"
  /\ ~AllAnswersIn(r)
  /\ pc' = [pc EXCEPT ![r] = "returning"]
  /\ UNCHANGED <<origin, receivers, answers, clientVars, serverVars, log, applied>>

\* Faulty variant: the time is checked before the first wait only.
TimeoutBeforeFirstAnswer(r) ==
  /\ pc[r] = "waiting"
  /\ ~AllAnswersIn(r)
  /\ answers[r] = <<>>
  /\ answers' = [answers EXCEPT ![r] = [i \in 1 .. Cardinality(receivers[r]) |-> None]]
  /\ pc' = [pc EXCEPT ![r] = "returning"]
  /\ UNCHANGED <<origin, receivers, clientVars, serverVars, log, applied>>

\* The timeout: one None for each missing answer.
Timeout(r) ==
  /\ pc[r] = "waiting"
  /\ ~AllAnswersIn(r)
  /\ answers' = [answers EXCEPT ![r] =
       [i \in 1 .. Cardinality(receivers[r]) |->
          IF i <= Len(@) THEN @[i] ELSE None]]
  /\ pc' = [pc EXCEPT ![r] = "returning"]
  /\ UNCHANGED <<origin, receivers, clientVars, serverVars, log, applied>>

\* Faulty variant: the answer channel is kept when the call returns.
ReleaseNothing(r) ==
  /\ pc[r] \in {"returning", "raising"}
  /\ pc' = [pc EXCEPT ![r] = IF pc[r] = "returning" THEN "done" ELSE "failed"]
  /\ UNCHANGED <<origin, receivers, answers, clientVars, serverVars, log, applied>>

\* The finally clause; its exception replaces the answers.
Release(r) ==
  /\ pc[r] \in {"returning", "raising"}
  /\ SendUnsubscribe(origin[r], r)
  /\ pc' = [pc EXCEPT ![r] = IF pc[r] = "returning" /\ up[origin[r]]
                             THEN "done" ELSE "failed"]
  /\ UNCHANGED <<origin, receivers, answers, phase, up, handlers, handling>>
  /\ UNCHANGED <<subscribed, inbox, faults, log, applied>>

------------------------------------------------------------------------------
(* The listener thread.                                                    *)

Reads(p, kind) ==
  /\ ListenerAlive(p)
  /\ handling[p] = None
  /\ inbox[p] # <<>>
  /\ Head(inbox[p]).kind = kind
  /\ inbox' = [inbox EXCEPT ![p] = Tail(@)]

\* A message for a channel without handler is ignored.
ReadRequest(p) ==
  /\ Reads(p, "request")
  /\ LET r == Head(inbox[p]).id
     IN IF Main \in handlers[p]
        THEN /\ handling' = [handling EXCEPT ![p] = r]
             /\ applied' = [applied EXCEPT ![p] = Append(@, r)]
        ELSE UNCHANGED <<handling, applied>>
  /\ UNCHANGED <<callVars, phase, up, handlers, pending>>
  /\ UNCHANGED <<commands, subscribed, faults, log>>

\* Faulty variant: the message is kept instead of its data.
ReadRawAnswer(p) ==
  /\ Reads(p, "answer")
  /\ LET m == Head(inbox[p])
     IN answers' = IF m.id \in handlers[p]
                   THEN [answers EXCEPT ![m.id] = Append(@, m)]
                   ELSE answers
  /\ UNCHANGED <<pc, origin, receivers, clientVars>>
  /\ UNCHANGED <<commands, subscribed, faults, log, applied>>

ReadAnswer(p) ==
  /\ Reads(p, "answer")
  /\ LET m == Head(inbox[p])
     IN answers' = IF m.id \in handlers[p]
                   THEN [answers EXCEPT ![m.id] = Append(@, m.from)]
                   ELSE answers
  /\ UNCHANGED <<pc, origin, receivers, clientVars>>
  /\ UNCHANGED <<commands, subscribed, faults, log, applied>>

\* The confirmation drops the handler, unless it was added again meanwhile.
ReadUnsubscribed(p) ==
  /\ Reads(p, "unsubscribed")
  /\ LET c == Head(inbox[p]).id
     IN /\ handlers' = [handlers EXCEPT ![p] =
                          IF c \in pending[p] THEN @ \ {c} ELSE @]
        /\ pending' = [pending EXCEPT ![p] = @ \ {c}]
  /\ UNCHANGED <<callVars, phase, up, handling>>
  /\ UNCHANGED <<commands, subscribed, faults, log, applied>>

\* Faulty variant: a callback that has answered may run again.
FinishCallbackAndRetry(p) ==
  /\ handling[p] # None
  /\ LET r == handling[p]
         q == origin[r]
     IN inbox' = IF r \in Asks /\ r \in subscribed[q]
                 THEN [inbox EXCEPT ![q] = Append(@, Answer(r, p))]
                 ELSE inbox
  /\ handling' = [handling EXCEPT ![p] = IF Len(inbox[p]) > 0 THEN @ ELSE None]
  /\ UNCHANGED <<callVars, phase, up, handlers, pending>>
  /\ UNCHANGED <<commands, subscribed, faults, log, applied>>

\* The callback ended, normally or not: an ask gets an answer in both cases.
FinishCallback(p) ==
  /\ handling[p] # None
  /\ LET r == handling[p]
         q == origin[r]
     IN inbox' = IF r \in Asks /\ r \in subscribed[q]
                 THEN [inbox EXCEPT ![q] = Append(@, Answer(r, p))]
                 ELSE inbox
  /\ handling' = [handling EXCEPT ![p] = None]
  /\ UNCHANGED <<callVars, phase, up, handlers, pending>>
  /\ UNCHANGED <<commands, subscribed, faults, log, applied>>

\* Publishing the answer raises out of the handler; run() goes on.
AnswerFails(p) ==
  /\ handling[p] \in Asks
  /\ faults < MaxFaults
  /\ faults' = faults + 1
  /\ handling' = [handling EXCEPT ![p] = None]
  /\ UNCHANGED <<callVars, phase, up, handlers, pending>>
  /\ UNCHANGED <<commands, subscribed, inbox, log, applied>>

------------------------------------------------------------------------------
(* The server and the connections.                                         *)

ServerSubscribe(p) ==
  /\ commands[p] # <<>>
  /\ Head(commands[p]).op = "SUBSCRIBE"
  /\ subscribed' = [subscribed EXCEPT ![p] = @ \cup {Head(commands[p]).channel}]
  /\ commands' = [commands EXCEPT ![p] = Tail(@)]
  /\ UNCHANGED <<callVars, clientVars, inbox, faults, log, applied>>

ServerUnsubscribe(p) ==
  /\ commands[p] # <<>>
  /\ Head(commands[p]).op = "UNSUBSCRIBE"
  /\ LET c == Head(commands[p]).channel
     IN /\ subscribed' = [subscribed EXCEPT ![p] = @ \ {c}]
        /\ inbox' = [inbox EXCEPT ![p] = Append(@, Unsubscribed(c))]
  /\ commands' = [commands EXCEPT ![p] = Tail(@)]
  /\ UNCHANGED <<callVars, clientVars, faults, log, applied>>

\* A lost connection takes its subscriptions and all that is under way with it.
Disconnect(p) ==
  /\ up[p]
  /\ faults < MaxFaults
  /\ faults' = faults + 1
  /\ up' = [up EXCEPT ![p] = FALSE]
  /\ subscribed' = [subscribed EXCEPT ![p] = {}]
  /\ commands' = [commands EXCEPT ![p] = <<>>]
  /\ inbox' = [inbox EXCEPT ![p] = <<>>]
  /\ UNCHANGED <<callVars, phase, handlers, pending, handling, log, applied>>

\* The next use of the connection opens it again and subscribes to every
\* channel that has a handler, those about to be dropped included.
Reconnect(p) ==
  /\ ~up[p]
  /\ ListenerAlive(p)
  /\ up' = [up EXCEPT ![p] = TRUE]
  /\ subscribed' = [subscribed EXCEPT ![p] = handlers[p]]
  /\ pending' = [pending EXCEPT ![p] = {}]
  /\ UNCHANGED <<callVars, phase, handlers, handling, commands, inbox, faults>>
  /\ UNCHANGED <<log, applied>>

------------------------------------------------------------------------------
CallerStep(r) ==
  RegisterAnswers(r) \/ PublishCall(r) \/ GetAnswers(r) \/ Timeout(r) \/ Release(r)

ListenerStep(p) ==
  ReadRequest(p) \/ ReadAnswer(p) \/ ReadUnsubscribed(p) \/ FinishCallback(p)

ServerStep(p) == ServerSubscribe(p) \/ ServerUnsubscribe(p)

Next ==
  \/ \E p \in Procs :
       \/ SubscribeMain(p) \/ RegisterMain(p) \/ UnsubscribeMain(p)
       \/ ListenerStep(p) \/ AnswerFails(p)
       \/ ServerStep(p) \/ Disconnect(p) \/ Reconnect(p)
  \/ \E r \in Calls :
       \/ CallerStep(r) \/ PublishFails(r)
       \/ \E p \in Procs : StartTell(r, p) \/ StartAsk(r, p)

Spec == Init /\ [][Next]_vars

\* A thread that can run does, and so do the server and the timer.
Fairness ==
  /\ \A r \in Calls : WF_vars(CallerStep(r))
  /\ \A p \in Procs : WF_vars(ListenerStep(p)) /\ WF_vars(ServerStep(p))

FairSpec == Spec /\ Fairness

------------------------------------------------------------------------------
(* Properties.                                                             *)

\* Type invariant.
TypeOK ==
  /\ pc \in [Calls -> CallStates]
  /\ origin \in [Calls -> Procs \cup {None}]
  /\ receivers \in [Calls -> SUBSET Procs]
  /\ answers \in [Calls -> Seq(Procs \cup {None})]
  /\ phase \in [Procs -> Phases]
  /\ up \in [Procs -> BOOLEAN]
  /\ handlers \in [Procs -> SUBSET Channels]
  /\ pending \in [Procs -> SUBSET Channels]
  /\ handling \in [Procs -> Calls \cup {None}]
  /\ commands \in [Procs -> Seq(Command)]
  /\ subscribed \in [Procs -> SUBSET Channels]
  /\ inbox \in [Procs -> Seq(Message)]
  /\ faults \in 0 .. MaxFaults
  /\ log \in Seq(Calls)
  /\ applied \in [Procs -> Seq(Calls)]

\* The answer list of a call never holds two answers of one process, nor one
\* of a process that the server did not count: waiting for nb_received entries
\* (redis.py, _broadcast_with_answer) is waiting for nb_received processes,
\* whatever is reordered, lost or resubscribed on the way.
OneAnswerEach ==
  \A r \in Calls :
    /\ Range(answers[r]) \subseteq receivers[r] \cup {None}
    /\ \A i, j \in DOMAIN answers[r] :
         i # j /\ answers[r][i] = answers[r][j] => answers[r][i] = None

\* A call that returns a list without None (no timeout) returns the answer of
\* every receiver, and each of them has run the callback: what the callers of
\* the decorated functions rely on when they read all the processes' state.
CompleteAnswers ==
  \A r \in Asks :
    pc[r] = "done" /\ ~TimedOut(r) =>
      /\ Range(answers[r]) = receivers[r]
      /\ \A p \in receivers[r] : r \in Range(applied[p])

\* Two processes that run the same two callbacks run them in the same order,
\* and none runs one twice, across lost connections too: the last of several
\* concurrent changes is the same one everywhere.
SameOrder ==
  \A p, q \in Procs :
    \A i, j \in DOMAIN applied[p], k, l \in DOMAIN applied[q] :
      i < j /\ applied[p][i] = applied[q][k] /\ applied[p][j] = applied[q][l]
        => k < l

\* A caller is never blocked forever: a call that began returns or raises,
\* even when processes are deaf, answers are lost or connections break.
EveryCallSettles ==
  \A r \in Calls : pc[r] # "new" ~> pc[r] \in {"done", "failed"}

\* The answer channel of a call that returned is given up in the end: no handler,
\* and the server does not know it any more.  A failure may leave it behind: a
\* connection that is opened again subscribes to the channels about to be dropped.
AnswerChannelsReleased ==
  \A r \in Asks, p \in Procs :
    pc[r] = "done" /\ origin[r] = p
      ~> r \notin handlers[p] \cup subscribed[p] \/ faults > 0

\* The list that a call returned does not change any more (the docstring of
\* broadcast(): it waits "up to timeout seconds to get all the answers").
ReturnedAnswersFixed ==
  [][\A r \in Calls : pc[r] = "done" => UNCHANGED answers[r]]_vars

\* What the caller of an ask has got, as ScatterGather sees it.
outcome ==
  [r \in Asks |->
     CASE pc[r] = "failed" -> "raised"
       [] pc[r] = "done" /\ TimedOut(r) -> "partial"
       [] pc[r] = "done" /\ ~TimedOut(r) -> "complete"
       [] OTHER -> "none"]

SG == INSTANCE ScatterGather

\* The broadcaster implements ScatterGather.
ImplementsScatterGather == SG!Spec
==============================================================================
