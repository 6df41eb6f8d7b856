--------------------------- MODULE BroadcastProofs ---------------------------
(***************************************************************************)
(* Theorems about Broadcast, for any processes, calls and fault bound.     *)
(***************************************************************************)
EXTENDS Broadcast, FiniteSetTheorems, SequenceTheorems, TLAPS

------------------------------------------------------------------------------
(* Lemmas on the data.                                                     *)

\* The server counts finitely many receivers.
LEMMA ReceiversCount ==
  ASSUME NEW S \in SUBSET Procs
  PROVE  IsFiniteSet(S) /\ Cardinality(S) \in Nat
BY FiniteProcs, FS_Subset, FS_CardinalityType

\* Taking the first element of one of several sequences.
LEMMA TakeFirst ==
  ASSUME NEW S, NEW T, NEW f \in [S -> Seq(T)], NEW x \in S, f[x] # <<>>
  PROVE  /\ [f EXCEPT ![x] = Tail(@)] \in [S -> Seq(T)]
         /\ Head(f[x]) \in T
<1>1. f[x] \in Seq(T)
  OBVIOUS
<1>2. Head(f[x]) \in T /\ Tail(f[x]) \in Seq(T)
  BY <1>1, HeadTailProperties
<1> QED
  BY <1>2

\* Appending to one of several sequences.
LEMMA AppendTo ==
  ASSUME NEW S, NEW T, NEW f \in [S -> Seq(T)], NEW x, NEW e \in T
  PROVE  [f EXCEPT ![x] = Append(@, e)] \in [S -> Seq(T)]
<1>1. \A y \in S : Append(f[y], e) \in Seq(T)
  BY AppendProperties
<1> QED
  BY <1>1

\* The three kinds of messages.
LEMMA MessageKinds ==
  ASSUME NEW m \in Message
  PROVE  /\ m.kind \in {"request", "answer", "unsubscribed"}
         /\ m.kind = "request" => m.id \in Calls /\ m = Request(m.id)
         /\ m.kind = "answer" => /\ m.id \in Asks /\ m.from \in Procs
                                 /\ m = Answer(m.id, m.from)
         /\ m.kind = "unsubscribed" => m.id \in Channels
BY DEF Message, Request, Answer, Unsubscribed

\* What the listener takes from its inbox, and what it leaves there.
LEMMA ReadMessage ==
  ASSUME TypeOK, NEW p \in Procs, NEW kind, Reads(p, kind)
  PROVE  /\ inbox' \in [Procs -> Seq(Message)]
         /\ Head(inbox[p]) \in Message
         /\ Head(inbox[p]).kind = kind
BY TakeFirst DEF TypeOK, Reads

------------------------------------------------------------------------------
(* Type correctness.                                                       *)

\* Sending a command keeps the types.
LEMMA SendType ==
  ASSUME TypeOK, NEW p, NEW c \in Channels, NEW op \in {"SUBSCRIBE", "UNSUBSCRIBE"},
         Send(p, op, c) \/ UNCHANGED commands
  PROVE  commands' \in [Procs -> Seq(Command)]
<1> DEFINE cmd == [op |-> op, channel |-> c]
<1>1. cmd \in Command
  BY DEF Command
<1>2. commands \in [Procs -> Seq(Command)]
  BY DEF TypeOK
<1>3. commands' = commands \/ commands' = [commands EXCEPT ![p] = Append(@, cmd)]
  BY DEF Send
<1> HIDE DEF cmd
<1>4. [commands EXCEPT ![p] = Append(@, cmd)] \in [Procs -> Seq(Command)]
  BY <1>1, <1>2, AppendTo, Zenon
<1> QED
  BY <1>2, <1>3, <1>4

\* Delivering a request keeps the types.
LEMMA PublishType ==
  ASSUME TypeOK, NEW r \in Calls, Publish(r)
  PROVE  /\ log' \in Seq(Calls)
         /\ receivers' \in [Calls -> SUBSET Procs]
         /\ inbox' \in [Procs -> Seq(Message)]
<1>1. Request(r) \in Message
  BY DEF Message
<1> QED
  BY <1>1 DEF TypeOK, Publish

\* Every variable keeps its type, whatever happens on the connections.
THEOREM TypeCorrect == Spec => []TypeOK
<1>1. Init => TypeOK
  BY FaultBound DEF Init, TypeOK, InitialHandlers, CallStates, Phases, Channels
<1>2. TypeOK /\ [Next]_vars => TypeOK'
  <2> SUFFICES ASSUME TypeOK, [Next]_vars PROVE TypeOK'
    OBVIOUS
  <2>1. ASSUME NEW p \in Procs, SubscribeMain(p) PROVE TypeOK'
    <3>1. commands' \in [Procs -> Seq(Command)]
      BY <2>1, SendType DEF SubscribeMain, Channels
    <3> QED
      BY <2>1, <3>1 DEF TypeOK, SubscribeMain, Phases, callVars
  <2>2. ASSUME NEW p \in Procs, RegisterMain(p) PROVE TypeOK'
    BY <2>2 DEF TypeOK, RegisterMain, AddHandler, Channels, Phases, callVars, serverVars
  <2>3. ASSUME NEW p \in Procs, UnsubscribeMain(p) PROVE TypeOK'
    <3>1. commands' \in [Procs -> Seq(Command)]
      BY <2>3, SendType DEF UnsubscribeMain, SendUnsubscribe, Channels
    <3>2. pending' \in [Procs -> SUBSET Channels]
      BY <2>3 DEF TypeOK, UnsubscribeMain, SendUnsubscribe, Channels
    <3> QED
      BY <2>3, <3>1, <3>2 DEF TypeOK, UnsubscribeMain, Phases, callVars
  <2>4. ASSUME NEW p \in Procs, ReadRequest(p) PROVE TypeOK'
    <3> DEFINE r == Head(inbox[p]).id
    <3>1. inbox' \in [Procs -> Seq(Message)] /\ r \in Calls
      BY <2>4, ReadMessage, MessageKinds DEF ReadRequest
    <3>2. \/ UNCHANGED <<handling, applied>>
          \/ /\ handling' = [handling EXCEPT ![p] = r]
             /\ applied' = [applied EXCEPT ![p] = Append(@, r)]
      BY <2>4 DEF ReadRequest
    <3> HIDE DEF r
    <3>3. handling' \in [Procs -> Calls \cup {None}]
      BY <3>1, <3>2 DEF TypeOK
    <3>4. applied' \in [Procs -> Seq(Calls)]
      <4>1. applied \in [Procs -> Seq(Calls)]
        BY DEF TypeOK
      <4>2. [applied EXCEPT ![p] = Append(@, r)] \in [Procs -> Seq(Calls)]
        BY <3>1, <4>1, AppendTo, Zenon
      <4> QED
        BY <3>2, <4>1, <4>2
    <3> QED
      BY <2>4, <3>1, <3>3, <3>4 DEF TypeOK, ReadRequest, callVars
  <2>5. ASSUME NEW p \in Procs, ReadAnswer(p) PROVE TypeOK'
    <3> DEFINE m == Head(inbox[p])
    <3>1. /\ inbox' \in [Procs -> Seq(Message)]
          /\ m.from \in Procs \cup {None}
      BY <2>5, ReadMessage, MessageKinds DEF ReadAnswer
    <3>2. answers' = answers \/ answers' = [answers EXCEPT ![m.id] = Append(@, m.from)]
      BY <2>5 DEF ReadAnswer
    <3> HIDE DEF m
    <3>3. answers' \in [Calls -> Seq(Procs \cup {None})]
      <4>1. answers \in [Calls -> Seq(Procs \cup {None})]
        BY DEF TypeOK
      <4>2. [answers EXCEPT ![m.id] = Append(@, m.from)] \in [Calls -> Seq(Procs \cup {None})]
        BY <3>1, <4>1, AppendTo, Zenon
      <4> QED
        BY <3>2, <4>1, <4>2
    <3> QED
      BY <2>5, <3>1, <3>3 DEF TypeOK, ReadAnswer, clientVars
  <2>6. ASSUME NEW p \in Procs, ReadUnsubscribed(p) PROVE TypeOK'
    <3>1. inbox' \in [Procs -> Seq(Message)]
      BY <2>6, ReadMessage DEF ReadUnsubscribed
    <3> QED
      BY <2>6, <3>1 DEF TypeOK, ReadUnsubscribed, callVars
  <2>7. ASSUME NEW p \in Procs, FinishCallback(p) PROVE TypeOK'
    <3> DEFINE r == handling[p]
    <3>1. r \in Asks => Answer(r, p) \in Message
      BY DEF Message
    <3>2. \/ inbox' = inbox
          \/ r \in Asks /\ inbox' = [inbox EXCEPT ![origin[r]] = Append(@, Answer(r, p))]
      BY <2>7 DEF FinishCallback
    <3>3. inbox' \in [Procs -> Seq(Message)]
      <4>1. inbox \in [Procs -> Seq(Message)]
        BY DEF TypeOK
      <4>2. r \in Asks => [inbox EXCEPT ![origin[r]] = Append(@, Answer(r, p))] \in [Procs -> Seq(Message)]
        BY <3>1, <4>1, AppendTo, Zenon
      <4> QED
        BY <3>2, <4>1, <4>2
    <3> QED
      BY <2>7, <3>3 DEF TypeOK, FinishCallback, callVars
  <2>8. ASSUME NEW p \in Procs, AnswerFails(p) PROVE TypeOK'
    BY <2>8, FaultBound DEF TypeOK, AnswerFails, callVars
  <2>9. ASSUME NEW p \in Procs, ServerSubscribe(p) PROVE TypeOK'
    <3>1. commands' \in [Procs -> Seq(Command)] /\ Head(commands[p]) \in Command
      BY <2>9, TakeFirst DEF TypeOK, ServerSubscribe
    <3>2. subscribed' \in [Procs -> SUBSET Channels]
      BY <2>9, <3>1 DEF TypeOK, ServerSubscribe, Command
    <3> QED
      BY <2>9, <3>1, <3>2 DEF TypeOK, ServerSubscribe, callVars, clientVars
  <2>10. ASSUME NEW p \in Procs, ServerUnsubscribe(p) PROVE TypeOK'
    <3> DEFINE c == Head(commands[p]).channel
    <3>1. commands' \in [Procs -> Seq(Command)] /\ c \in Channels
      <4>1. commands' \in [Procs -> Seq(Command)] /\ Head(commands[p]) \in Command
        BY <2>10, TakeFirst DEF TypeOK, ServerUnsubscribe
      <4> QED
        BY <4>1 DEF Command
    <3>2. Unsubscribed(c) \in Message
      BY <3>1 DEF Message
    <3>3. /\ inbox' = [inbox EXCEPT ![p] = Append(@, Unsubscribed(c))]
          /\ subscribed' = [subscribed EXCEPT ![p] = @ \ {c}]
      BY <2>10 DEF ServerUnsubscribe
    <3> HIDE DEF c
    <3>4. inbox' \in [Procs -> Seq(Message)] /\ subscribed' \in [Procs -> SUBSET Channels]
      BY <3>2, <3>3 DEF TypeOK
    <3> QED
      BY <2>10, <3>1, <3>4 DEF TypeOK, ServerUnsubscribe, callVars, clientVars
  <2>11. ASSUME NEW p \in Procs, Disconnect(p) PROVE TypeOK'
    <3>1. /\ commands' \in [Procs -> Seq(Command)]
          /\ inbox' \in [Procs -> Seq(Message)]
      BY <2>11 DEF TypeOK, Disconnect
    <3> QED
      BY <2>11, <3>1, FaultBound DEF TypeOK, Disconnect, callVars
  <2>12. ASSUME NEW p \in Procs, Reconnect(p) PROVE TypeOK'
    BY <2>12 DEF TypeOK, Reconnect, callVars
  <2>13. ASSUME NEW r \in Calls, NEW p \in Procs, StartTell(r, p) PROVE TypeOK'
    BY <2>13 DEF TypeOK, StartTell, CallStates, clientVars, serverVars
  <2>14. ASSUME NEW r \in Calls, NEW p \in Procs, StartAsk(r, p) PROVE TypeOK'
    <3>1. commands' \in [Procs -> Seq(Command)]
      BY <2>14, SendType DEF StartAsk, Channels
    <3> QED
      BY <2>14, <3>1 DEF TypeOK, StartAsk, CallStates, clientVars
  <2>15. ASSUME NEW r \in Calls, RegisterAnswers(r) PROVE TypeOK'
    BY <2>15 DEF TypeOK, RegisterAnswers, AddHandler, Channels, CallStates, serverVars
  <2>16. ASSUME NEW r \in Calls, PublishCall(r) PROVE TypeOK'
    BY <2>16, PublishType DEF TypeOK, PublishCall, CallStates, clientVars
  <2>17. ASSUME NEW r \in Calls, PublishFails(r) PROVE TypeOK'
    <3>1. /\ log' \in Seq(Calls)
          /\ receivers' \in [Calls -> SUBSET Procs]
          /\ inbox' \in [Procs -> Seq(Message)]
      BY <2>17, PublishType DEF TypeOK, PublishFails
    <3>2. pc' \in [Calls -> CallStates] /\ faults' \in 0 .. MaxFaults
      BY <2>17, FaultBound DEF TypeOK, PublishFails, CallStates
    <3> QED
      BY <2>17, <3>1, <3>2 DEF TypeOK, PublishFails, clientVars
  <2>18. ASSUME NEW r \in Calls, GetAnswers(r) PROVE TypeOK'
    BY <2>18 DEF TypeOK, GetAnswers, CallStates, clientVars, serverVars
  <2>19. ASSUME NEW r \in Calls, Timeout(r) PROVE TypeOK'
    <3> DEFINE padded == [i \in 1 .. Cardinality(receivers[r]) |->
                            IF i <= Len(answers[r]) THEN answers[r][i] ELSE None]
    <3>1. answers[r] \in Seq(Procs \cup {None}) /\ Cardinality(receivers[r]) \in Nat
      BY ReceiversCount DEF TypeOK
    <3>2. padded \in Seq(Procs \cup {None})
      BY <3>1
    <3>3. answers' = [answers EXCEPT ![r] = padded]
      BY <2>19 DEF TypeOK, Timeout
    <3> HIDE DEF padded
    <3> QED
      BY <2>19, <3>2, <3>3 DEF TypeOK, Timeout, CallStates, clientVars, serverVars
  <2>20. ASSUME NEW r \in Calls, Release(r) PROVE TypeOK'
    <3>1. pending' \in [Procs -> SUBSET Channels]
      BY <2>20 DEF TypeOK, Release, SendUnsubscribe, Channels
    <3>2. commands' \in [Procs -> Seq(Command)]
      BY <2>20, SendType DEF Release, SendUnsubscribe, Channels
    <3> QED
      BY <2>20, <3>1, <3>2 DEF TypeOK, Release, CallStates
  <2>21. CASE UNCHANGED vars
    BY <2>21 DEF TypeOK, vars, callVars, clientVars, serverVars
  <2> QED
    BY <2>1, <2>2, <2>3, <2>4, <2>5, <2>6, <2>7, <2>8, <2>9, <2>10, <2>11,
       <2>12, <2>13, <2>14, <2>15, <2>16, <2>17, <2>18, <2>19, <2>20, <2>21
       DEF Next, ListenerStep, ServerStep, CallerStep
<1> QED
  BY <1>1, <1>2, PTL DEF Spec

------------------------------------------------------------------------------
(* The order of the messages.                                              *)

\* Where a call has not been published yet.
Early == {"new", "subscribing", "publishing"}

\* m1 comes before m2 in the sequence s.
Earlier(s, m1, m2) ==
  \E i, j \in DOMAIN s : i < j /\ s[i] = m1 /\ s[j] = m2

\* A call is published at most once.
LogOnce ==
  /\ \A i, j \in DOMAIN log : log[i] = log[j] => i = j
  /\ \A i \in DOMAIN log : pc[log[i]] \notin Early

\* What was applied is in the order of the log ...
AppliedOrder ==
  \A p \in Procs :
    /\ Range(applied[p]) \subseteq Range(log)
    /\ \A i, j \in DOMAIN applied[p] :
         i < j => Earlier(log, applied[p][i], applied[p][j])

\* ... and so are the requests that follow in the inbox.
IsRequest(m) == m.kind = "request"

InboxOrder ==
  \A p \in Procs : \A i \in DOMAIN inbox[p] :
    IsRequest(inbox[p][i]) =>
      /\ inbox[p][i].id \in Range(log)
      /\ \A j \in DOMAIN applied[p] : Earlier(log, applied[p][j], inbox[p][i].id)
      /\ \A j \in DOMAIN inbox[p] :
           i < j /\ IsRequest(inbox[p][j])
             => Earlier(log, inbox[p][i].id, inbox[p][j].id)

OrderInv == LogOnce /\ AppliedOrder /\ InboxOrder

\* Growing a sequence.
LEMMA EarlierAppend ==
  ASSUME NEW S, NEW s \in Seq(S), NEW e \in S
  PROVE  /\ Range(Append(s, e)) = Range(s) \cup {e}
         /\ \A a, b : Earlier(s, a, b) => Earlier(Append(s, e), a, b)
         /\ \A a \in Range(s) : Earlier(Append(s, e), a, e)
<1> DEFINE t == Append(s, e)
<1>1. /\ DOMAIN s = 1 .. Len(s) /\ Len(s) \in Nat
      /\ DOMAIN t = 1 .. (Len(s) + 1)
      /\ \A i \in DOMAIN s : i \in DOMAIN t /\ t[i] = s[i]
      /\ Len(s) + 1 \in DOMAIN t /\ t[Len(s) + 1] = e
  BY AppendProperties
<1> HIDE DEF t
<1>2. Range(t) = Range(s) \cup {e}
  BY <1>1 DEF Range
<1>3. ASSUME NEW a, NEW b, Earlier(s, a, b) PROVE Earlier(t, a, b)
  BY <1>1, <1>3 DEF Earlier
<1>4. ASSUME NEW a \in Range(s) PROVE Earlier(t, a, e)
  BY <1>1 DEF Earlier, Range
<1> QED
  BY <1>2, <1>3, <1>4 DEF t

\* The inbox of q loses its first message, or all of them, or none.
Shrinks(q) ==
  \E k \in {0, 1} : \A i \in DOMAIN inbox'[q] :
    i + k \in DOMAIN inbox[q] /\ inbox'[q][i] = inbox[q][i + k]

\* The messages of these kinds in the inbox of q stay in their order, and none is
\* added.
NoNew(q, kinds) ==
  \E k \in {0, 1} : \A i \in DOMAIN inbox'[q] :
    inbox'[q][i].kind \in kinds =>
      i + k \in DOMAIN inbox[q] /\ inbox'[q][i] = inbox[q][i + k]

\* An inbox that does not change gets nothing new.
LEMMA UnchangedShrinks ==
  ASSUME TypeOK, NEW q \in Procs, inbox'[q] = inbox[q]
  PROVE  Shrinks(q)
<1>1. inbox[q] \in Seq(Message)
  BY DEF TypeOK
<1> QED
  BY <1>1 DEF Shrinks

\* Reading takes a message away and adds none.
LEMMA ReadsShrinks ==
  ASSUME TypeOK, NEW p \in Procs, NEW kind, Reads(p, kind), NEW q \in Procs
  PROVE  Shrinks(q)
<1>1. inbox[p] \in Seq(Message) /\ inbox[p] # <<>>
  BY DEF TypeOK, Reads
<1>2. CASE q = p
  <2>1. inbox'[q] = Tail(inbox[q])
    BY <1>2 DEF TypeOK, Reads
  <2>2. \A i \in DOMAIN inbox'[q] :
          i + 1 \in DOMAIN inbox[q] /\ inbox'[q][i] = inbox[q][i + 1]
    BY <1>1, <1>2, <2>1, HeadTailProperties
  <2> QED
    BY <2>2 DEF Shrinks
<1>3. CASE q # p
  BY <1>3, UnchangedShrinks DEF TypeOK, Reads
<1> QED
  BY <1>2, <1>3

\* An inbox that shrinks gets no message of any kind.
LEMMA ShrinksNoNew ==
  ASSUME NEW q, NEW kinds, Shrinks(q)
  PROVE  NoNew(q, kinds)
BY DEF Shrinks, NoNew

\* A message of another kind is added.
LEMMA OtherMessageNoNew ==
  ASSUME TypeOK, NEW q \in Procs, NEW kinds, NEW m \in Message, m.kind \notin kinds,
         inbox'[q] = Append(inbox[q], m)
  PROVE  NoNew(q, kinds)
<1>1. inbox[q] \in Seq(Message)
  BY DEF TypeOK
<1>2. /\ DOMAIN inbox[q] = 1 .. Len(inbox[q]) /\ Len(inbox[q]) \in Nat
      /\ DOMAIN inbox'[q] = 1 .. (Len(inbox[q]) + 1)
      /\ \A i \in DOMAIN inbox[q] : inbox'[q][i] = inbox[q][i]
      /\ inbox'[q][Len(inbox[q]) + 1] = m
  BY <1>1, AppendProperties
<1>3. \A i \in DOMAIN inbox'[q] : inbox'[q][i].kind \in kinds =>
        i + 0 \in DOMAIN inbox[q] /\ inbox'[q][i] = inbox[q][i + 0]
  BY <1>2
<1> QED
  BY <1>3 DEF NoNew

\* A step that publishes nothing and applies nothing keeps the order.
LEMMA QuietOrder ==
  ASSUME TypeOK, TypeOK', OrderInv,
         UNCHANGED <<log, applied>>,
         \A r \in Calls : pc[r] \notin Early => pc'[r] \notin Early,
         \A q \in Procs : NoNew(q, {"request"})
  PROVE  OrderInv'
<1>1. LogOnce'
  <2>1. \A i \in DOMAIN log : log[i] \in Calls
    BY DEF TypeOK
  <2> QED
    BY <2>1 DEF OrderInv, LogOnce
<1>2. AppliedOrder'
  BY DEF OrderInv, AppliedOrder
<1>3. InboxOrder'
  <2> SUFFICES ASSUME NEW p \in Procs, NEW i \in DOMAIN inbox'[p],
                      IsRequest(inbox'[p][i])
               PROVE  /\ inbox'[p][i].id \in Range(log)
                      /\ \A j \in DOMAIN applied[p] :
                           Earlier(log, applied[p][j], inbox'[p][i].id)
                      /\ \A j \in DOMAIN inbox'[p] :
                           i < j /\ IsRequest(inbox'[p][j])
                             => Earlier(log, inbox'[p][i].id, inbox'[p][j].id)
    BY DEF InboxOrder, IsRequest
  <2>1. PICK k \in {0, 1} : \A j \in DOMAIN inbox'[p] :
          IsRequest(inbox'[p][j]) =>
            j + k \in DOMAIN inbox[p] /\ inbox'[p][j] = inbox[p][j + k]
    BY DEF NoNew, IsRequest
  <2>2. i + k \in DOMAIN inbox[p] /\ inbox'[p][i] = inbox[p][i + k]
    BY <2>1
  <2>3. ASSUME NEW j \in DOMAIN inbox'[p], i < j, IsRequest(inbox'[p][j])
        PROVE  Earlier(log, inbox'[p][i].id, inbox'[p][j].id)
    <3>1. j + k \in DOMAIN inbox[p] /\ inbox'[p][j] = inbox[p][j + k]
      BY <2>1, <2>3
    <3>2. i + k < j + k
      <4>1. i \in Nat /\ j \in Nat
        <5>1. inbox'[p] \in Seq(Message)
          BY DEF TypeOK
        <5> QED
          BY <2>3, <5>1
      <4> QED
        BY <4>1, <2>3, SMT
    <3> QED
      BY <2>2, <2>3, <3>1, <3>2 DEF OrderInv, InboxOrder
  <2> QED
    BY <2>2, <2>3 DEF OrderInv, InboxOrder
<1> QED
  BY <1>1, <1>2, <1>3 DEF OrderInv

\* A call is published.
LEMMA PublishOrder ==
  ASSUME TypeOK, TypeOK', OrderInv,
         NEW r \in Calls, pc[r] \in Early, Publish(r), UNCHANGED applied,
         \A c \in Calls : c = r \/ pc[c] \notin Early => pc'[c] \notin Early
  PROVE  OrderInv'
<1>1. /\ log \in Seq(Calls)
      /\ log' = Append(log, r)
      /\ DOMAIN log = 1 .. Len(log) /\ Len(log) \in Nat
      /\ DOMAIN log' = 1 .. (Len(log) + 1)
      /\ \A i \in DOMAIN log : log'[i] = log[i]
      /\ log'[Len(log) + 1] = r
  BY AppendProperties DEF TypeOK, Publish
<1>2. /\ Range(log') = Range(log) \cup {r}
      /\ \A a, b : Earlier(log, a, b) => Earlier(log', a, b)
      /\ \A a \in Range(log) : Earlier(log', a, r)
  BY <1>1, EarlierAppend
<1>3. \A i \in DOMAIN log : log[i] \in Calls /\ log[i] # r
  BY <1>1 DEF OrderInv, LogOnce
<1>4. LogOnce'
  BY <1>1, <1>3 DEF OrderInv, LogOnce
<1>5. AppliedOrder'
  BY <1>2 DEF OrderInv, AppliedOrder
<1>6. InboxOrder'
  <2> SUFFICES ASSUME NEW p \in Procs, NEW i \in DOMAIN inbox'[p],
                      IsRequest(inbox'[p][i])
               PROVE  /\ inbox'[p][i].id \in Range(log')
                      /\ \A j \in DOMAIN applied[p] :
                           Earlier(log', applied[p][j], inbox'[p][i].id)
                      /\ \A j \in DOMAIN inbox'[p] :
                           i < j /\ IsRequest(inbox'[p][j])
                             => Earlier(log', inbox'[p][i].id, inbox'[p][j].id)
    BY DEF InboxOrder, IsRequest
  <2>1. inbox[p] \in Seq(Message) /\ Range(applied[p]) \subseteq Range(log)
    BY DEF TypeOK, OrderInv, AppliedOrder
  <2>2. CASE inbox'[p] = inbox[p]
    BY <1>2, <2>2 DEF OrderInv, InboxOrder
  <2>3. CASE inbox'[p] = Append(inbox[p], Request(r))
    <3> DEFINE n == Len(inbox[p])
    <3>1. /\ DOMAIN inbox[p] = 1 .. n /\ n \in Nat
          /\ DOMAIN inbox'[p] = 1 .. (n + 1)
          /\ \A j \in DOMAIN inbox[p] : inbox'[p][j] = inbox[p][j]
          /\ inbox'[p][n + 1] = Request(r)
      BY <2>1, <2>3, AppendProperties
    <3> HIDE DEF n
    <3>2. inbox'[p][n + 1].id = r
      BY <3>1 DEF Request
    <3>3. CASE i \in DOMAIN inbox[p]
      <4>1. /\ inbox'[p][i].id \in Range(log)
            /\ \A j \in DOMAIN applied[p] :
                 Earlier(log, applied[p][j], inbox'[p][i].id)
            /\ \A j \in DOMAIN inbox[p] :
                 i < j /\ IsRequest(inbox[p][j])
                   => Earlier(log, inbox'[p][i].id, inbox[p][j].id)
        BY <3>1, <3>3 DEF OrderInv, InboxOrder
      <4>2. ASSUME NEW j \in DOMAIN inbox'[p], i < j, IsRequest(inbox'[p][j])
            PROVE  Earlier(log', inbox'[p][i].id, inbox'[p][j].id)
        <5>1. CASE j \in DOMAIN inbox[p]
          BY <1>2, <3>1, <4>1, <4>2, <5>1
        <5>2. CASE j = n + 1
          BY <1>2, <3>2, <4>1, <5>2
        <5> QED
          BY <3>1, <5>1, <5>2
      <4> QED
        BY <1>2, <4>1, <4>2
    <3>4. CASE i = n + 1
      <4>1. \A j \in DOMAIN applied[p] : applied[p][j] \in Range(log)
        BY <2>1 DEF Range
      <4>2. \A j \in DOMAIN inbox'[p] : ~(i < j)
        BY <3>1, <3>4
      <4> QED
        BY <1>2, <3>2, <3>4, <4>1, <4>2
    <3> QED
      BY <3>1, <3>3, <3>4
  <2> QED
    BY <2>2, <2>3 DEF Publish, TypeOK
<1> QED
  BY <1>4, <1>5, <1>6 DEF OrderInv

\* The listener of p reads a request.
LEMMA ReadOrder ==
  ASSUME TypeOK, TypeOK', OrderInv, NEW p \in Procs, ReadRequest(p)
  PROVE  OrderInv'
<1>1. /\ \A q \in Procs : Shrinks(q)
      /\ \A q \in Procs : NoNew(q, {"request"})
  BY ReadsShrinks, ShrinksNoNew DEF ReadRequest
<1>2. CASE UNCHANGED applied
  BY <1>1, <1>2, QuietOrder DEF ReadRequest, callVars
<1>3. CASE Main \in handlers[p]
  <2> DEFINE r == Head(inbox[p]).id
  <2>1. /\ applied' = [applied EXCEPT ![p] = Append(@, r)]
        /\ inbox' = [inbox EXCEPT ![p] = Tail(@)]
        /\ inbox[p] # <<>> /\ Head(inbox[p]).kind = "request"
        /\ log' = log /\ pc' = pc
    BY <1>3 DEF ReadRequest, Reads, callVars
  <2>2. /\ inbox[p] \in Seq(Message) /\ applied[p] \in Seq(Calls)
        /\ inbox'[p] = Tail(inbox[p]) /\ applied'[p] = Append(applied[p], r)
        /\ \A q \in Procs \ {p} : inbox'[q] = inbox[q] /\ applied'[q] = applied[q]
    BY <2>1 DEF TypeOK
  <2>3. /\ Len(inbox[p]) \in Nat /\ DOMAIN inbox[p] = 1 .. Len(inbox[p])
        /\ 1 \in DOMAIN inbox[p] /\ inbox[p][1].id = r /\ IsRequest(inbox[p][1])
        /\ \A i \in DOMAIN inbox'[p] :
             /\ i \in Nat /\ i > 0 /\ i + 1 \in DOMAIN inbox[p]
             /\ inbox'[p][i] = inbox[p][i + 1]
    <3>1. /\ Len(inbox[p]) \in Nat /\ DOMAIN inbox[p] = 1 .. Len(inbox[p])
          /\ Len(inbox[p]) > 0
      BY <2>1, <2>2
    <3>2. Head(inbox[p]) = inbox[p][1]
      BY <2>2
    <3>3. \A i \in DOMAIN inbox'[p] :
            /\ i \in Nat /\ i > 0 /\ i + 1 \in DOMAIN inbox[p]
            /\ inbox'[p][i] = inbox[p][i + 1]
      <4>1. inbox'[p] \in Seq(Message)
        BY DEF TypeOK
      <4>2. \A i \in DOMAIN inbox'[p] : i \in Nat /\ i > 0
        BY <4>1
      <4>3. inbox'[p] = Tail(inbox[p]) /\ inbox[p] \in Seq(Message)
            /\ inbox[p] # <<>>
        BY <2>1, <2>2
      <4>4. \A i \in DOMAIN inbox'[p] :
              i + 1 \in DOMAIN inbox[p] /\ inbox'[p][i] = inbox[p][i + 1]
        BY <4>3, HeadTailProperties
      <4> QED
        BY <4>2, <4>4
    <3>4. inbox[p][1].id = r
      BY <3>2, Zenon
    <3>5. IsRequest(inbox[p][1])
      BY <2>1, <3>2 DEF IsRequest
    <3>6. 1 \in DOMAIN inbox[p]
      BY <3>1
    <3> QED
      BY <3>1, <3>3, <3>4, <3>5, <3>6, Zenon
  <2> HIDE DEF r
  <2>4. /\ r \in Range(log)
        /\ \A j \in DOMAIN applied[p] : Earlier(log, applied[p][j], r)
        /\ \A j \in DOMAIN inbox[p] :
             1 < j /\ IsRequest(inbox[p][j]) => Earlier(log, r, inbox[p][j].id)
    BY <2>3 DEF OrderInv, InboxOrder
  <2>5. LogOnce'
    BY <2>1 DEF OrderInv, LogOnce
  <2>6. r \in Calls
    BY <2>4 DEF TypeOK, Range
  <2>7. /\ Len(applied[p]) \in Nat
        /\ DOMAIN applied[p] = 1 .. Len(applied[p])
        /\ DOMAIN applied'[p] = 1 .. (Len(applied[p]) + 1)
        /\ \A j \in DOMAIN applied[p] : applied'[p][j] = applied[p][j]
        /\ applied'[p][Len(applied[p]) + 1] = r
    BY <2>2, <2>6, AppendProperties
  <2>8. AppliedOrder'
    <3> SUFFICES ASSUME NEW q \in Procs
                 PROVE  /\ \A i \in DOMAIN applied'[q] :
                             applied'[q][i] \in Range(log)
                        /\ \A i, j \in DOMAIN applied'[q] :
                             i < j => Earlier(log, applied'[q][i], applied'[q][j])
      BY <2>1 DEF AppliedOrder, Range
    <3>1. /\ \A i \in DOMAIN applied[q] : applied[q][i] \in Range(log)
          /\ \A i, j \in DOMAIN applied[q] :
               i < j => Earlier(log, applied[q][i], applied[q][j])
      BY DEF OrderInv, AppliedOrder, Range
    <3>2. CASE q = p
      <4>1. \A i \in DOMAIN applied'[p] :
              i \in DOMAIN applied[p] \/ i = Len(applied[p]) + 1
        BY <2>7
      <4>2. \A i \in DOMAIN applied'[p] : applied'[p][i] \in Range(log)
        BY <2>4, <2>7, <3>1, <3>2, <4>1
      <4>3. ASSUME NEW i \in DOMAIN applied'[p], NEW j \in DOMAIN applied'[p],
                   i < j
            PROVE  Earlier(log, applied'[p][i], applied'[p][j])
        <5>1. i \in DOMAIN applied[p]
          BY <2>7, <4>3
        <5>2. CASE j \in DOMAIN applied[p]
          BY <2>7, <3>1, <3>2, <4>3, <5>1, <5>2
        <5>3. CASE j = Len(applied[p]) + 1
          BY <2>4, <2>7, <5>1, <5>3
        <5> QED
          BY <4>1, <5>2, <5>3
      <4> QED
        BY <3>2, <4>2, <4>3
    <3>3. CASE q # p
      BY <2>2, <3>1, <3>3
    <3> QED
      BY <3>2, <3>3
  <2>9. InboxOrder'
    <3> SUFFICES ASSUME NEW q \in Procs, NEW i \in DOMAIN inbox'[q],
                        IsRequest(inbox'[q][i])
                 PROVE  /\ inbox'[q][i].id \in Range(log)
                        /\ \A j \in DOMAIN applied'[q] :
                             Earlier(log, applied'[q][j], inbox'[q][i].id)
                        /\ \A j \in DOMAIN inbox'[q] :
                             i < j /\ IsRequest(inbox'[q][j])
                               => Earlier(log, inbox'[q][i].id, inbox'[q][j].id)
      BY <2>1 DEF InboxOrder, IsRequest
    <3>1. CASE q = p
      <4>1. /\ i \in Nat /\ i > 0 /\ i + 1 \in DOMAIN inbox[p]
            /\ inbox'[p][i] = inbox[p][i + 1] /\ IsRequest(inbox[p][i + 1])
        BY <2>3, <3>1
      <4>2. /\ inbox'[p][i].id \in Range(log)
            /\ \A j \in DOMAIN applied[p] :
                 Earlier(log, applied[p][j], inbox'[p][i].id)
            /\ \A j \in DOMAIN inbox[p] :
                 i + 1 < j /\ IsRequest(inbox[p][j])
                   => Earlier(log, inbox'[p][i].id, inbox[p][j].id)
        BY <4>1 DEF OrderInv, InboxOrder
      <4>3. Earlier(log, r, inbox'[p][i].id)
        BY <2>4, <4>1
      <4>4. \A j \in DOMAIN applied'[p] :
              Earlier(log, applied'[p][j], inbox'[p][i].id)
        BY <2>7, <4>2, <4>3
      <4>5. \A j \in DOMAIN inbox'[p] : i < j /\ IsRequest(inbox'[p][j])
              => Earlier(log, inbox'[p][i].id, inbox'[p][j].id)
        BY <2>3, <4>1, <4>2
      <4> QED
        BY <3>1, <4>2, <4>4, <4>5
    <3>2. CASE q # p
      BY <2>2, <3>2 DEF OrderInv, InboxOrder
    <3> QED
      BY <3>1, <3>2
  <2> QED
    BY <2>5, <2>8, <2>9 DEF OrderInv
<1> QED
  BY <1>2, <1>3 DEF ReadRequest

\* A step that leaves the inboxes alone adds no request.
LEMMA SameInbox ==
  ASSUME TypeOK, UNCHANGED inbox
  PROVE  \A q \in Procs : NoNew(q, {"request"})
BY UnchangedShrinks, ShrinksNoNew

\* Every step keeps the order.
LEMMA OrderStep ==
  ASSUME TypeOK, TypeOK', OrderInv, [Next]_vars
  PROVE  OrderInv'
<1> DEFINE PcKept == \A r \in Calls : pc[r] \notin Early => pc'[r] \notin Early
           InboxKept == \A q \in Procs : NoNew(q, {"request"})
           Quiet == UNCHANGED <<log, applied>> /\ PcKept /\ InboxKept
<1>1. Quiet => OrderInv'
  BY QuietOrder
<1>2. UNCHANGED inbox => InboxKept
  BY SameInbox
<1>3. UNCHANGED pc => PcKept
  OBVIOUS
<1>4. ASSUME NEW p \in Procs, NEW kind, Reads(p, kind) PROVE InboxKept
  BY <1>4, ReadsShrinks, ShrinksNoNew
<1> HIDE DEF InboxKept
<1>5. ASSUME NEW p \in Procs, SubscribeMain(p) \/ RegisterMain(p) \/ UnsubscribeMain(p)
      PROVE  Quiet
  BY <1>2, <1>3, <1>5
     DEF SubscribeMain, RegisterMain, UnsubscribeMain, callVars, serverVars
<1>6. ASSUME NEW r \in Calls, NEW p \in Procs, StartTell(r, p) \/ StartAsk(r, p)
      PROVE  Quiet
  <2>1. PcKept
    BY <1>6 DEF StartTell, StartAsk, Early, TypeOK
  <2> QED
    BY <1>2, <1>6, <2>1 DEF StartTell, StartAsk, serverVars
<1>7. ASSUME NEW r \in Calls, RegisterAnswers(r) PROVE Quiet
  <2>1. PcKept
    BY <1>7 DEF RegisterAnswers, Early, TypeOK
  <2> QED
    BY <1>2, <1>7, <2>1 DEF RegisterAnswers, serverVars
<1>8. ASSUME NEW r \in Calls, PublishCall(r) PROVE OrderInv'
  <2>1. \A c \in Calls : c = r \/ pc[c] \notin Early => pc'[c] \notin Early
    BY <1>8 DEF PublishCall, Early, TypeOK
  <2> QED
    BY <1>8, <2>1, PublishOrder DEF PublishCall, Early
<1>9. ASSUME NEW r \in Calls, PublishFails(r) PROVE OrderInv'
  <2>1. \A c \in Calls : c = r \/ pc[c] \notin Early => pc'[c] \notin Early
    BY <1>9 DEF PublishFails, Early, TypeOK
  <2>2. CASE Publish(r)
    BY <1>9, <2>1, <2>2, PublishOrder DEF PublishFails, Early
  <2>3. CASE UNCHANGED <<log, receivers, inbox>>
    BY <1>1, <1>2, <1>9, <2>1, <2>3 DEF PublishFails
  <2> QED
    BY <1>9, <2>2, <2>3 DEF PublishFails
<1>10. ASSUME NEW r \in Calls, GetAnswers(r) \/ Timeout(r) \/ Release(r)
       PROVE  Quiet
  <2>1. PcKept
    BY <1>10 DEF GetAnswers, Timeout, Release, Early, TypeOK
  <2> QED
    BY <1>2, <1>10, <2>1 DEF GetAnswers, Timeout, Release, serverVars
<1>11. ASSUME NEW p \in Procs, ReadAnswer(p) \/ ReadUnsubscribed(p) PROVE Quiet
  <2>1. InboxKept
    BY <1>4, <1>11 DEF ReadAnswer, ReadUnsubscribed
  <2> QED
    BY <1>3, <1>11, <2>1 DEF ReadAnswer, ReadUnsubscribed, callVars
<1>12. ASSUME NEW p \in Procs, FinishCallback(p) PROVE Quiet
  <2>1. ASSUME NEW q \in Procs PROVE NoNew(q, {"request"})
    <3> DEFINE m == Answer(handling[p], p)
               o == origin[handling[p]]
    <3>1. \/ inbox'[q] = inbox[q]
          \/ inbox'[q] = Append(inbox[q], m) /\ handling[p] \in Asks
      <4>1. \/ inbox' = inbox
            \/ inbox' = [inbox EXCEPT ![o] = Append(@, m)] /\ handling[p] \in Asks
        BY <1>12 DEF FinishCallback
      <4> HIDE DEF o, m
      <4> QED
        BY <4>1 DEF TypeOK
    <3>2. CASE inbox'[q] = inbox[q]
      BY <3>2, UnchangedShrinks, ShrinksNoNew
    <3>3. CASE inbox'[q] = Append(inbox[q], m) /\ handling[p] \in Asks
      <4>1. m \in Message
        BY <3>3 DEF Message
      <4>2. m.kind \notin {"request"}
        BY DEF Answer
      <4> HIDE DEF m
      <4> QED
        BY <3>3, <4>1, <4>2, OtherMessageNoNew
    <3> QED
      BY <3>1, <3>2, <3>3
  <2>2. InboxKept
    BY <2>1 DEF InboxKept
  <2> QED
    BY <1>3, <1>12, <2>2 DEF FinishCallback, callVars
<1>13. ASSUME NEW p \in Procs, AnswerFails(p) PROVE Quiet
  BY <1>2, <1>3, <1>13 DEF AnswerFails, callVars
<1>14. ASSUME NEW p \in Procs, ServerSubscribe(p) PROVE Quiet
  BY <1>2, <1>3, <1>14 DEF ServerSubscribe, callVars
<1>15. ASSUME NEW p \in Procs, ServerUnsubscribe(p) PROVE Quiet
  <2> DEFINE c == Head(commands[p]).channel
             m == Unsubscribed(c)
  <2>1. c \in Channels
    <3>1. Head(commands[p]) \in Command
      BY <1>15 DEF ServerUnsubscribe, TypeOK
    <3> QED
      BY <3>1 DEF Command
  <2>2. m \in Message /\ m.kind \notin {"request"}
    <3>1. m \in Message
      BY <2>1 DEF Message
    <3>2. m.kind \notin {"request"}
      BY DEF Unsubscribed
    <3> QED
      BY <3>1, <3>2
  <2>3. inbox' = [inbox EXCEPT ![p] = Append(@, m)]
    BY <1>15 DEF ServerUnsubscribe
  <2> HIDE DEF m
  <2>4. ASSUME NEW q \in Procs PROVE NoNew(q, {"request"})
    <3>1. inbox'[q] = inbox[q] \/ inbox'[q] = Append(inbox[q], m)
      BY <2>3 DEF TypeOK
    <3> QED
      BY <2>2, <3>1, UnchangedShrinks, ShrinksNoNew, OtherMessageNoNew
  <2>5. InboxKept
    BY <2>4 DEF InboxKept
  <2> QED
    BY <1>3, <1>15, <2>5 DEF ServerUnsubscribe, callVars
<1>16. ASSUME NEW p \in Procs, Disconnect(p) PROVE Quiet
  <2>1. ASSUME NEW q \in Procs PROVE NoNew(q, {"request"})
    <3>1. CASE q = p
      <4>1. DOMAIN inbox'[q] = {}
        BY <1>16, <3>1 DEF Disconnect, TypeOK
      <4> QED
        BY <4>1 DEF NoNew
    <3>2. CASE q # p
      <4>1. inbox'[q] = inbox[q]
        BY <1>16, <3>2 DEF Disconnect, TypeOK
      <4> QED
        BY <4>1, UnchangedShrinks, ShrinksNoNew
    <3> QED
      BY <3>1, <3>2
  <2>2. InboxKept
    BY <2>1 DEF InboxKept
  <2> QED
    BY <1>3, <1>16, <2>2 DEF Disconnect, callVars
<1>17. ASSUME NEW p \in Procs, Reconnect(p) PROVE Quiet
  BY <1>2, <1>3, <1>17 DEF Reconnect, callVars
<1>18. UNCHANGED vars => Quiet
  BY <1>2, <1>3 DEF vars, callVars, serverVars
<1>19. ASSUME NEW p \in Procs, ReadRequest(p) PROVE OrderInv'
  BY <1>19, ReadOrder
<1> HIDE DEF Quiet
<1> QED
  BY <1>1, <1>5, <1>6, <1>7, <1>8, <1>9, <1>10, <1>11, <1>12, <1>13, <1>14,
     <1>15, <1>16, <1>17, <1>18, <1>19
     DEF Next, CallerStep, ListenerStep, ServerStep

\* The invariant behind SameOrder: the log has no duplicates, and what a
\* process has run, followed by the requests it still has to read, is in the
\* order of the log.
THEOREM OrderCorrect == Spec => []OrderInv
<1>1. Init => OrderInv
  <2> SUFFICES ASSUME Init PROVE OrderInv
    OBVIOUS
  <2>1. LogOnce
    BY DEF Init, LogOnce
  <2>2. AppliedOrder
    BY DEF Init, AppliedOrder, Range
  <2>3. InboxOrder
    BY DEF Init, InboxOrder
  <2> QED
    BY <2>1, <2>2, <2>3 DEF OrderInv
<1>2. TypeOK /\ TypeOK' /\ OrderInv /\ [Next]_vars => OrderInv'
  BY OrderStep
<1> QED
  BY <1>1, <1>2, TypeCorrect, PTL DEF Spec

\* Any two processes run the callbacks they share in the same order: the
\* messages of one channel reach every listener in the server's order, and a
\* lost connection loses messages without reordering the others.
THEOREM OrderIsShared == Spec => []SameOrder
<1>1. TypeOK /\ OrderInv => SameOrder
  <2> SUFFICES ASSUME TypeOK, OrderInv,
                      NEW p \in Procs, NEW q \in Procs,
                      NEW i \in DOMAIN applied[p], NEW j \in DOMAIN applied[p],
                      NEW k \in DOMAIN applied[q], NEW l \in DOMAIN applied[q],
                      i < j,
                      applied[p][i] = applied[q][k], applied[p][j] = applied[q][l]
               PROVE  k < l
    BY DEF SameOrder
  <2>1. /\ k \in Nat /\ l \in Nat
        /\ \A x \in DOMAIN log : x \in Nat
    <3>1. log \in Seq(Calls) /\ applied[q] \in Seq(Calls)
      BY DEF TypeOK
    <3> QED
      BY <3>1
  <2>2. Earlier(log, applied[p][i], applied[p][j])
    BY DEF OrderInv, AppliedOrder
  <2>3. l < k => Earlier(log, applied[p][j], applied[p][i])
    BY DEF OrderInv, AppliedOrder
  <2>4. applied[p][i] # applied[p][j]
    BY <2>1, <2>2 DEF OrderInv, LogOnce, Earlier
  <2>5. ~Earlier(log, applied[p][j], applied[p][i])
    BY <2>1, <2>2 DEF OrderInv, LogOnce, Earlier
  <2> QED
    BY <2>1, <2>3, <2>4, <2>5
<1> QED
  BY <1>1, OrderCorrect, TypeCorrect, PTL

==============================================================================
