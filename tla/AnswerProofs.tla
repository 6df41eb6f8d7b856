---------------------------- MODULE AnswerProofs ----------------------------
(***************************************************************************)
(* Theorems about the answers that Broadcast collects: none is counted     *)
(* twice, and a list without None is complete.                             *)
(***************************************************************************)
EXTENDS BroadcastProofs

------------------------------------------------------------------------------
(* The invariant: where the answer of a process to a call can be.          *)

\* Only a published call has receivers, and only a receiver gets the request.
ReceiversInv ==
  /\ \A r \in Calls : pc[r] \in Early => receivers[r] = {}
  /\ \A p \in Procs : \A r \in Range(applied[p]) : p \in receivers[r]
  /\ \A p \in Procs : \A i \in DOMAIN inbox[p] :
       IsRequest(inbox[p][i]) => p \in receivers[inbox[p][i].id]

\* The answer of p to r is at one place at most: still to be sent by p, ...
ToSendInv ==
  \A p \in Procs : handling[p] # None =>
    /\ handling[p] \in Range(applied[p])
    /\ p \notin Range(answers[handling[p]])
    /\ \A q \in Procs : Answer(handling[p], p) \notin Range(inbox[q])

\* ... on its way to the caller, ...
IsAnswer(m) == m.kind = "answer"

SentInv ==
  \A q \in Procs : \A i \in DOMAIN inbox[q] :
    IsAnswer(inbox[q][i]) =>
      /\ q = origin[inbox[q][i].id]
      /\ inbox[q][i].id \in Range(applied[inbox[q][i].from])
      /\ inbox[q][i].from \notin Range(answers[inbox[q][i].id])
      /\ \A j \in DOMAIN inbox[q] : inbox[q][j] = inbox[q][i] => j = i

\* ... or in the list of answers.
ReceivedInv ==
  \A r \in Calls : \A i \in DOMAIN answers[r] :
    answers[r][i] # None =>
      /\ r \in Range(applied[answers[r][i]])
      /\ \A j \in DOMAIN answers[r] : answers[r][j] = answers[r][i] => j = i

\* A list that is returned without None is long enough.
LongEnoughInv ==
  \A r \in Asks :
    pc[r] \in {"returning", "done"} /\ ~TimedOut(r) => AllAnswersIn(r)

AnswerInv ==
  ReceiversInv /\ ToSendInv /\ SentInv /\ ReceivedInv /\ LongEnoughInv

------------------------------------------------------------------------------
(* What keeps each part.                                                   *)

\* A call that a process has run has been published.
LEMMA AppliedIsPublished ==
  ASSUME TypeOK, OrderInv, NEW p \in Procs, NEW r \in Range(applied[p])
  PROVE  r \in Calls /\ pc[r] \notin Early
<1>1. r \in Range(log)
  BY DEF OrderInv, AppliedOrder
<1>2. PICK i \in DOMAIN log : log[i] = r
  BY <1>1 DEF Range
<1>3. log[i] \in Calls
  BY DEF TypeOK
<1> QED
  BY <1>2, <1>3 DEF OrderInv, LogOnce

\* No new request: a request still goes only to a receiver of its call.
LEMMA KeepReceivers ==
  ASSUME ReceiversInv, UNCHANGED <<receivers, applied>>,
         \A r \in Calls : pc[r] \notin Early => pc'[r] \notin Early,
         \A q \in Procs : NoNew(q, {"request"})
  PROVE  ReceiversInv'
<1>1. ASSUME NEW p \in Procs, NEW i \in DOMAIN inbox'[p], IsRequest(inbox'[p][i])
      PROVE  p \in receivers[inbox'[p][i].id]
  <2>1. PICK k \in {0, 1} :
          i + k \in DOMAIN inbox[p] /\ inbox'[p][i] = inbox[p][i + k]
    BY <1>1 DEF NoNew, IsRequest
  <2> QED
    BY <1>1, <2>1 DEF ReceiversInv
<1> QED
  BY <1>1 DEF ReceiversInv, IsRequest

\* Lists of answers that grow by None only, lists of applied calls that grow.
Padded == \A r \in Calls : Range(answers'[r]) \subseteq Range(answers[r]) \cup {None}
Growing == \A p \in Procs : Range(applied[p]) \subseteq Range(applied'[p])

\* No new answer, no new callback: what a running callback has to send is unsent.
LEMMA KeepToSend ==
  ASSUME TypeOK, ToSendInv, Padded, Growing,
         \A p \in Procs : handling'[p] \in {handling[p], None},
         \A q \in Procs : NoNew(q, {"answer"})
  PROVE  ToSendInv'
<1> SUFFICES ASSUME NEW p \in Procs, handling'[p] # None
             PROVE  /\ handling'[p] \in Range(applied'[p])
                    /\ p \notin Range(answers'[handling'[p]])
                    /\ \A q \in Procs : Answer(handling'[p], p) \notin Range(inbox'[q])
  BY DEF ToSendInv
<1>1. handling'[p] = handling[p]
  OBVIOUS
<1>2. ASSUME NEW q \in Procs, NEW i \in DOMAIN inbox'[q],
             inbox'[q][i] = Answer(handling[p], p)
      PROVE  FALSE
  <2>1. PICK k \in {0, 1} :
          i + k \in DOMAIN inbox[q] /\ inbox'[q][i] = inbox[q][i + k]
    BY <1>2 DEF NoNew, Answer
  <2> QED
    BY <1>1, <1>2, <2>1 DEF ToSendInv, Range
<1>3. \A q \in Procs : Answer(handling'[p], p) \notin Range(inbox'[q])
  BY <1>1, <1>2 DEF Range
<1>4. handling[p] \in Calls /\ p # None
  BY <1>1, ConstantsDistinct DEF TypeOK
<1> QED
  BY <1>1, <1>3, <1>4 DEF ToSendInv, Padded, Growing

\* No new answer: those on their way are still for the caller, and not in its list.
LEMMA KeepSent ==
  ASSUME TypeOK, TypeOK', OrderInv, SentInv, Padded, Growing,
         \A r \in Calls : pc[r] \notin Early => origin'[r] = origin[r],
         \A q \in Procs : NoNew(q, {"answer"})
  PROVE  SentInv'
<1> SUFFICES ASSUME NEW q \in Procs, NEW i \in DOMAIN inbox'[q],
                    IsAnswer(inbox'[q][i])
             PROVE  /\ q = origin'[inbox'[q][i].id]
                    /\ inbox'[q][i].id \in Range(applied'[inbox'[q][i].from])
                    /\ inbox'[q][i].from \notin Range(answers'[inbox'[q][i].id])
                    /\ \A j \in DOMAIN inbox'[q] :
                         inbox'[q][j] = inbox'[q][i] => j = i
  BY DEF SentInv, IsAnswer
<1>1. PICK k \in {0, 1} : \A j \in DOMAIN inbox'[q] : IsAnswer(inbox'[q][j]) =>
        j + k \in DOMAIN inbox[q] /\ inbox'[q][j] = inbox[q][j + k]
  BY DEF NoNew, IsAnswer
<1>2. i + k \in DOMAIN inbox[q] /\ inbox'[q][i] = inbox[q][i + k]
  BY <1>1
<1>3. /\ q = origin[inbox'[q][i].id]
      /\ inbox'[q][i].id \in Range(applied[inbox'[q][i].from])
      /\ inbox'[q][i].from \notin Range(answers[inbox'[q][i].id])
      /\ \A j \in DOMAIN inbox[q] : inbox[q][j] = inbox[q][i + k] => j = i + k
  BY <1>2 DEF SentInv
<1>4. inbox'[q][i].from \in Procs /\ inbox'[q][i].id \in Calls
  <2>1. inbox'[q][i] \in Message
    BY DEF TypeOK
  <2> QED
    BY <2>1, MessageKinds DEF IsAnswer, Calls
<1>6. origin'[inbox'[q][i].id] = origin[inbox'[q][i].id]
  BY <1>3, <1>4, AppliedIsPublished
<1>5. ASSUME NEW j \in DOMAIN inbox'[q], inbox'[q][j] = inbox'[q][i] PROVE j = i
  <2>1. j + k \in DOMAIN inbox[q] /\ inbox[q][j + k] = inbox[q][i + k]
    BY <1>1, <1>2, <1>5
  <2>2. j + k = i + k
    BY <1>3, <2>1
  <2>3. i \in Nat /\ j \in Nat
    <3>1. inbox'[q] \in Seq(Message)
      BY DEF TypeOK
    <3> QED
      BY <3>1
  <2> QED
    BY <2>2, <2>3
<1>7. inbox'[q][i].from # None
  BY <1>4, ConstantsDistinct
<1> QED
  BY <1>3, <1>4, <1>5, <1>6, <1>7 DEF Padded, Growing

\* A step that changes none of the lists of answers or of applied calls.
LEMMA QuietAnswers ==
  ASSUME TypeOK, TypeOK', OrderInv, AnswerInv,
         UNCHANGED <<receivers, answers, applied>>,
         \A p \in Procs : handling'[p] \in {handling[p], None},
         \A r \in Calls : pc[r] \notin Early =>
           pc'[r] \notin Early /\ origin'[r] = origin[r],
         \A r \in Asks : pc'[r] \in {"returning", "done"} =>
           pc[r] \in {"returning", "done"} \/ AllAnswersIn(r),
         \A q \in Procs : NoNew(q, {"request"}) /\ NoNew(q, {"answer"})
  PROVE  AnswerInv'
<1>1. ReceiversInv'
  BY KeepReceivers DEF AnswerInv
<1>0. Padded /\ Growing
  BY DEF Padded, Growing
<1>2. ToSendInv'
  BY <1>0, KeepToSend DEF AnswerInv
<1>3. SentInv'
  BY <1>0, KeepSent DEF AnswerInv
<1>4. ReceivedInv'
  BY DEF AnswerInv, ReceivedInv
<1>5. LongEnoughInv'
  BY DEF AnswerInv, LongEnoughInv, TimedOut, AllAnswersIn
<1> QED
  BY <1>1, <1>2, <1>3, <1>4, <1>5 DEF AnswerInv

\* No answer received: the lists hold answers of processes that ran the callback.
LEMMA KeepReceived ==
  ASSUME TypeOK, ReceivedInv, UNCHANGED answers, Growing
  PROVE  ReceivedInv'
<1> SUFFICES ASSUME NEW r \in Calls, NEW i \in DOMAIN answers[r],
                    answers[r][i] # None
             PROVE  r \in Range(applied'[answers[r][i]])
  BY DEF ReceivedInv
<1>1. answers[r][i] \in Procs
  BY DEF TypeOK
<1> QED
  BY <1>1 DEF ReceivedInv, Growing

------------------------------------------------------------------------------
(* The steps that change the lists.                                        *)

\* PUBLISH reaches processes that have not run the call, so no answer exists yet.
LEMMA PublishAnswers ==
  ASSUME TypeOK, TypeOK', OrderInv, AnswerInv,
         NEW r \in Calls, pc[r] \in Early, Publish(r),
         \A c \in Calls \ {r} : pc'[c] = pc[c],
         pc'[r] \notin Early, r \in Asks => pc'[r] \notin {"returning", "done"},
         UNCHANGED <<origin, answers, handling, applied>>
  PROVE  AnswerInv'
<1>1. Padded /\ Growing
  BY DEF Padded, Growing
<1>2. /\ receivers[r] = {}
      /\ \A c \in Calls \ {r} : receivers'[c] = receivers[c]
      /\ receivers'[r] = {p \in Procs : Main \in subscribed[p]}
  BY DEF Publish, AnswerInv, ReceiversInv, TypeOK
<1>3. Request(r) \in Message /\ Request(r).kind = "request" /\ Request(r).id = r
  BY DEF Message, Request
<1>4. ASSUME NEW q \in Procs
      PROVE  inbox'[q] = inbox[q] \/ (inbox'[q] = Append(inbox[q], Request(r))
                                        /\ q \in receivers'[r])
  BY <1>2 DEF Publish
<1>5. ASSUME NEW q \in Procs PROVE NoNew(q, {"answer"})
  BY <1>3, <1>4, UnchangedShrinks, ShrinksNoNew, OtherMessageNoNew
<1>6. ReceiversInv'
  <2>1. \A c \in Calls : pc'[c] \in Early => receivers'[c] = {}
    BY <1>2 DEF AnswerInv, ReceiversInv
  <2>2. \A p \in Procs : \A c \in Range(applied[p]) : p \in receivers'[c]
    <3>1. \A p \in Procs : \A c \in Range(applied[p]) : p \in receivers[c] /\ c \in Calls
      BY AppliedIsPublished DEF AnswerInv, ReceiversInv
    <3> QED
      BY <1>2, <3>1
  <2>3. ASSUME NEW p \in Procs, NEW i \in DOMAIN inbox'[p], IsRequest(inbox'[p][i])
        PROVE  p \in receivers'[inbox'[p][i].id]
    <3>1. inbox[p] \in Seq(Message)
      BY DEF TypeOK
    <3>2. CASE i \in DOMAIN inbox[p] /\ inbox'[p][i] = inbox[p][i]
      <4>1. inbox[p][i] \in Message
        BY <3>1, <3>2
      <4>2. inbox[p][i].id \in Calls /\ p \in receivers[inbox[p][i].id]
        BY <2>3, <3>2, <4>1, MessageKinds DEF AnswerInv, ReceiversInv, IsRequest
      <4> QED
        BY <1>2, <3>2, <4>2
    <3>3. CASE inbox'[p][i] = Request(r) /\ p \in receivers'[r]
      BY <1>3, <3>3
    <3>4. CASE inbox'[p] = Append(inbox[p], Request(r)) /\ p \in receivers'[r]
      <4>1. /\ DOMAIN inbox'[p] = 1 .. (Len(inbox[p]) + 1)
            /\ Len(inbox[p]) \in Nat /\ DOMAIN inbox[p] = 1 .. Len(inbox[p])
            /\ \A j \in DOMAIN inbox[p] : inbox'[p][j] = inbox[p][j]
            /\ inbox'[p][Len(inbox[p]) + 1] = Request(r)
        BY <1>3, <3>1, <3>4, AppendProperties
      <4> QED
        BY <3>2, <3>3, <3>4, <4>1
    <3> QED
      BY <1>4, <3>2, <3>4
  <2> QED
    BY <2>1, <2>2, <2>3 DEF ReceiversInv, IsRequest
<1>7. ToSendInv'
  BY <1>1, <1>5, KeepToSend DEF AnswerInv
<1>8. SentInv'
  BY <1>1, <1>5, KeepSent DEF AnswerInv
<1>9. ReceivedInv'
  BY DEF AnswerInv, ReceivedInv
<1>10. LongEnoughInv'
  BY <1>2 DEF AnswerInv, LongEnoughInv, TimedOut, AllAnswersIn, Calls
<1> QED
  BY <1>6, <1>7, <1>8, <1>9, <1>10 DEF AnswerInv

\* The listener starts the callback of a call that it has not run before.
LEMMA ReadRequestAnswers ==
  ASSUME TypeOK, TypeOK', OrderInv, AnswerInv, NEW p \in Procs, ReadRequest(p),
         Main \in handlers[p]
  PROVE  AnswerInv'
<1> DEFINE r == Head(inbox[p]).id
<1>1. /\ inbox[p] \in Seq(Message) /\ inbox[p] # <<>>
      /\ Head(inbox[p]).kind = "request" /\ handling[p] = None
      /\ handling' = [handling EXCEPT ![p] = r]
      /\ applied' = [applied EXCEPT ![p] = Append(@, r)]
      /\ UNCHANGED <<pc, origin, receivers, answers>>
  BY DEF ReadRequest, Reads, TypeOK, callVars
<1>2. /\ 1 \in DOMAIN inbox[p] /\ inbox[p][1] = Head(inbox[p])
      /\ IsRequest(inbox[p][1]) /\ inbox[p][1].id = r
  BY <1>1 DEF IsRequest
<1>3. inbox[p][1] \in Message
  BY <1>1, <1>2
<1>4. r \in Calls
  BY <1>1, <1>2, <1>3, MessageKinds
<1>5. \A q \in Procs : Shrinks(q)
  BY ReadsShrinks DEF ReadRequest
<1>6. p \in receivers[r]
  BY <1>2 DEF AnswerInv, ReceiversInv
<1>7. r \notin Range(applied[p])
  <2> SUFFICES ASSUME NEW j \in DOMAIN applied[p], applied[p][j] = r PROVE FALSE
    BY DEF Range
  <2>1. Earlier(log, r, r)
    BY <1>2 DEF OrderInv, InboxOrder
  <2>2. \A i \in DOMAIN log : i \in Nat
    <3>1. log \in Seq(Calls)
      BY DEF TypeOK
    <3> QED
      BY <3>1
  <2> QED
    BY <2>1, <2>2 DEF OrderInv, LogOnce, Earlier
<1> HIDE DEF r
<1>8. /\ \A q \in Procs : handling'[q] = IF q = p THEN r ELSE handling[q]
      /\ \A q \in Procs \ {p} : applied'[q] = applied[q]
      /\ Range(applied'[p]) = Range(applied[p]) \cup {r}
  <2>1. applied[p] \in Seq(Calls) /\ applied'[p] = Append(applied[p], r)
    BY <1>1 DEF TypeOK
  <2>2. Range(applied'[p]) = Range(applied[p]) \cup {r}
    BY <1>4, <2>1, EarlierAppend
  <2> QED
    BY <1>1, <2>2 DEF TypeOK
<1>9. Padded /\ Growing
  BY <1>1, <1>8 DEF Padded, Growing
<1>10. ReceiversInv'
  <2>1. \A q \in Procs : \A c \in Range(applied'[q]) : q \in receivers[c]
    BY <1>6, <1>8 DEF AnswerInv, ReceiversInv
  <2>2. ASSUME NEW q \in Procs, NEW i \in DOMAIN inbox'[q], IsRequest(inbox'[q][i])
        PROVE  q \in receivers[inbox'[q][i].id]
    BY <1>5, <2>2 DEF AnswerInv, ReceiversInv, Shrinks
  <2> QED
    BY <1>1, <2>1, <2>2 DEF AnswerInv, ReceiversInv, IsRequest
<1>11. ToSendInv'
  <2> SUFFICES ASSUME NEW q \in Procs, handling'[q] # None
               PROVE  /\ handling'[q] \in Range(applied'[q])
                      /\ q \notin Range(answers[handling'[q]])
                      /\ \A o \in Procs : Answer(handling'[q], q) \notin Range(inbox'[o])
    BY <1>1 DEF ToSendInv
  <2>1. \A o \in Procs : \A m : m \notin Range(inbox[o]) => m \notin Range(inbox'[o])
    BY <1>5 DEF Shrinks, Range
  <2>2. CASE q = p
    <3>1. p \notin Range(answers[r])
      <4> SUFFICES ASSUME NEW i \in DOMAIN answers[r], answers[r][i] = p PROVE FALSE
        BY DEF Range
      <4>1. p # None
        BY ConstantsDistinct
      <4> QED
        BY <1>4, <1>7, <4>1 DEF AnswerInv, ReceivedInv
    <3>2. ASSUME NEW o \in Procs, NEW i \in DOMAIN inbox[o],
                 inbox[o][i] = Answer(r, p)
          PROVE  FALSE
      <4>1. IsAnswer(inbox[o][i]) /\ inbox[o][i].id = r /\ inbox[o][i].from = p
        BY <3>2 DEF IsAnswer, Answer
      <4> QED
        BY <1>7, <4>1 DEF AnswerInv, SentInv
    <3>3. \A o \in Procs : Answer(r, p) \notin Range(inbox[o])
      BY <3>2 DEF Range
    <3> QED
      BY <1>8, <2>1, <2>2, <3>1, <3>3
  <2>3. CASE q # p
    <3>1. /\ handling[q] \in Range(applied[q])
          /\ q \notin Range(answers[handling[q]])
          /\ \A o \in Procs : Answer(handling[q], q) \notin Range(inbox[o])
      BY <1>8, <2>3 DEF AnswerInv, ToSendInv
    <3> QED
      BY <1>8, <2>1, <2>3, <3>1
  <2> QED
    BY <2>2, <2>3
<1>12. SentInv'
  BY <1>1, <1>5, <1>9, KeepSent, ShrinksNoNew DEF AnswerInv
<1>13. ReceivedInv'
  BY <1>1, <1>9, KeepReceived DEF AnswerInv
<1>14. LongEnoughInv'
  BY <1>1 DEF AnswerInv, LongEnoughInv, TimedOut, AllAnswersIn
<1> QED
  BY <1>10, <1>11, <1>12, <1>13, <1>14 DEF AnswerInv

\* An answer arrives in the list.
LEMMA ReadAnswerAnswers ==
  ASSUME TypeOK, TypeOK', OrderInv, AnswerInv, NEW p \in Procs, ReadAnswer(p),
         Head(inbox[p]).id \in handlers[p]
  PROVE  AnswerInv'
<1> DEFINE m == Head(inbox[p])
<1>1. /\ inbox[p] \in Seq(Message) /\ inbox[p] # <<>>
      /\ m.kind = "answer"
      /\ inbox' = [inbox EXCEPT ![p] = Tail(@)]
      /\ answers' = [answers EXCEPT ![m.id] = Append(@, m.from)]
      /\ UNCHANGED <<pc, origin, receivers, handling, applied>>
  BY DEF ReadAnswer, Reads, TypeOK, clientVars
<1>2. 1 \in DOMAIN inbox[p] /\ inbox[p][1] = m /\ IsAnswer(m)
  BY <1>1 DEF IsAnswer
<1>3. m \in Message
  BY <1>1, <1>2
<1> HIDE DEF m
<1>4. m.id \in Asks /\ m.id \in Calls /\ m.from \in Procs /\ m = Answer(m.id, m.from)
  BY <1>1, <1>3, MessageKinds DEF Calls
<1>5. /\ p = origin[m.id]
      /\ m.id \in Range(applied[m.from])
      /\ m.from \notin Range(answers[m.id])
      /\ \A j \in DOMAIN inbox[p] : inbox[p][j] = m => j = 1
  BY <1>2 DEF AnswerInv, SentInv
<1>6. \A q \in Procs : Shrinks(q)
  BY ReadsShrinks DEF ReadAnswer
<1>7. \A i \in DOMAIN inbox'[p] :
        i + 1 \in DOMAIN inbox[p] /\ inbox'[p][i] = inbox[p][i + 1] /\ i + 1 # 1
  <2>1. inbox'[p] = Tail(inbox[p]) /\ inbox'[p] \in Seq(Message)
    BY <1>1 DEF TypeOK
  <2>2. \A i \in DOMAIN inbox'[p] :
          i + 1 \in DOMAIN inbox[p] /\ inbox'[p][i] = inbox[p][i + 1]
    <3>1. /\ inbox[p] \in Seq(Message) /\ inbox[p] # <<>>
          /\ inbox'[p] = Tail(inbox[p])
      BY <1>1, <2>1
    <3> QED
      BY <3>1, HeadTailProperties
  <2>3. \A i \in DOMAIN inbox'[p] : i \in Nat /\ i > 0
    <3>1. inbox'[p] \in Seq(Message)
      BY <2>1
    <3> QED
      BY <3>1
  <2>4. \A i \in DOMAIN inbox'[p] : i + 1 # 1
    BY <2>3
  <2> QED
    BY <2>2, <2>4
<1>8. /\ answers[m.id] \in Seq(Procs \cup {None})
      /\ answers'[m.id] = Append(answers[m.id], m.from)
      /\ \A r \in Calls \ {m.id} : answers'[r] = answers[r]
  BY <1>1, <1>4 DEF TypeOK
<1>9. /\ DOMAIN answers[m.id] = 1 .. Len(answers[m.id]) /\ Len(answers[m.id]) \in Nat
      /\ DOMAIN answers'[m.id] = 1 .. (Len(answers[m.id]) + 1)
      /\ Len(answers'[m.id]) = Len(answers[m.id]) + 1
      /\ \A i \in DOMAIN answers[m.id] : answers'[m.id][i] = answers[m.id][i]
      /\ answers'[m.id][Len(answers[m.id]) + 1] = m.from
  BY <1>4, <1>8, AppendProperties
<1>10. Range(answers'[m.id]) = Range(answers[m.id]) \cup {m.from}
  BY <1>4, <1>8, EarlierAppend
\* The one message that moved was not in any inbox a second time.
<1>11. ASSUME NEW q \in Procs, NEW i \in DOMAIN inbox'[q] PROVE inbox'[q][i] # m
  <2> SUFFICES ASSUME inbox'[q][i] = m PROVE FALSE
    OBVIOUS
  <2>1. PICK k \in {0, 1} :
          i + k \in DOMAIN inbox[q] /\ inbox'[q][i] = inbox[q][i + k]
    BY <1>6 DEF Shrinks
  <2>2. q = p
    BY <1>2, <1>5, <2>1 DEF AnswerInv, SentInv
  <2> QED
    BY <1>5, <1>7, <2>2
<1>12. ReceiversInv'
  BY <1>1, <1>6, KeepReceivers, ShrinksNoNew DEF AnswerInv
<1>13. ToSendInv'
  <2> SUFFICES ASSUME NEW q \in Procs, handling[q] # None
               PROVE  /\ handling[q] \in Range(applied[q])
                      /\ q \notin Range(answers'[handling[q]])
                      /\ \A o \in Procs : Answer(handling[q], q) \notin Range(inbox'[o])
    BY <1>1 DEF ToSendInv
  <2>1. /\ handling[q] \in Range(applied[q])
        /\ q \notin Range(answers[handling[q]])
        /\ \A o \in Procs : Answer(handling[q], q) \notin Range(inbox[o])
    BY DEF AnswerInv, ToSendInv
  <2>2. \A o \in Procs : \A x : x \notin Range(inbox[o]) => x \notin Range(inbox'[o])
    BY <1>6 DEF Shrinks, Range
  <2>3. handling[q] \in Calls
    BY DEF TypeOK
  <2>4. m \in Range(inbox[p])
    BY <1>2 DEF Range
  <2>5. ~(handling[q] = m.id /\ q = m.from)
    <3>1. Answer(handling[q], q) # m
      BY <2>1, <2>4
    <3> QED
      BY <1>4, <3>1
  <2> QED
    BY <1>8, <1>10, <2>1, <2>2, <2>3, <2>5
<1>14. SentInv'
  <2> SUFFICES ASSUME NEW q \in Procs, NEW i \in DOMAIN inbox'[q],
                      IsAnswer(inbox'[q][i])
               PROVE  /\ q = origin[inbox'[q][i].id]
                      /\ inbox'[q][i].id \in Range(applied[inbox'[q][i].from])
                      /\ inbox'[q][i].from \notin Range(answers'[inbox'[q][i].id])
                      /\ \A j \in DOMAIN inbox'[q] :
                           inbox'[q][j] = inbox'[q][i] => j = i
    BY <1>1 DEF SentInv, IsAnswer
  <2> DEFINE n == inbox'[q][i]
  <2>1. PICK k \in {0, 1} : \A j \in DOMAIN inbox'[q] :
          j + k \in DOMAIN inbox[q] /\ inbox'[q][j] = inbox[q][j + k]
    BY <1>6 DEF Shrinks
  <2>2. /\ q = origin[n.id]
        /\ n.id \in Range(applied[n.from])
        /\ n.from \notin Range(answers[n.id])
        /\ \A j \in DOMAIN inbox[q] : inbox[q][j] = n => j = i + k
    BY <2>1 DEF AnswerInv, SentInv
  <2>3. n \in Message
    BY DEF TypeOK
  <2>4. n.id \in Calls /\ n = Answer(n.id, n.from)
    BY <2>3, MessageKinds DEF IsAnswer, Calls
  <2>5. ~(n.id = m.id /\ n.from = m.from)
    BY <1>4, <1>11, <2>4
  <2>6. n.from \notin Range(answers'[n.id])
    BY <1>8, <1>10, <2>2, <2>4, <2>5
  <2>7. ASSUME NEW j \in DOMAIN inbox'[q], inbox'[q][j] = n PROVE j = i
    <3>1. j + k = i + k
      BY <2>1, <2>2, <2>7
    <3>2. i \in Nat /\ j \in Nat
      <4>1. inbox'[q] \in Seq(Message)
        BY DEF TypeOK
      <4> QED
        BY <4>1
    <3> QED
      BY <3>1, <3>2
  <2> QED
    BY <2>2, <2>6, <2>7
<1>15. ReceivedInv'
  <2> SUFFICES ASSUME NEW r \in Calls, NEW i \in DOMAIN answers'[r],
                      answers'[r][i] # None
               PROVE  /\ r \in Range(applied[answers'[r][i]])
                      /\ \A j \in DOMAIN answers'[r] :
                           answers'[r][j] = answers'[r][i] => j = i
    BY <1>1 DEF ReceivedInv
  <2>1. CASE r # m.id
    BY <1>8, <2>1 DEF AnswerInv, ReceivedInv
  <2>2. CASE r = m.id
    <3>1. \A j \in DOMAIN answers[r] : answers[r][j] # m.from
      BY <1>5, <2>2 DEF Range
    <3>2. CASE i \in DOMAIN answers[r]
      <4>1. /\ r \in Range(applied[answers[r][i]])
            /\ \A j \in DOMAIN answers[r] : answers[r][j] = answers[r][i] => j = i
        BY <1>9, <2>2, <3>2 DEF AnswerInv, ReceivedInv
      <4> QED
        BY <1>9, <2>2, <3>1, <3>2, <4>1
    <3>3. CASE i = Len(answers[r]) + 1
      BY <1>5, <1>9, <2>2, <3>1, <3>3
    <3> QED
      BY <1>9, <2>2, <3>2, <3>3
  <2> QED
    BY <2>1, <2>2
<1>16. LongEnoughInv'
  <2> SUFFICES ASSUME NEW r \in Asks, pc[r] \in {"returning", "done"},
                      None \notin Range(answers'[r])
               PROVE  Len(answers'[r]) >= Cardinality(receivers[r])
    BY <1>1 DEF LongEnoughInv, TimedOut, AllAnswersIn
  <2>1. /\ r \in Calls
        /\ Len(answers[r]) \in Nat
        /\ Cardinality(receivers[r]) \in Nat
    BY ReceiversCount DEF TypeOK, Calls
  <2>2. None \notin Range(answers[r])
    BY <1>8, <1>10, <2>1
  <2>3. Len(answers[r]) >= Cardinality(receivers[r])
    BY <2>2 DEF AnswerInv, LongEnoughInv, TimedOut, AllAnswersIn
  <2> QED
    BY <1>8, <1>9, <2>1, <2>3
<1> QED
  BY <1>12, <1>13, <1>14, <1>15, <1>16 DEF AnswerInv

\* The answer is sent to the channel of the caller.
LEMMA FinishCallbackAnswers ==
  ASSUME TypeOK, TypeOK', OrderInv, AnswerInv, NEW p \in Procs, FinishCallback(p),
         handling[p] \in Asks, origin[handling[p]] \in Procs,
         handling[p] \in subscribed[origin[handling[p]]]
  PROVE  AnswerInv'
<1> DEFINE r == handling[p]
           o == origin[r]
           m == Answer(r, p)
<1>1. /\ handling' = [handling EXCEPT ![p] = None]
      /\ inbox' = [inbox EXCEPT ![o] = Append(@, m)]
      /\ UNCHANGED <<pc, origin, receivers, answers, applied>>
  BY DEF FinishCallback, callVars
<1>2. m \in Message /\ m.kind = "answer" /\ m.id = r /\ m.from = p
  BY DEF Message, Answer
<1>3. r # None
  BY DEF FinishCallback
<1>4. /\ r \in Range(applied[p])
      /\ p \notin Range(answers[r])
      /\ \A q \in Procs : m \notin Range(inbox[q])
  BY <1>3 DEF AnswerInv, ToSendInv
<1>5. o \in Procs
  OBVIOUS
<1>6. r \in Calls
  BY DEF Calls
<1> HIDE DEF m, r, o
<1>7. /\ inbox[o] \in Seq(Message)
      /\ inbox'[o] = Append(inbox[o], m)
      /\ \A q \in Procs \ {o} : inbox'[q] = inbox[q]
  BY <1>1, <1>5 DEF TypeOK
<1>8. /\ DOMAIN inbox[o] = 1 .. Len(inbox[o]) /\ Len(inbox[o]) \in Nat
      /\ DOMAIN inbox'[o] = 1 .. (Len(inbox[o]) + 1)
      /\ \A i \in DOMAIN inbox[o] : inbox'[o][i] = inbox[o][i]
      /\ inbox'[o][Len(inbox[o]) + 1] = m
  BY <1>2, <1>7, AppendProperties
<1>9. Range(inbox'[o]) = Range(inbox[o]) \cup {m}
  BY <1>2, <1>7, EarlierAppend
<1>10. \A q \in Procs : handling'[q] \in {handling[q], None}
  BY <1>1 DEF TypeOK
<1>11. ReceiversInv'
  <2>1. ASSUME NEW q \in Procs PROVE NoNew(q, {"request"})
    <3>1. CASE q = o
      BY <1>2, <1>7, <3>1, OtherMessageNoNew
    <3>2. CASE q # o
      BY <1>7, <3>2, UnchangedShrinks, ShrinksNoNew
    <3> QED
      BY <3>1, <3>2
  <2> QED
    BY <1>1, <2>1, KeepReceivers DEF AnswerInv
<1>12. ToSendInv'
  <2> SUFFICES ASSUME NEW q \in Procs, handling'[q] # None
               PROVE  /\ handling'[q] \in Range(applied[q])
                      /\ q \notin Range(answers[handling'[q]])
                      /\ \A u \in Procs : Answer(handling'[q], q) \notin Range(inbox'[u])
    BY <1>1 DEF ToSendInv
  <2>1. q # p /\ handling'[q] = handling[q]
    BY <1>1, <1>10 DEF TypeOK
  <2>2. /\ handling[q] \in Range(applied[q])
        /\ q \notin Range(answers[handling[q]])
        /\ \A u \in Procs : Answer(handling[q], q) \notin Range(inbox[u])
    BY <2>1 DEF AnswerInv, ToSendInv
  <2>3. Answer(handling[q], q) # m
    BY <1>2, <2>1 DEF Answer
  <2> QED
    BY <1>7, <1>9, <2>1, <2>2, <2>3
<1>13. SentInv'
  <2> SUFFICES ASSUME NEW q \in Procs, NEW i \in DOMAIN inbox'[q],
                      IsAnswer(inbox'[q][i])
               PROVE  /\ q = origin[inbox'[q][i].id]
                      /\ inbox'[q][i].id \in Range(applied[inbox'[q][i].from])
                      /\ inbox'[q][i].from \notin Range(answers[inbox'[q][i].id])
                      /\ \A j \in DOMAIN inbox'[q] :
                           inbox'[q][j] = inbox'[q][i] => j = i
    BY <1>1 DEF SentInv, IsAnswer
  <2>1. CASE q # o
    BY <1>7, <2>1 DEF AnswerInv, SentInv
  <2>2. CASE q = o /\ i \in DOMAIN inbox[o]
    <3>1. /\ o = origin[inbox[o][i].id]
          /\ inbox[o][i].id \in Range(applied[inbox[o][i].from])
          /\ inbox[o][i].from \notin Range(answers[inbox[o][i].id])
          /\ \A j \in DOMAIN inbox[o] : inbox[o][j] = inbox[o][i] => j = i
      BY <1>5, <1>8, <2>2 DEF AnswerInv, SentInv
    <3>2. inbox[o][i] # m
      BY <1>4, <1>5, <2>2 DEF Range
    <3> QED
      BY <1>8, <2>2, <3>1, <3>2
  <2>3. CASE q = o /\ i = Len(inbox[o]) + 1
    <3>1. \A j \in DOMAIN inbox[o] : inbox[o][j] # m
      BY <1>4, <1>5 DEF Range
    <3>2. q = origin[m.id]
      BY <1>2, <2>3 DEF o
    <3> QED
      BY <1>2, <1>4, <1>8, <2>3, <3>1, <3>2
  <2> QED
    BY <1>8, <2>1, <2>2, <2>3
<1>14. ReceivedInv' /\ LongEnoughInv'
  BY <1>1 DEF AnswerInv, ReceivedInv, LongEnoughInv, TimedOut, AllAnswersIn
<1> QED
  BY <1>11, <1>12, <1>13, <1>14 DEF AnswerInv

\* The timeout pads the list with None.
LEMMA TimeoutAnswers ==
  ASSUME TypeOK, TypeOK', OrderInv, AnswerInv, NEW r \in Calls, Timeout(r)
  PROVE  AnswerInv'
<1> DEFINE n == Cardinality(receivers[r])
           padded == [i \in 1 .. n |->
                        IF i <= Len(answers[r]) THEN answers[r][i] ELSE None]
<1>1. /\ pc' = [pc EXCEPT ![r] = "returning"]
      /\ answers' = [answers EXCEPT ![r] = padded]
      /\ Len(answers[r]) < n
      /\ UNCHANGED <<origin, receivers, handling, inbox, applied>>
  <2>1. n \in Nat /\ Len(answers[r]) \in Nat
    BY ReceiversCount DEF TypeOK
  <2> QED
    BY <2>1 DEF Timeout, AllAnswersIn, clientVars, serverVars
<1>2. n \in Nat /\ Len(answers[r]) \in Nat /\ DOMAIN answers[r] = 1 .. Len(answers[r])
  BY ReceiversCount DEF TypeOK
<1>3. /\ \A c \in Calls \ {r} : answers'[c] = answers[c] /\ pc'[c] = pc[c]
      /\ answers'[r] = padded /\ pc'[r] = "returning"
  BY <1>1 DEF TypeOK
<1> HIDE DEF n
<1>4. /\ DOMAIN answers'[r] = 1 .. n
      /\ \A i \in DOMAIN answers[r] : i \in 1 .. n /\ answers'[r][i] = answers[r][i]
      /\ \A i \in 1 .. n : i \notin DOMAIN answers[r] => answers'[r][i] = None
      /\ n \notin DOMAIN answers[r] /\ n \in 1 .. n
  BY <1>1, <1>2, <1>3
<1>5. Padded /\ Growing
  <2>1. Range(answers'[r]) \subseteq Range(answers[r]) \cup {None}
    BY <1>4 DEF Range
  <2> QED
    BY <1>1, <1>3, <2>1 DEF Padded, Growing
<1>6. \A q \in Procs : \A kinds : NoNew(q, kinds)
  BY <1>1, UnchangedShrinks, ShrinksNoNew
<1>7. \A c \in Calls : pc[c] \notin Early => pc'[c] \notin Early
  BY <1>3 DEF Early
<1>8. ReceiversInv'
  BY <1>1, <1>6, <1>7, KeepReceivers DEF AnswerInv
<1>9. ToSendInv'
  BY <1>1, <1>5, <1>6, KeepToSend DEF AnswerInv
<1>10. SentInv'
  BY <1>1, <1>5, <1>6, KeepSent DEF AnswerInv
<1>11. ReceivedInv'
  <2> SUFFICES ASSUME NEW c \in Calls, NEW i \in DOMAIN answers'[c],
                      answers'[c][i] # None
               PROVE  /\ c \in Range(applied[answers'[c][i]])
                      /\ \A j \in DOMAIN answers'[c] :
                           answers'[c][j] = answers'[c][i] => j = i
    BY <1>1 DEF ReceivedInv
  <2>1. CASE c # r
    BY <1>3, <2>1 DEF AnswerInv, ReceivedInv
  <2>2. CASE c = r
    <3>1. /\ i \in DOMAIN answers[r] /\ answers'[r][i] = answers[r][i]
          /\ \A j \in DOMAIN answers'[r] :
               answers'[r][j] = answers'[r][i] => j \in DOMAIN answers[r]
      BY <1>4, <2>2
    <3> QED
      BY <1>4, <2>2, <3>1 DEF AnswerInv, ReceivedInv
  <2> QED
    BY <2>1, <2>2
<1>12. LongEnoughInv'
  <2>1. None \in Range(answers'[r])
    BY <1>4 DEF Range
  <2>2. \A c \in Asks \ {r} : c \in Calls \ {r}
    BY DEF Calls
  <2> QED
    BY <1>1, <1>3, <2>1, <2>2 DEF AnswerInv, LongEnoughInv, TimedOut, AllAnswersIn
<1> QED
  BY <1>8, <1>9, <1>10, <1>11, <1>12 DEF AnswerInv

------------------------------------------------------------------------------
(* The theorems.                                                           *)

\* A call under way has a process; an answer is for an ask.
LEMMA AnswerStep ==
  ASSUME TypeOK, TypeOK', OrderInv, AnswerInv, [Next]_vars
  PROVE  AnswerInv'
<1> DEFINE Lists == UNCHANGED <<receivers, answers, applied>>
           Handling == \A p \in Procs : handling'[p] \in {handling[p], None}
           Progress == \A r \in Calls : pc[r] \notin Early =>
                         pc'[r] \notin Early /\ origin'[r] = origin[r]
           Returns == \A r \in Asks : pc'[r] \in {"returning", "done"} =>
                        pc[r] \in {"returning", "done"} \/ AllAnswersIn(r)
           Inboxes == \A q \in Procs : NoNew(q, {"request"}) /\ NoNew(q, {"answer"})
<1>1. Lists /\ Handling /\ Progress /\ Returns /\ Inboxes => AnswerInv'
  BY QuietAnswers
<1>2. UNCHANGED inbox => Inboxes
  BY UnchangedShrinks, ShrinksNoNew
<1>3. UNCHANGED <<pc, origin>> => Progress /\ Returns
  OBVIOUS
<1>4. UNCHANGED handling => Handling
  OBVIOUS
<1>5. ASSUME NEW p \in Procs, NEW kind, Reads(p, kind) PROVE Inboxes
  BY <1>5, ReadsShrinks, ShrinksNoNew
<1>6. \A r \in Asks : r \in Calls
  BY DEF Calls
<1> HIDE DEF Inboxes
<1>7. ASSUME NEW p \in Procs, SubscribeMain(p) \/ RegisterMain(p) \/ UnsubscribeMain(p)
      PROVE  AnswerInv'
  BY <1>1, <1>2, <1>3, <1>4, <1>7
     DEF SubscribeMain, RegisterMain, UnsubscribeMain, callVars, serverVars
<1>8. ASSUME NEW r \in Calls, NEW p \in Procs, StartTell(r, p) \/ StartAsk(r, p)
      PROVE  AnswerInv'
  <2>1. Progress /\ Returns
    BY <1>6, <1>8 DEF StartTell, StartAsk, Early, TypeOK
  <2> QED
    BY <1>1, <1>2, <1>4, <1>8, <2>1 DEF StartTell, StartAsk, clientVars, serverVars
<1>9. ASSUME NEW r \in Calls, RegisterAnswers(r) PROVE AnswerInv'
  <2>1. Progress /\ Returns
    BY <1>6, <1>9 DEF RegisterAnswers, Early, TypeOK
  <2> QED
    BY <1>1, <1>2, <1>4, <1>9, <2>1 DEF RegisterAnswers, serverVars
<1>10. ASSUME NEW r \in Calls, PublishCall(r) PROVE AnswerInv'
  <2>1. /\ \A c \in Calls \ {r} : pc'[c] = pc[c]
        /\ pc'[r] \notin Early
        /\ r \in Asks => pc'[r] \notin {"returning", "done"}
    BY <1>10 DEF PublishCall, Early, TypeOK
  <2> QED
    BY <1>10, <2>1, PublishAnswers DEF PublishCall, Early, clientVars
<1>11. ASSUME NEW r \in Calls, PublishFails(r) PROVE AnswerInv'
  <2>1. /\ \A c \in Calls \ {r} : pc'[c] = pc[c]
        /\ pc'[r] \notin Early
        /\ r \in Asks => pc'[r] \notin {"returning", "done"}
    BY <1>11 DEF PublishFails, Early, TypeOK
  <2>2. CASE Publish(r)
    BY <1>11, <2>1, <2>2, PublishAnswers DEF PublishFails, Early, clientVars
  <2>3. CASE UNCHANGED <<log, receivers, inbox>>
    <3>1. Progress /\ Returns
      BY <1>6, <1>11, <2>1 DEF PublishFails, Early
    <3> QED
      BY <1>1, <1>2, <1>4, <1>11, <2>3, <3>1 DEF PublishFails, clientVars
  <2> QED
    BY <1>11, <2>2, <2>3 DEF PublishFails
<1>12. ASSUME NEW r \in Calls, GetAnswers(r) PROVE AnswerInv'
  <2>1. Progress /\ Returns
    BY <1>6, <1>12 DEF GetAnswers, Early, TypeOK
  <2> QED
    BY <1>1, <1>2, <1>4, <1>12, <2>1 DEF GetAnswers, clientVars, serverVars
<1>13. ASSUME NEW r \in Calls, Release(r) PROVE AnswerInv'
  <2>1. Progress /\ Returns
    BY <1>6, <1>13 DEF Release, Early, TypeOK
  <2> QED
    BY <1>1, <1>2, <1>4, <1>13, <2>1 DEF Release
<1>14. ASSUME NEW r \in Calls, Timeout(r) PROVE AnswerInv'
  BY <1>14, TimeoutAnswers
<1>15. ASSUME NEW p \in Procs, ReadRequest(p) PROVE AnswerInv'
  <2>1. CASE Main \in handlers[p]
    BY <1>15, <2>1, ReadRequestAnswers
  <2>2. CASE Main \notin handlers[p]
    <3>1. Inboxes
      BY <1>5, <1>15 DEF ReadRequest
    <3> QED
      BY <1>1, <1>3, <1>4, <1>15, <2>2, <3>1 DEF ReadRequest, callVars
  <2> QED
    BY <2>1, <2>2
<1>16. ASSUME NEW p \in Procs, ReadAnswer(p) PROVE AnswerInv'
  <2>1. CASE Head(inbox[p]).id \in handlers[p]
    BY <1>16, <2>1, ReadAnswerAnswers
  <2>2. CASE Head(inbox[p]).id \notin handlers[p]
    <3>1. Inboxes
      BY <1>5, <1>16 DEF ReadAnswer
    <3> QED
      BY <1>1, <1>3, <1>4, <1>16, <2>2, <3>1 DEF ReadAnswer, clientVars
  <2> QED
    BY <2>1, <2>2
<1>17. ASSUME NEW p \in Procs, ReadUnsubscribed(p) PROVE AnswerInv'
  <2>1. Inboxes
    BY <1>5, <1>17 DEF ReadUnsubscribed
  <2> QED
    BY <1>1, <1>3, <1>4, <1>17, <2>1 DEF ReadUnsubscribed, callVars
<1>18. ASSUME NEW p \in Procs, FinishCallback(p) PROVE AnswerInv'
  <2>1. CASE inbox' = inbox
    BY <1>1, <1>2, <1>3, <1>18, <2>1 DEF FinishCallback, callVars, TypeOK
  <2>2. CASE inbox' # inbox
    <3> DEFINE r == handling[p]
    <3>1. /\ r \in Asks /\ r \in subscribed[origin[r]]
          /\ inbox' = [inbox EXCEPT ![origin[r]] = Append(@, Answer(r, p))]
      BY <1>18, <2>2 DEF FinishCallback
    <3>2. origin[r] \in Procs
      <4>1. inbox \in [Procs -> Seq(Message)]
        BY DEF TypeOK
      <4> QED
        BY <2>2, <3>1, <4>1, Zenon
    <3> QED
      BY <1>18, <3>1, <3>2, FinishCallbackAnswers
  <2> QED
    BY <2>1, <2>2
<1>19. ASSUME NEW p \in Procs, AnswerFails(p) PROVE AnswerInv'
  <2>1. Handling
    BY <1>19 DEF AnswerFails, TypeOK
  <2> QED
    BY <1>1, <1>2, <1>3, <1>19, <2>1 DEF AnswerFails, callVars
<1>20. ASSUME NEW p \in Procs, ServerSubscribe(p) PROVE AnswerInv'
  BY <1>1, <1>2, <1>3, <1>4, <1>20 DEF ServerSubscribe, callVars, clientVars
<1>21. ASSUME NEW p \in Procs, ServerUnsubscribe(p) PROVE AnswerInv'
  <2> DEFINE c == Head(commands[p]).channel
             m == Unsubscribed(c)
  <2>1. c \in Channels
    <3>1. Head(commands[p]) \in Command
      BY <1>21 DEF ServerUnsubscribe, TypeOK
    <3> QED
      BY <3>1 DEF Command
  <2>2. m \in Message /\ m.kind = "unsubscribed"
    BY <2>1 DEF Message, Unsubscribed
  <2>3. inbox' = [inbox EXCEPT ![p] = Append(@, m)]
    BY <1>21 DEF ServerUnsubscribe
  <2> HIDE DEF m
  <2>4. ASSUME NEW q \in Procs PROVE NoNew(q, {"request"}) /\ NoNew(q, {"answer"})
    <3>1. inbox'[q] = inbox[q] \/ inbox'[q] = Append(inbox[q], m)
      BY <2>3 DEF TypeOK
    <3> QED
      BY <2>2, <3>1, UnchangedShrinks, ShrinksNoNew, OtherMessageNoNew
  <2>5. Inboxes
    BY <2>4 DEF Inboxes
  <2> QED
    BY <1>1, <1>3, <1>4, <1>21, <2>5 DEF ServerUnsubscribe, callVars, clientVars
<1>22. ASSUME NEW p \in Procs, Disconnect(p) PROVE AnswerInv'
  <2>1. ASSUME NEW q \in Procs PROVE NoNew(q, {"request"}) /\ NoNew(q, {"answer"})
    <3>1. inbox'[q] = inbox[q] \/ DOMAIN inbox'[q] = {}
      BY <1>22 DEF Disconnect, TypeOK
    <3>2. CASE inbox'[q] = inbox[q]
      BY <3>2, UnchangedShrinks, ShrinksNoNew
    <3>3. CASE DOMAIN inbox'[q] = {}
      BY <3>3 DEF NoNew
    <3> QED
      BY <3>1, <3>2, <3>3
  <2>2. Inboxes
    BY <2>1 DEF Inboxes
  <2> QED
    BY <1>1, <1>3, <1>4, <1>22, <2>2 DEF Disconnect, callVars
<1>23. ASSUME NEW p \in Procs, Reconnect(p) PROVE AnswerInv'
  BY <1>1, <1>2, <1>3, <1>4, <1>23 DEF Reconnect, callVars
<1>24. UNCHANGED vars => AnswerInv'
  BY <1>1, <1>2, <1>3, <1>4 DEF vars, callVars, clientVars, serverVars
<1> QED
  BY <1>7, <1>8, <1>9, <1>10, <1>11, <1>12, <1>13, <1>14, <1>15, <1>16, <1>17,
     <1>18, <1>19, <1>20, <1>21, <1>22, <1>23, <1>24
     DEF Next, CallerStep, ListenerStep, ServerStep

\* The invariant of the answers.
THEOREM AnswersCorrect == Spec => []AnswerInv
<1>1. Init => AnswerInv
  <2> SUFFICES ASSUME Init PROVE AnswerInv
    OBVIOUS
  <2>1. \A p \in Procs : inbox[p] = <<>> /\ applied[p] = <<>> /\ handling[p] = None
    BY DEF Init
  <2>2. \A r \in Calls : /\ answers[r] = <<>> /\ receivers[r] = {}
                          /\ pc[r] = "new"
    BY DEF Init
  <2>3. ReceiversInv
    BY <2>1, <2>2 DEF ReceiversInv, Range
  <2>4. ToSendInv
    BY <2>1 DEF ToSendInv
  <2>5. SentInv
    BY <2>1 DEF SentInv
  <2>6. ReceivedInv
    BY <2>2 DEF ReceivedInv
  <2>7. LongEnoughInv
    BY <2>2 DEF LongEnoughInv, Calls
  <2> QED
    BY <2>3, <2>4, <2>5, <2>6, <2>7 DEF AnswerInv
<1>2. TypeOK /\ TypeOK' /\ OrderInv /\ AnswerInv /\ [Next]_vars => AnswerInv'
  BY AnswerStep
<1> QED
  BY <1>1, <1>2, TypeCorrect, OrderCorrect, PTL DEF Spec

\* Waiting for nb_received entries of the list is waiting for nb_received
\* processes: each entry that is not None is the answer of another receiver.
THEOREM AnswersAreCounted == Spec => []OneAnswerEach
<1>1. TypeOK /\ OrderInv /\ AnswerInv => OneAnswerEach
  <2> SUFFICES ASSUME TypeOK, OrderInv, AnswerInv, NEW r \in Calls
               PROVE  /\ Range(answers[r]) \subseteq receivers[r] \cup {None}
                      /\ \A i, j \in DOMAIN answers[r] :
                           i # j /\ answers[r][i] = answers[r][j]
                             => answers[r][i] = None
    BY DEF OneAnswerEach
  <2>1. ASSUME NEW i \in DOMAIN answers[r], answers[r][i] # None
        PROVE  answers[r][i] \in receivers[r]
    <3>1. answers[r][i] \in Procs
      BY <2>1 DEF TypeOK
    <3> QED
      BY <2>1, <3>1 DEF AnswerInv, ReceivedInv, ReceiversInv
  <2> QED
    BY <2>1 DEF AnswerInv, ReceivedInv, Range
<1> QED
  BY <1>1, AnswersCorrect, OrderCorrect, TypeCorrect, PTL

\* A call that returns a list without None returns the answer of every receiver,
\* and each of them has run the callback.
THEOREM CompleteAnswersAreComplete == Spec => []CompleteAnswers
<1>1. TypeOK /\ OneAnswerEach /\ AnswerInv => CompleteAnswers
  <2> SUFFICES ASSUME TypeOK, OneAnswerEach, AnswerInv,
                      NEW r \in Asks, pc[r] = "done", ~TimedOut(r)
               PROVE  /\ Range(answers[r]) = receivers[r]
                      /\ \A p \in receivers[r] : r \in Range(applied[p])
    BY DEF CompleteAnswers
  <2> DEFINE n == Len(answers[r])
             R == Range(answers[r])
  <2>1. r \in Calls
    BY DEF Calls
  <2>2. /\ answers[r] \in Seq(Procs \cup {None}) /\ receivers[r] \in SUBSET Procs
        /\ n \in Nat /\ DOMAIN answers[r] = 1 .. n
    BY <2>1 DEF TypeOK
  <2>3. None \notin R
    BY DEF TimedOut
  <2>4. R \subseteq receivers[r]
    BY <2>1, <2>3 DEF OneAnswerEach
  <2>5. n >= Cardinality(receivers[r])
    BY DEF AnswerInv, LongEnoughInv, AllAnswersIn
  <2>6. IsFiniteSet(receivers[r]) /\ Cardinality(receivers[r]) \in Nat
    BY <2>2, ReceiversCount
  \* As many processes as entries: no two entries are the same.
  <2>7. IsFiniteSet(R) /\ Cardinality(R) = n
    <3>1. answers[r] \in Bijection(1 .. n, R)
      <4>1. \A i, j \in 1 .. n : answers[r][i] = answers[r][j] => i = j
        BY <2>1, <2>2, <2>3 DEF OneAnswerEach, Range
      <4>2. answers[r] \in [1 .. n -> R]
        BY <2>2 DEF Range
      <4>3. \A x \in R : \E i \in 1 .. n : answers[r][i] = x
        BY <2>2 DEF Range
      <4> QED
        BY <4>1, <4>2, <4>3 DEF Bijection, Injection, Surjection, IsInjective
    <3>2. IsFiniteSet(1 .. n) /\ Cardinality(1 .. n) = n
      BY <2>2, FS_Interval
    <3> QED
      BY <3>1, <3>2, FS_Bijection DEF ExistsBijection
  <2>8. R = receivers[r]
    BY <2>4, <2>5, <2>6, <2>7, FS_Subset
  <2>9. ASSUME NEW p \in receivers[r] PROVE r \in Range(applied[p])
    <3>1. PICK i \in DOMAIN answers[r] : answers[r][i] = p
      BY <2>8 DEF Range
    <3>2. p # None
      BY <2>2, ConstantsDistinct
    <3> QED
      BY <2>1, <3>1, <3>2 DEF AnswerInv, ReceivedInv
  <2> QED
    BY <2>8, <2>9
<1> QED
  BY <1>1, AnswersAreCounted, AnswersCorrect, TypeCorrect, PTL

=============================================================================
