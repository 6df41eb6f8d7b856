------------------------ MODULE ScatterGatherProofs ------------------------
(***************************************************************************)
(* Broadcast implements ScatterGather, for any processes, calls and number *)
(* of failures.                                                            *)
(***************************************************************************)
EXTENDS AnswerProofs

------------------------------------------------------------------------------
\* A call that waits for answers or has returned them is in the log.
PublishedInv ==
  \A r \in Asks : pc[r] \in {"waiting", "returning", "done"} => r \in Range(log)

\* PUBLISH adds the call to the published ones.
LEMMA PublishAppends ==
  ASSUME TypeOK, NEW r \in Calls, Publish(r)
  PROVE  Range(log') = Range(log) \cup {r}
<1>1. log \in Seq(Calls) /\ log' = Append(log, r)
  BY DEF TypeOK, Publish
<1> QED
  BY <1>1, EarlierAppend

\* Every step keeps PublishedInv.
LEMMA PublishedStep ==
  ASSUME TypeOK, PublishedInv, [Next]_vars
  PROVE  PublishedInv'
<1>1. \A r \in Asks : r \in Calls
  BY DEF Calls
<1>2. ASSUME Range(log) \subseteq Range(log'),
             \A c \in Asks : \/ pc'[c] \notin {"waiting", "returning", "done"}
                             \/ pc[c] \in {"waiting", "returning", "done"}
                             \/ c \in Range(log')
      PROVE  PublishedInv'
  BY <1>2 DEF PublishedInv
<1>3. CASE UNCHANGED <<pc, log>>
  BY <1>2, <1>3
<1>4. ASSUME NEW r \in Calls,
             RegisterAnswers(r) \/ GetAnswers(r) \/ Timeout(r) \/ Release(r)
      PROVE  PublishedInv'
  <2>1. \A c \in Asks : \/ pc'[c] \notin {"waiting", "returning", "done"}
                        \/ pc[c] \in {"waiting", "returning", "done"}
    BY <1>1, <1>4 DEF RegisterAnswers, GetAnswers, Timeout, Release, TypeOK
  <2> QED
    BY <1>2, <1>4, <2>1 DEF RegisterAnswers, GetAnswers, Timeout, Release
<1>5. ASSUME NEW r \in Calls, NEW p \in Procs, StartTell(r, p) \/ StartAsk(r, p)
      PROVE  PublishedInv'
  <2>1. \A c \in Asks : \/ pc'[c] \notin {"waiting", "returning", "done"}
                        \/ pc[c] \in {"waiting", "returning", "done"}
    BY <1>1, <1>5 DEF StartTell, StartAsk, TypeOK
  <2> QED
    BY <1>2, <1>5, <2>1 DEF StartTell, StartAsk
<1>6. ASSUME NEW r \in Calls, PublishCall(r) PROVE PublishedInv'
  <2>1. Range(log') = Range(log) \cup {r}
    BY <1>6, PublishAppends DEF PublishCall
  <2>2. \A c \in Calls \ {r} : pc'[c] = pc[c]
    BY <1>6 DEF PublishCall, TypeOK
  <2> QED
    BY <1>1, <1>2, <2>1, <2>2
<1>7. ASSUME NEW r \in Calls, PublishFails(r) PROVE PublishedInv'
  <2>1. \A c \in Asks : \/ pc'[c] \notin {"waiting", "returning", "done"}
                        \/ pc[c] \in {"waiting", "returning", "done"}
    BY <1>1, <1>7 DEF PublishFails, TypeOK
  <2>2. Range(log) \subseteq Range(log')
    BY <1>7, PublishAppends DEF PublishFails
  <2> QED
    BY <1>2, <2>1, <2>2
<1>8. ASSUME NEW p \in Procs,
             \/ SubscribeMain(p) \/ RegisterMain(p) \/ UnsubscribeMain(p)
             \/ ListenerStep(p) \/ AnswerFails(p)
             \/ ServerStep(p) \/ Disconnect(p) \/ Reconnect(p)
      PROVE  UNCHANGED <<pc, log>>
  BY <1>8 DEF SubscribeMain, RegisterMain, UnsubscribeMain, ListenerStep,
              ReadRequest, ReadAnswer, ReadUnsubscribed, FinishCallback,
              AnswerFails, ServerStep, ServerSubscribe, ServerUnsubscribe,
              Disconnect, Reconnect, callVars
<1>9. UNCHANGED vars => UNCHANGED <<pc, log>>
  BY DEF vars, callVars
<1> QED
  BY <1>3, <1>4, <1>5, <1>6, <1>7, <1>8, <1>9 DEF Next, CallerStep

\* A call that waits for answers, or has returned some, was published (redis.py,
\* _broadcast_with_answer: the wait comes after PUBLISH).
THEOREM PublishedCorrect == Spec => []PublishedInv
<1>1. Init => PublishedInv
  BY DEF Init, PublishedInv, Calls
<1>2. TypeOK /\ PublishedInv /\ [Next]_vars => PublishedInv'
  BY PublishedStep
<1> QED
  BY <1>1, <1>2, TypeCorrect, PTL DEF Spec

------------------------------------------------------------------------------
(* What a step does to the outcomes.                                       *)

\* A call whose result does not change.
SameOutcome(r) ==
  \/ pc[r] \notin {"done", "failed"} /\ pc'[r] \notin {"done", "failed"}
  \/ /\ pc'[r] = pc[r]
     /\ None \in Range(answers'[r]) <=> None \in Range(answers[r])

\* The outcome of a call that neither ends nor changes its list.
LEMMA OutcomeOf ==
  ASSUME NEW r \in Asks, SameOutcome(r)
  PROVE  outcome'[r] = outcome[r]
<1>1. CASE pc[r] \notin {"done", "failed"} /\ pc'[r] \notin {"done", "failed"}
  BY <1>1 DEF outcome
<1>2. CASE pc'[r] = pc[r] /\ (None \in Range(answers'[r]) <=> None \in Range(answers[r]))
  BY <1>2 DEF outcome, TimedOut
<1> QED
  BY <1>1, <1>2 DEF SameOutcome

\* No call ends: no outcome changes.
LEMMA OutcomesKept ==
  ASSUME \A r \in Asks : SameOutcome(r)
  PROVE  UNCHANGED outcome
<1>1. \A r \in Asks : outcome'[r] = outcome[r]
  BY OutcomeOf
<1>2. outcome = [r \in Asks |-> outcome[r]] /\ outcome' = [r \in Asks |-> outcome'[r]]
  BY DEF outcome
<1> QED
  BY <1>1, <1>2

\* One call ends: only its outcome changes.
LEMMA OutcomeSet ==
  ASSUME NEW a \in Asks, NEW result, outcome'[a] = result,
         \A r \in Asks \ {a} : SameOutcome(r)
  PROVE  outcome' = [outcome EXCEPT ![a] = result]
<1>1. \A r \in Asks \ {a} : outcome'[r] = outcome[r]
  BY OutcomeOf
<1>2. outcome = [r \in Asks |-> outcome[r]] /\ outcome' = [r \in Asks |-> outcome'[r]]
  BY DEF outcome
<1> QED
  BY <1>1, <1>2

------------------------------------------------------------------------------
(* The simulation: each step is a step of ScatterGather or a stutter.      *)

\* The messages of ScatterGather are the calls.
LEMMA AskIsMessage == Calls = SG!Messages
BY DEF Calls, SG!Messages

\* PUBLISH is SG!Publish.
LEMMA PublishSimulated ==
  ASSUME TypeOK, OrderInv, NEW r \in Calls, Publish(r), pc[r] = "publishing",
         UNCHANGED <<answers, applied>>,
         \A c \in Calls \ {r} : pc'[c] = pc[c],
         r \in Asks => pc'[r] \notin {"done", "failed"}
  PROVE  SG!Publish(r)
<1>1. r \notin Range(log)
  BY DEF OrderInv, LogOnce, Early, Range
<1>2. log' = Append(log, r)
  BY DEF Publish
<1>3. \E S \in SUBSET Procs : receivers' = [receivers EXCEPT ![r] = S]
  <2>1. {p \in Procs : Main \in subscribed[p]} \in SUBSET Procs
    OBVIOUS
  <2> QED
    BY <2>1 DEF Publish
<1>4. UNCHANGED outcome
  <2>1. \A c \in Asks : SameOutcome(c)
    BY DEF SameOutcome, Calls
  <2> QED
    BY <2>1, OutcomesKept
<1> QED
  BY <1>1, <1>2, <1>3, <1>4 DEF SG!Publish, Range, SG!Range

\* The start of a callback is SG!Apply: the order of publication is kept.
LEMMA ApplySimulated ==
  ASSUME TypeOK, OrderInv, AnswerInv, NEW p \in Procs, ReadRequest(p),
         Main \in handlers[p]
  PROVE  SG!Apply(p, Head(inbox[p]).id)
<1> DEFINE r == Head(inbox[p]).id
<1>1. /\ inbox[p] \in Seq(Message) /\ inbox[p] # <<>>
      /\ Head(inbox[p]).kind = "request"
      /\ applied' = [applied EXCEPT ![p] = Append(@, r)]
      /\ UNCHANGED <<pc, answers, receivers, log>>
  BY DEF ReadRequest, Reads, TypeOK, callVars
<1>2. /\ 1 \in DOMAIN inbox[p] /\ IsRequest(inbox[p][1]) /\ inbox[p][1].id = r
  <2>1. inbox[p][1] = Head(inbox[p]) /\ 1 \in DOMAIN inbox[p]
    BY <1>1
  <2> QED
    BY <1>1, <2>1 DEF IsRequest
<1> HIDE DEF r
<1>3. p \in receivers[r]
  BY <1>2 DEF AnswerInv, ReceiversInv
<1>4. /\ r \in Range(log)
      /\ \A j \in DOMAIN applied[p] : Earlier(log, applied[p][j], r)
  BY <1>2 DEF OrderInv, InboxOrder
<1>5. \A n \in Range(applied[p]) : SG!Before(n, r)
  BY <1>4 DEF Earlier, SG!Before, Range, SG!Range
<1>6. UNCHANGED outcome
  <2>1. \A c \in Asks : SameOutcome(c)
    BY <1>1 DEF SameOutcome
  <2> QED
    BY <2>1, OutcomesKept
<1> QED
  BY <1>1, <1>3, <1>4, <1>5, <1>6 DEF SG!Apply, r, Range, SG!Range

\* The end of an ask is SG!Complete, SG!TimeOut or SG!Raise.
LEMMA ReleaseSimulated ==
  ASSUME TypeOK, TypeOK', PublishedInv, CompleteAnswers', NEW r \in Asks, Release(r)
  PROVE  SG!Complete(r) \/ SG!TimeOut(r) \/ SG!Raise(r)
<1>1. /\ pc[r] \in {"returning", "raising"}
      /\ r \in Calls
      /\ \A c \in Calls \ {r} : pc'[c] = pc[c]
      /\ UNCHANGED <<receivers, answers, log, applied>>
      /\ \/ pc[r] = "returning" /\ pc'[r] = "done"
         \/ pc'[r] = "failed"
  BY DEF Release, TypeOK, Calls
<1>2. \A c \in Asks \ {r} : SameOutcome(c)
  BY <1>1 DEF SameOutcome, Calls
<1>3. outcome[r] = "none"
  BY <1>1 DEF outcome
<1>4. CASE pc'[r] = "failed"
  <2>1. outcome'[r] = "raised"
    BY <1>4 DEF outcome
  <2>2. outcome' = [outcome EXCEPT ![r] = "raised"]
    BY <1>2, <2>1, OutcomeSet
  <2> QED
    BY <1>1, <1>3, <2>2 DEF SG!Raise
<1>5. CASE pc[r] = "returning" /\ pc'[r] = "done" /\ None \in Range(answers[r])
  <2>1. outcome'[r] = "partial"
    BY <1>1, <1>5 DEF outcome, TimedOut
  <2>2. outcome' = [outcome EXCEPT ![r] = "partial"]
    BY <1>2, <2>1, OutcomeSet
  <2>3. r \in Range(log)
    BY <1>5 DEF PublishedInv
  <2> QED
    BY <1>1, <1>3, <2>2, <2>3 DEF SG!TimeOut, Range, SG!Range
<1>6. CASE pc[r] = "returning" /\ pc'[r] = "done" /\ None \notin Range(answers[r])
  <2>1. outcome'[r] = "complete"
    BY <1>1, <1>6 DEF outcome, TimedOut
  <2>2. outcome' = [outcome EXCEPT ![r] = "complete"]
    BY <1>2, <2>1, OutcomeSet
  <2>3. r \in Range(log)
    BY <1>6 DEF PublishedInv
  <2>4. \A p \in receivers[r] : r \in Range(applied[p])
    BY <1>1, <1>6 DEF CompleteAnswers, TimedOut
  <2> QED
    BY <1>1, <1>3, <2>2, <2>3, <2>4 DEF SG!Complete, Range, SG!Range
<1> QED
  BY <1>1, <1>4, <1>5, <1>6

\* An answer that comes late changes the list, but not whether it has a None.
LEMMA AnswerKeepsOutcomes ==
  ASSUME TypeOK, NEW p \in Procs, ReadAnswer(p)
  PROVE  UNCHANGED <<log, receivers, applied, outcome>>
<1> DEFINE m == Head(inbox[p])
<1>1. /\ UNCHANGED <<pc, log, receivers, applied>>
      /\ answers' = answers \/ answers' = [answers EXCEPT ![m.id] = Append(@, m.from)]
  BY DEF ReadAnswer
<1>2. m \in Message /\ m.kind = "answer"
  BY ReadMessage DEF ReadAnswer
<1> HIDE DEF m
<1>3. m.id \in Asks /\ m.id \in Calls /\ m.from \in Procs /\ m.from # None
  BY <1>2, MessageKinds, ConstantsDistinct DEF Calls
<1>4. ASSUME NEW c \in Asks PROVE SameOutcome(c)
  <2>1. CASE answers'[c] = answers[c]
    BY <1>1, <2>1 DEF SameOutcome
  <2>2. CASE answers'[c] = Append(answers[c], m.from)
    <3>1. answers[c] \in Seq(Procs \cup {None})
      BY DEF TypeOK, Calls
    <3>2. Range(answers'[c]) = Range(answers[c]) \cup {m.from}
      BY <1>3, <2>2, <3>1, EarlierAppend
    <3> QED
      BY <1>1, <1>3, <3>2 DEF SameOutcome
  <2>3. c \in Calls
    BY DEF Calls
  <2> QED
    BY <1>1, <1>3, <2>1, <2>2, <2>3 DEF TypeOK
<1> QED
  BY <1>1, <1>4, OutcomesKept

\* Every step is a step of ScatterGather or a stutter.
LEMMA StepSimulated ==
  ASSUME TypeOK, TypeOK', OrderInv, AnswerInv, PublishedInv, CompleteAnswers',
         [Next]_vars
  PROVE  [SG!Next]_(SG!vars)
<1> DEFINE Stutter == UNCHANGED <<log, receivers, applied, outcome>>
<1>1. Stutter => [SG!Next]_(SG!vars)
  BY DEF SG!vars
<1>2. ASSUME UNCHANGED <<log, receivers, applied>>, \A c \in Asks : SameOutcome(c)
      PROVE  Stutter
  BY <1>2, OutcomesKept
<1> HIDE DEF Stutter
<1>3. \A c \in Asks : c \in Calls
  BY DEF Calls
<1>4. UNCHANGED <<pc, answers>> => \A c \in Asks : SameOutcome(c)
  BY DEF SameOutcome
<1>5. ASSUME NEW p \in Procs,
             \/ SubscribeMain(p) \/ RegisterMain(p) \/ UnsubscribeMain(p)
             \/ ReadUnsubscribed(p) \/ FinishCallback(p) \/ AnswerFails(p)
             \/ ServerStep(p) \/ Disconnect(p) \/ Reconnect(p)
      PROVE  Stutter
  <2>1. UNCHANGED <<log, receivers, applied, pc, answers>>
    BY <1>5 DEF SubscribeMain, RegisterMain, UnsubscribeMain, ReadUnsubscribed,
                FinishCallback, AnswerFails, ServerStep, ServerSubscribe,
                ServerUnsubscribe, Disconnect, Reconnect, callVars
  <2> QED
    BY <1>2, <1>4, <2>1
<1>6. ASSUME NEW r \in Calls, NEW p \in Procs, StartTell(r, p) PROVE Stutter
  <2>1. r \notin Asks
    BY <1>6, ConstantsDistinct DEF StartTell
  <2>2. \A c \in Asks : SameOutcome(c)
    BY <1>3, <1>6, <2>1 DEF StartTell, SameOutcome, TypeOK
  <2> QED
    BY <1>2, <1>6, <2>2 DEF StartTell
<1>7. ASSUME NEW r \in Calls, NEW p \in Procs, StartAsk(r, p)
      PROVE  Stutter \/ SG!Raise(r)
  <2>1. /\ r \in Asks /\ pc[r] = "new"
        /\ UNCHANGED <<log, receivers, applied, answers>>
        /\ \A c \in Calls \ {r} : pc'[c] = pc[c]
        /\ pc'[r] \in {"subscribing", "failed"}
    BY <1>7 DEF StartAsk, TypeOK
  <2>2. \A c \in Asks \ {r} : SameOutcome(c)
    BY <1>3, <2>1 DEF SameOutcome
  <2>3. CASE pc'[r] = "subscribing"
    BY <1>2, <2>1, <2>2, <2>3 DEF SameOutcome
  <2>4. CASE pc'[r] = "failed"
    <3>1. outcome[r] = "none" /\ outcome'[r] = "raised"
      BY <2>1, <2>4 DEF outcome
    <3>2. outcome' = [outcome EXCEPT ![r] = "raised"]
      BY <2>1, <2>2, <3>1, OutcomeSet
    <3> QED
      BY <2>1, <3>1, <3>2 DEF SG!Raise
  <2> QED
    BY <2>1, <2>3, <2>4
<1>8. ASSUME NEW r \in Calls, RegisterAnswers(r) \/ GetAnswers(r) PROVE Stutter
  <2>1. \A c \in Asks : SameOutcome(c)
    BY <1>3, <1>8 DEF RegisterAnswers, GetAnswers, SameOutcome, TypeOK
  <2> QED
    BY <1>2, <1>8, <2>1 DEF RegisterAnswers, GetAnswers
<1>9. ASSUME NEW r \in Calls, Timeout(r) PROVE Stutter
  <2>1. \A c \in Asks : SameOutcome(c)
    BY <1>3, <1>9 DEF Timeout, SameOutcome, TypeOK
  <2> QED
    BY <1>2, <1>9, <2>1 DEF Timeout
<1>10. ASSUME NEW r \in Calls, PublishCall(r) PROVE SG!Publish(r)
  <2>1. /\ \A c \in Calls \ {r} : pc'[c] = pc[c]
        /\ r \in Asks => pc'[r] \notin {"done", "failed"}
    BY <1>10 DEF PublishCall, TypeOK
  <2> QED
    BY <1>10, <2>1, PublishSimulated DEF PublishCall
<1>11. ASSUME NEW r \in Calls, PublishFails(r) PROVE Stutter \/ SG!Publish(r)
  <2>1. /\ \A c \in Calls \ {r} : pc'[c] = pc[c]
        /\ r \in Asks => pc'[r] \notin {"done", "failed"}
        /\ pc[r] = "publishing"
        /\ UNCHANGED <<answers, applied>>
    BY <1>11 DEF PublishFails, TypeOK
  <2>2. CASE Publish(r)
    BY <2>1, <2>2, PublishSimulated
  <2>3. CASE UNCHANGED <<log, receivers, inbox>>
    <3>1. \A c \in Asks : SameOutcome(c)
      BY <1>3, <2>1 DEF SameOutcome
    <3> QED
      BY <1>2, <2>1, <2>3, <3>1
  <2> QED
    BY <1>11, <2>2, <2>3 DEF PublishFails
<1>12. ASSUME NEW r \in Calls, Release(r)
       PROVE  Stutter \/ (r \in Asks /\ (SG!Complete(r) \/ SG!TimeOut(r) \/ SG!Raise(r)))
  <2>1. CASE r \in Asks
    BY <1>12, <2>1, ReleaseSimulated
  <2>2. CASE r \notin Asks
    <3>1. \A c \in Asks : SameOutcome(c)
      BY <1>3, <1>12, <2>2 DEF Release, SameOutcome, TypeOK
    <3> QED
      BY <1>2, <1>12, <3>1 DEF Release
  <2> QED
    BY <2>1, <2>2
<1>13. ASSUME NEW p \in Procs, ReadAnswer(p) PROVE Stutter
  BY <1>13, AnswerKeepsOutcomes DEF Stutter
<1>14. ASSUME NEW p \in Procs, ReadRequest(p)
       PROVE  Stutter \/ \E r \in Calls : SG!Apply(p, r)
  <2>1. CASE Main \in handlers[p]
    <3>1. Head(inbox[p]) \in Message /\ Head(inbox[p]).kind = "request"
      BY <1>14, ReadMessage DEF ReadRequest
    <3>2. Head(inbox[p]).id \in Calls
      BY <3>1, MessageKinds
    <3> QED
      BY <1>14, <2>1, <3>2, ApplySimulated
  <2>2. CASE Main \notin handlers[p]
    BY <1>2, <1>4, <1>14, <2>2 DEF ReadRequest, callVars
  <2> QED
    BY <2>1, <2>2
<1>15. UNCHANGED vars => Stutter
  BY <1>2, <1>4 DEF vars, callVars
<1>16. ASSUME \/ \E m \in Calls : SG!Publish(m)
              \/ \E p \in Procs, m \in Calls : SG!Apply(p, m)
              \/ \E a \in Asks : SG!Complete(a) \/ SG!TimeOut(a) \/ SG!Raise(a)
       PROVE  SG!Next
  BY <1>16, AskIsMessage DEF SG!Next
<1>17. ASSUME NEW r \in Calls, NEW p \in Procs, StartAsk(r, p) PROVE r \in Asks
  BY <1>17 DEF StartAsk
<1> QED
  BY <1>1, <1>5, <1>6, <1>7, <1>8, <1>9, <1>10, <1>11, <1>12, <1>13, <1>14,
     <1>15, <1>16, <1>17 DEF Next, CallerStep, ListenerStep

\* The broadcaster, with its answer channels, timeouts, subscriptions and lost
\* connections, keeps the promise of ScatterGather.
THEOREM Implementation == Spec => ImplementsScatterGather
<1>1. Init => SG!Init
  <2> SUFFICES ASSUME Init PROVE SG!Init
    OBVIOUS
  <2>1. outcome = [a \in Asks |-> "none"]
    <3>1. \A a \in Asks : pc[a] = "new"
      BY DEF Init, Calls
    <3> QED
      BY <3>1 DEF outcome
  <2> QED
    BY <2>1, AskIsMessage DEF Init, SG!Init
<1>2. TypeOK /\ TypeOK' /\ OrderInv /\ AnswerInv /\ PublishedInv /\ CompleteAnswers'
      /\ [Next]_vars => [SG!Next]_(SG!vars)
  BY StepSimulated
<1> QED
  BY <1>1, <1>2, TypeCorrect, OrderCorrect, AnswersCorrect, PublishedCorrect,
     CompleteAnswersAreComplete, PTL DEF Spec, ImplementsScatterGather, SG!Spec
=============================================================================
