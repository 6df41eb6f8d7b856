--------------------------- MODULE ReadonlyProofs ---------------------------
(***************************************************************************)
(* Theorems about ReadonlySwitch, for any processes, requests and number   *)
(* of failures.                                                            *)
(***************************************************************************)
EXTENDS ReadonlySwitch, SequenceTheorems, TLAPS

Final(q) == q[Len(q)]

\* The last element of a sequence that got one more.
LEMMA FinalAppend ==
  ASSUME NEW S, NEW q \in Seq(S), NEW e \in S
  PROVE  /\ Append(q, e) \in Seq(S) /\ Append(q, e) # <<>>
         /\ Final(Append(q, e)) = e
         /\ Len(Append(q, e)) = Len(q) + 1
         /\ Range(Append(q, e)) = Range(q) \cup {e}
<1>1. /\ Append(q, e) \in Seq(S) /\ Len(Append(q, e)) = Len(q) + 1
      /\ \A i \in 1 .. Len(q) : Append(q, e)[i] = q[i]
      /\ Append(q, e)[Len(q) + 1] = e
  BY AppendProperties
<1>2. DOMAIN q = 1 .. Len(q) /\ DOMAIN Append(q, e) = 1 .. Len(q) + 1
      /\ Len(q) \in Nat
  BY <1>1
<1>3. Range(Append(q, e)) = Range(q) \cup {e}
  BY <1>1, <1>2 DEF Range
<1>4. Append(q, e) # <<>>
  BY AppendProperties
<1>5. Final(Append(q, e)) = e
  BY <1>1 DEF Final
<1> QED
  BY <1>1, <1>3, <1>4, <1>5

\* What is left when the head is taken: the last element stays, if any is left.
LEMMA HeadTail ==
  ASSUME NEW S, NEW q \in Seq(S), q # <<>>
  PROVE  /\ Head(q) \in S /\ Head(q) \in Range(q) /\ Tail(q) \in Seq(S)
         /\ Range(Tail(q)) \subseteq Range(q)
         /\ IF Tail(q) = <<>> THEN Final(q) = Head(q) ELSE Final(Tail(q)) = Final(q)
<1>1. /\ Head(q) = q[1] /\ Len(q) \in Nat \ {0} /\ DOMAIN q = 1 .. Len(q)
      /\ Tail(q) \in Seq(S) /\ Len(Tail(q)) = Len(q) - 1
      /\ \A i \in 1 .. Len(q) - 1 : Tail(q)[i] = q[i + 1]
  BY HeadTailProperties
<1>2. Head(q) \in S /\ Head(q) \in Range(q)
  BY <1>1 DEF Range
<1>3. Range(Tail(q)) \subseteq Range(q)
  BY <1>1 DEF Range
<1>4. CASE Tail(q) = <<>>
  <2>1. Len(q) = 1
    <3>1. Len(Tail(q)) = 0
      BY <1>4, EmptySeq
    <3>2. Len(q) \in Int /\ Len(Tail(q)) = Len(q) - 1
      BY <1>1
    <3> QED
      BY <3>1, <3>2
  <2> QED
    BY <1>1, <1>2, <1>3, <1>4, <2>1 DEF Final
<1>5. CASE Tail(q) # <<>>
  <2>1. Len(q) - 1 \in 1 .. Len(q) - 1
    <3>1. Len(Tail(q)) # 0
      BY <1>1, <1>5, EmptySeq
    <3> QED
      BY <1>1, <3>1
  <2>2. Tail(q)[Len(q) - 1] = q[Len(q)]
    BY <1>1, <2>1
  <2> QED
    BY <1>1, <1>2, <1>3, <1>5, <2>2 DEF Final
<1> QED
  BY <1>4, <1>5

------------------------------------------------------------------------------
(* Type correctness.                                                       *)

\* What Redis holds is a Boolean, also when the key is missing.
LEMMA StoredValueType == \A n : StoredValue(n) \in BOOLEAN
BY DEF StoredValue, Wanted

\* The messages of ScatterGather are the switches.
LEMMA SwitchMessages == SG!Messages = Switches
BY DEF SG!Messages

\* Every step keeps the types.
LEMMA TypeStep ==
  ASSUME TypeOK, [Next]_vars
  PROVE  TypeOK'
<1>1. CASE UNCHANGED vars
  BY <1>1 DEF TypeOK, vars, broadcastVars, processVars, redisVars, history
<1>2. ASSUME NEW p \in Procs,
             Start(p) \/ Listen(p) \/ Restore(p) \/ RestoreFails(p)
      PROVE  TypeOK'
  <2>1. readonly' \in [Procs -> BOOLEAN]
    <3>1. CASE Restore(p)
      <4>1. StoredValue(replicated) \in BOOLEAN
        BY StoredValueType
      <4> QED
        BY <3>1, <4>1 DEF TypeOK, Restore
    <3>2. CASE ~Restore(p)
      BY <1>2, <3>2 DEF TypeOK, Start, Listen, RestoreFails, processVars
    <3> QED
      BY <3>1, <3>2
  <2>2. /\ disturbed' \in [Procs -> BOOLEAN]
        /\ outdated' \in [Procs -> BOOLEAN]
    <3>1. (~Quiet) \in BOOLEAN /\ TooEarly(p) \in BOOLEAN
      BY Zenon DEF TooEarly
    <3> HIDE DEF Quiet, TooEarly
    <3>2. CASE Start(p) \/ Listen(p)
      BY <3>1, <3>2 DEF TypeOK, Start, Listen, history
    <3>3. CASE Restore(p)
      BY <3>1, <3>3 DEF TypeOK, Restore
    <3>4. CASE RestoreFails(p)
      BY <3>4 DEF TypeOK, RestoreFails
    <3> QED
      BY <1>2, <3>2, <3>3, <3>4
  <2>3. listening' \in [Procs -> BOOLEAN]
    BY <1>2 DEF TypeOK, Start, Listen, Restore, RestoreFails, broadcastVars
  <2>4. life' \in [Procs -> Lives]
    BY <1>2 DEF TypeOK, Start, Listen, Restore, RestoreFails, Lives, processVars
  <2>5. faults' \in 0 .. MaxFaults
    BY <1>2, FaultBound DEF TypeOK, Start, Listen, Restore, RestoreFails, Fail
  <2> QED
    BY <1>2, <2>1, <2>2, <2>3, <2>4, <2>5
    DEF TypeOK, Start, Listen, Restore, RestoreFails, broadcastVars, redisVars, history
<1>3. ASSUME NEW p \in Procs, Lose(p) PROVE TypeOK'
  BY <1>3, FaultBound DEF TypeOK, Lose, Fail, processVars, redisVars, history
<1>4. ASSUME NEW p \in Procs, Stop(p) PROVE TypeOK'
  BY <1>4 DEF TypeOK, Stop, Lives, Views, redisVars
<1>5. ASSUME NEW p \in Procs, Apply(p) PROVE TypeOK'
  <2>1. /\ inbox[p] \in Seq(Switches) /\ inbox[p] # <<>>
        /\ applied[p] \in Seq(Switches)
    BY <1>5 DEF TypeOK, Apply
  <2>2. Head(inbox[p]) \in Switches /\ Tail(inbox[p]) \in Seq(Switches)
    BY <2>1, HeadTail
  <2>3. Wanted(Head(inbox[p])) \in BOOLEAN
    BY DEF Wanted
  <2>4. Append(applied[p], Head(inbox[p])) \in Seq(Switches)
    BY <2>1, <2>2
  <2>5. /\ inbox' = [inbox EXCEPT ![p] = Tail(inbox[p])]
        /\ readonly' = [readonly EXCEPT ![p] = Wanted(Head(inbox[p]))]
        /\ applied' = [applied EXCEPT ![p] = Append(applied[p], Head(inbox[p]))]
        /\ disturbed' = [disturbed EXCEPT ![p] = disturbed[p] /\ life[p] = "starting"]
        /\ UNCHANGED <<log, receivers, outcome, listening, life, view, at,
                       stored, replicated, faults, overlapped, outdated>>
    BY <1>5 DEF Apply, SG!Apply, redisVars
  <2>6. (disturbed[p] /\ life[p] = "starting") \in BOOLEAN
    BY Zenon
  <2>7. disturbed' \in [Procs -> BOOLEAN]
    BY <2>5, <2>6 DEF TypeOK
  <2> HIDE DEF Wanted
  <2> QED
    BY <2>2, <2>3, <2>4, <2>5, <2>7 DEF TypeOK
<1>6. ASSUME NEW s \in Switches, NEW p \in Procs, Request(s, p) PROVE TypeOK'
  <2>1. overlapped' \in BOOLEAN
    BY <1>6, Zenon DEF Request, TypeOK
  <2>2. disturbed' \in [Procs -> BOOLEAN] /\ outdated' \in [Procs -> BOOLEAN]
    <3>1. \A q \in Procs : /\ (disturbed[q] \/ life[q] = "starting") \in BOOLEAN
                           /\ (life[q] = "serving" /\ ~listening[q]) \in BOOLEAN
      BY Zenon
    <3> QED
      BY <1>6, <3>1, Zenon DEF Request
  <2> QED
    BY <1>6, <2>1, <2>2
    DEF TypeOK, Request, Views, broadcastVars, processVars, redisVars
<1>7. ASSUME NEW s \in Switches, Broadcast(s) PROVE TypeOK'
  <2>1. log' \in Seq(Switches)
    BY <1>7 DEF TypeOK, Broadcast, SG!Publish
  <2>2. receivers' \in [Switches -> SUBSET Procs]
    BY <1>7 DEF TypeOK, Broadcast, SG!Publish
  <2>3. inbox' \in [Procs -> Seq(Switches)]
    BY <1>7 DEF TypeOK, Broadcast
  <2> QED
    BY <1>7, <2>1, <2>2, <2>3
    DEF TypeOK, Broadcast, SG!Publish, processVars, redisVars, history
<1>8. ASSUME NEW s \in Switches, Answered(s) PROVE TypeOK'
  BY <1>8 DEF TypeOK, Answered, SG!Complete, SG!TimeOut, SG!Outcomes, Views,
              processVars, redisVars, history
<1>9. ASSUME NEW s \in Switches, BroadcastFails(s) PROVE TypeOK'
  BY <1>9, FaultBound DEF TypeOK, BroadcastFails, Fail, SG!Raise, SG!Outcomes, Views,
              processVars, redisVars, history
<1>10. ASSUME NEW s \in Switches, Store(s) \/ StoreFails(s) PROVE TypeOK'
  <2>1. stored' \in {stored, Append(stored, s)}
    BY <1>10 DEF Store, StoreFails
  <2>2. stored' \in Seq(Switches) /\ replicated' \in 0 .. Len(stored')
    <3>1. stored \in Seq(Switches) /\ replicated \in 0 .. Len(stored)
      BY DEF TypeOK
    <3>2. Append(stored, s) \in Seq(Switches)
          /\ Len(Append(stored, s)) = Len(stored) + 1
      BY <3>1, FinalAppend
    <3>3. replicated' = replicated /\ Len(stored) \in Nat
      BY <1>10, <3>1 DEF Store, StoreFails
    <3> QED
      BY <2>1, <3>1, <3>2, <3>3
  <2>3. faults' \in 0 .. MaxFaults
    BY <1>10, FaultBound DEF TypeOK, Store, StoreFails, Fail
  <2>4. view' \in [Switches -> Views]
    BY <1>10 DEF TypeOK, Store, StoreFails, Views
  <2> QED
    BY <1>10, <2>2, <2>3, <2>4
    DEF TypeOK, Store, StoreFails, broadcastVars, processVars, history
<1>11. CASE Replicate
  BY <1>11 DEF TypeOK, Replicate, broadcastVars, processVars, history
<1> QED
  BY <1>1, <1>2, <1>3, <1>4, <1>5, <1>6, <1>7, <1>8, <1>9, <1>10, <1>11
  DEF Next, ViewStep

\* Every reachable state is well typed: in particular FORCE_READONLY stays a
\* Boolean, and the slave is never ahead of the master.
THEOREM TypeCorrect == Spec => []TypeOK
<1>1. ASSUME Init PROVE TypeOK
  <2>1. /\ log = <<>> /\ log \in Seq(Switches)
        /\ receivers \in [Switches -> SUBSET Procs]
        /\ applied \in [Procs -> Seq(Switches)]
        /\ outcome \in [Switches -> SG!Outcomes]
    BY <1>1, SwitchMessages DEF Init, SG!Init, SG!Outcomes
  <2>2. stored \in Seq(Switches) /\ replicated \in 0 .. Len(stored)
    <3>1. stored = <<>> /\ Len(stored) = 0 /\ replicated = 0
      BY <1>1, EmptySeq DEF Init
    <3> QED
      BY <3>1
  <2>3. faults \in 0 .. MaxFaults
    BY <1>1, FaultBound DEF Init
  <2> QED
    BY <1>1, <2>1, <2>2, <2>3 DEF Init, TypeOK, Lives, Views
<1> QED
  BY <1>1, TypeStep, PTL DEF Spec

------------------------------------------------------------------------------
(* The last published switch.                                              *)

\* Messages are published switches, and requests come before them.
LogInv ==
  /\ \A s \in Switches : view[s] = "new" => s \notin Range(log)
  /\ \A p \in Procs : Range(inbox[p]) \cup Range(applied[p]) \subseteq Range(log)

\* A process that is not up receives nothing, and it is blank until it runs a switch or restores.
DownInv ==
  \A p \in Procs :
    /\ ~Up(p) => inbox[p] = <<>> /\ ~listening[p]
    /\ life[p] = "off" => applied[p] = <<>> /\ ~readonly[p]
    /\ life[p] = "starting" /\ applied[p] = <<>> => ~readonly[p]

\* A process that starts undisturbed starts while no request is under way.
StartInv ==
  \A p \in Procs :
    life[p] = "starting" /\ ~disturbed[p]
      => Quiet /\ applied[p] = <<>> /\ inbox[p] = <<>> /\ ~readonly[p]

\* What the callback does: it takes the oldest switch and runs it.
LEMMA ApplyFacts ==
  ASSUME TypeOK, NEW p \in Procs, Apply(p)
  PROVE  LET s == Head(inbox[p])
         IN /\ s \in Switches /\ s \in Range(inbox[p]) /\ inbox[p] # <<>>
            /\ inbox' = [inbox EXCEPT ![p] = Tail(inbox[p])]
            /\ applied' = [applied EXCEPT ![p] = Append(applied[p], s)]
            /\ readonly' = [readonly EXCEPT ![p] = Wanted(s)]
            /\ disturbed' = [disturbed EXCEPT ![p] = disturbed[p] /\ life[p] = "starting"]
            /\ Range(Append(applied[p], s)) = Range(applied[p]) \cup {s}
            /\ Append(applied[p], s) # <<>> /\ Final(Append(applied[p], s)) = s
            /\ Range(Tail(inbox[p])) \subseteq Range(inbox[p])
            /\ IF Tail(inbox[p]) = <<>> THEN Final(inbox[p]) = s
                                        ELSE Final(Tail(inbox[p])) = Final(inbox[p])
            /\ UNCHANGED <<log, listening, life, view, stored, replicated, faults,
                           overlapped, outdated>>
<1>1. inbox[p] \in Seq(Switches) /\ applied[p] \in Seq(Switches) /\ inbox[p] # <<>>
  BY DEF TypeOK, Apply
<1>2. /\ inbox' = [inbox EXCEPT ![p] = Tail(inbox[p])]
      /\ applied' = [applied EXCEPT ![p] = Append(applied[p], Head(inbox[p]))]
      /\ readonly' = [readonly EXCEPT ![p] = Wanted(Head(inbox[p]))]
      /\ disturbed' = [disturbed EXCEPT ![p] = disturbed[p] /\ life[p] = "starting"]
      /\ UNCHANGED <<log, listening, life, view, stored, replicated, faults,
                     overlapped, outdated>>
  BY DEF Apply, SG!Apply, redisVars
<1>3. /\ Head(inbox[p]) \in Switches /\ Head(inbox[p]) \in Range(inbox[p])
      /\ Range(Tail(inbox[p])) \subseteq Range(inbox[p])
      /\ IF Tail(inbox[p]) = <<>> THEN Final(inbox[p]) = Head(inbox[p])
                                  ELSE Final(Tail(inbox[p])) = Final(inbox[p])
  BY <1>1, HeadTail
<1>4. /\ Range(Append(applied[p], Head(inbox[p]))) = Range(applied[p]) \cup {Head(inbox[p])}
      /\ Append(applied[p], Head(inbox[p])) # <<>>
      /\ Final(Append(applied[p], Head(inbox[p]))) = Head(inbox[p])
  BY <1>1, <1>3, FinalAppend
<1> QED
  BY <1>1, <1>2, <1>3, <1>4

\* What PUBLISH does: the new switch is the last one, for every listening process.
LEMMA BroadcastFacts ==
  ASSUME TypeOK, NEW s \in Switches, Broadcast(s)
  PROVE  /\ view[s] = "asking" /\ s \notin Range(log)
         /\ log' # <<>> /\ Final(log') = s /\ Range(log') = Range(log) \cup {s}
         /\ \A p \in Procs :
              IF listening[p]
              THEN /\ inbox'[p] # <<>> /\ Final(inbox'[p]) = s
                   /\ Range(inbox'[p]) = Range(inbox[p]) \cup {s}
              ELSE inbox'[p] = inbox[p]
         /\ UNCHANGED <<applied, listening, life, readonly, view, stored, replicated,
                        faults, overlapped, disturbed, outdated>>
<1>1. /\ log \in Seq(Switches) /\ log' = Append(log, s)
      /\ view[s] = "asking" /\ s \notin Range(log)
      /\ inbox' = [p \in Procs |-> IF listening[p] THEN Append(inbox[p], s) ELSE inbox[p]]
      /\ UNCHANGED <<applied, listening, life, readonly, view, stored, replicated,
                     faults, overlapped, disturbed, outdated>>
  BY DEF TypeOK, Broadcast, SG!Publish, SG!Range, Range, processVars, redisVars, history
<1>2. log' # <<>> /\ Final(log') = s /\ Range(log') = Range(log) \cup {s}
  BY <1>1, FinalAppend
<1>3. ASSUME NEW p \in Procs, listening[p]
      PROVE  /\ inbox'[p] # <<>> /\ Final(inbox'[p]) = s
             /\ Range(inbox'[p]) = Range(inbox[p]) \cup {s}
  <2>1. inbox[p] \in Seq(Switches) /\ inbox'[p] = Append(inbox[p], s)
    BY <1>1, <1>3 DEF TypeOK
  <2> QED
    BY <2>1, FinalAppend
<1>4. ASSUME NEW p \in Procs, ~listening[p] PROVE inbox'[p] = inbox[p]
  BY <1>1, <1>4
<1> QED
  BY <1>1, <1>2, <1>3, <1>4

\* Every step keeps LogInv: only published switches are received and run.
LEMMA LogStep ==
  ASSUME TypeOK, LogInv, [Next]_vars
  PROVE  LogInv'
<1>1. ASSUME UNCHANGED log,
             \A s \in Switches : view'[s] = "new" => view[s] = "new",
             \A p \in Procs : /\ Range(inbox'[p]) \subseteq Range(inbox[p])
                              /\ Range(applied'[p]) \subseteq Range(applied[p]) \cup Range(inbox[p])
      PROVE  LogInv'
  BY <1>1 DEF LogInv
<1> DEFINE Calm == /\ UNCHANGED <<log, inbox, applied>>
                   /\ \A s \in Switches : view'[s] = "new" => view[s] = "new"
<1>2. Calm => LogInv'
  BY <1>1
<1>3. UNCHANGED vars => Calm
  BY DEF vars, broadcastVars
<1>4. ASSUME NEW p \in Procs, Start(p) \/ Listen(p) \/ Restore(p) \/ RestoreFails(p)
      PROVE  Calm
  BY <1>4 DEF Start, Listen, Restore, RestoreFails, broadcastVars
<1>5. ASSUME NEW p \in Procs, Lose(p) \/ Stop(p) PROVE LogInv'
  <2>1. Range(<<>>) = {}
    BY DEF Range
  <2>2. \A q \in Procs : Range(inbox'[q]) \subseteq Range(inbox[q])
    BY <1>5, <2>1 DEF Lose, Stop, TypeOK
  <2>3. \A s \in Switches : view'[s] = "new" => view[s] = "new"
    BY <1>5 DEF Lose, Stop
  <2> QED
    BY <1>1, <1>5, <2>2, <2>3 DEF Lose, Stop
<1>6. ASSUME NEW p \in Procs, Apply(p) PROVE LogInv'
  <2>1. \A q \in Procs :
          /\ Range(inbox'[q]) \subseteq Range(inbox[q])
          /\ Range(applied'[q]) \subseteq Range(applied[q]) \cup Range(inbox[q])
    <3>1. \A q \in Procs \ {p} : inbox'[q] = inbox[q] /\ applied'[q] = applied[q]
      BY <1>6, ApplyFacts DEF TypeOK
    <3>2. inbox'[p] = Tail(inbox[p]) /\ applied'[p] = Append(applied[p], Head(inbox[p]))
      BY <1>6, ApplyFacts DEF TypeOK
    <3>3. /\ Range(Tail(inbox[p])) \subseteq Range(inbox[p])
          /\ Head(inbox[p]) \in Range(inbox[p])
          /\ Range(Append(applied[p], Head(inbox[p]))) = Range(applied[p]) \cup {Head(inbox[p])}
      BY <1>6, ApplyFacts
    <3> QED
      BY <3>1, <3>2, <3>3
  <2>2. UNCHANGED <<log, view>>
    BY <1>6, ApplyFacts
  <2> QED
    BY <1>1, <2>1, <2>2
<1>7. ASSUME NEW s \in Switches, NEW p \in Procs, Request(s, p) PROVE Calm
  BY <1>7 DEF Request, broadcastVars, TypeOK
<1>8. ASSUME NEW s \in Switches, Broadcast(s) PROVE LogInv'
  BY <1>8, BroadcastFacts DEF LogInv
<1>9. ASSUME NEW s \in Switches,
             Answered(s) \/ BroadcastFails(s) \/ Store(s) \/ StoreFails(s)
      PROVE  Calm
  BY <1>9 DEF Answered, SG!Complete, SG!TimeOut, BroadcastFails, SG!Raise, Store,
              StoreFails, broadcastVars, TypeOK
<1>10. Replicate => Calm
  BY DEF Replicate, broadcastVars
<1> QED
  BY <1>2, <1>3, <1>4, <1>5, <1>6, <1>7, <1>8, <1>9, <1>10 DEF Next, ViewStep

\* Every step keeps DownInv: a process that is not up holds nothing.
LEMMA DownStep ==
  ASSUME TypeOK, DownInv, [Next]_vars
  PROVE  DownInv'
<1>1. ASSUME UNCHANGED <<inbox, listening, applied, life, readonly>> PROVE DownInv'
  BY <1>1 DEF DownInv, Up
<1>2. UNCHANGED vars => UNCHANGED <<inbox, listening, applied, life, readonly>>
  BY DEF vars, broadcastVars, processVars
<1>3. ASSUME NEW p \in Procs,
             Start(p) \/ Listen(p) \/ Lose(p) \/ Restore(p) \/ RestoreFails(p) \/ Stop(p)
      PROVE  DownInv'
  BY <1>3 DEF DownInv, Up, Start, Listen, Lose, Restore, RestoreFails, Stop,
              broadcastVars, processVars, TypeOK
<1>4. ASSUME NEW p \in Procs, Apply(p) PROVE DownInv'
  <2>1. Up(p)
    BY <1>4, ApplyFacts DEF DownInv
  <2> QED
    BY <1>4, <2>1, ApplyFacts DEF DownInv, Up, TypeOK
<1>5. ASSUME NEW s \in Switches, Broadcast(s) PROVE DownInv'
  BY <1>5, BroadcastFacts DEF DownInv, Up
<1>6. ASSUME NEW s \in Switches,
             \/ Answered(s) \/ BroadcastFails(s) \/ Store(s) \/ StoreFails(s)
             \/ \E p \in Procs : Request(s, p)
      PROVE  UNCHANGED <<inbox, listening, applied, life, readonly>>
  BY <1>6 DEF Answered, SG!Complete, SG!TimeOut, BroadcastFails, SG!Raise, Store,
              StoreFails, Request, broadcastVars, processVars
<1>7. Replicate => UNCHANGED <<inbox, listening, applied, life, readonly>>
  BY DEF Replicate, broadcastVars, processVars
<1> QED
  BY <1>1, <1>2, <1>3, <1>4, <1>5, <1>6, <1>7 DEF Next, ViewStep

\* Every step keeps StartInv: an undisturbed start has run no switch.
LEMMA StartStep ==
  ASSUME TypeOK, DownInv, StartInv, [Next]_vars
  PROVE  StartInv'
\* A step that leaves a starting process alone, and Quiet true.
<1> DEFINE Calm(p) == life'[p] = "starting" /\ ~disturbed'[p]
                        => /\ life[p] = "starting" /\ ~disturbed[p] /\ (Quiet => Quiet')
                           /\ UNCHANGED <<applied[p], inbox[p], readonly[p]>>
<1>1. ASSUME \A p \in Procs : Calm(p) PROVE StartInv'
  BY <1>1 DEF StartInv
<1>2. UNCHANGED view => (Quiet' <=> Quiet)
  BY DEF Quiet, UnderWay
<1>3. UNCHANGED vars => \A p \in Procs : Calm(p)
  BY <1>2 DEF vars, broadcastVars, processVars, redisVars, history
<1>4. ASSUME NEW p \in Procs, Start(p) PROVE StartInv'
  <2>1. (Quiet' <=> Quiet) /\ UNCHANGED <<applied, inbox, readonly>>
    BY <1>2, <1>4 DEF Start, redisVars, broadcastVars
  <2>2. CASE ~Quiet
    BY <1>4, <2>1, <2>2 DEF Start, StartInv, TypeOK
  <2>3. CASE Quiet
    <3>1. \A q \in Procs \ {p} : life'[q] = life[q] /\ disturbed'[q] = disturbed[q]
      BY <1>4 DEF Start, TypeOK
    <3>2. inbox[p] = <<>> /\ applied[p] = <<>> /\ ~readonly[p]
      BY <1>4 DEF Start, DownInv, Up
    <3> QED
      BY <2>1, <2>3, <3>1, <3>2 DEF StartInv
  <2> QED
    BY <2>2, <2>3
<1>5. ASSUME NEW p \in Procs,
             Listen(p) \/ Lose(p) \/ Restore(p) \/ RestoreFails(p) \/ Stop(p)
      PROVE  StartInv'
  <2>1. \A q \in Procs \ {p} : /\ UNCHANGED <<applied[q], inbox[q], readonly[q]>>
                               /\ life'[q] = life[q] /\ disturbed'[q] = disturbed[q]
    BY <1>5 DEF Listen, Lose, Restore, RestoreFails, Stop, broadcastVars, processVars,
                history, TypeOK
  <2>2. Quiet => Quiet'
    BY <1>5 DEF Quiet, UnderWay, Listen, Lose, Restore, RestoreFails, Stop, redisVars
  <2>3. life'[p] = "starting" => /\ UNCHANGED <<applied, readonly, life, disturbed>>
                                 /\ inbox'[p] \in {inbox[p], <<>>}
    BY <1>5 DEF Listen, Lose, Restore, RestoreFails, Stop, broadcastVars, processVars,
                history, TypeOK
  <2> QED
    BY <2>1, <2>2, <2>3 DEF StartInv
<1>6. ASSUME NEW p \in Procs, Apply(p) PROVE \A q \in Procs : Calm(q)
  <2>1. inbox[p] # <<>>
    BY <1>6 DEF Apply
  <2>2. life[p] = "starting" => disturbed[p]
    BY <2>1 DEF StartInv
  <2>3. /\ \A q \in Procs \ {p} : UNCHANGED <<applied[q], inbox[q], readonly[q]>>
        /\ \A q \in Procs \ {p} : disturbed'[q] = disturbed[q]
        /\ UNCHANGED <<view, life>>
        /\ life[p] = "starting" => disturbed'[p] = disturbed[p]
    BY <1>6, ApplyFacts DEF TypeOK
  <2>4. Quiet => Quiet'
    BY <1>2, <2>3
  <2> HIDE DEF Quiet
  <2> QED
    BY <2>2, <2>3, <2>4
<1>7. ASSUME NEW s \in Switches, NEW p \in Procs, Request(s, p)
      PROVE  \A q \in Procs : Calm(q)
  <2>1. \A q \in Procs : life'[q] = "starting" => disturbed'[q]
    BY <1>7 DEF Request, processVars
  <2> QED
    BY <2>1
<1>8. ASSUME NEW s \in Switches,
             Broadcast(s) \/ Answered(s) \/ BroadcastFails(s) \/ Store(s) \/ StoreFails(s)
      PROVE  StartInv'
  <2>1. ~Quiet
    BY <1>8 DEF Quiet, UnderWay, Broadcast, Answered, BroadcastFails, Store, StoreFails
  <2>2. UNCHANGED <<life, disturbed>>
    BY <1>8 DEF Broadcast, Answered, BroadcastFails, Store, StoreFails, processVars, history
  <2> QED
    BY <2>1, <2>2 DEF StartInv
<1>9. Replicate => \A p \in Procs : Calm(p)
  BY <1>2 DEF Replicate, broadcastVars, processVars, history
<1> QED
  BY <1>1, <1>3, <1>4, <1>5, <1>6, <1>7, <1>8, <1>9 DEF Next, ViewStep

\* Every step keeps LastSwitchPrevails.
LEMMA LastStep ==
  ASSUME TypeOK, LogInv, StartInv, LastSwitchPrevails, [Next]_vars
  PROVE  LastSwitchPrevails'
<1>1. ASSUME UNCHANGED log,
             \A p \in Procs : life'[p] = "serving" /\ ~disturbed'[p]
                => /\ life[p] = "serving" /\ ~disturbed[p]
                   /\ UNCHANGED <<applied[p], readonly[p]>>
      PROVE  LastSwitchPrevails'
  BY <1>1 DEF LastSwitchPrevails, RanLast
<1>2. CASE UNCHANGED vars
  BY <1>1, <1>2 DEF vars, broadcastVars, processVars, history
<1>3. ASSUME NEW p \in Procs, Start(p) \/ Listen(p) \/ Lose(p) \/ Stop(p)
      PROVE  LastSwitchPrevails'
  <2>1. UNCHANGED <<log, applied>>
    BY <1>3 DEF Start, Listen, Lose, Stop, broadcastVars
  <2>2. ASSUME NEW q \in Procs, life'[q] = "serving", ~disturbed'[q]
        PROVE  life[q] = "serving" /\ ~disturbed[q] /\ readonly'[q] = readonly[q]
    BY <1>3, <2>2 DEF Start, Listen, Lose, Stop, processVars, history, TypeOK
  <2> QED
    BY <1>1, <2>1, <2>2
<1>4. ASSUME NEW p \in Procs, Restore(p) \/ RestoreFails(p) PROVE LastSwitchPrevails'
  <2>1. UNCHANGED <<log, applied, disturbed>> /\ life[p] = "starting"
    BY <1>4 DEF Restore, RestoreFails, broadcastVars, history
  <2>2. \A q \in Procs \ {p} : life'[q] = life[q] /\ readonly'[q] = readonly[q]
    BY <1>4 DEF Restore, RestoreFails, TypeOK
  <2>3. ~disturbed[p] => applied[p] = <<>>
    BY <2>1 DEF StartInv
  <2> QED
    BY <2>1, <2>2, <2>3 DEF LastSwitchPrevails, RanLast
<1>5. ASSUME NEW p \in Procs, Apply(p) PROVE LastSwitchPrevails'
  <2>1. /\ UNCHANGED <<log, life>>
        /\ \A q \in Procs \ {p} : disturbed'[q] = disturbed[q]
        /\ Final(applied'[p]) = Head(inbox[p]) /\ readonly'[p] = Wanted(Head(inbox[p]))
        /\ \A q \in Procs \ {p} : applied'[q] = applied[q] /\ readonly'[q] = readonly[q]
    <3>1. UNCHANGED <<log, life>>
      BY <1>5, ApplyFacts
    <3>2. /\ applied' = [applied EXCEPT ![p] = Append(applied[p], Head(inbox[p]))]
          /\ readonly' = [readonly EXCEPT ![p] = Wanted(Head(inbox[p]))]
          /\ disturbed' = [disturbed EXCEPT ![p] = disturbed[p] /\ life[p] = "starting"]
          /\ Final(Append(applied[p], Head(inbox[p]))) = Head(inbox[p])
      BY <1>5, ApplyFacts, Zenon
    <3>3. applied'[p] = Append(applied[p], Head(inbox[p]))
      BY <3>2 DEF TypeOK
    <3>4. readonly'[p] = Wanted(Head(inbox[p]))
      BY <3>2 DEF TypeOK
    <3>5. \A q \in Procs \ {p} : UNCHANGED <<disturbed[q], applied[q], readonly[q]>>
      BY <3>2 DEF TypeOK
    <3> QED
      BY <3>1, <3>2, <3>3, <3>4, <3>5
  <2>2. RanLast(p)' => readonly'[p] = Wanted(log'[Len(log')])
    BY <2>1 DEF RanLast, Final, Wanted
  <2>3. \A q \in Procs \ {p} : RanLast(q)' = RanLast(q)
    BY <2>1 DEF RanLast
  <2> QED
    BY <2>1, <2>2, <2>3 DEF LastSwitchPrevails, Wanted
<1>6. ASSUME NEW s \in Switches, NEW p \in Procs, Request(s, p)
      PROVE  LastSwitchPrevails'
  <2>1. UNCHANGED <<log, applied, life, readonly>>
    BY <1>6 DEF Request, broadcastVars, processVars
  <2>2. \A q \in Procs : ~disturbed'[q] => ~disturbed[q]
    BY <1>6 DEF Request
  <2> QED
    BY <1>1, <2>1, <2>2
<1>7. ASSUME NEW s \in Switches, Broadcast(s) PROVE LastSwitchPrevails'
  <2>1. /\ s \notin Range(log) /\ Final(log') = s
        /\ UNCHANGED applied
    BY <1>7, BroadcastFacts
  <2>2. ASSUME NEW p \in Procs, applied[p] # <<>> PROVE Final(applied[p]) # s
    <3>1. applied[p] \in Seq(Switches)
      BY DEF TypeOK
    <3>2. Len(applied[p]) \in DOMAIN applied[p]
      BY <2>2, <3>1, EmptySeq
    <3> QED
      BY <2>1, <3>2 DEF Final, LogInv, Range
  <2> QED
    BY <2>1, <2>2 DEF LastSwitchPrevails, RanLast, Final
<1>8. ASSUME NEW s \in Switches,
             Answered(s) \/ BroadcastFails(s) \/ Store(s) \/ StoreFails(s)
      PROVE  LastSwitchPrevails'
  BY <1>1, <1>8 DEF Answered, SG!Complete, SG!TimeOut, BroadcastFails, SG!Raise, Store,
                    StoreFails, broadcastVars, processVars, history
<1>9. CASE Replicate
  BY <1>1, <1>9 DEF Replicate, broadcastVars, processVars, history
<1> QED
  BY <1>2, <1>3, <1>4, <1>5, <1>6, <1>7, <1>8, <1>9 DEF Next, ViewStep

LastInv == LogInv /\ DownInv /\ StartInv /\ LastSwitchPrevails

\* The inductive invariant of LastSwitchPrevails: what is in the inboxes and was
\* run has been published, and a process starts blank.
THEOREM LastCorrect == Spec => []LastInv
<1>1. ASSUME Init PROVE LastInv
  <2>1. Range(<<>>) = {}
    BY DEF Range
  <2> QED
    BY <1>1, <2>1 DEF Init, SG!Init, LastInv, LogInv, DownInv, StartInv, Up,
                      LastSwitchPrevails
<1>2. TypeOK /\ LastInv /\ [Next]_vars => LastInv'
  BY LogStep, DownStep, StartStep, LastStep DEF LastInv
<1> QED
  BY <1>1, <1>2, TypeCorrect, PTL DEF Spec

\* An undisturbed process that ran the last published switch uses its value.
THEOREM LastSwitchCorrect == Spec => []LastSwitchPrevails
<1>1. LastInv => LastSwitchPrevails
  BY DEF LastInv
<1> QED
  BY <1>1, LastCorrect, PTL

------------------------------------------------------------------------------
(* The stored switch.                                                      *)

\* The value that the published switches leave in the end.
Published == log # <<>> /\ Wanted(Final(log))

\* The value of p once it has run the callbacks in its inbox.
Eventual(p) == IF inbox[p] = <<>> THEN readonly[p] ELSE Wanted(Final(inbox[p]))

\* Nothing failed and no two requests overlapped so far.
Orderly ==
  faults = 0 /\ ~overlapped /\ \A s \in Switches : view[s] # "failed"

\* A switch is requested and still to be published.
ToBePublished == \E s \in Switches : UnderWay(s) /\ s \notin Range(log)

\* One request at a time, and the last one published is the one under way.
OneAtATime ==
  /\ \A s, t \in Switches : UnderWay(s) /\ UnderWay(t) => s = t
  /\ \A s \in Switches : view[s] = "storing" => s \in Range(log)
  /\ \A s \in Switches :
       UnderWay(s) /\ s \in Range(log) => log # <<>> /\ Final(log) = s

\* Between two requests Redis holds what was published last.
StoreFollows ==
  (\A s \in Switches : UnderWay(s) => s \notin Range(log))
    => Published = StoredValue(Len(stored)) /\ (stored = <<>> => log = <<>>)

\* What a process receives ends with what was published last.
InboxFollows(p) ==
  inbox[p] # <<>> => listening[p] /\ log # <<>> /\ Final(inbox[p]) = Final(log)

\* A process that is not outdated will have what was published last, or will receive
\* what is published next.
ProcessFollows(p) ==
  life[p] = "serving" /\ ~outdated[p]
    => IF ToBePublished THEN listening[p] ELSE Eventual(p) = Published

Follows == \A p \in Procs : InboxFollows(p) /\ ProcessFollows(p)

OrderlyInv == Orderly => OneAtATime /\ StoreFollows /\ Follows

\* What may come true for a process depends on what it and the log hold.
LEMMA FollowsSame ==
  ASSUME NEW p \in Procs, InboxFollows(p), ProcessFollows(p), UNCHANGED log,
         ToBePublished' <=> ToBePublished,
         UNCHANGED <<life[p], outdated[p], inbox[p], listening[p], readonly[p]>>
  PROVE  InboxFollows(p)' /\ ProcessFollows(p)'
<1>1. Published' = Published /\ Eventual(p)' = Eventual(p)
  BY DEF Published, Eventual
<1>2. InboxFollows(p)'
  BY DEF InboxFollows
<1>3. ProcessFollows(p)'
  BY <1>1 DEF ProcessFollows
<1> QED
  BY <1>2, <1>3

\* A request that overlaps with none comes when the last switch is stored.
LEMMA RequestOrderly ==
  ASSUME TypeOK, LogInv, OrderlyInv, NEW s \in Switches, NEW r \in Procs, Request(s, r)
  PROVE  OrderlyInv'
<1>1. /\ view[s] = "new" /\ view' = [view EXCEPT ![s] = "asking"]
      /\ overlapped' = (overlapped \/ \E t \in Switches : UnderWay(t))
      /\ outdated' = [q \in Procs |-> life[q] = "serving" /\ ~listening[q]]
      /\ UNCHANGED <<log, inbox, listening, life, readonly, stored, faults>>
  BY DEF Request, broadcastVars, processVars, redisVars
<1> SUFFICES ASSUME Orderly' PROVE (OneAtATime /\ StoreFollows /\ Follows)'
  BY DEF OrderlyInv
<1>2. Orderly /\ \A t \in Switches : ~UnderWay(t)
  <2>1. faults = 0 /\ ~overlapped /\ \A t \in Switches : ~UnderWay(t)
    BY <1>1 DEF Orderly
  <2>2. \A t \in Switches : view[t] # "failed"
    BY <1>1 DEF Orderly, TypeOK
  <2> QED
    BY <2>1, <2>2 DEF Orderly
<1>3. /\ \A t \in Switches : UnderWay(t)' => t = s
      /\ view'[s] = "asking" /\ UnderWay(s)' /\ s \notin Range(log)
  BY <1>1, <1>2 DEF UnderWay, LogInv, TypeOK
<1>4. OneAtATime'
  BY <1>1, <1>3 DEF OneAtATime, UnderWay
<1>5. Published = StoredValue(Len(stored)) /\ (stored = <<>> => log = <<>>) /\ Follows
  BY <1>2 DEF OrderlyInv, StoreFollows
<1>6. StoreFollows'
  <2>1. /\ (Published' <=> Published)
        /\ (StoredValue(Len(stored))' <=> StoredValue(Len(stored)))
    BY <1>1 DEF Published, StoredValue
  <2>2. Published' \in BOOLEAN /\ StoredValue(Len(stored))' \in BOOLEAN
    BY DEF Published, StoredValue, Wanted
  <2> QED
    BY <1>1, <1>5, <2>1, <2>2 DEF StoreFollows
<1>7. ASSUME NEW p \in Procs PROVE InboxFollows(p)' /\ ProcessFollows(p)'
  <2>1. InboxFollows(p)'
    BY <1>1, <1>5 DEF Follows, InboxFollows
  <2>2. ToBePublished'
    BY <1>1, <1>3 DEF ToBePublished
  <2> QED
    BY <1>1, <2>1, <2>2 DEF ProcessFollows
<1> QED
  BY <1>4, <1>6, <1>7 DEF Follows

\* PUBLISH sets what Redis and the processes are to follow.
LEMMA BroadcastOrderly ==
  ASSUME TypeOK, LogInv, OrderlyInv, NEW s \in Switches, Broadcast(s)
  PROVE  OrderlyInv'
<1>1. /\ view[s] = "asking" /\ s \notin Range(log) /\ log' # <<>> /\ Final(log') = s
      /\ Range(log') = Range(log) \cup {s}
      /\ UNCHANGED <<view, faults, overlapped, life, readonly, listening, outdated>>
  BY BroadcastFacts
<1> SUFFICES ASSUME Orderly' PROVE (OneAtATime /\ StoreFollows /\ Follows)'
  BY DEF OrderlyInv
<1>2. OneAtATime /\ Follows
  BY <1>1 DEF Orderly, OrderlyInv
<1>3. UnderWay(s) /\ \A t \in Switches : UnderWay(t)' <=> UnderWay(t)
  BY <1>1 DEF UnderWay
<1>4. OneAtATime'
  BY <1>1, <1>2, <1>3 DEF OneAtATime
<1>5. StoreFollows'
  BY <1>1, <1>3 DEF StoreFollows
<1>6. Published' = Wanted(s) /\ ToBePublished
  BY <1>1, <1>3 DEF Published, Wanted, ToBePublished
<1>7. ASSUME NEW p \in Procs PROVE InboxFollows(p)' /\ ProcessFollows(p)'
  <2>1. CASE listening[p]
    <3>1. inbox'[p] # <<>> /\ Final(inbox'[p]) = s /\ listening'[p]
      BY <1>1, <2>1, BroadcastFacts
    <3>2. Eventual(p)' = Wanted(s)
      BY <3>1 DEF Eventual, Wanted
    <3> QED
      BY <1>1, <1>6, <3>1, <3>2 DEF InboxFollows, ProcessFollows
  <2>2. CASE ~listening[p]
    <3>1. inbox'[p] = inbox[p] /\ inbox[p] = <<>>
      BY <1>2, <2>2, BroadcastFacts DEF Follows, InboxFollows
    <3>2. ~(life[p] = "serving" /\ ~outdated[p])
      BY <1>2, <1>6, <2>2 DEF Follows, ProcessFollows
    <3> QED
      BY <1>1, <3>1, <3>2 DEF InboxFollows, ProcessFollows
  <2> QED
    BY <2>1, <2>2
<1> QED
  BY <1>4, <1>5, <1>7 DEF Follows

\* The store is to come, of the switch that was published last.
LEMMA AnsweredOrderly ==
  ASSUME TypeOK, OrderlyInv, NEW s \in Switches, Answered(s)
  PROVE  OrderlyInv'
<1>1. /\ view[s] = "asking" /\ s \in Range(log)
      /\ view' = [view EXCEPT ![s] = "storing"]
      /\ UNCHANGED <<log, inbox, stored, faults, overlapped, life, readonly, listening,
                     outdated>>
  BY DEF Answered, SG!Complete, SG!TimeOut, SG!Range, Range, processVars, redisVars, history
<1> SUFFICES ASSUME Orderly' PROVE (OneAtATime /\ StoreFollows /\ Follows)'
  BY DEF OrderlyInv
<1>2. Orderly
  BY <1>1 DEF Orderly, TypeOK
<1>3. OneAtATime /\ StoreFollows /\ Follows
  BY <1>2 DEF OrderlyInv
<1>4. /\ \A t \in Switches : UnderWay(t)' <=> UnderWay(t)
      /\ \A t \in Switches : view'[t] = "storing" => t = s \/ view[t] = "storing"
  BY <1>1 DEF UnderWay, TypeOK
<1>5. OneAtATime'
  BY <1>1, <1>3, <1>4 DEF OneAtATime
<1>6. Published' = Published /\ StoredValue(Len(stored))' = StoredValue(Len(stored))
  BY <1>1 DEF Published, StoredValue
<1>7. StoreFollows'
  BY <1>1, <1>3, <1>4, <1>6 DEF StoreFollows
<1>8. ToBePublished' <=> ToBePublished
  BY <1>1, <1>4 DEF ToBePublished
<1>9. Follows'
  BY <1>1, <1>3, <1>8, FollowsSame DEF Follows
<1> QED
  BY <1>5, <1>7, <1>9

\* The store puts Redis in agreement with the last published switch.
LEMMA StoreOrderly ==
  ASSUME TypeOK, OrderlyInv, NEW s \in Switches, Store(s)
  PROVE  OrderlyInv'
<1>1. /\ view[s] = "storing"
      /\ view' = [view EXCEPT ![s] = "done"]
      /\ stored' = Append(stored, s) /\ stored \in Seq(Switches)
      /\ UNCHANGED <<log, inbox, faults, overlapped, life, readonly, listening, outdated>>
  BY DEF Store, broadcastVars, processVars, history, TypeOK
<1> SUFFICES ASSUME Orderly' PROVE (OneAtATime /\ StoreFollows /\ Follows)'
  BY DEF OrderlyInv
<1>2. Orderly
  BY <1>1 DEF Orderly, TypeOK
<1>3. OneAtATime /\ Follows
  BY <1>2 DEF OrderlyInv
<1>4. UnderWay(s) /\ s \in Range(log) /\ log # <<>> /\ Final(log) = s
  BY <1>1, <1>3 DEF OneAtATime, UnderWay
<1>5. \A t \in Switches : ~UnderWay(t)' /\ view'[t] # "storing" /\ (UnderWay(t) => t = s)
  BY <1>1, <1>3, <1>4 DEF OneAtATime, UnderWay, TypeOK
<1>6. OneAtATime'
  BY <1>5 DEF OneAtATime
<1>7. Published' = Published /\ Published = Wanted(s)
  BY <1>1, <1>4 DEF Published, Wanted
<1>8. StoredValue(Len(stored))' = Wanted(s)
  <2>1. Len(stored') = Len(stored) + 1 /\ Final(stored') = s /\ Len(stored) \in Nat
    BY <1>1, FinalAppend
  <2> QED
    BY <2>1 DEF StoredValue, Final, Wanted
<1>9. StoreFollows'
  <2>1. stored' # <<>>
    BY <1>1, FinalAppend
  <2> QED
    BY <1>7, <1>8, <2>1 DEF StoreFollows
<1>10. ToBePublished' <=> ToBePublished
  BY <1>1, <1>4, <1>5 DEF ToBePublished
<1>11. Follows'
  BY <1>1, <1>3, <1>10, FollowsSame DEF Follows
<1> QED
  BY <1>6, <1>9, <1>11

\* A step that leaves the requests and Redis alone.
LEMMA OrderlyQuiet ==
  ASSUME OrderlyInv, Orderly' => Orderly, UNCHANGED <<log, view, stored>>,
         Orderly => Follows'
  PROVE  OrderlyInv'
<1> SUFFICES ASSUME Orderly, Orderly' PROVE (OneAtATime /\ StoreFollows /\ Follows)'
  BY DEF OrderlyInv
<1>1. OneAtATime /\ StoreFollows
  BY DEF OrderlyInv
<1>2. OneAtATime'
  BY <1>1 DEF OneAtATime, UnderWay
<1>3. StoreFollows'
  BY <1>1 DEF StoreFollows, UnderWay, StoredValue, Published
<1> QED
  BY <1>2, <1>3

\* What is restored is the last switch, or the process has yet to run that one.
LEMMA RestoreOrderly ==
  ASSUME TypeOK, LogInv, DownInv, OneAtATime, StoreFollows, Follows,
         NEW p \in Procs, Restore(p)
  PROVE  InboxFollows(p)' /\ ProcessFollows(p)'
<1>1. /\ outdated' = [outdated EXCEPT ![p] = TooEarly(p)]
      /\ readonly' = IF replicated = 0 THEN readonly
                     ELSE [readonly EXCEPT ![p] = StoredValue(replicated)]
      /\ UNCHANGED <<log, inbox, listening, view, stored>>
  BY DEF Restore, broadcastVars, redisVars
<1>2. InboxFollows(p)'
  BY <1>1 DEF Follows, InboxFollows
<1>3. Published' = Published /\ (ToBePublished' <=> ToBePublished)
  BY <1>1 DEF Published, ToBePublished, UnderWay
<1>4. CASE TooEarly(p)
  <2>1. outdated'[p] = TRUE
    <3>1. TooEarly(p) = TRUE
      BY <1>4, Zenon DEF TooEarly
    <3> HIDE DEF TooEarly
    <3> QED
      BY <1>1, <3>1 DEF TypeOK
  <2> QED
    BY <1>2, <2>1 DEF ProcessFollows
<1>5. CASE ~TooEarly(p) /\ ToBePublished
  <2>1. PICK s \in Switches : UnderWay(s) /\ s \notin Range(log)
    BY <1>5 DEF ToBePublished
  <2>2. listening[p]
    BY <1>5, <2>1 DEF TooEarly, Due
  <2> QED
    BY <1>1, <1>2, <1>3, <1>5, <2>2 DEF ProcessFollows
<1>6. CASE ~TooEarly(p) /\ ~ToBePublished /\ inbox[p] # <<>>
  <2>1. log # <<>> /\ Final(inbox[p]) = Final(log)
    BY <1>6 DEF Follows, InboxFollows
  <2>2. Eventual(p)' = Published
    BY <1>1, <1>6, <2>1 DEF Eventual, Published, Wanted
  <2> QED
    BY <1>2, <1>3, <1>6, <2>2 DEF ProcessFollows
<1>7. CASE ~TooEarly(p) /\ ~ToBePublished /\ inbox[p] = <<>>
  <2>1. Quiet
    <3>1. Range(<<>>) = {}
      BY DEF Range
    <3>2. ASSUME NEW s \in Switches, UnderWay(s) PROVE FALSE
      BY <1>7, <3>1, <3>2 DEF TooEarly, Due, ToBePublished
    <3> QED
      BY <3>2 DEF Quiet
  <2>2. replicated = Len(stored)
    BY <1>7, <2>1 DEF TooEarly
  <2>3. Published = StoredValue(Len(stored))
    BY <2>1 DEF Quiet, StoreFollows
  <2>4. CASE replicated # 0
    <3>1. readonly'[p] = Published
      BY <1>1, <2>2, <2>3, <2>4 DEF TypeOK
    <3> QED
      BY <1>1, <1>2, <1>3, <1>7, <3>1 DEF ProcessFollows, Eventual
  <2>5. CASE replicated = 0
    <3>1. log = <<>> /\ ~Published
      BY <2>1, <2>2, <2>5, EmptySeq DEF Quiet, StoreFollows, Published, TypeOK
    <3>2. applied[p] = <<>>
      <4>1. applied[p] \in Seq(Switches) /\ Range(applied[p]) = {}
        <5>1. Range(log) = {}
          BY <3>1 DEF Range
        <5> QED
          BY <5>1 DEF LogInv, TypeOK
      <4>2. \A i \in DOMAIN applied[p] : applied[p][i] \in Range(applied[p])
        BY Zenon DEF Range
      <4>3. Len(applied[p]) = 0
        <5>1. 1 \notin DOMAIN applied[p]
          BY <4>1, <4>2
        <5>2. Len(applied[p]) \in Nat /\ DOMAIN applied[p] = 1 .. Len(applied[p])
          BY <4>1
        <5> QED
          BY <5>1, <5>2
      <4> QED
        BY <4>1, <4>3, EmptySeq
    <3>3. readonly'[p] = FALSE /\ Published = FALSE
      <4>1. ~readonly[p] /\ readonly[p] \in BOOLEAN
        BY <3>2 DEF DownInv, Restore, TypeOK
      <4>2. Published \in BOOLEAN
        BY DEF Published, Wanted
      <4> QED
        BY <1>1, <2>5, <3>1, <4>1, <4>2
    <3> QED
      BY <1>1, <1>2, <1>3, <1>7, <3>3 DEF ProcessFollows, Eventual
  <2> QED
    BY <2>4, <2>5
<1> QED
  BY <1>4, <1>5, <1>6, <1>7

\* Every step keeps OrderlyInv.
LEMMA OrderlyStep ==
  ASSUME TypeOK, LogInv, DownInv, OrderlyInv, [Next]_vars
  PROVE  OrderlyInv'
<1> DEFINE Same(p) == UNCHANGED <<life[p], readonly[p], inbox[p], listening[p], outdated[p]>>
           Fine(p) == InboxFollows(p)' /\ ProcessFollows(p)'
<1>1. ASSUME Orderly' => Orderly, UNCHANGED <<log, view, stored>>,
             \A p \in Procs : Orderly => Same(p) \/ Fine(p)
      PROVE  OrderlyInv'
  <2>1. ToBePublished' <=> ToBePublished
    BY <1>1 DEF ToBePublished, UnderWay
  <2>2. Orderly => Follows'
    BY <1>1, <2>1, FollowsSame DEF Follows, OrderlyInv
  <2> QED
    BY <1>1, <2>2, OrderlyQuiet
<1>2. UNCHANGED <<faults, overlapped, view>> => (Orderly' => Orderly)
  BY DEF Orderly
<1>3. CASE UNCHANGED vars \/ Replicate
  <2>1. /\ UNCHANGED <<log, view, stored, faults, overlapped>>
        /\ \A p \in Procs : Same(p)
    BY <1>3 DEF vars, Replicate, broadcastVars, processVars, redisVars, history
  <2> HIDE DEF Same, Fine
  <2> QED
    BY <1>1, <1>2, <2>1
<1>4. ASSUME NEW p \in Procs, Start(p) \/ Stop(p), UNCHANGED view PROVE OrderlyInv'
  <2>1. /\ UNCHANGED <<log, stored, faults, overlapped>>
        /\ \A q \in Procs \ {p} : Same(q)
    BY <1>4 DEF Start, Stop, broadcastVars, processVars, redisVars, TypeOK
  <2>2. Fine(p)
    <3>1. life'[p] # "serving" /\ inbox'[p] = <<>>
      BY <1>4 DEF Start, Stop, DownInv, Up, broadcastVars, TypeOK
    <3> QED
      BY <3>1 DEF InboxFollows, ProcessFollows
  <2> HIDE DEF Same, Fine
  <2> QED
    BY <1>1, <1>2, <1>4, <2>1, <2>2
<1>5. ASSUME NEW p \in Procs, Stop(p) PROVE OrderlyInv'
  <2>1. CASE \E s \in Switches : at[s] = p
    <3>1. \E s \in Switches : view'[s] = "failed"
      BY <1>5, <2>1 DEF Stop
    <3> QED
      BY <3>1 DEF Orderly, OrderlyInv
  <2>2. CASE \A s \in Switches : at[s] # p
    <3>1. view' = view
      BY <1>5, <2>2 DEF Stop, TypeOK
    <3> QED
      BY <1>4, <1>5, <3>1
  <2> QED
    BY <2>1, <2>2
<1>6. ASSUME NEW p \in Procs, Listen(p) PROVE OrderlyInv'
  <2>1. /\ UNCHANGED <<log, view, stored, faults, overlapped, life, readonly, inbox, outdated>>
        /\ listening'[p] = TRUE
        /\ \A q \in Procs \ {p} : Same(q)
    BY <1>6 DEF Listen, processVars, redisVars, history, TypeOK
  <2>2. Orderly => Fine(p)
    <3>1. Eventual(p)' = Eventual(p) /\ Published' = Published
      BY <2>1 DEF Eventual, Published
    <3>2. ToBePublished' <=> ToBePublished
      BY <2>1 DEF ToBePublished, UnderWay
    <3> QED
      BY <2>1, <3>1, <3>2 DEF OrderlyInv, Follows, InboxFollows, ProcessFollows
  <2> HIDE DEF Same, Fine
  <2> QED
    BY <1>1, <1>2, <2>1, <2>2
<1>7. ASSUME Fail PROVE OrderlyInv'
  <2>1. faults' # 0
    BY <1>7 DEF Fail, TypeOK
  <2> QED
    BY <2>1 DEF Orderly, OrderlyInv
<1>8. ASSUME NEW p \in Procs, Restore(p) PROVE OrderlyInv'
  <2>1. /\ UNCHANGED <<log, view, stored, faults, overlapped>>
        /\ \A q \in Procs \ {p} : Same(q)
    BY <1>8 DEF Restore, broadcastVars, redisVars, TypeOK
  <2>2. Orderly => Fine(p)
    BY <1>8, RestoreOrderly DEF OrderlyInv
  <2> HIDE DEF Same, Fine
  <2> QED
    BY <1>1, <1>2, <2>1, <2>2
<1>9. ASSUME NEW p \in Procs, Apply(p) PROVE OrderlyInv'
  <2>1. /\ UNCHANGED <<log, view, stored, faults, overlapped, life, listening, outdated>>
        /\ \A q \in Procs \ {p} : Same(q)
    BY <1>9, ApplyFacts DEF TypeOK
  <2>2. Orderly => Fine(p)
    <3>1. inbox'[p] = Tail(inbox[p]) /\ readonly'[p] = Wanted(Head(inbox[p]))
      BY <1>9, ApplyFacts DEF TypeOK
    <3>2. /\ inbox[p] # <<>>
          /\ IF Tail(inbox[p]) = <<>> THEN Final(inbox[p]) = Head(inbox[p])
                                      ELSE Final(Tail(inbox[p])) = Final(inbox[p])
      BY <1>9, ApplyFacts
    <3>3. Eventual(p)' = Eventual(p) /\ Published' = Published
      BY <2>1, <3>1, <3>2 DEF Eventual, Published
    <3>4. ToBePublished' <=> ToBePublished
      BY <2>1 DEF ToBePublished, UnderWay
    <3>5. Orderly => InboxFollows(p)'
      BY <2>1, <3>1, <3>2 DEF OrderlyInv, Follows, InboxFollows
    <3> QED
      BY <2>1, <3>3, <3>4, <3>5 DEF OrderlyInv, Follows, ProcessFollows
  <2> HIDE DEF Same, Fine
  <2> QED
    BY <1>1, <1>2, <2>1, <2>2
<1>10. ASSUME NEW p \in Procs, Start(p) PROVE OrderlyInv'
  BY <1>4, <1>10 DEF Start
<1>11. ASSUME NEW p \in Procs, Lose(p) \/ RestoreFails(p) PROVE Fail
  BY <1>11 DEF Lose, RestoreFails
<1>12. ASSUME NEW s \in Switches, BroadcastFails(s) \/ StoreFails(s) PROVE Fail
  BY <1>12 DEF BroadcastFails, StoreFails
<1> QED
  BY <1>3, <1>5, <1>6, <1>7, <1>8, <1>9, <1>10, <1>11, <1>12, RequestOrderly,
     BroadcastOrderly, AnsweredOrderly, StoreOrderly DEF Next, ViewStep

\* When nothing failed and no two requests overlapped, a settled process uses what
\* Redis holds, unless the last switch came in the middle of its restore or the slave
\* had not got it, and no switch was requested since.
THEOREM SettledCorrect == Spec => []SettledUsesStored
<1>1. ASSUME Init PROVE OrderlyInv
  <2>1. log = <<>> /\ stored = <<>> /\ Len(stored) = 0
    BY <1>1, EmptySeq DEF Init, SG!Init
  <2>2. \A s \in Switches : ~UnderWay(s) /\ view[s] # "storing"
    BY <1>1 DEF Init, UnderWay
  <2>3. \A p \in Procs : life[p] # "serving" /\ inbox[p] = <<>>
    BY <1>1 DEF Init
  <2>4. ~Published /\ ~StoredValue(Len(stored))
    BY <2>1 DEF Published, StoredValue
  <2>5. StoreFollows
    <3>1. Published \in BOOLEAN /\ StoredValue(Len(stored)) \in BOOLEAN
      BY DEF Published, StoredValue, Wanted
    <3> QED
      BY <2>1, <2>4, <3>1 DEF StoreFollows
  <2> QED
    BY <2>2, <2>3, <2>5
    DEF OrderlyInv, OneAtATime, Follows, InboxFollows, ProcessFollows
<1>2. TypeOK /\ LastInv /\ OrderlyInv /\ [Next]_vars => OrderlyInv'
  BY OrderlyStep DEF LastInv
<1>3. OrderlyInv => SettledUsesStored
  <2> SUFFICES ASSUME OrderlyInv, NEW p \in Procs,
                      Settled(p), faults = 0, ~overlapped, ~outdated[p]
               PROVE  readonly[p] = StoredValue(Len(stored))
    BY DEF SettledUsesStored
  <2>1. Orderly /\ \A s \in Switches : ~UnderWay(s)
    BY DEF Settled, Orderly, UnderWay
  <2>2. Published = StoredValue(Len(stored)) /\ ~ToBePublished
    BY <2>1 DEF OrderlyInv, StoreFollows, ToBePublished
  <2>3. Eventual(p) = Published
    BY <2>1, <2>2 DEF OrderlyInv, Follows, ProcessFollows, Settled
  <2> QED
    BY <2>2, <2>3 DEF Settled, Eventual
<1> QED
  BY <1>1, <1>2, <1>3, TypeCorrect, LastCorrect, PTL DEF Spec

------------------------------------------------------------------------------
(* The mailboxes and the broadcaster.                                      *)

\* The pairs of switches that were published one before the other.
InOrder == {pair \in Switches \X Switches : SG!Before(pair[1], pair[2])}

\* The switches of which p may run the callback, for all that the broadcaster promises.
Runnable(p) ==
  {s \in Range(log) : p \in receivers[s] /\ \A n \in Range(applied[p]) : <<n, s>> \in InOrder}

\* What a process has received is for it, published in this order, and after all that it has run.
MailInv ==
  \A p \in Procs :
    /\ \A i \in 1 .. Len(inbox[p]) : inbox[p][i] \in Runnable(p)
    /\ \A i, j \in 1 .. Len(inbox[p]) : i < j => <<inbox[p][i], inbox[p][j]>> \in InOrder

\* What is published stays so, in its order, and a new switch comes after it.
LEMMA LogGrows ==
  ASSUME NEW s \in Switches, log \in Seq(Switches), log' = Append(log, s)
  PROVE  /\ Range(log') = Range(log) \cup {s}
         /\ InOrder \subseteq InOrder'
         /\ \A n \in Range(log) : <<n, s>> \in InOrder'
<1>1. /\ Range(log') = Range(log) \cup {s} /\ Len(log') = Len(log) + 1 /\ Len(log) \in Nat
      /\ DOMAIN log = 1 .. Len(log) /\ DOMAIN log' = 1 .. Len(log) + 1
      /\ log'[Len(log) + 1] = s /\ \A i \in 1 .. Len(log) : log'[i] = log[i]
  BY FinalAppend
<1>2. InOrder \subseteq InOrder'
  BY <1>1 DEF InOrder, SG!Before
<1>3. ASSUME NEW n \in Range(log) PROVE <<n, s>> \in InOrder'
  <2>1. PICK i \in 1 .. Len(log) : log[i] = n
    BY <1>1 DEF Range
  <2>2. /\ i \in DOMAIN log' /\ Len(log) + 1 \in DOMAIN log' /\ i < Len(log) + 1
        /\ log'[i] = n /\ log'[Len(log) + 1] = s
    BY <1>1, <2>1
  <2>3. n \in Switches
    BY <2>1, <1>1
  <2> QED
    BY <2>2, <2>3 DEF InOrder, SG!Before
<1> QED
  BY <1>1, <1>2, <1>3

\* A mailbox that is emptied, or left as it is, by a step that publishes and runs nothing.
LEMMA MailStays ==
  ASSUME MailInv, UNCHANGED <<log, receivers, applied>>,
         \A p \in Procs : inbox'[p] \in {inbox[p], <<>>}
  PROVE  MailInv'
<1>1. InOrder' = InOrder
  BY DEF InOrder, SG!Before
<1>2. \A p : Runnable(p)' = Runnable(p)
  BY <1>1 DEF Runnable
<1>3. 1 .. Len(<<>>) = {}
  BY EmptySeq
<1> QED
  BY <1>1, <1>2, <1>3 DEF MailInv

\* The oldest of the switches is run: the others come after it.
LEMMA MailApply ==
  ASSUME TypeOK, MailInv, NEW p \in Procs, Apply(p)
  PROVE  MailInv'
<1> DEFINE s == Head(inbox[p])
<1>1. /\ inbox[p] \in Seq(Switches) /\ inbox[p] # <<>> /\ applied[p] \in Seq(Switches)
      /\ UNCHANGED <<log, receivers>>
      /\ \A q \in Procs \ {p} : inbox'[q] = inbox[q] /\ applied'[q] = applied[q]
      /\ inbox'[p] = Tail(inbox[p]) /\ applied'[p] = Append(applied[p], s)
  BY ApplyFacts DEF TypeOK, Apply, SG!Apply
<1>2. /\ Len(inbox[p]) \in Nat \ {0} /\ s = inbox[p][1] /\ Len(inbox'[p]) = Len(inbox[p]) - 1
      /\ \A i \in 1 .. Len(inbox'[p]) : inbox'[p][i] = inbox[p][i + 1]
  BY <1>1, HeadTailProperties
<1>3. Range(applied'[p]) = Range(applied[p]) \cup {s}
  BY <1>1, ApplyFacts
<1>4. InOrder' = InOrder
  BY <1>1 DEF InOrder, SG!Before
<1>5. ASSUME NEW i \in 1 .. Len(inbox'[p])
      PROVE  /\ inbox'[p][i] \in Runnable(p)'
             /\ \A j \in 1 .. Len(inbox'[p]) : i < j => <<inbox'[p][i], inbox'[p][j]>> \in InOrder'
  <2>1. /\ i + 1 \in 1 .. Len(inbox[p]) /\ 1 \in 1 .. Len(inbox[p]) /\ 1 < i + 1
        /\ inbox'[p][i] = inbox[p][i + 1]
    BY <1>2
  <2>2. inbox[p][i + 1] \in Runnable(p) /\ <<s, inbox[p][i + 1]>> \in InOrder
    BY <2>1, <1>2 DEF MailInv
  <2>3. inbox'[p][i] \in Runnable(p)'
    BY <1>1, <1>3, <1>4, <2>1, <2>2 DEF Runnable
  <2>4. ASSUME NEW j \in 1 .. Len(inbox'[p]), i < j
        PROVE  <<inbox'[p][i], inbox'[p][j]>> \in InOrder'
    <3>1. j + 1 \in 1 .. Len(inbox[p]) /\ i + 1 < j + 1 /\ inbox'[p][j] = inbox[p][j + 1]
      BY <1>2, <2>4
    <3>2. <<inbox[p][i + 1], inbox[p][j + 1]>> \in InOrder
      BY <2>1, <3>1 DEF MailInv
    <3> QED
      BY <1>4, <2>1, <3>1, <3>2
  <2> QED
    BY <2>3, <2>4
<1>6. ASSUME NEW q \in Procs \ {p}
      PROVE  /\ \A i \in 1 .. Len(inbox'[q]) : inbox'[q][i] \in Runnable(q)'
             /\ \A i, j \in 1 .. Len(inbox'[q]) : i < j => <<inbox'[q][i], inbox'[q][j]>> \in InOrder'
  <2>1. Runnable(q)' = Runnable(q)
    BY <1>1, <1>4 DEF Runnable
  <2> QED
    BY <1>1, <1>4, <2>1 DEF MailInv
<1> QED
  BY <1>5, <1>6 DEF MailInv

\* The new switch comes last everywhere.
LEMMA MailBroadcast ==
  ASSUME TypeOK, LogInv, MailInv, NEW s \in Switches, Broadcast(s)
  PROVE  MailInv'
<1>1. /\ log \in Seq(Switches) /\ log' = Append(log, s) /\ s \notin Range(log)
      /\ \A m \in Switches \ {s} : receivers'[m] = receivers[m]
      /\ receivers'[s] = {p \in Procs : listening[p]} /\ UNCHANGED applied
      /\ inbox' = [p \in Procs |-> IF listening[p] THEN Append(inbox[p], s) ELSE inbox[p]]
  BY DEF TypeOK, Broadcast, SG!Publish, SG!Range, Range
<1>2. /\ Range(log') = Range(log) \cup {s}
      /\ InOrder \subseteq InOrder'
      /\ \A n \in Range(log) : <<n, s>> \in InOrder'
  BY <1>1, LogGrows
<1>3. ASSUME NEW p \in Procs, NEW m \in Range(log), m \in Runnable(p) PROVE m \in Runnable(p)'
  <2>1. m \in Switches \ {s}
    BY <1>1, <1>3 DEF Range
  <2> QED
    BY <1>1, <1>2, <1>3, <2>1 DEF Runnable
<1>4. ASSUME NEW p \in Procs
      PROVE  /\ \A i \in 1 .. Len(inbox'[p]) : inbox'[p][i] \in Runnable(p)'
             /\ \A i, j \in 1 .. Len(inbox'[p]) : i < j => <<inbox'[p][i], inbox'[p][j]>> \in InOrder'
  <2>1. /\ \A i \in 1 .. Len(inbox[p]) : inbox[p][i] \in Range(log) /\ inbox[p][i] \in Runnable(p)
        /\ \A i, j \in 1 .. Len(inbox[p]) : i < j => <<inbox[p][i], inbox[p][j]>> \in InOrder
    BY DEF MailInv, Runnable
  <2>2. CASE ~listening[p]
    <3>1. inbox'[p] = inbox[p]
      BY <1>1, <2>2
    <3> QED
      BY <1>2, <1>3, <2>1, <3>1
  <2>3. CASE listening[p]
    <3>1. inbox[p] \in Seq(Switches) /\ inbox'[p] = Append(inbox[p], s)
      BY <1>1, <2>3 DEF TypeOK
    <3>2. /\ Len(inbox[p]) \in Nat /\ Len(inbox'[p]) = Len(inbox[p]) + 1
          /\ inbox'[p][Len(inbox[p]) + 1] = s
          /\ \A i \in 1 .. Len(inbox[p]) : inbox'[p][i] = inbox[p][i]
      BY <3>1
    <3>3. s \in Runnable(p)'
      <4>1. Range(applied[p]) \subseteq Range(log)
        BY DEF LogInv
      <4> QED
        BY <1>1, <1>2, <2>3, <4>1 DEF Runnable
    <3>4. ASSUME NEW i \in 1 .. Len(inbox'[p]) PROVE inbox'[p][i] \in Runnable(p)'
      <4>1. CASE i \in 1 .. Len(inbox[p])
        BY <1>3, <2>1, <3>2, <4>1
      <4>2. CASE i = Len(inbox[p]) + 1
        BY <3>2, <3>3, <4>2
      <4> QED
        BY <3>2, <4>1, <4>2
    <3>5. ASSUME NEW i \in 1 .. Len(inbox'[p]), NEW j \in 1 .. Len(inbox'[p]), i < j
          PROVE  <<inbox'[p][i], inbox'[p][j]>> \in InOrder'
      <4>1. i \in 1 .. Len(inbox[p])
        BY <3>2, <3>5
      <4>2. CASE j \in 1 .. Len(inbox[p])
        BY <1>2, <2>1, <3>2, <3>5, <4>1, <4>2
      <4>3. CASE j = Len(inbox[p]) + 1
        BY <1>2, <2>1, <3>2, <4>1, <4>3
      <4> QED
        BY <3>2, <4>2, <4>3
    <3> QED
      BY <3>4, <3>5
  <2> QED
    BY <2>2, <2>3
<1> QED
  BY <1>4 DEF MailInv

\* Every step keeps MailInv.
LEMMA MailStep ==
  ASSUME TypeOK, LogInv, MailInv, [Next]_vars
  PROVE  MailInv'
<1> DEFINE Calm == /\ UNCHANGED <<log, receivers, applied>>
                   /\ \A p \in Procs : inbox'[p] \in {inbox[p], <<>>}
<1>1. Calm => MailInv'
  BY MailStays
<1>2. UNCHANGED vars => Calm
  BY DEF vars, broadcastVars
<1>3. ASSUME NEW p \in Procs,
             Start(p) \/ Listen(p) \/ Lose(p) \/ Restore(p) \/ RestoreFails(p) \/ Stop(p)
      PROVE  Calm
  BY <1>3 DEF Start, Listen, Lose, Restore, RestoreFails, Stop, broadcastVars, TypeOK
<1>4. ASSUME NEW s \in Switches,
             \/ Answered(s) \/ BroadcastFails(s) \/ Store(s) \/ StoreFails(s)
             \/ \E p \in Procs : Request(s, p)
      PROVE  Calm
  BY <1>4 DEF Answered, SG!Complete, SG!TimeOut, BroadcastFails, SG!Raise, Store,
              StoreFails, Request, broadcastVars
<1>5. Replicate => Calm
  BY DEF Replicate, broadcastVars
<1> QED
  BY <1>1, <1>2, <1>3, <1>4, <1>5, MailApply, MailBroadcast DEF Next, ViewStep

\* The invariants of the mailboxes hold at the start.
LEMMA MailInit ==
  ASSUME Init PROVE LogInv /\ MailInv
<1>1. /\ log = <<>> /\ \A p \in Procs : inbox[p] = <<>> /\ applied[p] = <<>>
  BY DEF Init, SG!Init
<1>2. Range(<<>>) = {} /\ 1 .. Len(<<>>) = {}
  BY EmptySeq DEF Range
<1> QED
  BY <1>1, <1>2 DEF LogInv, MailInv

\* A switch that a process has received is never held back by what the broadcaster promises about
\* the order of callbacks: the callback (_set_readonly) runs whenever the listener gets to it.  The
\* mailboxes, which the broadcaster's specification has not, agree with its log in every state,
\* across lost connections and restarts.
THEOREM ReceivedMayRun == Spec => [](\A p \in Procs : inbox[p] # <<>> => Head(inbox[p]) \in Runnable(p))
<1>1. ASSUME TypeOK, MailInv, NEW p \in Procs, inbox[p] # <<>> PROVE Head(inbox[p]) \in Runnable(p)
  <2>1. inbox[p] \in Seq(Switches)
    BY <1>1 DEF TypeOK
  <2>2. Head(inbox[p]) = inbox[p][1] /\ 1 \in 1 .. Len(inbox[p])
    BY <1>1, <2>1, HeadTailProperties
  <2> QED
    BY <1>1, <2>2 DEF MailInv
<1>2. TypeOK /\ MailInv => \A p \in Procs : inbox[p] # <<>> => Head(inbox[p]) \in Runnable(p)
  BY <1>1
<1> QED
  BY <1>2, TypeCorrect, MailInit, LogStep, MailStep, PTL DEF Spec

\* Every behaviour of the switch is one that ScatterGather allows: failures, restarts and the
\* end of a process do to the broadcaster only what its specification has.  As Broadcast implements
\* that specification, the two may be put together.
THEOREM UsesTheBroadcaster == Spec => SG!Spec
<1>1. Init => SG!Init
  BY DEF Init
<1>2. ASSUME TypeOK, [Next]_vars PROVE [SG!Next]_(SG!vars)
  <2>1. UNCHANGED broadcastVars => UNCHANGED SG!vars
    BY DEF broadcastVars, SG!vars
  <2>2. UNCHANGED vars => UNCHANGED SG!vars
    BY <2>1 DEF vars
  <2>3. ASSUME NEW p \in Procs,
               Start(p) \/ Listen(p) \/ Lose(p) \/ Restore(p) \/ RestoreFails(p) \/ Stop(p)
        PROVE  UNCHANGED SG!vars
    BY <2>1, <2>3 DEF Start, Listen, Lose, Restore, RestoreFails, Stop, SG!vars
  <2>4. ASSUME NEW p \in Procs, Apply(p) PROVE SG!Next
    <3>1. Head(inbox[p]) \in Switches /\ SG!Apply(p, Head(inbox[p]))
      BY <2>4, <1>2, ApplyFacts DEF Apply
    <3> QED
      BY <3>1, SwitchMessages DEF SG!Next
  <2>5. ASSUME NEW s \in Switches, Broadcast(s) \/ Answered(s) \/ BroadcastFails(s) PROVE SG!Next
    <3>1. SG!Publish(s) \/ SG!Complete(s) \/ SG!TimeOut(s) \/ SG!Raise(s)
      BY <2>5 DEF Broadcast, Answered, BroadcastFails
    <3> QED
      BY <3>1, SwitchMessages DEF SG!Next
  <2>6. ASSUME NEW s \in Switches, Store(s) \/ StoreFails(s) \/ \E p \in Procs : Request(s, p)
        PROVE  UNCHANGED SG!vars
    BY <2>1, <2>6 DEF Store, StoreFails, Request
  <2>7. Replicate => UNCHANGED SG!vars
    BY <2>1 DEF Replicate
  <2> QED
    BY <1>2, <2>2, <2>3, <2>4, <2>5, <2>6, <2>7 DEF Next, ViewStep
<1> QED
  BY <1>1, <1>2, TypeCorrect, PTL DEF Spec, SG!Spec
=============================================================================
