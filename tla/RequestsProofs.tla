---------------------------- MODULE RequestsProofs ----------------------------
(* Theorems about SqlTiming, SessionBinding, Access, RequestPath,            *)
(* StatsReport, Acceptance and Gather, for any number of statements,         *)
(* threads, tabs, requests, attempts, tries, processes and objects.          *)
EXTENDS MCRequests, FiniteSetTheorems, TLAPS

------------------------------------------------------------------------------
(* SqlTiming.                                                                *)

\* The statements on the stack of a connection are those that run on it, each once.
StackInv ==
  /\ sqlState \in [SqlStatements -> {"new", "running", "succeeded", "failed"}]
  /\ stack \in [Conns -> Seq(SqlStatements)]
  /\ on \in [SqlStatements -> Conns \cup {NoConn}]
  /\ \A c \in Conns : \A i \in 1..Len(stack[c]) :
       /\ sqlState[stack[c][i]] = "running" /\ on[stack[c][i]] = c
       /\ \A j \in 1..Len(stack[c]) : stack[c][i] = stack[c][j] => i = j
  /\ \A s \in SqlStatements : sqlState[s] = "running" =>
       on[s] \in Conns /\ \E i \in 1..Len(stack[on[s]]) : stack[on[s]][i] = s

\* A statement that runs has its listener on its connection or was observed.
ObservedInv ==
  /\ observed \in [SqlStatements -> Nat]
  /\ endedBy \in [SqlStatements -> SqlStatements \cup {NoStatement}]
  /\ listening \in [Conns -> SUBSET SqlStatements]
  /\ \A c \in Conns : \A s \in listening[c] :
       on[s] = c /\ observed[s] = 0 /\ sqlState[s] # "new"
  /\ \A s \in SqlStatements :
       /\ sqlState[s] = "new" => observed[s] = 0
       /\ sqlState[s] = "running" => s \in listening[on[s]] \/ observed[s] = 1
       /\ sqlState[s] = "succeeded" => observed[s] = 1
       /\ observed[s] <= 1
       /\ observed[s] = 1 => /\ endedBy[s] \in SqlStatements /\ on[endedBy[s]] = on[s]
                             /\ sqlState[endedBy[s]] = "succeeded"

\* The end of the last statement of a connection, by success or by failure.
LEMMA Popped ==
  ASSUME StackInv, NEW c \in Conns, stack[c] # <<>>, NEW end \in {"succeeded", "failed"},
         sqlState' = [sqlState EXCEPT ![Last(stack[c])] = end],
         stack' = [stack EXCEPT ![c] = Front(@)], on' = on
  PROVE  /\ StackInv'
         /\ Last(stack[c]) \in SqlStatements
         /\ sqlState[Last(stack[c])] = "running" /\ on[Last(stack[c])] = c
<1> DEFINE n == Len(stack[c])
           done == Last(stack[c])
<1>1. stack[c] \in Seq(SqlStatements) /\ n \in Nat \ {0} /\ done = stack[c][n]
  BY DEF StackInv, Last
<1>2. done \in SqlStatements /\ sqlState[done] = "running" /\ on[done] = c
  BY <1>1 DEF StackInv
<1>3. /\ Front(stack[c]) \in Seq(SqlStatements) /\ Len(Front(stack[c])) = n - 1
      /\ \A i \in 1..(n - 1) : Front(stack[c])[i] = stack[c][i]
  BY <1>1 DEF Front
<1> HIDE DEF n, done
<1>4. /\ stack' \in [Conns -> Seq(SqlStatements)] /\ Len(stack'[c]) = n - 1
      /\ \A i \in 1..(n - 1) : stack'[c][i] = stack[c][i]
      /\ \A d \in Conns \ {c} : stack'[d] = stack[d]
  BY <1>3 DEF StackInv
<1>5. /\ sqlState' \in [SqlStatements -> {"new", "running", "succeeded", "failed"}]
      /\ sqlState'[done] # "running" /\ \A s \in SqlStatements \ {done} : sqlState'[s] = sqlState[s]
  BY <1>2 DEF StackInv, done
<1>6. ASSUME NEW d \in Conns, NEW i \in 1..Len(stack'[d])
      PROVE  /\ sqlState'[stack'[d][i]] = "running" /\ on[stack'[d][i]] = d
             /\ \A j \in 1..Len(stack'[d]) : stack'[d][i] = stack'[d][j] => i = j
  <2>1. /\ i \in 1..Len(stack[d]) /\ stack'[d][i] = stack[d][i]
        /\ \A j \in 1..Len(stack'[d]) : j \in 1..Len(stack[d]) /\ stack'[d][j] = stack[d][j]
    BY <1>1, <1>4 DEF n
  <2>2. stack[d][i] \in SqlStatements /\ stack[d][i] # done
    <3>1. CASE d = c
      <4>1. i # n /\ i \in 1..n /\ n \in 1..n
        BY <1>1, <1>4, <3>1 DEF n
      <4> QED
        BY <1>1, <2>1, <3>1, <4>1 DEF StackInv, n
    <3>2. CASE d # c
      BY <1>2, <2>1, <3>2 DEF StackInv
    <3> QED
      BY <3>1, <3>2
  <2> QED
    BY <1>5, <2>1, <2>2 DEF StackInv
<1>7. ASSUME NEW s \in SqlStatements, sqlState'[s] = "running"
      PROVE  on[s] \in Conns /\ \E i \in 1..Len(stack'[on[s]]) : stack'[on[s]][i] = s
  <2>1. s # done /\ sqlState[s] = "running"
    BY <1>5, <1>7
  <2>2. PICK i \in 1..Len(stack[on[s]]) : on[s] \in Conns /\ stack[on[s]][i] = s
    BY <2>1 DEF StackInv
  <2>3. CASE on[s] = c
    <3>1. i \in 1..(n - 1)
      BY <1>1, <2>1, <2>2, <2>3 DEF n
    <3> QED
      BY <1>4, <2>2, <2>3, <3>1
  <2>4. CASE on[s] # c
    BY <1>4, <2>2, <2>4
  <2> QED
    BY <2>3, <2>4
<1> QED
  BY <1>2, <1>4, <1>5, <1>6, <1>7 DEF StackInv, done

\* Each statement that succeeds is observed once, and none twice or with another connection.
THEOREM StatementsAreObservedOnce == TimingSpec => []ObservedOnce
<1> DEFINE Inv == StackInv /\ ObservedInv
<1>1. TimingInit => Inv
  BY DEF TimingInit, StackInv, ObservedInv
<1>2. Inv /\ [TimingNext]_timingVars => Inv'
  <2> SUFFICES ASSUME StackInv, ObservedInv, [TimingNext]_timingVars PROVE StackInv' /\ ObservedInv'
    OBVIOUS
  <2>1. CASE UNCHANGED timingVars
    BY <2>1 DEF timingVars, StackInv, ObservedInv
  <2>2. ASSUME NEW s \in SqlStatements, NEW c \in Conns, BeforeCursorExecute(s, c)
        PROVE  StackInv' /\ ObservedInv'
    <3> DEFINE n == Len(stack[c])
    <3>1. /\ sqlState[s] = "new" /\ on' = [on EXCEPT ![s] = c]
          /\ sqlState' = [sqlState EXCEPT ![s] = "running"]
          /\ listening' = [listening EXCEPT ![c] = @ \cup {s}]
          /\ UNCHANGED <<observed, endedBy>>
      BY <2>2 DEF BeforeCursorExecute
    <3>2. /\ n \in Nat /\ stack' \in [Conns -> Seq(SqlStatements)] /\ Len(stack'[c]) = n + 1
          /\ stack'[c][n + 1] = s /\ \A i \in 1..n : stack'[c][i] = stack[c][i]
          /\ \A d \in Conns \ {c} : stack'[d] = stack[d]
      BY <2>2 DEF BeforeCursorExecute, StackInv
    <3>3. \A d \in Conns : \A i \in 1..Len(stack[d]) : stack[d][i] \in SqlStatements /\ stack[d][i] # s
      BY <3>1 DEF StackInv
    <3>4. /\ sqlState' \in [SqlStatements -> {"new", "running", "succeeded", "failed"}]
          /\ on' \in [SqlStatements -> Conns \cup {NoConn}]
          /\ sqlState'[s] = "running" /\ on'[s] = c
          /\ \A u \in SqlStatements \ {s} : sqlState'[u] = sqlState[u] /\ on'[u] = on[u]
      BY <3>1 DEF StackInv
    <3>5. ASSUME NEW d \in Conns, NEW i \in 1..Len(stack'[d])
          PROVE  /\ sqlState'[stack'[d][i]] = "running" /\ on'[stack'[d][i]] = d
                 /\ \A j \in 1..Len(stack'[d]) : stack'[d][i] = stack'[d][j] => i = j
      <4>1. CASE d # c
        BY <3>2, <3>3, <3>4, <4>1 DEF StackInv
      <4>2. CASE d = c /\ i \in 1..n
        <5>1. stack'[c][i] = stack[c][i] /\ stack[c][i] \in SqlStatements /\ stack[c][i] # s
          BY <3>2, <3>3, <4>2
        <5>2. \A j \in 1..(n + 1) : stack'[c][i] = stack'[c][j] => j \in 1..n
          BY <3>2, <5>1
        <5>3. \A j \in 1..n : stack'[c][i] = stack'[c][j] => i = j
          BY <3>2, <4>2, <5>1 DEF StackInv
        <5>4. sqlState[stack[c][i]] = "running" /\ on[stack[c][i]] = c
          BY <4>2 DEF StackInv
        <5> QED
          BY <3>2, <3>4, <4>2, <5>1, <5>2, <5>3, <5>4
      <4>3. CASE d = c /\ i = n + 1
        <5>1. \A j \in 1..n : stack'[c][j] # s
          BY <3>2, <3>3
        <5> QED
          BY <3>2, <3>4, <4>3, <5>1
      <4> QED
        BY <3>2, <4>1, <4>2, <4>3
    <3>6. ASSUME NEW u \in SqlStatements, sqlState'[u] = "running"
          PROVE  on'[u] \in Conns /\ \E i \in 1..Len(stack'[on'[u]]) : stack'[on'[u]][i] = u
      <4>1. CASE u = s
        BY <3>2, <3>4, <4>1
      <4>2. CASE u # s
        <5>1. PICK i \in 1..Len(stack[on[u]]) : on[u] \in Conns /\ stack[on[u]][i] = u
          BY <3>4, <3>6, <4>2 DEF StackInv
        <5>2. i \in 1..Len(stack'[on[u]]) /\ stack'[on[u]][i] = u
          BY <3>2, <5>1
        <5> QED
          BY <3>4, <4>2, <5>1, <5>2
      <4> QED
        BY <4>1, <4>2
    <3>7. StackInv'
      BY <3>2, <3>4, <3>5, <3>6 DEF StackInv
    <3>8. ObservedInv'
      <4>1. listening' \in [Conns -> SUBSET SqlStatements] /\ s \in listening'[c]
        BY <3>1 DEF ObservedInv
      <4>2. \A d \in Conns : \A u \in listening'[d] : (u = s /\ d = c) \/ (u # s /\ u \in listening[d])
        BY <3>1 DEF ObservedInv
      <4>3. \A d \in Conns : listening[d] \subseteq listening'[d]
        BY <3>1 DEF ObservedInv
      <4>4. observed[s] = 0
        BY <3>1 DEF ObservedInv
      <4>5. \A u \in SqlStatements : observed[u] = 1 =>
              u # s /\ endedBy[u] \in SqlStatements /\ endedBy[u] # s
        BY <3>1, <4>4 DEF ObservedInv
      <4>6. \A d \in Conns : \A u \in listening'[d] :
              on'[u] = d /\ observed[u] = 0 /\ sqlState'[u] # "new"
        BY <3>4, <4>1, <4>2, <4>4 DEF ObservedInv
      <4>7. ASSUME NEW u \in SqlStatements, sqlState'[u] = "running"
            PROVE  u \in listening'[on'[u]] \/ observed[u] = 1
        <5>1. CASE u = s
          BY <3>4, <4>1, <5>1
        <5>2. CASE u # s
          <6>1. on'[u] = on[u] /\ on[u] \in Conns /\ (u \in listening[on[u]] \/ observed[u] = 1)
            BY <3>4, <4>7, <5>2 DEF StackInv, ObservedInv
          <6> QED
            BY <4>3, <6>1
        <5> QED
          BY <5>1, <5>2
      <4> QED
        BY <3>1, <3>4, <4>1, <4>4, <4>5, <4>6, <4>7 DEF ObservedInv
    <3> QED
      BY <3>7, <3>8
  <2>3. ASSUME NEW c \in Conns, AfterCursorExecute(c) PROVE StackInv' /\ ObservedInv'
    <3> DEFINE done == Last(stack[c])
    <3>1. /\ sqlState' = [sqlState EXCEPT ![done] = "succeeded"] /\ on' = on
          /\ observed' = [s \in SqlStatements |-> IF s \in listening[c] THEN observed[s] + 1 ELSE observed[s]]
          /\ endedBy' = [s \in SqlStatements |-> IF s \in listening[c] THEN done ELSE endedBy[s]]
          /\ listening' = [listening EXCEPT ![c] = {}]
      BY <2>3 DEF AfterCursorExecute
    <3>2. StackInv' /\ done \in SqlStatements /\ sqlState[done] = "running" /\ on[done] = c
      BY <2>3, Popped DEF AfterCursorExecute
    <3> HIDE DEF done
    <3>3. /\ sqlState'[done] = "succeeded"
          /\ \A s \in SqlStatements \ {done} : sqlState'[s] = sqlState[s]
      BY <3>1, <3>2 DEF StackInv
    <3>4. /\ listening' \in [Conns -> SUBSET SqlStatements] /\ listening'[c] = {}
          /\ \A d \in Conns \ {c} : listening'[d] = listening[d]
      BY <3>1 DEF ObservedInv
    <3>5. /\ observed' \in [SqlStatements -> Nat]
          /\ endedBy' \in [SqlStatements -> SqlStatements \cup {NoStatement}]
      BY <3>1, <3>2 DEF ObservedInv
    <3>6. \A s \in SqlStatements : s \in listening[c] =>
            on[s] = c /\ observed'[s] = 1 /\ endedBy'[s] = done /\ sqlState[s] # "new"
      BY <3>1 DEF ObservedInv
    <3>7. \A s \in SqlStatements : s \notin listening[c] =>
            observed'[s] = observed[s] /\ endedBy'[s] = endedBy[s]
      BY <3>1
    <3>8. \A d \in Conns : \A s \in listening'[d] :
            on[s] = d /\ observed'[s] = 0 /\ sqlState'[s] # "new"
      BY <3>3, <3>4, <3>7 DEF ObservedInv
    <3>9. ASSUME NEW s \in SqlStatements
          PROVE  /\ sqlState'[s] = "new" => observed'[s] = 0
                 /\ sqlState'[s] = "running" => s \in listening'[on[s]] \/ observed'[s] = 1
                 /\ sqlState'[s] = "succeeded" => observed'[s] = 1
                 /\ observed'[s] <= 1
      <4>1. CASE s \in listening[c]
        BY <3>2, <3>3, <3>6, <4>1
      <4>2. CASE s \notin listening[c]
        <5>1. sqlState[s] = "running" => on[s] # c \/ observed[s] = 1
          BY <4>2 DEF ObservedInv
        <5>2. s = done => observed[s] = 1
          BY <3>2, <5>1
        <5>3. sqlState[s] = "running" => on[s] \in Conns
          BY DEF StackInv
        <5> QED
          BY <3>3, <3>4, <3>7, <4>2, <5>1, <5>2, <5>3 DEF ObservedInv
      <4> QED
        BY <4>1, <4>2
    <3>10. ASSUME NEW s \in SqlStatements, observed'[s] = 1
           PROVE  /\ endedBy'[s] \in SqlStatements /\ on[endedBy'[s]] = on[s]
                  /\ sqlState'[endedBy'[s]] = "succeeded"
      BY <3>2, <3>3, <3>6, <3>7, <3>10 DEF ObservedInv
    <3> QED
      BY <3>1, <3>2, <3>4, <3>5, <3>8, <3>9, <3>10 DEF ObservedInv
  <2>4. ASSUME NEW c \in Conns, FailExecute(c) PROVE StackInv' /\ ObservedInv'
    <3> DEFINE done == Last(stack[c])
    <3>1. sqlState' = [sqlState EXCEPT ![done] = "failed"] /\ UNCHANGED <<on, listening, observed, endedBy>>
      BY <2>4 DEF FailExecute
    <3>2. StackInv' /\ done \in SqlStatements /\ sqlState[done] = "running" /\ on[done] = c
      BY <2>4, Popped DEF FailExecute
    <3> HIDE DEF done
    <3>3. sqlState'[done] = "failed" /\ \A s \in SqlStatements \ {done} : sqlState'[s] = sqlState[s]
      BY <3>1, <3>2 DEF StackInv
    <3> QED
      BY <3>1, <3>2, <3>3 DEF ObservedInv
  <2>5. ASSUME NEW c \in Conns, GiveBack(c) PROVE StackInv' /\ ObservedInv'
    <3>1. \A s \in SqlStatements : sqlState[s] = "running" => on[s] \in Conns \ {c}
      BY <2>5 DEF GiveBack, StackInv
    <3>2. UNCHANGED <<on, sqlState, stack, observed, endedBy>>
      BY <2>5 DEF GiveBack
    <3>3. /\ listening' \in [Conns -> SUBSET SqlStatements] /\ listening'[c] = {}
          /\ \A d \in Conns \ {c} : listening'[d] = listening[d]
      BY <2>5 DEF GiveBack, ObservedInv
    <3>4. \A d \in Conns : \A s \in listening'[d] : s \in listening[d]
      BY <3>3
    <3>5. \A s \in SqlStatements : sqlState[s] = "running" => s \in listening'[on[s]] \/ observed[s] = 1
      BY <3>1, <3>3 DEF ObservedInv
    <3> QED
      BY <3>2, <3>3, <3>4, <3>5 DEF StackInv, ObservedInv
  <2> QED
    BY <2>1, <2>2, <2>3, <2>4, <2>5 DEF TimingNext
<1>3. Inv => ObservedOnce
  BY DEF ObservedInv, ObservedOnce
<1> QED
  BY <1>1, <1>2, <1>3, PTL DEF TimingSpec

\* The variables of SqlTiming have values of their types.
LEMMA TimingTypesAlways == TimingSpec => []TimingTypeOK
<1>1. TimingInit => TimingTypeOK
  BY DEF TimingInit, TimingTypeOK
<1>2. TimingTypeOK /\ [TimingNext]_timingVars => TimingTypeOK'
  <2> SUFFICES ASSUME TimingTypeOK, [TimingNext]_timingVars PROVE TimingTypeOK'
    OBVIOUS
  <2> USE DEF TimingTypeOK
  <2>1. CASE UNCHANGED timingVars
    BY <2>1 DEF timingVars
  <2>2. ASSUME NEW c \in Conns, NEW s \in SqlStatements, BeforeCursorExecute(s, c) PROVE TimingTypeOK'
    BY <2>2 DEF BeforeCursorExecute
  <2>3. ASSUME NEW c \in Conns, stack[c] # <<>>
        PROVE  Last(stack[c]) \in SqlStatements /\ Front(stack[c]) \in Seq(SqlStatements)
    BY <2>3 DEF Last, Front
  <2>4. ASSUME NEW c \in Conns, AfterCursorExecute(c) PROVE TimingTypeOK'
    BY <2>3, <2>4 DEF AfterCursorExecute
  <2>5. ASSUME NEW c \in Conns, FailExecute(c) PROVE TimingTypeOK'
    BY <2>3, <2>5 DEF FailExecute
  <2>6. ASSUME NEW c \in Conns, GiveBack(c) PROVE TimingTypeOK'
    BY <2>6 DEF GiveBack
  <2> QED
    BY <2>1, <2>2, <2>4, <2>5, <2>6 DEF TimingNext
<1> QED
  BY <1>1, <1>2, PTL DEF TimingSpec
------------------------------------------------------------------------------
(* SessionBinding.                                                           *)

\* Without a tween the two engines are one, or the factory decides and no engine is ever set.
LEMMA SetupFacts ==
  ASSUME setup \in Setups
  PROVE  /\ HasFactory => ~setup.tween
         /\ ~setup.tween => HasFactory \/ setup.ro = setup.rw
         /\ setup.rw = "main"
<1>1. PICK slave \in {"main", "replica"}, b \in BOOLEAN :
        setup \in {SetupSession(slave), CreateSession(slave, b), InitFactory(slave, b)}
  BY DEF Setups
<1>2. CASE setup = SetupSession(slave)
  BY <1>2 DEF SetupSession, HasFactory
<1>3. CASE setup = CreateSession(slave, b)
  BY <1>3 DEF CreateSession, HasFactory
<1>4. CASE setup = InitFactory(slave, b)
  BY <1>4 DEF InitFactory, HasFactory
<1> QED
  BY <1>1, <1>2, <1>3, <1>4

LEMMA SetupUrls == ASSUME setup \in Setups PROVE setup.rw \in Urls /\ setup.ro \in Urls
BY DEF Setups, SetupSession, CreateSession, InitFactory, Urls

\* The bindings of a check are of the engines that its type asks for.
LEMMA BindingFacts ==
  ASSUME asked \in EngineTypes
  PROVE  /\ Len(Bindings) \in 1..2
         /\ \A i \in 1..Len(Bindings) :
              /\ HasFactory => Bindings[i].engine = IF Bindings[i].readwrite THEN setup.rw ELSE setup.ro
              /\ Bindings[i].engine \in {setup.rw, setup.ro}
         /\ {Bindings[i].engine : i \in 1..Len(Bindings)} =
              (IF asked # "READ_ONLY" THEN {setup.rw} ELSE {}) \cup
              (IF asked # "WRITE_ONLY" THEN {setup.ro} ELSE {})
<1>1. CASE setup.rw = setup.ro \/ asked = "WRITE_ONLY"
  <2> DEFINE b == BindingClass(setup.rw, setup.rw, TRUE)
  <2>1. Bindings = <<b>>
    BY <1>1 DEF Bindings
  <2>2. b.engine = setup.rw /\ b.readwrite = TRUE
    BY DEF BindingClass
  <2> HIDE DEF b
  <2>3. Len(Bindings) = 1 /\ Bindings[1] = b
    BY <2>1
  <2> QED
    BY <1>1, <2>2, <2>3 DEF EngineTypes
<1>2. CASE setup.rw # setup.ro /\ asked = "READ_AND_WRITE"
  <2> DEFINE r == BindingClass(setup.ro, setup.rw, FALSE)
             w == BindingClass(setup.ro, setup.rw, TRUE)
  <2>1. Bindings = <<r, w>>
    BY <1>2 DEF Bindings
  <2>2. /\ r.readwrite = FALSE /\ w.readwrite = TRUE
        /\ HasFactory => r.engine = setup.ro /\ w.engine = setup.rw
        /\ ~HasFactory => r.engine = setup.rw /\ w.engine = setup.ro
    BY DEF BindingClass
  <2> HIDE DEF r, w
  <2>3. Len(Bindings) = 2 /\ Bindings[1] = r /\ Bindings[2] = w
    BY <2>1
  <2>4. \A i \in 1..Len(Bindings) : i = 1 \/ i = 2
    BY <2>3
  <2>5. {Bindings[i].engine : i \in 1..Len(Bindings)} = {r.engine, w.engine}
    BY <2>3, <2>4
  <2> QED
    BY <1>2, <2>2, <2>3, <2>4, <2>5
<1>3. CASE setup.rw # setup.ro /\ asked = "READ_ONLY"
  <2> DEFINE b == BindingClass(setup.ro, setup.ro, FALSE)
  <2>1. Bindings = <<b>>
    BY <1>3 DEF Bindings
  <2>2. b.engine = setup.ro /\ b.readwrite = FALSE
    BY DEF BindingClass
  <2> HIDE DEF b
  <2>3. Len(Bindings) = 1 /\ Bindings[1] = b
    BY <2>1
  <2> QED
    BY <1>3, <2>2, <2>3
<1> QED
  BY <1>1, <1>2, <1>3 DEF EngineTypes

\* The engine before a request is the master, and the one before a check that of the request.
BindInv ==
  /\ setup \in Setups /\ asked \in EngineTypes
  /\ DOMAIN bound = BindThreads /\ DOMAIN request = BindThreads /\ DOMAIN check = BindThreads
  /\ DOMAIN previous = 1..2
  /\ ~setup.tween => /\ \A t \in BindThreads : bound[t] = setup.rw
                     /\ \A i \in 1..2 : previous[i] = setup.rw
  /\ \A t \in BindThreads :
       /\ request[t].step = "idle" => check[t] = 0 /\ bound[t] = setup.rw
       /\ request[t].step = "handling" => request[t].old = setup.rw
       /\ check[t] # 0 => check[t] \in 1..Len(Bindings)
       /\ check[t] # 0 /\ ~HasFactory => bound[t] = Bindings[check[t]].engine
       /\ ~HasFactory => session[t] = "none"
       /\ request[t].step = "handling" /\ t \notin mixed =>
            IF check[t] = 0 \/ HasFactory THEN bound[t] = request[t].engine
            ELSE previous[check[t]] = request[t].engine

\* The engine that a check is to have from the factory.
Wanted(t) == IF t \in forced THEN setup.ro ELSE Bindings[check[t]].engine

\* A check that asked the factory finds the engine there until another thread sets one.
FactoryInv ==
  /\ DOMAIN session = BindThreads /\ factory \in Urls /\ setup.ro \in Urls /\ setup.rw \in Urls
  /\ HasFactory => \A t \in BindThreads : check[t] # 0 =>
       /\ session[t] # "none"
       /\ t \notin crossed => (IF session[t] = "calling" THEN factory ELSE session[t]) = Wanted(t)

LEMMA BindStep == BindInv /\ [BindNext]_bindVars => BindInv'
<1> SUFFICES ASSUME BindInv, [BindNext]_bindVars PROVE BindInv'
  OBVIOUS
<1>0. UNCHANGED <<setup, asked>>
  BY DEF BindNext, bindVars, Enter, CallFactory, CreateOne, EnterCheck, ExitCheck, Leave, SwitchReadonly
<1>1. /\ Bindings' = Bindings /\ HasFactory' = HasFactory
  BY <1>0 DEF Bindings, BindingClass, HasFactory
<1>2. /\ HasFactory => ~setup.tween
      /\ ~setup.tween => HasFactory \/ setup.ro = setup.rw
      /\ setup.rw = "main"
      /\ Len(Bindings) \in 1..2
      /\ \A i \in 1..Len(Bindings) : Bindings[i].engine \in {setup.rw, setup.ro}
  BY SetupFacts, BindingFacts DEF BindInv
<1>3. CASE UNCHANGED bindVars
  BY <1>1, <1>3 DEF bindVars, factoryVars, BindInv
<1>4. ASSUME NEW t \in BindThreads, NEW reads, NEW master_, NEW slave_, Enter(t, reads, master_, slave_)
      PROVE  BindInv'
  BY <1>0, <1>1, <1>4 DEF Enter, BindInv, factoryVars
<1>5. ASSUME NEW t \in BindThreads, NEW i \in 1..2, EnterCheck(t, i) PROVE BindInv'
  <2>1. CASE HasFactory
    BY <1>0, <1>1, <1>2, <1>5, <2>1 DEF EnterCheck, Configure, BindInv
  <2>2. CASE ~HasFactory
    BY <1>0, <1>1, <1>2, <1>5, <2>2 DEF EnterCheck, BindInv, factoryVars
  <2> QED
    BY <2>1, <2>2
<1>6. ASSUME NEW t \in BindThreads, ExitCheck(t) PROVE BindInv'
  <2>1. CASE HasFactory
    BY <1>0, <1>1, <1>2, <1>6, <2>1 DEF ExitCheck, BindInv
  <2>2. CASE ~HasFactory
    BY <1>0, <1>1, <1>2, <1>6, <2>2 DEF ExitCheck, BindInv
  <2> QED
    BY <2>1, <2>2
<1>7. ASSUME NEW t \in BindThreads, Leave(t) PROVE BindInv'
  BY <1>0, <1>1, <1>7 DEF Leave, BindInv, Idle
<1>8. CASE SwitchReadonly
  BY <1>0, <1>1, <1>8 DEF SwitchReadonly, BindInv, factoryVars
<1>9. ASSUME NEW t \in BindThreads, NEW reads, NEW master_, NEW slave_,
             CallFactory(t, reads, master_, slave_)
      PROVE  BindInv'
  BY <1>0, <1>1, <1>9 DEF CallFactory, Configure, BindInv
<1>10. ASSUME NEW t \in BindThreads, CreateOne(t) PROVE BindInv'
  BY <1>0, <1>1, <1>10 DEF CreateOne, BindInv
<1> QED
  BY <1>3, <1>4, <1>5, <1>6, <1>7, <1>8, <1>9, <1>10 DEF BindNext

LEMMA FactoryStep == BindInv /\ FactoryInv /\ [BindNext]_bindVars => FactoryInv'
<1> SUFFICES ASSUME BindInv, FactoryInv, [BindNext]_bindVars PROVE FactoryInv'
  OBVIOUS
<1>0. UNCHANGED <<setup, asked>>
  BY DEF BindNext, bindVars, Enter, CallFactory, CreateOne, EnterCheck, ExitCheck, Leave, SwitchReadonly
<1>1. Bindings' = Bindings /\ HasFactory' = HasFactory
  BY <1>0 DEF Bindings, BindingClass, HasFactory
<1>2. HasFactory => \A i \in 1..Len(Bindings) :
        Bindings[i].engine = IF Bindings[i].readwrite THEN setup.rw ELSE setup.ro
  BY BindingFacts DEF BindInv
<1>3. CASE UNCHANGED bindVars
  BY <1>0, <1>1, <1>3 DEF bindVars, factoryVars, FactoryInv, Wanted
<1>4. ASSUME NEW t \in BindThreads, NEW reads, NEW master_, NEW slave_, Enter(t, reads, master_, slave_)
      PROVE  FactoryInv'
  BY <1>0, <1>1, <1>4 DEF Enter, FactoryInv, Wanted, factoryVars
<1>5. ASSUME NEW t \in BindThreads, NEW i \in 1..2, EnterCheck(t, i) PROVE FactoryInv'
  <2>1. CASE HasFactory
    <3>1. /\ \A u \in BindThreads \ {t} : check'[u] = check[u] /\ session'[u] = session[u]
          /\ \A u \in BindThreads \ {t} : u \notin crossed' => u \notin crossed /\ session[u] # "calling"
          /\ \A u \in BindThreads \ {t} : u \in forced' <=> u \in forced
      <4>1. /\ check' = [check EXCEPT ![t] = i] /\ session' = [session EXCEPT ![t] = "calling"]
            /\ crossed' = (crossed \ {t}) \cup {u \in BindThreads \ {t} : session[u] = "calling"}
            /\ forced' = forced \cup {t} \/ forced' = forced \ {t}
        BY <1>5, <2>1 DEF EnterCheck, Configure
      <4>2. DOMAIN check = BindThreads /\ DOMAIN session = BindThreads
        BY DEF BindInv, FactoryInv
      <4> QED
        BY <4>1, <4>2
    <3>2. \A u \in BindThreads \ {t} : Wanted(u)' = Wanted(u)
      BY <1>0, <1>1, <3>1 DEF Wanted
    <3>3. /\ check'[t] = i /\ session'[t] = "calling" /\ factory' = Wanted(t)'
          /\ DOMAIN session' = BindThreads
      BY <1>0, <1>1, <1>2, <1>5, <2>1 DEF EnterCheck, Configure, Wanted, BindInv, FactoryInv
    <3>4. /\ factory' \in Urls /\ setup'.ro \in Urls /\ setup'.rw \in Urls
      <4>1. \/ factory' = setup.rw
            \/ factory' = setup.ro
        BY <1>5, <2>1 DEF EnterCheck, Configure
      <4> QED
        BY <1>0, <4>1 DEF FactoryInv
    <3>5. ASSUME NEW u \in BindThreads, check'[u] # 0
          PROVE  /\ session'[u] # "none"
                 /\ u \notin crossed'
                      => (IF session'[u] = "calling" THEN factory' ELSE session'[u]) = Wanted(u)'
      <4>1. CASE u = t
        BY <3>3, <4>1
      <4>2. CASE u # t
        <5>1. session[u] # "none"
              /\ (u \notin crossed => (IF session[u] = "calling" THEN factory ELSE session[u]) = Wanted(u))
          BY <2>1, <3>1, <3>5, <4>2 DEF FactoryInv
        <5> QED
          BY <3>1, <3>2, <4>2, <5>1
      <4> QED
        BY <4>1, <4>2
    <3> HIDE DEF Wanted
    <3> QED
      BY <3>3, <3>4, <3>5 DEF FactoryInv
  <2>2. CASE ~HasFactory
    BY <1>0, <1>1, <1>5, <2>2 DEF EnterCheck, FactoryInv, factoryVars
  <2> QED
    BY <2>1, <2>2
<1>6. ASSUME NEW t \in BindThreads, ExitCheck(t) PROVE FactoryInv'
  BY <1>0, <1>1, <1>6 DEF ExitCheck, FactoryInv, Wanted, BindInv
<1>7. ASSUME NEW t \in BindThreads, Leave(t) PROVE FactoryInv'
  BY <1>0, <1>1, <1>7 DEF Leave, FactoryInv, Wanted
<1>8. CASE SwitchReadonly
  BY <1>0, <1>1, <1>8 DEF SwitchReadonly, FactoryInv, Wanted, factoryVars
<1>9. ASSUME NEW t \in BindThreads, NEW reads, NEW master_, NEW slave_,
             CallFactory(t, reads, master_, slave_)
      PROVE  FactoryInv'
  <2>1. /\ check[t] = 0 /\ HasFactory /\ UNCHANGED <<check, forced>>
        /\ session' = [session EXCEPT ![t] = "calling"]
        /\ crossed' = (crossed \ {t}) \cup {u \in BindThreads \ {t} : session[u] = "calling"}
        /\ factory' = setup.rw \/ factory' = setup.ro
    BY <1>9 DEF CallFactory, Configure, EngineOf
  <2>2. \A u \in BindThreads : Wanted(u)' = Wanted(u)
    BY <1>0, <1>1, <2>1 DEF Wanted
  <2> HIDE DEF Wanted
  <2> QED
    BY <1>0, <1>1, <2>1, <2>2 DEF FactoryInv
<1>10. ASSUME NEW t \in BindThreads, CreateOne(t) PROVE FactoryInv'
  <2>1. /\ \A u \in BindThreads : Wanted(u)' = Wanted(u)
        /\ session'[t] = factory /\ session[t] = "calling"
        /\ \A u \in BindThreads \ {t} : session'[u] = session[u]
        /\ UNCHANGED <<check, crossed, factory>> /\ DOMAIN session' = BindThreads
    BY <1>0, <1>1, <1>10 DEF CreateOne, Wanted, FactoryInv
  <2>2. factory \in Urls /\ factory \notin {"none", "calling"}
    BY DEF FactoryInv, Urls
  <2>3. ASSUME HasFactory, NEW u \in BindThreads, check[u] # 0
        PROVE  /\ session'[u] # "none"
               /\ u \notin crossed
                    => (IF session'[u] = "calling" THEN factory ELSE session'[u]) = Wanted(u)
    <3>1. /\ session[u] # "none"
          /\ u \notin crossed => (IF session[u] = "calling" THEN factory ELSE session[u]) = Wanted(u)
      BY <2>3 DEF FactoryInv
    <3> HIDE DEF Wanted
    <3> QED
      BY <2>1, <2>2, <3>1
  <2>4. /\ factory' \in Urls /\ setup'.ro \in Urls /\ setup'.rw \in Urls
    BY <1>0, <2>1 DEF FactoryInv
  <2> HIDE DEF Wanted
  <2> QED
    BY <1>1, <2>1, <2>3, <2>4 DEF FactoryInv
<1> QED
  BY <1>3, <1>4, <1>5, <1>6, <1>7, <1>8, <1>9, <1>10 DEF BindNext

LEMMA BindAlways == BindSpec => [](BindInv /\ FactoryInv)
<1>1. BindInit => BindInv /\ FactoryInv
  <2> SUFFICES ASSUME BindInit PROVE BindInv /\ FactoryInv
    OBVIOUS
  <2>1. setup.rw = "main" /\ setup.ro \in Urls
    BY SetupFacts, SetupUrls DEF BindInit
  <2> QED
    BY <2>1 DEF BindInit, BindInv, FactoryInv, Idle, Urls
<1> QED
  BY <1>1, BindStep, FactoryStep, PTL DEF BindSpec

\* A thread has its engine back after each check that no other thread mixed with, and the
\* master after each request, whatever the checks did.
THEOREM EnginesComeBack == BindSpec => []BindComesBack
<1>1. BindInv => BindComesBack
  BY DEF BindInv, BindComesBack
<1> QED
  BY <1>1, BindAlways, PTL

\* The checks try the engines that their type asks for, and each the one it names, but for a
\* factory that is read-only or that another thread configured during the call.
THEOREM ChecksTryTheirEngines == BindSpec => []CheckTriesItsEngine
<1>1. BindInv /\ FactoryInv => CheckTriesItsEngine
  <2> SUFFICES ASSUME BindInv, FactoryInv PROVE CheckTriesItsEngine
    OBVIOUS
  <2>1. ASSUME NEW t \in BindThreads, check[t] # 0, session[t] # "calling", t \notin crossed
        PROVE  CheckedOn(t) = IF HasFactory /\ t \in forced THEN setup.ro ELSE Bindings[check[t]].engine
    BY <2>1 DEF BindInv, FactoryInv, Wanted, CheckedOn
  <2> QED
    BY <2>1, BindingFacts DEF BindInv, CheckTriesItsEngine
<1> QED
  BY <1>1, BindAlways, PTL

\* The variables of SessionBinding have values of their types.
LEMMA BindTypesAlways == BindSpec => []BindTypeOK
<1>1. BindInit => BindTypeOK
  <2> SUFFICES ASSUME BindInit PROVE BindTypeOK
    OBVIOUS
  <2>1. Idle \in [step : {"idle", "handling"}, engine : Urls, old : Urls] /\ "main" \in Urls
    BY DEF Idle, Urls
  <2>2. request \in [BindThreads -> [step : {"idle", "handling"}, engine : Urls, old : Urls]]
    BY <2>1 DEF BindInit
  <2>3. /\ bound \in [BindThreads -> Urls] /\ previous \in [1..2 -> Urls]
        /\ check \in [BindThreads -> 0..2] /\ switches \in 0..MaxSwitches
    BY <2>1, BindAssumption DEF BindInit
  <2> QED
    BY <2>1, <2>2, <2>3 DEF BindInit, BindTypeOK
<1>2. BindTypeOK /\ [BindNext]_bindVars => BindTypeOK'
  <2> SUFFICES ASSUME BindTypeOK, [BindNext]_bindVars PROVE BindTypeOK'
    OBVIOUS
  <2>1. /\ setup.rw \in Urls /\ setup.ro \in Urls
        /\ Len(Bindings) \in 1..2 /\ \A i \in 1..Len(Bindings) : Bindings[i].engine \in Urls
    BY SetupUrls, BindingFacts DEF BindTypeOK
  <2>2. CASE UNCHANGED bindVars
    BY <2>2 DEF bindVars, factoryVars, BindTypeOK
  <2>3. ASSUME NEW t \in BindThreads, NEW reads, NEW master_, NEW slave_, Enter(t, reads, master_, slave_)
        PROVE  BindTypeOK'
    BY <2>1, <2>3 DEF Enter, EngineOf, BindTypeOK, factoryVars
  <2>4. ASSUME NEW t \in BindThreads, NEW i \in 1..2, EnterCheck(t, i) PROVE BindTypeOK'
    <3>1. Bindings[i].engine \in Urls
      BY <2>1, <2>4 DEF EnterCheck
    <3>2. /\ factory' \in Urls /\ session' \in [BindThreads -> Urls \cup {"none", "calling"}]
          /\ forced' \subseteq BindThreads /\ crossed' \subseteq BindThreads
      BY <2>1, <2>4 DEF EnterCheck, Configure, BindTypeOK, factoryVars
    <3>3. bound' \in [BindThreads -> Urls] /\ previous' \in [1..2 -> Urls]
      BY <2>4, <3>1 DEF EnterCheck, BindTypeOK
    <3>4. /\ check' \in [BindThreads -> 0..2] /\ mixed' \subseteq BindThreads
          /\ UNCHANGED <<setup, asked, force, switches, request>>
      BY <2>4 DEF EnterCheck, BindTypeOK
    <3> HIDE DEF Setups, EngineTypes, Urls, HasFactory
    <3> QED
      BY <2>4, <3>2, <3>3, <3>4 DEF EnterCheck, BindTypeOK
  <2>5. ASSUME NEW t \in BindThreads, ExitCheck(t) PROVE BindTypeOK'
    <3>1. check[t] \in 1..2
      BY <2>5 DEF ExitCheck, BindTypeOK
    <3> QED
      BY <2>5, <3>1 DEF ExitCheck, BindTypeOK
  <2>6. ASSUME NEW t \in BindThreads, Leave(t) PROVE BindTypeOK'
    BY <2>6 DEF Leave, BindTypeOK, Idle, Urls
  <2>7. CASE SwitchReadonly
    BY <2>7, BindAssumption DEF SwitchReadonly, BindTypeOK, factoryVars
  <2>8. ASSUME NEW t \in BindThreads, NEW reads, NEW master_, NEW slave_,
               CallFactory(t, reads, master_, slave_)
        PROVE  BindTypeOK'
    BY <2>1, <2>8 DEF CallFactory, Configure, EngineOf, BindTypeOK
  <2>9. ASSUME NEW t \in BindThreads, CreateOne(t) PROVE BindTypeOK'
    BY <2>9 DEF CreateOne, BindTypeOK
  <2> QED
    BY <2>2, <2>3, <2>4, <2>5, <2>6, <2>7, <2>8, <2>9 DEF BindNext
<1> QED
  BY <1>1, <1>2, PTL DEF BindSpec
------------------------------------------------------------------------------
(* Access.                                                                   *)

\* With a secret a logout deletes the cookie; with GitHub it deletes both.  No request that was sent
\* since then without credentials is answered with a cookie.
OutInv ==
  /\ settings \in Flags
  /\ DOMAIN answer = Tabs
  /\ \A t \in Tabs : answer[t] # None /\ answer[t].does = "delete" => AuthType = "SECRET"
  /\ out => /\ AuthType = "SECRET" => cookie = None
            /\ AuthType = "GITHUB" => ~jwt
            /\ \A t \in after \cap Tabs : answer[t] # None => answer[t].does \notin {"set", "jwt"}

\* The session has the state of a login that no other tab overlapped, from the time it was written.
Waiting(t) == answer[t] # None /\ answer[t].does = "login"

StateInv ==
  /\ AccessTypeOK
  /\ \A t \in Tabs \ overlapped :
       /\ settings.session = "server" /\ Waiting(t) => state = answer[t].session
       /\ settings.session # "none" /\ ~Waiting(t) /\ flow[t] # 0 => state = flow[t]
  /\ \A t \in Tabs : /\ Waiting(t) => answer[t].session # 0
                     /\ answer[t] # None /\ answer[t].does = "mismatch" => t \in overlapped
                     /\ answer[t] # None /\ answer[t].session # 0 => Waiting(t) \/ flow[t] = 0

\* Who authenticates how is decided once, and a secret stays one.
LEMMA AuthTypeStays ==
  ASSUME settings \in Flags, AccessNext
  PROVE  /\ settings' \in Flags /\ AuthType' = AuthType
         /\ settings'.session = settings.session
<1>1. CASE UNCHANGED settings
  BY <1>1 DEF AuthType
<1>2. ASSUME NEW s \in Secrets, ChangeSecret(s)
      PROVE  settings' \in Flags /\ AuthType' = AuthType /\ settings'.session = settings.session
  <2>1. settings' = [settings EXCEPT !.secret = s] /\ settings.secret # None
    BY <1>2 DEF ChangeSecret, AuthType
  <2>2. settings' \in Flags /\ settings'.secret = s /\ settings'.session = settings.session
    BY <2>1 DEF Flags
  <2> QED
    BY <2>1, <2>2, NoneIsNothing DEF AuthType
<1> QED
  BY <1>1, <1>2 DEF AccessNext, GetIndex, GithubLogin, GithubCallback, GithubLogout, Receive,
                    ChangePermission

\* A response under way has a value, sections and a session of their types.
LEMMA AnswersAreSome ==
  ASSUME NEW does \in Effects, NEW value \in Secrets \cup {None},
         NEW shows \in SUBSET (Public \cup Protected), NEW written \in 0..MaxEvents
  PROVE  /\ [does |-> does, value |-> value, shows |-> shows, session |-> written] \in Answers
         /\ [does |-> does, value |-> value, shows |-> shows, session |-> written] # None
<1>1. [does |-> does, value |-> value, shows |-> shows, session |-> written] \in Answers
  BY DEF Answers
<1> QED
  BY <1>1, NoneIsNothing

LEMMA ResponseTypes ==
  ASSUME AccessTypeOK, NEW t \in Tabs, NEW does \in Effects, NEW value \in Secrets \cup {None},
         NEW shows \in SUBSET (Public \cup Protected), NEW written \in 0..MaxEvents,
         Respond(t, does, value, shows, written)
  PROVE  answer' \in [Tabs -> Answers \cup {None}]
BY AnswersAreSome DEF Respond, AccessTypeOK

\* The response of a callback: it writes the session as it was read, if at all.
LEMMA CallbackAnswers ==
  ASSUME NEW t \in Tabs, NEW refused, NEW again, GithubCallback(t, refused, again)
  PROVE  \E does \in {"nothing", "jwt", "mismatch"}, written \in {0, state} :
           /\ answer' = [answer EXCEPT ![t] = [does |-> does, value |-> None, shows |-> {}, session |-> written]]
           /\ does = "mismatch" => settings.session # "none" /\ (state = 0 \/ state # flow[t])
<1> DEFINE does == IF settings.session # "none" /\ (state = 0 \/ (~refused /\ state # flow[t]))
                   THEN "mismatch" ELSE IF refused THEN "nothing" ELSE "jwt"
           written == IF again /\ settings.session = "cookie" THEN state ELSE 0
<1>1. answer' = [answer EXCEPT ![t] = [does |-> does, value |-> None, shows |-> {}, session |-> written]]
  BY DEF GithubCallback, Respond
<1>2. /\ does \in {"nothing", "jwt", "mismatch"} /\ written \in {0, state}
      /\ does = "mismatch" => settings.session # "none" /\ (state = 0 \/ state # flow[t])
  OBVIOUS
<1> HIDE DEF does, written
<1> QED
  BY <1>1, <1>2

LEMMA AccessTypesAlways == AccessSpec => []AccessTypeOK
<1>1. AccessInit => AccessTypeOK
  <2> SUFFICES ASSUME AccessInit PROVE AccessTypeOK
    OBVIOUS
  <2>1. settings \in Flags /\ 0 \in 0..MaxEvents
    BY AccessAssumption DEF AccessInit
  <2> QED
    BY <2>1 DEF AccessInit, AccessTypeOK
<1>2. AccessTypeOK /\ [AccessNext]_accessVars => AccessTypeOK'
  <2> SUFFICES ASSUME AccessTypeOK, [AccessNext]_accessVars PROVE AccessTypeOK'
    OBVIOUS
  <2>0. 0 \in 0..MaxEvents /\ state \in 0..MaxEvents
    BY AccessAssumption DEF AccessTypeOK
  <2>1. CASE UNCHANGED accessVars
    BY <2>1 DEF accessVars, AccessTypeOK
  <2>2. ASSUME NEW t \in Tabs, NEW param, NEW header, GetIndex(t, param, header)
        PROVE  AccessTypeOK'
    <3> DEFINE user == IsAuthUser(param, header)
    <3>1. user.does \in Effects /\ user.value \in Secrets \cup {None}
      BY DEF IsAuthUser, IsAuthSecret, AuthType, AccessTypeOK, Flags, Effects
    <3>2. Sections(param, header) \in SUBSET (Public \cup Protected)
      BY DEF Sections
    <3>3. Respond(t, user.does, user.value, Sections(param, header), 0)
      BY <2>2 DEF GetIndex
    <3> HIDE DEF user
    <3>4. answer' \in [Tabs -> Answers \cup {None}]
      BY <2>0, <3>1, <3>2, <3>3, ResponseTypes
    <3> QED
      BY <2>2, <3>4 DEF GetIndex, AccessTypeOK
  <2>3. Event => events + 1 \in 0..MaxEvents /\ events' \in 0..MaxEvents
    BY AccessAssumption DEF Event, AccessTypeOK
  <2>4. ASSUME NEW t \in Tabs, GithubLogin(t) PROVE AccessTypeOK'
    <3>1. answer' \in [Tabs -> Answers \cup {None}]
      BY <2>3, <2>4, ResponseTypes DEF GithubLogin, Effects
    <3> QED
      BY <2>3, <2>4, <3>1 DEF GithubLogin, Overlaps, AccessTypeOK
  <2>5. ASSUME NEW t \in Tabs, NEW refused, NEW again, GithubCallback(t, refused, again)
        PROVE  AccessTypeOK'
    <3>1. PICK does \in Effects, written \in 0..MaxEvents : Respond(t, does, None, {}, written)
      BY <2>0, <2>5 DEF GithubCallback, Effects
    <3>2. answer' \in [Tabs -> Answers \cup {None}]
      BY <3>1, ResponseTypes
    <3> QED
      BY <2>0, <2>5, <3>2 DEF GithubCallback, AccessTypeOK
  <2>6. ASSUME NEW t \in Tabs, GithubLogout(t) PROVE AccessTypeOK'
    <3>1. answer' \in [Tabs -> Answers \cup {None}]
      BY <2>0, <2>6, ResponseTypes DEF GithubLogout, Effects
    <3> QED
      BY <2>6, <3>1 DEF GithubLogout, AccessTypeOK
  <2>7. ASSUME NEW t \in Tabs, Receive(t) PROVE AccessTypeOK'
    <3>1. answer[t] \in Answers
      BY <2>7 DEF Receive, AccessTypeOK
    <3>2. /\ answer[t].value \in Secrets \cup {None} /\ answer[t].shows \in SUBSET (Public \cup Protected)
          /\ answer[t].session \in 0..MaxEvents
      BY <3>1 DEF Answers
    <3>3. /\ cookie' \in Secrets \cup {None} /\ jwt' \in BOOLEAN /\ out' \in BOOLEAN
          /\ state' \in 0..MaxEvents /\ flow' \in [Tabs -> 0..MaxEvents]
      BY <2>7, <3>2 DEF Receive, AccessTypeOK
    <3>4. page' \in [Tabs -> SUBSET (Public \cup Protected)] /\ answer' \in [Tabs -> Answers \cup {None}]
      BY <2>7, <3>2 DEF Receive, AccessTypeOK
    <3>5. fresh' \subseteq Tabs /\ after' \subseteq Tabs /\ overlapped' \subseteq Tabs
      BY <2>7 DEF Receive, Overlaps, AccessTypeOK
    <3> QED
      BY <2>7, <3>3, <3>4, <3>5 DEF Receive, AccessTypeOK
  <2>8. ASSUME NEW s \in Secrets, ChangeSecret(s) PROVE AccessTypeOK'
    <3>1. settings' \in Flags
      BY <2>8 DEF ChangeSecret, AccessTypeOK, Flags
    <3> QED
      BY <2>3, <2>8, <3>1 DEF ChangeSecret, AccessTypeOK
  <2>9. CASE ChangePermission
    BY <2>3, <2>9 DEF ChangePermission, AccessTypeOK
  <2> QED
    BY <2>1, <2>2, <2>4, <2>5, <2>6, <2>7, <2>8, <2>9 DEF AccessNext
<1> QED
  BY <1>1, <1>2, PTL DEF AccessSpec

\* Nothing that the browser holds after a logout gives access, until it gets a cookie by new
\* credentials or by the late response to a request sent before.
THEOREM LogoutsHold == AccessSpec => []LogoutHolds
<1>1. AccessInit => OutInv
  BY DEF AccessInit, OutInv
<1>2. OutInv /\ [AccessNext]_accessVars => OutInv'
  <2> SUFFICES ASSUME OutInv, [AccessNext]_accessVars PROVE OutInv'
    OBVIOUS
  <2>1. CASE UNCHANGED accessVars
    BY <2>1 DEF accessVars, OutInv, AuthType
  <2>2. CASE AccessNext
    <3>1. settings' \in Flags /\ AuthType' = AuthType
      BY <2>2, AuthTypeStays DEF OutInv
    <3>2. ASSUME NEW t \in Tabs, NEW param, NEW header, GetIndex(t, param, header) PROVE OutInv'
      <4>1. /\ IsAuthUser(param, header).does = "delete" => AuthType = "SECRET"
            /\ IsAuthUser(param, header).does # "jwt"
        BY DEF IsAuthUser, IsAuthSecret, AuthType
      <4>2. /\ UNCHANGED <<out, cookie, jwt>>
            /\ after' = IF param = None /\ header = None THEN after \cup {t} ELSE after \ {t}
        BY <3>2 DEF GetIndex
      <4> DEFINE r == [does |-> IsAuthUser(param, header).does,
                       value |-> IsAuthUser(param, header).value,
                       shows |-> Sections(param, header), session |-> 0]
      <4>3. answer' = [answer EXCEPT ![t] = r]
        BY <3>2 DEF GetIndex, Respond
      <4>4. /\ r.does = "delete" => AuthType = "SECRET"
            /\ r.does # "jwt"
        BY <4>1
      <4>5. ASSUME out, param = None, header = None PROVE r.does # "set"
        <5>1. AuthType = "SECRET" => cookie = None
          BY <4>5 DEF OutInv
        <5>2. settings.secret # None \/ AuthType # "SECRET"
          BY DEF AuthType
        <5> QED
          BY <4>5, <5>1, <5>2 DEF IsAuthUser, IsAuthSecret, AuthType
      <4> HIDE DEF r
      <4> QED
        BY <3>1, <4>2, <4>3, <4>4, <4>5 DEF OutInv
    <3>3. ASSUME NEW t \in Tabs, GithubLogin(t) PROVE OutInv'
      <4> DEFINE r == [does |-> "login", value |-> None, shows |-> {}, session |-> events + 1]
      <4>1. answer' = [answer EXCEPT ![t] = r] /\ UNCHANGED <<out, cookie, jwt, after>>
        BY <3>3 DEF GithubLogin, Respond
      <4>2. r.does = "login"
        OBVIOUS
      <4> HIDE DEF r
      <4> QED
        BY <3>1, <4>1, <4>2 DEF OutInv
    <3>4. ASSUME NEW t \in Tabs, NEW refused, NEW again, GithubCallback(t, refused, again) PROVE OutInv'
      <4>1. PICK does \in {"nothing", "jwt", "mismatch"}, written \in {0, state} :
              answer' = [answer EXCEPT ![t] = [does |-> does, value |-> None, shows |-> {}, session |-> written]]
        BY <3>4, CallbackAnswers
      <4> DEFINE r == [does |-> does, value |-> None, shows |-> {}, session |-> written]
      <4>2. answer' = [answer EXCEPT ![t] = r] /\ r.does # "delete"
        BY <4>1
      <4>3. after' = after \ {t} /\ UNCHANGED <<out, cookie, jwt>>
        BY <3>4 DEF GithubCallback
      <4> HIDE DEF r
      <4> QED
        BY <3>1, <4>2, <4>3 DEF OutInv
    <3>5. ASSUME NEW t \in Tabs, GithubLogout(t) PROVE OutInv'
      <4> DEFINE r == [does |-> "forget", value |-> None, shows |-> {}, session |-> 0]
      <4>1. answer' = [answer EXCEPT ![t] = r] /\ UNCHANGED <<out, cookie, jwt, after>>
        BY <3>5 DEF GithubLogout, Respond
      <4>2. r.does = "forget"
        OBVIOUS
      <4> HIDE DEF r
      <4> QED
        BY <3>1, <4>1, <4>2 DEF OutInv
    <3>6. ASSUME NEW t \in Tabs, Receive(t) PROVE OutInv'
      <4> DEFINE does == answer[t].does
                 logout == does \in {"delete", "forget"}
      <4>1. /\ answer' = [answer EXCEPT ![t] = None] /\ answer[t] # None
            /\ out' = (logout \/ (out /\ (does \notin {"set", "jwt"} \/ t \in after)))
            /\ after' = IF logout THEN {} ELSE after
        BY <3>6 DEF Receive
      <4>2. /\ logout => cookie' = None
            /\ does = "forget" => jwt' = FALSE
            /\ does # "set" /\ ~logout => cookie' = cookie
            /\ does \notin {"jwt", "forget"} => jwt' = jwt
        BY <3>6 DEF Receive
      <4>3. does = "delete" => AuthType = "SECRET"
        BY <4>1 DEF OutInv
      <4>4. AuthType = "SECRET" => AuthType # "GITHUB"
        OBVIOUS
      <4>5. \A u \in Tabs : answer'[u] # None /\ answer'[u].does = "delete" => AuthType' = "SECRET"
        BY <3>1, <4>1 DEF OutInv
      <4>6. out' /\ ~logout => out /\ does \notin {"set", "jwt"}
        BY <4>1 DEF OutInv
      <4>7. out' => (AuthType = "SECRET" => cookie' = None) /\ (AuthType = "GITHUB" => ~jwt')
        BY <4>2, <4>3, <4>4, <4>6 DEF OutInv
      <4>8. out' => \A u \in after' \cap Tabs : answer'[u] # None => answer'[u].does \notin {"set", "jwt"}
        BY <4>1, <4>6 DEF OutInv
      <4> QED
        BY <3>1, <4>1, <4>5, <4>7, <4>8 DEF OutInv
    <3>7. ASSUME NEW s \in Secrets, ChangeSecret(s) PROVE OutInv'
      BY <3>1, <3>7 DEF ChangeSecret, OutInv
    <3>8. CASE ChangePermission
      BY <3>1, <3>8 DEF ChangePermission, OutInv
    <3> QED
      BY <2>2, <3>2, <3>3, <3>4, <3>5, <3>6, <3>7, <3>8 DEF AccessNext
  <2> QED
    BY <2>1, <2>2
<1>3. OutInv => LogoutHolds
  BY DEF OutInv, LogoutHolds, IsAuthUser, IsAuthSecret, AuthType
<1> QED
  BY <1>1, <1>2, <1>3, PTL DEF AccessSpec

\* A page made with the present secret and cookies shows protected sections to who has access.
FreshInv ==
  /\ settings \in Flags
  /\ DOMAIN answer = Tabs /\ DOMAIN page = Tabs
  /\ \A t \in fresh \cap Tabs :
       /\ answer[t] # None /\ answer[t].shows \cap Protected # {} =>
            /\ AuthType = "SECRET" => answer[t].does = "set" /\ answer[t].value = settings.secret
                                      /\ settings.secret # ""
            /\ AuthType = "GITHUB" => jwt /\ permitted
            /\ AuthType # "NONE"
       /\ answer[t] = None /\ page[t] \cap Protected # {} => CheckAccess(None, None)
  /\ fresh \subseteq Tabs

\* Access does not change but by the cookies, the secret and the permission.
LEMMA AccessMeans ==
  CheckAccess(None, None) <=>
    \/ AuthType = "SECRET" /\ cookie # "" /\ cookie = settings.secret
    \/ AuthType = "GITHUB" /\ jwt /\ permitted
BY DEF CheckAccess, IsAuthUser, IsAuthSecret, AuthType

LEMMA ShownMeans ==
  ASSUME NEW param, NEW header, Sections(param, header) \cap Protected # {}
  PROVE  /\ AuthType = "SECRET" => /\ IsAuthUser(param, header).does = "set"
                                   /\ IsAuthUser(param, header).value = settings.secret
                                   /\ settings.secret # ""
         /\ AuthType = "GITHUB" => jwt /\ permitted
         /\ AuthType # "NONE"
<1>1. CheckAccess(param, header)
  BY DEF Sections, Public, Protected
<1> QED
  BY <1>1 DEF CheckAccess, IsAuthUser, IsAuthSecret, AuthType

\* What the index page shows as a link is accepted, until a logout or a change of the settings.
THEOREM LinksAreAccepted == AccessSpec => []LinkedIsAccepted
<1>1. AccessInit => FreshInv
  BY DEF AccessInit, FreshInv
<1>2. AccessTypeOK /\ FreshInv /\ [AccessNext]_accessVars => FreshInv'
  <2> SUFFICES ASSUME AccessTypeOK, FreshInv, [AccessNext]_accessVars PROVE FreshInv'
    OBVIOUS
  <2>1. CASE UNCHANGED accessVars
    BY <2>1 DEF accessVars, FreshInv, AuthType, CheckAccess, IsAuthUser, IsAuthSecret
  <2>2. CASE AccessNext
    <3>1. settings' \in Flags /\ AuthType' = AuthType
      BY <2>2, AuthTypeStays DEF FreshInv
    <3>2. CheckAccess(None, None)' <=>
            \/ AuthType = "SECRET" /\ cookie' # "" /\ cookie' = settings'.secret
            \/ AuthType = "GITHUB" /\ jwt' /\ permitted'
      BY <3>1 DEF CheckAccess, IsAuthUser, IsAuthSecret, AuthType
    <3>3. ASSUME NEW t \in Tabs, NEW param, NEW header, GetIndex(t, param, header) PROVE FreshInv'
      <4> DEFINE r == [does |-> IsAuthUser(param, header).does,
                       value |-> IsAuthUser(param, header).value,
                       shows |-> Sections(param, header), session |-> 0]
      <4>1. /\ answer' = [answer EXCEPT ![t] = r] /\ fresh' = fresh \cup {t}
            /\ UNCHANGED <<settings, permitted, cookie, jwt, page>>
        BY <3>3 DEF GetIndex, Respond
      <4>2. r.shows \cap Protected # {} =>
              /\ AuthType = "SECRET" => r.does = "set" /\ r.value = settings.secret /\ settings.secret # ""
              /\ AuthType = "GITHUB" => jwt /\ permitted
              /\ AuthType # "NONE"
        BY ShownMeans
      <4>3. r # None
        <5>1. /\ IsAuthUser(param, header).does \in {"nothing", "set", "delete"}
              /\ IsAuthUser(param, header).value \in Secrets \cup {None}
          BY DEF IsAuthUser, IsAuthSecret, AuthType, FreshInv, Flags
        <5>2. Sections(param, header) \in SUBSET (Public \cup Protected)
          BY DEF Sections
        <5>3. r \in Answers
          BY <5>1, <5>2, AccessAssumption DEF Answers, Effects
        <5> QED
          BY <5>3, NoneIsNothing
      <4> HIDE DEF r
      <4>4. ASSUME NEW u \in fresh'
            PROVE  /\ answer'[u] # None /\ answer'[u].shows \cap Protected # {} =>
                        /\ AuthType = "SECRET" => answer'[u].does = "set" /\ answer'[u].value = settings.secret
                                                  /\ settings.secret # ""
                        /\ AuthType = "GITHUB" => jwt /\ permitted
                        /\ AuthType # "NONE"
                   /\ answer'[u] = None /\ page[u] \cap Protected # {} => CheckAccess(None, None)
        <5>1. CASE u = t
          BY <4>1, <4>2, <4>3, <5>1 DEF FreshInv
        <5>2. CASE u # t
          BY <4>1, <5>2 DEF FreshInv
        <5> QED
          BY <5>1, <5>2
      <4>5. CheckAccess(None, None)' <=> CheckAccess(None, None)
        BY <3>2, <4>1, AccessMeans
      <4> QED
        BY <3>1, <4>1, <4>4, <4>5 DEF FreshInv
    <3>4. ASSUME NEW t \in Tabs, NEW r, answer' = [answer EXCEPT ![t] = r], r # None, r.shows = {},
                 UNCHANGED <<settings, permitted, cookie, jwt, page, fresh>>
          PROVE  FreshInv'
      <4>1. CheckAccess(None, None)' <=> CheckAccess(None, None)
        BY <3>2, <3>4, AccessMeans
      <4> QED
        BY <3>1, <3>4, <4>1 DEF FreshInv
    <3>5. ASSUME NEW t \in Tabs, NEW refused, NEW again, GithubCallback(t, refused, again) PROVE FreshInv'
      <4>1. PICK does \in {"nothing", "jwt", "mismatch"}, written \in 0..MaxEvents :
              /\ answer' = [answer EXCEPT ![t] = [does |-> does, value |-> None, shows |-> {}, session |-> written]]
              /\ UNCHANGED <<settings, permitted, cookie, jwt, page, fresh>>
        <5>1. {0, state} \subseteq 0..MaxEvents
          BY AccessAssumption DEF AccessTypeOK
        <5>2. UNCHANGED <<settings, permitted, cookie, jwt, page, fresh>>
          BY <3>5 DEF GithubCallback
        <5> QED
          BY <3>5, <5>1, <5>2, CallbackAnswers
      <4> DEFINE r == [does |-> does, value |-> None, shows |-> {}, session |-> written]
      <4>2. r # None /\ r.shows = {} /\ answer' = [answer EXCEPT ![t] = r]
        BY <4>1, AnswersAreSome DEF Effects
      <4> HIDE DEF r
      <4> QED
        BY <3>4, <4>1, <4>2
    <3>6. ASSUME NEW t \in Tabs, GithubLogin(t) \/ GithubLogout(t) PROVE FreshInv'
      <4>1. PICK does \in {"login", "forget"}, written \in 0..MaxEvents :
              /\ answer' = [answer EXCEPT ![t] = [does |-> does, value |-> None, shows |-> {}, session |-> written]]
              /\ UNCHANGED <<settings, permitted, cookie, jwt, page, fresh>>
        <5>1. 0 \in 0..MaxEvents /\ (Event => events + 1 \in 0..MaxEvents)
          BY AccessAssumption DEF Event, AccessTypeOK
        <5>2. CASE GithubLogin(t)
          BY <5>1, <5>2 DEF GithubLogin, Respond
        <5>3. CASE GithubLogout(t)
          BY <5>1, <5>3 DEF GithubLogout, Respond
        <5> QED
          BY <3>6, <5>2, <5>3
      <4> DEFINE r == [does |-> does, value |-> None, shows |-> {}, session |-> written]
      <4>2. r # None /\ r.shows = {} /\ answer' = [answer EXCEPT ![t] = r]
        BY <4>1, AnswersAreSome DEF Effects
      <4> HIDE DEF r
      <4> QED
        BY <3>4, <4>1, <4>2
    <3>7. ASSUME NEW t \in Tabs, Receive(t) PROVE FreshInv'
      <4> DEFINE does == answer[t].does
      <4>1. /\ answer[t] # None /\ answer' = [answer EXCEPT ![t] = None]
            /\ page' = [page EXCEPT ![t] = answer[t].shows]
            /\ UNCHANGED <<settings, permitted>>
        BY <3>7 DEF Receive
      <4>2. /\ does = "set" => cookie' = answer[t].value
            /\ does \in {"delete", "forget"} => fresh' = {}
            /\ does = "set" /\ answer[t].value # settings.secret => fresh' = {}
            /\ does \notin {"set", "delete", "forget"} => cookie' = cookie
            /\ does \notin {"delete", "forget"} /\ jwt => jwt'
            /\ fresh' \subseteq fresh
        BY <3>7 DEF Receive
      <4>3. CASE fresh' = {}
        BY <3>1, <4>1, <4>3 DEF FreshInv
      <4>4. CASE fresh' # {}
        <5>1. /\ does \notin {"delete", "forget"}
              /\ does = "set" => cookie' = settings.secret
              /\ does # "set" => cookie' = cookie
              /\ jwt => jwt'
          BY <4>2, <4>4
        <5>2. settings.secret # "" /\ AuthType = "SECRET" /\ does = "set" => CheckAccess(None, None)'
          BY <3>2, <4>1, <5>1
        <5>3. CheckAccess(None, None) => CheckAccess(None, None)'
          BY <3>2, <4>1, <5>1, AccessMeans
        <5>4. AuthType = "GITHUB" /\ jwt /\ permitted => CheckAccess(None, None)'
          BY <3>2, <4>1, <5>1
        <5>5. AuthType \in {"SECRET", "GITHUB", "NONE"}
          BY DEF AuthType
        <5> HIDE DEF does
        <5>6. ASSUME NEW u \in fresh', u # t
              PROVE  /\ answer'[u] = answer[u] /\ page'[u] = page[u] /\ u \in fresh \cap Tabs
          BY <4>1, <4>2, <5>6 DEF FreshInv
        <5>7. ASSUME t \in fresh', page'[t] \cap Protected # {} PROVE CheckAccess(None, None)'
          BY <4>1, <4>2, <5>2, <5>4, <5>5, <5>7 DEF FreshInv, does
        <5>8. answer'[t] = None
          BY <4>1 DEF FreshInv
        <5>9. ASSUME NEW u \in fresh', u # t
              PROVE  /\ answer'[u] # None /\ answer'[u].shows \cap Protected # {} =>
                          /\ AuthType = "SECRET" => answer'[u].does = "set"
                                                    /\ answer'[u].value = settings.secret
                                                    /\ settings.secret # ""
                          /\ AuthType = "GITHUB" => jwt' /\ permitted
                          /\ AuthType # "NONE"
                     /\ answer'[u] = None /\ page'[u] \cap Protected # {} => CheckAccess(None, None)'
          BY <5>1, <5>3, <5>6, <5>9 DEF FreshInv
        <5>10. /\ DOMAIN answer' = Tabs /\ DOMAIN page' = Tabs /\ fresh' \subseteq Tabs
          BY <4>1, <4>2 DEF FreshInv
        <5> QED
          BY <3>1, <4>1, <5>7, <5>8, <5>9, <5>10 DEF FreshInv
      <4> QED
        BY <4>3, <4>4
    <3>8. ASSUME NEW s \in Secrets, ChangeSecret(s) PROVE FreshInv'
      BY <3>1, <3>8 DEF ChangeSecret, FreshInv
    <3>9. CASE ChangePermission
      BY <3>1, <3>9 DEF ChangePermission, FreshInv
    <3> QED
      BY <2>2, <3>3, <3>5, <3>6, <3>7, <3>8, <3>9 DEF AccessNext
  <2> QED
    BY <2>1, <2>2
<1>3. FreshInv => LinkedIsAccepted
  BY DEF FreshInv, LinkedIsAccepted
<1> QED
  BY <1>1, <1>2, <1>3, AccessTypesAlways, PTL DEF AccessSpec

\* A login that no other tab overlaps is not refused for its state.
THEOREM LoneLoginsComplete == AccessSpec => []LoneLoginCompletes
<1>1. AccessInit => StateInv
  <2> SUFFICES ASSUME AccessInit PROVE StateInv
    OBVIOUS
  <2>1. AccessTypeOK
    <3>1. settings \in Flags /\ 0 \in 0..MaxEvents
      BY AccessAssumption DEF AccessInit
    <3> QED
      BY <3>1 DEF AccessInit, AccessTypeOK
  <2> QED
    BY <2>1 DEF AccessInit, StateInv, Waiting
<1>2. AccessTypeOK' /\ StateInv /\ [AccessNext]_accessVars => StateInv'
  <2> SUFFICES ASSUME AccessTypeOK', StateInv, [AccessNext]_accessVars PROVE StateInv'
    OBVIOUS
  <2>1. CASE UNCHANGED accessVars
    BY <2>1 DEF accessVars, StateInv, Waiting
  <2>2. CASE AccessNext
    <3>1. settings' \in Flags /\ settings'.session = settings.session
      BY <2>2, AuthTypeStays DEF StateInv, AccessTypeOK
    <3>2. ASSUME NEW t \in Tabs, NEW r, answer' = [answer EXCEPT ![t] = r],
                 answer[t] = None, r.does \notin {"login", "mismatch"}, r.session = 0,
                 UNCHANGED <<state, flow, overlapped>>
          PROVE  StateInv'
      <4>1. answer'[t] = r /\ \A u \in Tabs \ {t} : answer'[u] = answer[u]
        BY <3>2 DEF StateInv, AccessTypeOK
      <4>2. \A u \in Tabs : Waiting(u)' <=> Waiting(u)
        BY <3>2, <4>1 DEF Waiting
      <4>3. \A u \in Tabs \ overlapped' :
              /\ settings.session = "server" /\ Waiting(u)' => state' = answer'[u].session
              /\ settings.session # "none" /\ ~Waiting(u)' /\ flow'[u] # 0 => state' = flow'[u]
        BY <3>2, <4>1, <4>2 DEF StateInv, Waiting
      <4>4. \A u \in Tabs : Waiting(u)' => answer'[u].session # 0
        BY <3>2, <4>1, <4>2 DEF StateInv, Waiting
      <4>5. \A u \in Tabs : answer'[u] # None /\ answer'[u].does = "mismatch" => u \in overlapped'
        BY <3>2, <4>1 DEF StateInv
      <4>6. \A u \in Tabs : answer'[u] # None /\ answer'[u].session # 0 => Waiting(u)' \/ flow'[u] = 0
        BY <3>2, <4>1, <4>2 DEF StateInv
      <4> QED
        BY <3>1, <4>3, <4>4, <4>5, <4>6 DEF StateInv
    <3>3. ASSUME NEW t \in Tabs, NEW param, NEW header, GetIndex(t, param, header) PROVE StateInv'
      <4>1. IsAuthUser(param, header).does \notin {"login", "mismatch"}
        BY DEF IsAuthUser, IsAuthSecret, AuthType
      <4> DEFINE r == [does |-> IsAuthUser(param, header).does,
                       value |-> IsAuthUser(param, header).value,
                       shows |-> Sections(param, header), session |-> 0]
      <4>2. /\ answer' = [answer EXCEPT ![t] = r] /\ answer[t] = None
            /\ UNCHANGED <<state, flow, overlapped>>
        BY <3>3 DEF GetIndex, Respond
      <4>3. r.does \notin {"login", "mismatch"} /\ r.session = 0
        BY <4>1
      <4> HIDE DEF r
      <4> QED
        BY <3>2, <4>2, <4>3
    <3>4. ASSUME NEW t \in Tabs, GithubLogin(t) PROVE StateInv'
      <4> DEFINE r == [does |-> "login", value |-> None, shows |-> {}, session |-> events + 1]
      <4>1. /\ answer' = [answer EXCEPT ![t] = r] /\ answer[t] = None
            /\ state' = IF settings.session = "server" THEN events + 1 ELSE state
            /\ overlapped' = IF settings.session = "server" THEN Overlaps(t) ELSE overlapped \ {t}
            /\ flow' = flow
        BY <3>4 DEF GithubLogin, Respond
      <4>2. r.does = "login" /\ r.session = events + 1 /\ events + 1 # 0 /\ r # None
        <5>1. events + 1 \in 0..MaxEvents /\ events + 1 # 0
          BY <3>4, AccessAssumption DEF GithubLogin, Event, StateInv, AccessTypeOK
        <5> QED
          BY <5>1, AnswersAreSome DEF Effects
      <4> HIDE DEF r
      <4>3. answer'[t] = r /\ \A u \in Tabs \ {t} : answer'[u] = answer[u]
        BY <4>1 DEF StateInv, AccessTypeOK
      <4>4. Waiting(t)' /\ \A u \in Tabs \ {t} : Waiting(u)' <=> Waiting(u)
        BY <4>2, <4>3 DEF Waiting
      <4>5. ASSUME NEW u \in Tabs \ {t}, u \notin overlapped'
            PROVE  /\ settings.session = "server" /\ Waiting(u)' => state' = answer'[u].session
                   /\ settings.session # "none" /\ ~Waiting(u)' /\ flow'[u] # 0 => state' = flow'[u]
        <5>1. CASE settings.session = "server"
          BY <4>1, <4>4, <4>5, <5>1 DEF Overlaps, LoggingIn, Waiting
        <5>2. CASE settings.session # "server"
          BY <4>1, <4>4, <4>5, <5>2 DEF StateInv
        <5> QED
          BY <5>1, <5>2
      <4>6. settings.session = "server" => state' = answer'[t].session
        BY <4>1, <4>2, <4>3
      <4>7. \A u \in Tabs : answer'[u] # None /\ answer'[u].does = "mismatch" => u \in overlapped'
        BY <4>1, <4>2, <4>3 DEF StateInv, Overlaps
      <4>8. \A u \in Tabs : Waiting(u)' => answer'[u].session # 0
        BY <4>2, <4>3, <4>4 DEF StateInv
      <4>9. \A u \in Tabs : answer'[u] # None /\ answer'[u].session # 0 => Waiting(u)' \/ flow'[u] = 0
        BY <4>1, <4>3, <4>4 DEF StateInv
      <4> QED
        BY <3>1, <4>4, <4>5, <4>6, <4>7, <4>8, <4>9 DEF StateInv
    <3>5. ASSUME NEW t \in Tabs, NEW refused, NEW again, GithubCallback(t, refused, again) PROVE StateInv'
      <4>0. PICK does \in {"nothing", "jwt", "mismatch"}, written \in {0, state} :
              /\ answer' = [answer EXCEPT ![t] = [does |-> does, value |-> None, shows |-> {}, session |-> written]]
              /\ does = "mismatch" => settings.session # "none" /\ (state = 0 \/ state # flow[t])
        BY <3>5, CallbackAnswers
      <4> DEFINE r == [does |-> does, value |-> None, shows |-> {}, session |-> written]
      <4>1. /\ answer' = [answer EXCEPT ![t] = r] /\ r.does # "login"
            /\ r.does = "mismatch" => settings.session # "none" /\ (state = 0 \/ state # flow[t])
        BY <4>0
      <4> HIDE DEF r
      <4>2. /\ flow[t] # 0 /\ answer[t] = None /\ flow' = [flow EXCEPT ![t] = 0]
            /\ UNCHANGED <<state, overlapped>>
        BY <3>5 DEF GithubCallback
      <4>3. answer'[t] = r /\ \A u \in Tabs \ {t} : answer'[u] = answer[u] /\ flow'[u] = flow[u]
        BY <4>1, <4>2 DEF StateInv, AccessTypeOK
      <4>4. /\ flow'[t] = 0 /\ ~Waiting(t) /\ ~Waiting(t)'
            /\ \A u \in Tabs \ {t} : Waiting(u)' <=> Waiting(u)
        BY <4>1, <4>2, <4>3 DEF Waiting, StateInv, AccessTypeOK
      <4>5. r.does = "mismatch" => t \in overlapped
        BY <4>1, <4>2, <4>4 DEF StateInv
      <4> QED
        BY <3>1, <4>2, <4>3, <4>4, <4>5 DEF StateInv
    <3>6. ASSUME NEW t \in Tabs, GithubLogout(t) PROVE StateInv'
      <4> DEFINE r == [does |-> "forget", value |-> None, shows |-> {}, session |-> 0]
      <4>1. /\ answer' = [answer EXCEPT ![t] = r] /\ answer[t] = None
            /\ UNCHANGED <<state, flow, overlapped>>
        BY <3>6 DEF GithubLogout, Respond
      <4>2. r.does \notin {"login", "mismatch"} /\ r.session = 0
        OBVIOUS
      <4> HIDE DEF r
      <4> QED
        BY <3>2, <4>1, <4>2
    <3>7. ASSUME NEW t \in Tabs, Receive(t) PROVE StateInv'
      <4> DEFINE writes == settings.session = "cookie" /\ answer[t].session # 0
      <4>1. /\ answer[t] # None /\ answer' = [answer EXCEPT ![t] = None]
            /\ state' = IF writes THEN answer[t].session ELSE state
            /\ flow' = IF answer[t].does = "login" THEN [flow EXCEPT ![t] = answer[t].session] ELSE flow
            /\ overlapped' = IF writes THEN Overlaps(t) ELSE overlapped
        BY <3>7 DEF Receive
      <4>2. /\ answer'[t] = None /\ ~Waiting(t)'
            /\ \A u \in Tabs \ {t} : /\ answer'[u] = answer[u] /\ flow'[u] = flow[u]
                                     /\ Waiting(u)' <=> Waiting(u)
        BY <4>1 DEF StateInv, AccessTypeOK, Waiting
      <4>3. flow'[t] = IF Waiting(t) THEN answer[t].session ELSE flow[t]
        BY <4>1 DEF StateInv, AccessTypeOK, Waiting
      <4>4. settings.session \in {"none", "cookie", "server"}
        BY DEF StateInv, AccessTypeOK, Flags
      <4>5. ASSUME NEW u \in Tabs \ {t}, u \notin overlapped'
            PROVE  /\ settings.session = "server" /\ Waiting(u)' => state' = answer'[u].session
                   /\ settings.session # "none" /\ ~Waiting(u)' /\ flow'[u] # 0 => state' = flow'[u]
        <5>1. CASE writes
          BY <4>1, <4>2, <4>5, <5>1 DEF Overlaps, LoggingIn
        <5>2. CASE ~writes
          BY <4>1, <4>2, <4>5, <5>2 DEF StateInv
        <5> QED
          BY <5>1, <5>2
      <4>6. ASSUME t \notin overlapped', settings.session # "none", flow'[t] # 0 PROVE state' = flow'[t]
        <5>1. CASE writes /\ Waiting(t)
          BY <4>1, <4>3, <5>1
        <5>2. CASE writes /\ ~Waiting(t)
          BY <4>1, <4>3, <4>6, <5>2 DEF StateInv
        <5>3. CASE ~writes
          BY <4>1, <4>3, <4>4, <4>6, <5>3 DEF StateInv
        <5> QED
          BY <5>1, <5>2, <5>3
      <4>7. \A u \in Tabs : answer'[u] # None /\ answer'[u].does = "mismatch" => u \in overlapped'
        BY <4>1, <4>2 DEF StateInv, Overlaps
      <4>8. \A u \in Tabs : Waiting(u)' => answer'[u].session # 0
        BY <4>2 DEF StateInv
      <4>9. \A u \in Tabs : answer'[u] # None /\ answer'[u].session # 0 => Waiting(u)' \/ flow'[u] = 0
        BY <4>2 DEF StateInv
      <4> QED
        BY <3>1, <4>2, <4>5, <4>6, <4>7, <4>8, <4>9 DEF StateInv
    <3>8. ASSUME NEW s \in Secrets, ChangeSecret(s) PROVE StateInv'
      BY <3>1, <3>8 DEF ChangeSecret, StateInv, Waiting
    <3>9. CASE ChangePermission
      BY <3>1, <3>9 DEF ChangePermission, StateInv, Waiting
    <3> QED
      BY <2>2, <3>3, <3>4, <3>5, <3>6, <3>7, <3>8, <3>9 DEF AccessNext
  <2> QED
    BY <2>1, <2>2
<1>3. StateInv => LoneLoginCompletes
  BY DEF StateInv, LoneLoginCompletes
<1> QED
  BY <1>1, <1>2, <1>3, AccessTypesAlways, PTL DEF AccessSpec

------------------------------------------------------------------------------
(* RequestPath.                                                              *)

\* A status of 500 or more comes from an exception that counts as one, from request.response,
\* or from a response that is of neither.
CountInv ==
  /\ counted \in Seq({"route", "render"} \X Nat) /\ callbacks \in Seq({"route", "render"})
  /\ status \in Nat /\ kept \in Nat /\ exception \in Errors \cup {NoError}
  /\ phase \in {"view", "error", "render", "finished"}
  /\ phase \in {"render", "finished"} /\ author \in {"data", "error"} /\ status >= 500 =>
       CountedStatus >= 500
  /\ phase = "render" => author \in {"data", "error"}
  /\ phase # "finished" => counted = <<>>
  /\ phase = "view" => exception = NoError
  /\ author \in {"data", "error"} /\ status >= 500 =>
       \A i \in 1..Len(counted) : counted[i][2] >= 500
  /\ shown \subseteq logged \cup {"stacktrace"}

\* A request of which the data or the error view answers with a failure of the server is
\* counted as one.
THEOREM FailuresAreCounted == PathSpec => []FailureIsCounted
<1>1. PathInit => CountInv
  BY DEF PathInit, CountInv
<1>2. CountInv /\ [PathNext]_pathVars => CountInv'
  <2> SUFFICES ASSUME CountInv, [PathNext]_pathVars PROVE CountInv'
    OBVIOUS
  <2>1. CASE UNCHANGED pathVars
    BY <2>1 DEF pathVars, CountInv, CountedStatus
  <2>2. ASSUME NEW code \in {200, 204, 500}, ViewReturns(code) \/ ViewResponds(code)
        PROVE CountInv'
    BY <2>2 DEF ViewReturns, ViewResponds, CountInv, CountedStatus
  <2>3. ASSUME NEW code \in {200, 204, 500}, NEW e \in Errors, ViewRaises(e, code)
        PROVE CountInv'
    BY <2>3 DEF ViewRaises, CountInv
  <2>4. CASE HttpError
    BY <2>4 DEF HttpError, CountInv, CountedStatus, Errors, NoError
  <2>5. CASE IntegrityError
    BY <2>5 DEF IntegrityError, DoError, CountInv, CountedStatus, NoError
  <2>6. CASE ClientInterrupted
    BY <2>6 DEF ClientInterrupted, DoError, CountInv, CountedStatus, NoError
  <2>7. CASE BotoClientError
    BY <2>7 DEF BotoClientError, DoError, CountInv, CountedStatus, Errors, NoError
  <2>70. CASE BotoClientErrorFails
    BY <2>70 DEF BotoClientErrorFails, ErrorViewFails, CountInv, CountedStatus
  <2>8. CASE OtherError
    BY <2>8 DEF OtherError, DoError, CountInv, CountedStatus, NoError
  <2>9. CASE Passthrough
    BY <2>9 DEF Passthrough, CountInv, CountedStatus, Errors, NoError
  <2>10. CASE Render
    BY <2>10 DEF Render, CountInv, CountedStatus
  <2>11. CASE RenderFails
    BY <2>11 DEF RenderFails, ErrorViewFails, CountInv, CountedStatus, Errors
  <2>12. CASE Finish
    <3>1. CountedStatus \in Nat
      BY DEF CountInv, CountedStatus, Errors, NoError
    <3>2. /\ Head(callbacks) \in {"route", "render"} /\ Tail(callbacks) \in Seq({"route", "render"})
          /\ phase = "finished" /\ callbacks' = Tail(callbacks)
          /\ counted' = Append(counted, <<Head(callbacks), CountedStatus>>)
          /\ UNCHANGED <<incoming, phase, exception, kept, status, author, shown, logged>>
      BY <2>12 DEF Finish, CountInv
    <3>3. /\ counted' \in Seq({"route", "render"} \X Nat) /\ Len(counted') = Len(counted) + 1
          /\ counted'[Len(counted) + 1][2] = CountedStatus
          /\ \A i \in 1..Len(counted) : counted'[i] = counted[i]
          /\ Len(counted) \in Nat
      BY <3>1, <3>2 DEF CountInv
    <3>4. CountedStatus' = CountedStatus
      BY <3>2 DEF CountedStatus
    <3>5. author \in {"data", "error"} /\ status >= 500 => \A i \in 1..Len(counted') : counted'[i][2] >= 500
      BY <3>2, <3>3 DEF CountInv
    <3> QED
      BY <3>2, <3>3, <3>4, <3>5 DEF CountInv
  <2>13. CASE NextRequest
    BY <2>13 DEF NextRequest, NewRequest, CountInv
  <2> QED
    BY <2>1, <2>2, <2>3, <2>4, <2>5, <2>6, <2>7, <2>70, <2>8, <2>9, <2>10, <2>11, <2>12, <2>13
       DEF PathNext
<1>3. CountInv => FailureIsCounted
  BY DEF CountInv, FailureIsCounted
<1> QED
  BY <1>1, <1>2, <1>3, PTL DEF PathSpec


\* The variables of the request path have values of their types.
LEMMA PathTypesAlways == PathSpec => []PathTypeOK
<1>1. PathInit => PathTypeOK
  BY PathAssumption DEF PathInit, PathTypeOK
<1>2. PathTypeOK /\ [PathNext]_pathVars => PathTypeOK'
  <2> SUFFICES ASSUME PathTypeOK, [PathNext]_pathVars PROVE PathTypeOK'
    OBVIOUS
  <2> USE DEF PathTypeOK
  <2>0. /\ \A e \in Errors : e # NoError /\ e.code \in {0, 204, 302, 401, 404, 500, 503}
        /\ \A e \in Errors : e.kind = "http" => e.code # 0
        /\ \A e \in Errors : e.kind = "boto" => e.code \in {0, 404, 503}
    BY DEF Errors, NoError
  <2>00. exception.kind # "none" => exception \in Errors
    BY DEF NoError
  <2>1. CASE UNCHANGED pathVars
    BY <2>1 DEF pathVars
  <2>2. ASSUME NEW code \in {200, 204, 500}, ViewReturns(code) \/ ViewResponds(code)
        PROVE PathTypeOK'
    <3>1. status' \in {200, 204, 302, 400, 401, 404, 500, 503} /\ kept' \in {200, 204, 500}
      BY <2>2 DEF ViewReturns, ViewResponds
    <3>2. /\ phase' \in {"view", "error", "render", "finished"}
          /\ author' \in {"nobody", "data", "view", "error", "server"}
          /\ UNCHANGED <<incoming, exception, callbacks, counted, shown, logged, served>>
      BY <2>2 DEF ViewReturns, ViewResponds
    <3> QED
      BY <3>1, <3>2
  <2>3. ASSUME NEW code \in {200, 204, 500}, NEW e \in Errors, ViewRaises(e, code)
        PROVE PathTypeOK'
    BY <2>0, <2>3 DEF ViewRaises
  <2>4. CASE HttpError
    <3>1. exception \in Errors /\ exception # NoError
      BY <2>0, <2>00, <2>4 DEF HttpError
    <3>2. exception.code \in {401, 404, 500, 503}
      <4>1. exception.code \in {0, 204, 302, 401, 404, 500, 503} /\ exception.code >= 400
        BY <2>0, <2>4, <3>1 DEF HttpError
      <4> QED
        BY <4>1
    <3>3. /\ status' \in {200, exception.code} /\ phase' \in {"finished", "render"}
          /\ shown' \in {shown, {"message"}} /\ logged' \in {logged, {"message"}}
          /\ author' = "error" /\ UNCHANGED <<incoming, exception, kept, callbacks, counted, served>>
      BY <2>4 DEF HttpError
    <3> QED
      BY <3>1, <3>2, <3>3
  <2>5. CASE IntegrityError \/ ClientInterrupted \/ BotoClientError \/ OtherError
    <3>1. exception \in Errors /\ exception # NoError
      BY <2>0, <2>00, <2>5 DEF IntegrityError, ClientInterrupted, BotoClientError, OtherError
    <3> QED
      BY <2>0, <2>5, <3>1 DEF IntegrityError, ClientInterrupted, BotoClientError, OtherError, DoError
  <2>50. CASE BotoClientErrorFails
    BY <2>50 DEF BotoClientErrorFails, ErrorViewFails
  <2>6. CASE Passthrough
    <3>1. exception \in Errors /\ exception # NoError
      BY <2>0, <2>00, <2>6 DEF Passthrough
    <3> QED
      BY <2>0, <2>6, <3>1 DEF Passthrough
  <2>7. CASE Render
    BY <2>7 DEF Render
  <2>8. CASE RenderFails
    <3>1. [kind |-> "other", code |-> 0] \in Errors
      BY DEF Errors
    <3>2. exception' \in Errors \cup {NoError}
      BY <2>8, <3>1 DEF RenderFails, ErrorViewFails
    <3>3. callbacks' \in Seq({"route", "render"}) /\ UNCHANGED <<incoming, kept, counted, logged, served>>
      BY <2>8 DEF RenderFails
    <3>4. status' \in {status, 500} /\ phase' \in {"error", "finished"}
      BY <2>8 DEF RenderFails, ErrorViewFails
    <3>5. author' \in {author, "server"} /\ shown' \in {shown, {}}
      BY <2>8 DEF RenderFails, ErrorViewFails
    <3> QED
      BY <3>2, <3>3, <3>4, <3>5
  <2>9. CASE Finish
    <3>1. CountedStatus \in {200, 204, 302, 401, 404, 500, 503, 599}
      BY <2>0 DEF CountedStatus
    <3>2. Head(callbacks) \in {"route", "render"} /\ Tail(callbacks) \in Seq({"route", "render"})
      BY <2>9 DEF Finish
    <3>3. counted' \in Seq({"route", "render"} \X {200, 204, 302, 401, 404, 500, 503, 599})
      BY <2>9, <3>1, <3>2 DEF Finish
    <3> QED
      BY <2>9, <3>2, <3>3 DEF Finish
  <2>10. CASE NextRequest
    BY <2>10, PathAssumption DEF NextRequest, NewRequest
  <2> QED
    BY <2>1, <2>2, <2>3, <2>4, <2>5, <2>50, <2>6, <2>7, <2>8, <2>9, <2>10 DEF PathNext
<1> QED
  BY <1>1, <1>2, PTL DEF PathSpec
------------------------------------------------------------------------------
(* StatsReport.                                                              *)

\* The statements of a sequence of tables and queries.
StatementsOf(work) == UNION {ToSet(work[i]) : i \in 1..Len(work)}

\* A sequence of tables and queries, each with one statement at least, all of them in S.
WorkOf(S) == {work \in Seq(Seq(S)) : \A i \in 1..Len(work) : work[i] # <<>>}

\* What two such sequences have, one after the other.
LEMMA StatementsOfBoth ==
  ASSUME NEW S, NEW a \in WorkOf(S), NEW b \in WorkOf(S)
  PROVE  a \o b \in WorkOf(S) /\ StatementsOf(a \o b) = StatementsOf(a) \cup StatementsOf(b)
<1>0. a \in Seq(Seq(S)) /\ b \in Seq(Seq(S)) /\ Len(a) \in Nat /\ Len(b) \in Nat
  BY DEF WorkOf
<1>1. /\ a \o b \in Seq(Seq(S)) /\ Len(a \o b) = Len(a) + Len(b)
      /\ \A i \in 1..Len(a) : (a \o b)[i] = a[i]
      /\ \A i \in 1..Len(b) : (a \o b)[Len(a) + i] = b[i]
  BY <1>0
<1>2. ASSUME NEW i \in 1..Len(a \o b)
      PROVE  \/ i \in 1..Len(a) /\ (a \o b)[i] = a[i]
             \/ i - Len(a) \in 1..Len(b) /\ (a \o b)[i] = b[i - Len(a)]
  BY <1>0, <1>1
<1>3. /\ 1..Len(a) \subseteq 1..Len(a \o b)
      /\ \A i \in 1..Len(b) : Len(a) + i \in 1..Len(a \o b)
  BY <1>0, <1>1
<1>4. StatementsOf(a \o b) = StatementsOf(a) \cup StatementsOf(b)
  BY <1>1, <1>2, <1>3 DEF StatementsOf
<1>5. a \o b \in WorkOf(S)
  BY <1>1, <1>2 DEF WorkOf
<1> QED
  BY <1>4, <1>5

\* The statements of the first element, and of the others.
LEMMA StatementsOfHead ==
  ASSUME NEW S, NEW a \in WorkOf(S), a # <<>>
  PROVE  /\ Head(a) \in Seq(S) /\ Head(a) # <<>> /\ Tail(a) \in WorkOf(S)
         /\ StatementsOf(a) = ToSet(Head(a)) \cup StatementsOf(Tail(a))
<1>1. /\ a \in Seq(Seq(S)) /\ Head(a) \in Seq(S) /\ Tail(a) \in Seq(Seq(S)) /\ Len(a) \in Nat \ {0}
      /\ Head(a) = a[1] /\ Len(Tail(a)) = Len(a) - 1
      /\ \A i \in 1..Len(Tail(a)) : Tail(a)[i] = a[i + 1]
  BY DEF WorkOf
<1>2. ASSUME NEW i \in 1..Len(a) PROVE i = 1 \/ (i - 1 \in 1..Len(Tail(a)) /\ Tail(a)[i - 1] = a[i])
  BY <1>1
<1>3. 1 \in 1..Len(a) /\ \A i \in 1..Len(Tail(a)) : i + 1 \in 1..Len(a)
  BY <1>1
<1>4. StatementsOf(a) = ToSet(Head(a)) \cup StatementsOf(Tail(a))
  BY <1>1, <1>2, <1>3 DEF StatementsOf
<1> QED
  BY <1>1, <1>3, <1>4 DEF WorkOf

\* A sequence of queries has one statement for each.
LEMMA StatementsOfQueries ==
  ASSUME NEW S, NEW names, NEW kind, names \in Seq(ToSet(names)),
         QueryStatements(names, kind) \subseteq S
  PROVE  /\ QueryParts(names, kind) \in WorkOf(S)
         /\ StatementsOf(QueryParts(names, kind)) = QueryStatements(names, kind)
<1> DEFINE work == QueryParts(names, kind)
<1>1. Len(names) \in Nat /\ ToSet(names) = {names[i] : i \in 1..Len(names)}
  BY DEF ToSet
<1>2. \A i \in 1..Len(names) : <<<<names[i], kind>>>> \in Seq(S)
  BY <1>1 DEF QueryStatements
<1>3. work \in Seq(Seq(S)) /\ Len(work) = Len(names)
  BY <1>1, <1>2 DEF QueryParts
<1>4. \A i \in 1..Len(names) : work[i] # <<>> /\ ToSet(work[i]) = {<<names[i], kind>>}
  BY DEF ToSet, QueryParts
<1> HIDE DEF work
<1>5. StatementsOf(work) = UNION {{<<names[i], kind>>} : i \in 1..Len(names)}
  BY <1>3, <1>4 DEF StatementsOf
<1>6. StatementsOf(work) = QueryStatements(names, kind)
  BY <1>1, <1>5 DEF QueryStatements
<1>7. work \in WorkOf(S)
  BY <1>3, <1>4 DEF WorkOf
<1> QED
  BY <1>6, <1>7 DEF work

\* An attempt is given the statements of the tables that it listed and of the queries.
LEMMA WorkIsAll ==
  ASSUME NEW tables \in Seq(Tables), args \in Options
  PROVE  /\ Work(tables) \in WorkOf(Statements(ToSet(tables)))
         /\ StatementsOf(Work(tables)) = Statements(ToSet(tables))
<1> DEFINE all == Statements(ToSet(tables))
           a == [i \in 1..Len(tables) |-> TableParts(tables[i])]
           b == QueryParts(args.extra, "extra")
           c == QueryParts(args.gauge, "gauge")
           ofTables == UNION {ToSet(TableParts(t)) : t \in ToSet(tables)}
<1>0. all = ofTables \cup QueryStatements(args.extra, "extra") \cup QueryStatements(args.gauge, "gauge")
  BY DEF Statements
<1>1. /\ args.extra \in Seq(ToSet(args.extra)) /\ args.gauge \in Seq(ToSet(args.gauge))
  <2>1. <<>> \in Seq(ToSet(<<>>))
    OBVIOUS
  <2>2. args.extra \in {<<>>, Extras} /\ args.gauge \in {<<>>, Gauges}
    BY DEF Options
  <2> QED
    BY <2>1, <2>2, StatAssumption
<1>2. \A t \in ToSet(tables) : TableParts(t) \in Seq(all) /\ TableParts(t) # <<>>
  <2> TAKE t \in ToSet(tables)
  <2>1. ToSet(TableParts(t)) = {<<t, "count">>, <<t, "size">>, <<t, "indexes">>}
    <3> DEFINE parts == TableParts(t)
    <3>1. /\ DOMAIN parts = 1..3 /\ parts[1] = <<t, "count">>
          /\ parts[2] = <<t, "size">> /\ parts[3] = <<t, "indexes">>
      BY DEF TableParts
    <3>2. ToSet(parts) = {parts[i] : i \in 1..3}
      BY <3>1 DEF ToSet
    <3>3. {parts[i] : i \in 1..3} = {parts[1], parts[2], parts[3]}
      <4>1. 1..3 = {1, 2, 3}
        OBVIOUS
      <4> QED
        BY <4>1
    <3> QED
      BY <3>1, <3>2, <3>3
  <2>2. <<t, "count">> \in all /\ <<t, "size">> \in all /\ <<t, "indexes">> \in all
    BY <2>1 DEF Statements
  <2> HIDE DEF all
  <2> QED
    BY <2>2 DEF TableParts
<1>3. a \in WorkOf(all) /\ StatementsOf(a) = ofTables
  <2> HIDE DEF all
  <2>1. ToSet(tables) = {tables[i] : i \in 1..Len(tables)} /\ Len(tables) \in Nat
    BY DEF ToSet
  <2>2. \A i \in 1..Len(tables) : TableParts(tables[i]) \in Seq(all) /\ TableParts(tables[i]) # <<>>
    BY <1>2, <2>1
  <2>3. a \in Seq(Seq(all)) /\ Len(a) = Len(tables)
    BY <2>1, <2>2
  <2> QED
    BY <2>1, <2>2, <2>3 DEF WorkOf, StatementsOf
<1>4. b \in WorkOf(all) /\ StatementsOf(b) = QueryStatements(args.extra, "extra")
  <2> HIDE DEF all, ofTables
  <2>1. QueryStatements(args.extra, "extra") \subseteq all
    BY <1>0
  <2> QED
    BY <1>1, <2>1, StatementsOfQueries
<1>5. c \in WorkOf(all) /\ StatementsOf(c) = QueryStatements(args.gauge, "gauge")
  <2> HIDE DEF all, ofTables
  <2>1. QueryStatements(args.gauge, "gauge") \subseteq all
    BY <1>0
  <2> QED
    BY <1>1, <2>1, StatementsOfQueries
<1>6. Work(tables) = a \o b \o c
  BY DEF Work
<1> HIDE DEF a, b, c, all, ofTables
<1>7. all = StatementsOf(a) \cup StatementsOf(b) \cup StatementsOf(c)
  BY <1>0, <1>3, <1>4, <1>5
<1>8. /\ a \o b \o c \in WorkOf(all)
      /\ StatementsOf(a \o b \o c) = StatementsOf(a) \cup StatementsOf(b) \cup StatementsOf(c)
  BY <1>3, <1>4, <1>5, StatementsOfBoth
<1> QED
  BY <1>6, <1>7, <1>8 DEF all


\* The first element of a sequence, and the others.
LEMMA SetOfHead ==
  ASSUME NEW S, NEW q \in Seq(S), Len(q) # 0
  PROVE  /\ Len(q) = 1 => ToSet(q) = {q[1]}
         /\ Len(q) # 1 => Tail(q) \in Seq(S) /\ Tail(q) # <<>> /\ ToSet(q) = {q[1]} \cup ToSet(Tail(q))
<1>1. /\ Tail(q) \in Seq(S) /\ Len(q) \in Nat \ {0} /\ Len(Tail(q)) = Len(q) - 1
      /\ \A i \in 1..Len(Tail(q)) : Tail(q)[i] = q[i + 1]
  OBVIOUS
<1>2. DOMAIN q = 1..Len(q) /\ DOMAIN Tail(q) = 1..Len(Tail(q))
  BY <1>1
<1>3. \A i \in 1..Len(q) : i = 1 \/ (i - 1 \in 1..Len(Tail(q)) /\ Tail(q)[i - 1] = q[i])
  BY <1>1
<1>4. 1 \in 1..Len(q) /\ \A i \in 1..Len(Tail(q)) : i + 1 \in 1..Len(q)
  BY <1>1
<1>5. Len(q) = 1 => ToSet(q) = {q[1]}
  BY <1>2 DEF ToSet
<1>6. ToSet(q) = {q[1]} \cup ToSet(Tail(q))
  <2>1. ToSet(q) = {q[i] : i \in 1..Len(q)} /\ ToSet(Tail(q)) = {Tail(q)[i] : i \in 1..Len(Tail(q))}
    BY <1>2 DEF ToSet
  <2>2. ASSUME NEW x \in ToSet(q) PROVE x \in {q[1]} \cup ToSet(Tail(q))
    BY <1>3, <2>1
  <2>3. ASSUME NEW x \in {q[1]} \cup ToSet(Tail(q)) PROVE x \in ToSet(q)
    BY <1>1, <1>4, <2>1
  <2> QED
    BY <2>2, <2>3
<1>7. Len(q) # 1 => Tail(q) # <<>>
  BY <1>1
<1> QED
  BY <1>1, <1>5, <1>6, <1>7

LEMMA StatementsOfOne ==
  ASSUME NEW S, NEW p \in Seq(S), p # <<>>
  PROVE  <<p>> \in WorkOf(S) /\ StatementsOf(<<p>>) = ToSet(p)
<1>1. <<p>> \in Seq(Seq(S)) /\ Len(<<p>>) = 1 /\ <<p>>[1] = p
  OBVIOUS
<1>2. 1..1 = {1}
  OBVIOUS
<1>3. <<p>> \in WorkOf(S)
  BY <1>1, <1>2 DEF WorkOf
<1>4. StatementsOf(<<p>>) = UNION {ToSet(p)}
  BY <1>1, <1>2 DEF StatementsOf
<1> QED
  BY <1>3, <1>4

\* Such a sequence has statements of S only.
LEMMA StatementsInside == ASSUME NEW S, NEW a \in WorkOf(S) PROVE StatementsOf(a) \subseteq S
BY DEF WorkOf, StatementsOf, ToSet

\* What an attempt still has to process and what is in its gauges: with no error reported every
\* statement is still to process or has a sample, and a success is only possible then.
Sampled(s) == \E r \in registry : Sample(r) = Sample(s)

StatInv ==
  /\ StatTypeOK
  /\ stat \notin {"success", "failure"} => attempt <= TryNumber
  /\ stat = "tables" => registry = {}
  /\ stat \in {"work", "commit"} => registry \subseteq Statements(listed)
  /\ stat = "work" =>
       /\ left \in WorkOf(Statements(listed))
       /\ error = NoFailure => \A s \in Statements(listed) : s \in StatementsOf(left) \/ Sampled(s)
  /\ stat = "commit" /\ error = NoFailure => \A s \in Statements(listed) : Sampled(s)
  /\ SuccessIsComplete

\* The statements of some tables are among those of all, as long as the options are the same.
LEMMA StatementsGrow ==
  ASSUME NEW S, NEW T, S \subseteq T PROVE Statements(S) \subseteq Statements(T)
BY DEF Statements

LEMMA StatStarts == StatInit => StatInv
<1> SUFFICES ASSUME StatInit PROVE StatInv
  OBVIOUS
<1>1. args \in Options
  BY DEF StatInit
<1>2. stat \in {"connect", "failure"} /\ (stat = "connect" => TryNumber # 0) /\ attempt = 1
  BY DEF StatInit
<1>3. TryNumber \in Nat
  BY StatAssumption
<1>4. delivered \in [attempt : 0..TryNumber, samples : SUBSET Statements(Tables)]
  BY <1>3 DEF StatInit
<1>5. <<>> \in Seq(Seq(Statements(Tables))) /\ {} \subseteq Statements(Tables)
  OBVIOUS
<1>6. StatTypeOK
  <2>1. /\ listed = {} /\ left = <<>> /\ aborted = FALSE /\ joined = {} /\ registry = {}
        /\ failed = 0 /\ error = NoFailure /\ raised = NoFailure
    BY DEF StatInit
  <2>2. attempt \in 1..(TryNumber + 1) /\ joined \subseteq 1..TryNumber /\ listed \subseteq Tables
    BY <1>2, <1>3, <2>1
  <2>3. left \in Seq(Seq(Statements(Tables))) /\ registry \subseteq Statements(Tables)
    BY <1>5, <2>1
  <2> QED
    BY <1>1, <1>2, <1>4, <2>1, <2>2, <2>3 DEF StatTypeOK, NoFailure
<1> QED
  BY <1>2, <1>3, <1>6 DEF StatInv, StatInit, SuccessIsComplete

\* The end of an attempt by an error keeps what is known of it.
LEMMA AttemptEnds ==
  ASSUME StatInv, NEW cause,
         stat \notin {"success", "failure"}, AttemptFails(cause)
  PROVE  /\ attempt' \in 1..(TryNumber + 1) /\ stat' \in {"connect", "failure"}
         /\ stat' = "connect" => attempt' <= TryNumber
         /\ left' = <<>> /\ raised' = cause
<1>1. TryNumber \in Nat /\ attempt \in 1..(TryNumber + 1) /\ attempt <= TryNumber
  BY StatAssumption DEF StatInv, StatTypeOK
<1> QED
  BY <1>1 DEF AttemptFails

LEMMA StatSteps == StatInv /\ [StatNext]_statVars => StatInv'
<1> SUFFICES ASSUME StatInv, [StatNext]_statVars PROVE StatInv'
  OBVIOUS
<1>0. /\ StatTypeOK /\ TryNumber \in Nat
      /\ stat \notin {"success", "failure"} => attempt \in 1..TryNumber
  BY StatAssumption DEF StatInv, StatTypeOK
<1>b. /\ failed \in Nat /\ error \in [number : Nat, kind : {"none", "cause", "refused"}]
      /\ \A kind \in {"cause", "refused", "commit"} :
            Failure(kind) \in [number : Nat, kind : {kind}]
      /\ [number |-> failed + 2, kind |-> "TypeError"] \in [number : Nat, kind : {"TypeError"}]
  BY <1>0 DEF StatTypeOK, Failure
<1>c. NoFailure \in [number : Nat, kind : {"none"}]
  BY DEF NoFailure
<1>a. <<>> \in Seq(Seq(Statements(Tables)))
  OBVIOUS
<1>1. CASE UNCHANGED statVars
  BY <1>1 DEF statVars, StatInv, StatTypeOK, Statements, SuccessIsComplete, Sampled, Report
<1>2. CASE ConnectDb
  <2> DEFINE cause == [number |-> 1, kind |-> "cause"]
  <2>1. /\ stat = "connect" /\ registry' = {} /\ error' = NoFailure /\ aborted' = FALSE
        /\ UNCHANGED <<args, listed, joined, delivered>>
        /\ \/ stat' = "tables" /\ failed' = 0 /\ UNCHANGED <<attempt, left, raised>>
           \/ AttemptFails(cause) /\ failed' = 1
    BY <1>2 DEF ConnectDb
  <2>2. Statements(Tables)' = Statements(Tables)
    BY <2>1 DEF Statements
  <2>3. CASE stat' = "tables" /\ failed' = 0 /\ UNCHANGED <<attempt, left, raised>>
    BY <1>0, <1>c, <2>1, <2>2, <2>3 DEF StatInv, StatTypeOK, SuccessIsComplete
  <2>4. CASE AttemptFails(cause) /\ failed' = 1
    <3>1. /\ attempt' \in 1..(TryNumber + 1) /\ stat' \in {"connect", "failure"}
          /\ stat' = "connect" => attempt' <= TryNumber
          /\ left' = <<>> /\ raised' = cause
      BY <2>1, <2>4, AttemptEnds
    <3> QED
      BY <1>0, <1>a, <1>c, <2>1, <2>2, <2>4, <3>1 DEF StatInv, StatTypeOK, SuccessIsComplete
  <2> QED
    BY <2>1, <2>3, <2>4
<1>3. ASSUME NEW s \in SUBSET Tables, NEW tables \in SetToSeqs(s), ListTables(tables) PROVE StatInv'
  <2>1. /\ stat = "tables" /\ joined' = joined \cup {attempt} /\ listed' = ToSet(tables)
        /\ UNCHANGED <<args, aborted, registry, error, delivered>>
        /\ \/ stat' = "work" /\ left' = Work(tables) /\ UNCHANGED <<attempt, failed, raised>>
           \/ AttemptFails(Failure("cause")) /\ failed' = failed + 1
    BY <1>3 DEF ListTables
  <2>2. tables \in Seq(Tables)
    <3>1. IsFiniteSet(s)
      BY StatAssumption, FS_Subset
    <3>2. Cardinality(s) \in Nat
      BY <3>1, FS_CardinalityType
    <3> QED
      BY <3>2 DEF SetToSeqs
  <2>3. ToSet(tables) \subseteq Tables
    BY <2>2 DEF ToSet
  <2>4. Statements(Tables)' = Statements(Tables) /\ Statements(listed)' = Statements(ToSet(tables))
    BY <2>1 DEF Statements
  <2>5. /\ Work(tables) \in WorkOf(Statements(ToSet(tables)))
        /\ StatementsOf(Work(tables)) = Statements(ToSet(tables))
    BY <1>0, <2>2, WorkIsAll DEF StatTypeOK
  <2>6. Statements(ToSet(tables)) \subseteq Statements(Tables)
    BY <2>3, StatementsGrow
  <2>7. Work(tables) \in Seq(Seq(Statements(Tables)))
    BY <2>5, <2>6 DEF WorkOf
  <2>8. registry = {}
    BY <2>1 DEF StatInv
  <2>9. CASE stat' = "work" /\ left' = Work(tables) /\ UNCHANGED <<attempt, failed, raised>>
    <3>1. StatTypeOK'
      BY <1>0, <2>1, <2>3, <2>4, <2>7, <2>9 DEF StatTypeOK
    <3> QED
      BY <1>0, <3>1, <2>1, <2>4, <2>5, <2>8, <2>9 DEF StatInv, SuccessIsComplete
  <2>10. CASE AttemptFails(Failure("cause")) /\ failed' = failed + 1
    <3>1. /\ attempt' \in 1..(TryNumber + 1) /\ stat' \in {"connect", "failure"}
          /\ stat' = "connect" => attempt' <= TryNumber
          /\ left' = <<>> /\ raised' = Failure("cause")
      BY <2>1, <2>10, AttemptEnds
    <3>2. StatTypeOK'
      BY <1>0, <1>a, <1>b, <2>1, <2>3, <2>4, <2>10, <3>1 DEF StatTypeOK
    <3> QED
      BY <2>1, <3>1, <3>2 DEF StatInv, SuccessIsComplete
  <2> QED
    BY <2>1, <2>9, <2>10
<1>4. CASE DoReport
  <2>1. /\ stat = "work" /\ left # <<>>
        /\ registry' = {s \in registry : Sample(s) # Sample(Current)} \cup {Current}
        /\ left' = IF Len(Head(left)) = 1 THEN Tail(left) ELSE <<Tail(Head(left))>> \o Tail(left)
        /\ UNCHANGED <<args, stat, attempt, listed, aborted, joined, failed, error, raised, delivered>>
    BY <1>4 DEF DoReport
  <2> DEFINE all == Statements(listed)
             first == Head(left)
  <2>2. /\ left \in WorkOf(all) /\ registry \subseteq all
        /\ error = NoFailure => \A s \in all : s \in StatementsOf(left) \/ Sampled(s)
    BY <2>1 DEF StatInv
  <2>3. Statements(Tables)' = Statements(Tables) /\ Statements(listed)' = all
    BY <2>1 DEF Statements
  <2>4. all \subseteq Statements(Tables)
    BY <1>0, StatementsGrow DEF StatTypeOK
  <2> HIDE DEF all
  <2>5. /\ first \in Seq(all) /\ first # <<>> /\ Tail(left) \in WorkOf(all)
        /\ StatementsOf(left) = ToSet(first) \cup StatementsOf(Tail(left))
    BY <2>1, <2>2, StatementsOfHead
  <2>6. Current = first[1] /\ Current \in all
    BY <2>5 DEF Current
  <2>7. /\ left' \in WorkOf(all)
        /\ StatementsOf(left) \subseteq {Current} \cup StatementsOf(left')
        /\ StatementsOf(left') \subseteq all
    <3> HIDE DEF first
    <3>1. CASE Len(first) = 1
      <4>1. ToSet(first) = {Current}
        BY <2>5, <2>6, <3>1, SetOfHead
      <4>2. left' = Tail(left)
        BY <2>1, <3>1 DEF first
      <4> QED
        BY <2>2, <2>5, <4>1, <4>2, StatementsInside
    <3>2. CASE Len(first) # 1
      <4>1. /\ Tail(first) \in Seq(all) /\ Tail(first) # <<>>
            /\ ToSet(first) = {Current} \cup ToSet(Tail(first))
        BY <2>5, <2>6, <3>2, SetOfHead
      <4>2. left' = <<Tail(first)>> \o Tail(left)
        BY <2>1, <3>2 DEF first
      <4>3. <<Tail(first)>> \in WorkOf(all) /\ StatementsOf(<<Tail(first)>>) = ToSet(Tail(first))
        BY <4>1, StatementsOfOne
      <4>4. /\ left' \in WorkOf(all)
            /\ StatementsOf(left') = StatementsOf(<<Tail(first)>>) \cup StatementsOf(Tail(left))
        BY <4>2, <4>3, <2>5, StatementsOfBoth
      <4> QED
        BY <2>5, <4>1, <4>3, <4>4, StatementsInside
    <3> QED
      BY <3>1, <3>2
  <2>8. left' \in Seq(Seq(Statements(Tables)))
    BY <2>4, <2>7 DEF WorkOf
  <2>9. StatTypeOK'
    BY <1>0, <2>1, <2>3, <2>4, <2>6, <2>8 DEF StatTypeOK
  <2>11. \A s \in all : s = Current \/ Sampled(s) => Sampled(s)'
    <3> TAKE s \in all
    <3>1. Sample(s)' = Sample(s) /\ \A r \in registry : Sample(r)' = Sample(r)
      BY DEF Sample
    <3>2. Current \in registry' /\ \A r \in registry : Sample(r) # Sample(Current) => r \in registry'
      BY <2>1
    <3>3. CASE Sample(s) = Sample(Current)
      BY <3>2, <3>3 DEF Sampled, Sample
    <3>4. CASE Sample(s) # Sample(Current)
      BY <3>2, <3>4 DEF Sampled, Sample
    <3> QED
      BY <3>3, <3>4
  <2>10. error' = NoFailure => \A s \in all : s \in StatementsOf(left') \/ Sampled(s)'
    BY <2>1, <2>2, <2>6, <2>7, <2>11
  <2> QED
    BY <1>0, <2>1, <2>2, <2>3, <2>6, <2>7, <2>9, <2>10 DEF StatInv, SuccessIsComplete
<1>5. ASSUME NEW refuses \in BOOLEAN, ReportError(refuses) PROVE StatInv'
  <2> DEFINE second == [number |-> failed + 2, kind |-> "TypeError"]
  <2>1. /\ stat = "work" /\ left # <<>> /\ aborted' = (aborted \/ refuses)
        /\ UNCHANGED <<args, listed, joined, registry, delivered>>
        /\ \/ AttemptFails(second) /\ failed' = failed + 2 /\ UNCHANGED error
           \/ /\ error' = IF error # NoFailure THEN error ELSE FailureOfStatement
              /\ failed' = failed + 1 /\ left' = Tail(left) /\ UNCHANGED <<stat, attempt, raised>>
    BY <1>5 DEF ReportError, AfterError
  <2>2. Statements(Tables)' = Statements(Tables) /\ Statements(listed)' = Statements(listed)
    BY <2>1 DEF Statements
  <2>3. CASE AttemptFails(second) /\ failed' = failed + 2 /\ UNCHANGED error
    <3>1. /\ attempt' \in 1..(TryNumber + 1) /\ stat' \in {"connect", "failure"}
          /\ stat' = "connect" => attempt' <= TryNumber
          /\ left' = <<>> /\ raised' = second
      BY <2>1, <2>3, AttemptEnds
    <3>2. StatTypeOK'
      BY <1>0, <1>a, <1>b, <2>1, <2>2, <2>3, <3>1 DEF StatTypeOK
    <3> QED
      BY <2>1, <3>1, <3>2 DEF StatInv, SuccessIsComplete
  <2>4. CASE /\ error' = IF error # NoFailure THEN error ELSE FailureOfStatement
             /\ failed' = failed + 1 /\ left' = Tail(left) /\ UNCHANGED <<stat, attempt, raised>>
    <3>1. left \in WorkOf(Statements(listed)) /\ Tail(left) \in WorkOf(Statements(listed))
      BY <2>1, StatementsOfHead DEF StatInv
    <3>2. Statements(listed) \subseteq Statements(Tables)
      BY <1>0, StatementsGrow DEF StatTypeOK
    <3>3. Tail(left) \in Seq(Seq(Statements(Tables)))
      BY <3>1, <3>2 DEF WorkOf
    <3>4. FailureOfStatement \in [number : Nat, kind : {"cause", "refused"}]
      BY <1>b DEF FailureOfStatement
    <3>5. error' # NoFailure /\ error' \in [number : Nat, kind : {"none", "cause", "refused"}]
      BY <1>b, <2>4, <3>4 DEF NoFailure
    <3>6. StatTypeOK'
      BY <1>0, <1>b, <2>1, <2>2, <2>4, <3>3, <3>5 DEF StatTypeOK
    <3> QED
      BY <2>1, <2>2, <2>4, <3>1, <3>5, <3>6 DEF StatInv, SuccessIsComplete
  <2> QED
    BY <2>1, <2>3, <2>4
<1>6. CASE WorkDone
  <2>1. /\ stat = "work" /\ left = <<>> /\ stat' = "commit"
        /\ UNCHANGED <<args, attempt, listed, left, aborted, joined>>
        /\ UNCHANGED <<registry, failed, error, raised, delivered>>
    BY <1>6 DEF WorkDone
  <2>2. StatementsOf(left) = {}
    BY <2>1 DEF StatementsOf
  <2>3. Statements(Tables)' = Statements(Tables) /\ Statements(listed)' = Statements(listed)
    BY <2>1 DEF Statements
  <2>4. StatTypeOK'
    BY <1>0, <2>1, <2>3 DEF StatTypeOK
  <2> QED
    BY <2>1, <2>2, <2>3, <2>4 DEF StatInv, SuccessIsComplete, Sampled
<1>7. CASE CommitReport
  <2> DEFINE Ends == stat' = "success" /\ raised' = NoFailure /\ UNCHANGED <<attempt, left, failed>>
  <2>1. /\ stat = "commit" /\ UNCHANGED <<args, listed, aborted, registry, error>>
        /\ \/ PushOrServe /\ joined' = {} /\ error # NoFailure /\ AttemptFails(error) /\ UNCHANGED failed
           \/ PushOrServe /\ joined' = {} /\ error = NoFailure /\ Ends
           \/ /\ PushOrServeFails /\ UNCHANGED joined
              /\ AttemptFails(Failure("commit")) /\ failed' = failed + 1
    BY <1>7 DEF CommitReport
  <2>2. Statements(Tables)' = Statements(Tables) /\ Statements(listed)' = Statements(listed)
    BY <2>1 DEF Statements
  <2>3. registry \subseteq Statements(Tables) /\ attempt \in 1..TryNumber
    BY <1>0, <2>1 DEF StatTypeOK
  <2>4. Report \in [attempt : 0..TryNumber, samples : SUBSET Statements(Tables)]
    BY <1>0, <2>3 DEF Report
  <2>5. CASE /\ PushOrServeFails /\ UNCHANGED joined
             /\ AttemptFails(Failure("commit")) /\ failed' = failed + 1
    <3>1. /\ attempt' \in 1..(TryNumber + 1) /\ stat' \in {"connect", "failure"}
          /\ stat' = "connect" => attempt' <= TryNumber
          /\ left' = <<>> /\ raised' = Failure("commit")
      BY <2>1, <2>5, AttemptEnds
    <3>2. delivered' \in {delivered, Report}
      BY <2>5 DEF PushOrServeFails
    <3>3. StatTypeOK'
      BY <1>0, <1>a, <1>b, <2>1, <2>2, <2>4, <2>5, <3>1, <3>2 DEF StatTypeOK
    <3> QED
      BY <3>1, <3>3 DEF StatInv, SuccessIsComplete
  <2>6. CASE /\ PushOrServe /\ joined' = {} /\ error # NoFailure
             /\ AttemptFails(error) /\ UNCHANGED failed
    <3>1. /\ attempt' \in 1..(TryNumber + 1) /\ stat' \in {"connect", "failure"}
          /\ stat' = "connect" => attempt' <= TryNumber
          /\ left' = <<>> /\ raised' = error
      BY <2>1, <2>6, AttemptEnds
    <3>2. delivered' \in {delivered, Report}
      BY <2>6 DEF PushOrServe
    <3>3. StatTypeOK'
      BY <1>0, <1>a, <1>b, <2>1, <2>2, <2>4, <2>6, <3>1, <3>2 DEF StatTypeOK
    <3> QED
      BY <3>1, <3>3 DEF StatInv, SuccessIsComplete
  <2>7. CASE PushOrServe /\ joined' = {} /\ error = NoFailure /\ Ends
    <3>1. delivered' \in {delivered, Report} /\ (args.push => delivered' = Report)
      BY <2>7 DEF PushOrServe
    <3>2. StatTypeOK'
      BY <1>0, <1>c, <2>1, <2>2, <2>3, <2>4, <2>7, <3>1 DEF StatTypeOK
    <3>3. Report' = Report
      BY <2>1, <2>7 DEF Report
    <3>4. \A s \in Statements(listed) : \E r \in registry : Sample(r) = Sample(s)
      BY <2>1, <2>7 DEF StatInv, Sampled
    <3>5. SuccessIsComplete'
      BY <2>1, <2>2, <2>7, <3>1, <3>3, <3>4 DEF SuccessIsComplete
    <3> QED
      BY <2>7, <3>2, <3>5 DEF StatInv
  <2> QED
    BY <2>1, <2>5, <2>6, <2>7
<1> QED
  BY <1>1, <1>2, <1>3, <1>4, <1>5, <1>6, <1>7 DEF StatNext

\* What the script ends with: a success is the report of all it was asked for.
THEOREM SuccessesAreComplete == StatSpec => []SuccessIsComplete
<1>1. StatInv => SuccessIsComplete
  BY DEF StatInv
<1> QED
  BY <1>1, StatStarts, StatSteps, PTL DEF StatSpec

\* In an attempt under way, the reporter keeps the first failure as soon as there is one, and the
\* database refuses nothing before.
FirstErrorInv ==
  /\ failed \in Nat
  /\ error = NoFailure \/ error = [number |-> 1, kind |-> "cause"]
  /\ stat = "tables" => failed = 0
  /\ stat \in {"tables", "work", "commit"} => (error = NoFailure <=> failed = 0)
  /\ stat \in {"tables", "work", "commit"} /\ aborted => failed # 0
  /\ CauseIsRaised

\* What ends an attempt is what failed first in it, but for a failure of the reporter itself.
THEOREM FirstErrorIsRaised == StatSpec => []CauseIsRaised
<1>1. StatInit => FirstErrorInv
  BY DEF StatInit, FirstErrorInv, NoFailure, CauseIsRaised
<1>2. FirstErrorInv /\ [StatNext]_statVars => FirstErrorInv'
  <2> SUFFICES ASSUME FirstErrorInv, [StatNext]_statVars PROVE FirstErrorInv'
    OBVIOUS
  <2>0. NoFailure # [number |-> 1, kind |-> "cause"]
    BY DEF NoFailure
  <2>1. CASE UNCHANGED statVars
    BY <2>1 DEF statVars, FirstErrorInv, CauseIsRaised
  <2>2. CASE ConnectDb
    BY <2>2 DEF ConnectDb, AttemptFails, FirstErrorInv, CauseIsRaised
  <2>3. ASSUME NEW tables, ListTables(tables) PROVE FirstErrorInv'
    <3>1. /\ stat = "tables" /\ UNCHANGED <<aborted, error>>
          /\ \/ stat' = "work" /\ UNCHANGED <<failed, raised>>
             \/ AttemptFails(Failure("cause")) /\ failed' = failed + 1
      BY <2>3 DEF ListTables
    <3> QED
      BY <3>1 DEF AttemptFails, FirstErrorInv, CauseIsRaised, Failure
  <2>4. CASE DoReport
    BY <2>4 DEF DoReport, FirstErrorInv, CauseIsRaised
  <2>5. ASSUME NEW refuses, ReportError(refuses) PROVE FirstErrorInv'
    BY <2>0, <2>5 DEF ReportError, AttemptFails, FirstErrorInv, CauseIsRaised, FailureOfStatement, Failure
  <2>6. CASE WorkDone
    BY <2>6 DEF WorkDone, FirstErrorInv, CauseIsRaised
  <2>7. CASE CommitReport
    <3>1. /\ stat = "commit" /\ UNCHANGED <<aborted, error>>
          /\ \/ error # NoFailure /\ AttemptFails(error) /\ UNCHANGED failed
             \/ stat' = "success" /\ raised' = NoFailure /\ UNCHANGED failed
             \/ AttemptFails(Failure("commit")) /\ failed' = failed + 1
      BY <2>7 DEF CommitReport
    <3> QED
      BY <2>0, <3>1 DEF AttemptFails, FirstErrorInv, CauseIsRaised, Failure, NoFailure
  <2> QED
    BY <2>1, <2>2, <2>3, <2>4, <2>5, <2>6, <2>7 DEF StatNext
<1>3. FirstErrorInv => CauseIsRaised
  BY DEF FirstErrorInv, CauseIsRaised
<1> QED
  BY <1>1, <1>2, <1>3, PTL DEF StatSpec
------------------------------------------------------------------------------
(* Acceptance.                                                               *)

\* Which report the test of a print server is about, and why another test passed.
VerdictOfTest ==
  /\ submitted \in {0, 1} /\ job \in Jobs /\ step \in {"start", "poll", "download", "passed", "failed"}
  /\ step = "start" => submitted = 0
  /\ step \in {"poll", "download"} => job = "get_pdf" /\ submitted = 1
  /\ step = "download" => polled = "finished"
  /\ step = "passed" =>
       /\ job \in {"wait_url", "wait_ready", "get_pdf"} => response.status = 200
       /\ job = "get_pdf" => submitted = 1 /\ polled = "finished"
       /\ job = "image" => compared \in {"same", "similar"}
  /\ job = "image" => submitted = 0

\* No test passes for another reason than what it tests.
THEOREM TestsPassForTheirReason == TestSpec => []NoFalsePass
<1>1. TestInit => VerdictOfTest
  BY DEF TestInit, VerdictOfTest
<1>2. VerdictOfTest /\ [TestNext]_testVars => VerdictOfTest'
  <2> SUFFICES ASSUME VerdictOfTest, [TestNext]_testVars PROVE VerdictOfTest'
    OBVIOUS
  <2> USE DEF VerdictOfTest, Jobs
  <2>1. CASE UNCHANGED testVars
    BY <2>1 DEF testVars
  <2>2. ASSUME NEW succeeds, RetryDecorated(succeeds) PROVE VerdictOfTest'
    BY <2>2 DEF RetryDecorated
  <2>3. ASSUME NEW r, NEW credentials, NEW d, WaitReady(r, credentials, d) PROVE VerdictOfTest'
    BY <2>3 DEF WaitReady, GiveUp, GetJson, CheckResponse
  <2>4. ASSUME NEW r, NEW credentials, NEW d, CheckCompletion(r, credentials, d) PROVE VerdictOfTest'
    BY <2>4 DEF CheckCompletion, GiveUp
  <2>5. ASSUME NEW r, NEW credentials, SubmitReport(r, credentials) PROVE VerdictOfTest'
    BY <2>5 DEF SubmitReport, PostJson, GetJson, CheckResponse
  <2>6. ASSUME NEW r, NEW credentials, NEW pdf, Download(r, credentials, pdf) PROVE VerdictOfTest'
    BY <2>6 DEF Download, GetRaw, CheckResponse
  <2>7. ASSUME NEW r, NEW d, WaitUrl(r, d) PROVE VerdictOfTest'
    BY <2>7 DEF WaitUrl, GiveUp
  <2>8. CASE PrintServer
    BY <2>8 DEF PrintServer
  <2>9. ASSUME NEW generate, NEW mask, CheckImage(generate, mask) PROVE VerdictOfTest'
    BY <2>9 DEF CheckImage
  <2>10. ASSUME NEW image, RunAgain(image) PROVE VerdictOfTest'
    BY <2>10 DEF RunAgain
  <2> QED
    BY <2>1, <2>2, <2>3, <2>4, <2>5, <2>6, <2>7, <2>8, <2>9, <2>10 DEF TestNext
<1>3. VerdictOfTest => NoFalsePass
  BY DEF VerdictOfTest, NoFalsePass, Jobs
<1> QED
  BY <1>1, <1>2, <1>3, PTL DEF TestSpec

\* The variables of Acceptance have values of their types.
LEMMA TestTypesAlways == TestSpec => []TestTypeOK
<1>1. TestInit => TestTypeOK
  BY TestAssumption DEF TestInit, TestTypeOK, Steps
<1>2. TestTypeOK /\ [TestNext]_testVars => TestTypeOK'
  <2> SUFFICES ASSUME TestTypeOK, [TestNext]_testVars PROVE TestTypeOK'
    OBVIOUS
  <2> USE DEF TestTypeOK
  <2>1. CASE UNCHANGED testVars
    BY <2>1 DEF testVars
  <2>2. ASSUME NEW d \in 1..2, Try(d) PROVE clock' \in 0..(MaxTime + 1) /\ tried' \in Nat
    BY <2>2, TestAssumption DEF Try
  <2>3. ASSUME NEW succeeds, RetryDecorated(succeeds) PROVE TestTypeOK'
    BY <2>2, <2>3 DEF RetryDecorated, Steps
  <2>4. ASSUME NEW r \in Responses \cup {NoResponse}, NEW d \in 1..2, WaitUrl(r, d) PROVE TestTypeOK'
    BY <2>2, <2>4 DEF WaitUrl, GiveUp, Steps
  <2>5. ASSUME NEW r \in Responses \cup {NoResponse}, NEW credentials, NEW d \in 1..2,
               WaitReady(r, credentials, d)
        PROVE  TestTypeOK'
    BY <2>2, <2>5 DEF WaitReady, GiveUp, Steps
  <2>6. ASSUME NEW r \in Responses \cup {NoResponse}, NEW credentials, SubmitReport(r, credentials)
        PROVE  TestTypeOK'
    BY <2>6 DEF SubmitReport, Steps
  <2>7. ASSUME NEW r \in Responses \cup {NoResponse}, NEW credentials, NEW d \in 1..2,
               CheckCompletion(r, credentials, d)
        PROVE  TestTypeOK'
    BY <2>2, <2>7 DEF CheckCompletion, GiveUp, Steps
  <2>8. ASSUME NEW r \in Responses \cup {NoResponse}, NEW credentials, NEW pdf,
               Download(r, credentials, pdf)
        PROVE  TestTypeOK'
    BY <2>8 DEF Download, Steps
  <2>9. CASE PrintServer
    BY <2>9 DEF PrintServer
  <2>10. ASSUME NEW generate, NEW mask, CheckImage(generate, mask) PROVE TestTypeOK'
    BY <2>10 DEF CheckImage, Steps, Images
  <2>11. ASSUME NEW image \in Images, RunAgain(image) PROVE TestTypeOK'
    BY <2>11 DEF RunAgain, Steps
  <2> QED
    BY <2>1, <2>3, <2>4, <2>5, <2>6, <2>7, <2>8, <2>9, <2>10, <2>11 DEF TestNext
<1> QED
  BY <1>1, <1>2, PTL DEF TestSpec
------------------------------------------------------------------------------
(* Gather.                                                                   *)

\* An answer with data has what its process collected.
AnswerFits(a) ==
  a.is = "data" => IF gathered = "stacks" THEN a.data = stackOf[a.from] ELSE a.data \in Samples

\* Every answer fits, and when they are merged there is one of each process for the stacks.
AnswersInv ==
  /\ channel = "stacks" <=> gathered = "stacks"
  /\ outcome = "none" => merged = 0
  /\ gathered = "memory" => outcome \in {"none", "crash"}
  /\ outcome = "done" => merged = Len(results)
  /\ \A i \in 1..Len(answers) : AnswerFits(answers[i])
  /\ \A i \in 1..Len(results) : AnswerFits(results[i])
  /\ outcome \in {"merging", "done"} /\ gathered = "stacks" =>
       \A p \in Receivers : \E i \in 1..Len(results) : results[i].from = p

\* The output is what the answers merged so far give.
MergedInv ==
  /\ gathered = "scrape" =>
       /\ \A i, j \in 1..Len(output) : output[i] = output[j] => i = j
       /\ \A x : x \in ToSet(output) <=> \E i \in 1..merged : results[i].is = "data" /\ results[i].data = x
  /\ gathered = "stacks" =>
       \A p \in Receivers, t \in ThreadNames, f \in Frames :
         <<p, t>> \in output[f] <=> stackOf[p][t] = f /\ \E i \in 1..merged : results[i].from = p

\* As long as there is room no object is left out.
BiggestInv ==
  /\ BiggestAreKept
  /\ limit > 0 /\ Len(objs) <= limit => \A o \in 1..Len(objs) : o \in ToSet(biggest)

GatherInv == GatherTypeOK /\ AnswersInv /\ MergedInv /\ BiggestInv

\* What an appended element changes.
LEMMA Appended ==
  ASSUME NEW S, NEW q \in Seq(S), NEW e \in S
  PROVE  /\ Append(q, e) \in Seq(S) /\ Len(Append(q, e)) = Len(q) + 1
         /\ Append(q, e)[Len(q) + 1] = e
         /\ \A i \in 1..Len(q) : Append(q, e)[i] = q[i]
         /\ ToSet(Append(q, e)) = ToSet(q) \cup {e}
<1>1. /\ Append(q, e) \in Seq(S) /\ Len(Append(q, e)) = Len(q) + 1 /\ Len(q) \in Nat
      /\ Append(q, e)[Len(q) + 1] = e /\ \A i \in 1..Len(q) : Append(q, e)[i] = q[i]
  OBVIOUS
<1>2. DOMAIN q = 1..Len(q) /\ DOMAIN Append(q, e) = 1..(Len(q) + 1)
  BY <1>1
<1>3. 1..(Len(q) + 1) = (1..Len(q)) \cup {Len(q) + 1}
  BY <1>1
<1>4. ASSUME NEW x \in ToSet(Append(q, e)) PROVE x \in ToSet(q) \cup {e}
  BY <1>1, <1>2, <1>3 DEF ToSet
<1>5. ASSUME NEW x \in ToSet(q) \cup {e} PROVE x \in ToSet(Append(q, e))
  BY <1>1, <1>2, <1>3 DEF ToSet
<1> QED
  BY <1>1, <1>4, <1>5

\* What two sequences have, one after the other.
LEMMA Concatenated ==
  ASSUME NEW S, NEW q \in Seq(S), NEW r \in Seq(S), NEW P,
         \A i \in 1..Len(q) : q[i] \in P, \A i \in 1..Len(r) : r[i] \in P
  PROVE  /\ q \o r \in Seq(S) /\ Len(q \o r) = Len(q) + Len(r)
         /\ \A i \in 1..Len(q \o r) : (q \o r)[i] \in P
<1>1. /\ q \o r \in Seq(S) /\ Len(q \o r) = Len(q) + Len(r) /\ Len(q) \in Nat /\ Len(r) \in Nat
      /\ \A i \in 1..Len(q \o r) : (q \o r)[i] = IF i <= Len(q) THEN q[i] ELSE r[i - Len(q)]
  OBVIOUS
<1>2. ASSUME NEW i \in 1..Len(q \o r) PROVE (q \o r)[i] \in P
  <2>1. CASE i <= Len(q)
    BY <1>1, <2>1
  <2>2. CASE ~(i <= Len(q))
    <3>1. i - Len(q) \in 1..Len(r)
      BY <1>1, <2>2
    <3> QED
      BY <1>1, <2>2, <3>1
  <2> QED
    BY <2>1, <2>2
<1> QED
  BY <1>1, <1>2

LEMMA GatherStarts == GatherInit => GatherInv
<1> SUFFICES ASSUME GatherInit PROVE GatherInv
  OBVIOUS
<1>1. /\ gathered \in {"scrape", "stacks", "memory"} /\ answers = <<>> /\ results = <<>> /\ merged = 0
      /\ objs = <<>> /\ biggest = <<>> /\ outcome = "none"
      /\ channel = (IF gathered = "stacks" THEN "stacks" ELSE "gc")
      /\ output = (IF gathered = "stacks" THEN [f \in Frames |-> {}] ELSE <<>>)
  BY DEF GatherInit
<1>2. limit \in Limits
  BY GatherAssumption DEF GatherInit
<1>3. stackOf \in [Receivers -> [ThreadNames -> Frames]]
  <2>1. (CHOOSE f \in Frames : TRUE) \in Frames
    BY GatherAssumption
  <2> QED
    BY <2>1 DEF GatherInit
<1>4. IF gathered = "stacks" THEN output \in [Frames -> SUBSET (Receivers \X ThreadNames)]
      ELSE output \in Seq(Samples)
  BY <1>1
<1>5. /\ answers \in Seq(AnswerRecords) /\ results \in Seq(AnswerRecords) /\ merged \in 0..Len(results)
      /\ objs \in Seq(Sizes) /\ biggest \in Seq(1..Len(objs))
  BY <1>1
<1>6. GatherTypeOK
  BY <1>1, <1>2, <1>3, <1>4, <1>5 DEF GatherTypeOK
<1>7. AnswersInv
  BY <1>1 DEF AnswersInv
<1>8. MergedInv
  BY <1>1 DEF MergedInv, ToSet
<1>9. BiggestInv
  BY <1>1, <1>2, GatherAssumption DEF BiggestInv, BiggestAreKept
<1> QED
  BY <1>6, <1>7, <1>8, <1>9 DEF GatherInv

\* An answer that comes, or the ones that do not: they fit.
LEMMA AnswersCome ==
  ASSUME GatherInv, NEW more \in Seq(AnswerRecords), \A i \in 1..Len(more) : AnswerFits(more[i]),
         answers' = answers \o more, Asking,
         UNCHANGED <<gathered, stackOf, limit, channel, results, merged, objs, biggest, outcome, output>>
  PROVE  GatherInv'
<1>1. answers \in Seq(AnswerRecords) /\ \A i \in 1..Len(answers) : AnswerFits(answers[i])
  BY DEF GatherInv, GatherTypeOK, AnswersInv
<1> DEFINE P == {a \in AnswerRecords : AnswerFits(a)}
<1>2. /\ \A i \in 1..Len(answers) : answers[i] \in P
      /\ \A i \in 1..Len(more) : more[i] \in P
  BY <1>1
<1> HIDE DEF P
<1>3. answers \o more \in Seq(AnswerRecords) /\ \A i \in 1..Len(answers \o more) : (answers \o more)[i] \in P
  BY <1>1, <1>2, Concatenated
<1>4. answers' \in Seq(AnswerRecords) /\ \A i \in 1..Len(answers') : AnswerFits(answers'[i])
  BY <1>3 DEF P
<1>5. GatherTypeOK'
  BY <1>4 DEF GatherInv, GatherTypeOK, Samples, AnswerRecords
<1>6. AnswersInv'
  BY <1>4 DEF GatherInv, AnswersInv, AnswerFits, Samples
<1>7. MergedInv'
  <2>1. gathered' = gathered /\ output' = output /\ merged' = merged /\ results' = results /\ stackOf' = stackOf
    OBVIOUS
  <2>2. MergedInv
    BY DEF GatherInv
  <2> QED
    BY <2>1, <2>2 DEF MergedInv
<1>8. BiggestInv'
  BY DEF GatherInv, BiggestInv, BiggestAreKept
<1> QED
  BY <1>5, <1>6, <1>7, <1>8 DEF GatherInv

LEMMA AnswerGatheredStep ==
  ASSUME GatherInv, NEW p \in Receivers, NEW fails \in BOOLEAN, AnswerGathered(p, fails)
  PROVE  GatherInv'
<1> DEFINE a == IF fails THEN [is |-> "error", from |-> p, data |-> <<>>]
                         ELSE [is |-> "data", from |-> p, data |-> Collected(p)]
<1>1. /\ answers' = Append(answers, a) /\ Asking
      /\ UNCHANGED <<gathered, stackOf, limit, channel, results, merged, objs, biggest, outcome, output>>
  BY DEF AnswerGathered
<1>2. /\ answers \in Seq(AnswerRecords) /\ stackOf \in [Receivers -> [ThreadNames -> Frames]]
      /\ channel \in {"gc", "process", "stacks"} /\ (channel = "stacks" <=> gathered = "stacks")
  BY DEF GatherInv, GatherTypeOK, AnswersInv
<1>3. IF gathered = "stacks" THEN Collected(p) = stackOf[p] ELSE Collected(p) \in Samples
  BY <1>2 DEF Collected, DumpStacks, SerializeCollected, Samples
<1>4. Collected(p) \in [ThreadNames -> Frames] \cup {<<>>} \cup Samples
  BY <1>2, <1>3
<1>5. a \in AnswerRecords /\ AnswerFits(a)
  <2>1. CASE fails
    BY <2>1 DEF AnswerRecords, AnswerFits
  <2>2. CASE ~fails
    BY <2>2, <1>3, <1>4 DEF AnswerRecords, AnswerFits
  <2> QED
    BY <2>1, <2>2
<1> HIDE DEF a
<1>6. /\ <<a>> \in Seq(AnswerRecords) /\ answers' = answers \o <<a>>
      /\ \A i \in 1..Len(<<a>>) : <<a>>[i] = a
  BY <1>1, <1>2, <1>5
<1>7. \A i \in 1..Len(<<a>>) : AnswerFits(<<a>>[i])
  BY <1>5, <1>6
<1> QED
  BY <1>1, <1>6, <1>7, AnswersCome

LEMMA TimeoutStep == ASSUME GatherInv, Timeout PROVE GatherInv'
<1>1. PICK late \in SetToSeqs(Unanswered) :
        answers' = answers \o [i \in 1..Len(late) |-> [is |-> "none", from |-> late[i], data |-> <<>>]]
  BY DEF Timeout
<1> DEFINE more == [i \in 1..Len(late) |-> [is |-> "none", from |-> late[i], data |-> <<>>]]
<1>2. late \in Seq(Receivers)
  <2>1. IsFiniteSet(Unanswered)
    BY GatherAssumption, FS_Subset DEF Unanswered
  <2>2. Cardinality(Unanswered) \in Nat
    BY <2>1, FS_CardinalityType
  <2>3. late \in Seq(Unanswered)
    BY <2>2 DEF SetToSeqs
  <2>4. Unanswered \subseteq Receivers
    BY DEF Unanswered
  <2> QED
    BY <2>3, <2>4
<1>3. \A r \in Receivers : [is |-> "none", from |-> r, data |-> <<>>] \in AnswerRecords
  BY DEF AnswerRecords
<1>4. more \in Seq(AnswerRecords) /\ Len(more) = Len(late)
  BY <1>2, <1>3
<1>5. \A i \in 1..Len(more) : more[i].is = "none"
  BY <1>2, <1>4
<1> HIDE DEF more
<1>6. \A i \in 1..Len(more) : AnswerFits(more[i])
  BY <1>5 DEF AnswerFits
<1>7. answers' = answers \o more
  BY <1>1 DEF more
<1>8. /\ Asking
      /\ UNCHANGED <<gathered, stackOf, limit, channel, results, merged, objs, biggest, outcome, output>>
  BY DEF Timeout
<1> QED
  BY <1>4, <1>6, <1>7, <1>8, AnswersCome

LEMMA NextChannelStep == ASSUME GatherInv, NextChannel PROVE GatherInv'
<1>1. /\ Asking /\ Unanswered = {} /\ results' = results \o answers /\ answers' = <<>>
      /\ IF channel = "gc" THEN channel' = "process" /\ UNCHANGED outcome
         ELSE outcome' = "merging" /\ UNCHANGED channel
      /\ UNCHANGED <<gathered, stackOf, limit, merged, objs, biggest, output>>
  BY DEF NextChannel
<1>2. /\ answers \in Seq(AnswerRecords) /\ \A i \in 1..Len(answers) : AnswerFits(answers[i])
      /\ results \in Seq(AnswerRecords) /\ \A i \in 1..Len(results) : AnswerFits(results[i])
      /\ outcome = "none" /\ merged = 0 /\ (channel = "stacks" <=> gathered = "stacks") /\ gathered # "memory"
      /\ channel \in {"gc", "process", "stacks"}
  BY <1>1 DEF GatherInv, GatherTypeOK, AnswersInv, Asking
<1> DEFINE P == {a \in AnswerRecords : AnswerFits(a)}
<1>3. /\ \A i \in 1..Len(answers) : answers[i] \in P
      /\ \A i \in 1..Len(results) : results[i] \in P
  BY <1>2
<1> HIDE DEF P
<1>4. /\ results \o answers \in Seq(AnswerRecords) /\ Len(results \o answers) = Len(results) + Len(answers)
      /\ \A i \in 1..Len(results \o answers) : (results \o answers)[i] \in P
      /\ \A i \in 1..Len(answers) : \E j \in 1..Len(results \o answers) : (results \o answers)[j] = answers[i]
  <2>1. answers \in Seq(AnswerRecords) /\ results \in Seq(AnswerRecords)
    BY <1>2
  <2>2. results \o answers \in Seq(AnswerRecords) /\ Len(results \o answers) = Len(results) + Len(answers)
    BY <2>1
  <2>3. \A i \in 1..Len(results \o answers) : (results \o answers)[i] \in P
    BY <2>1, <1>3, Concatenated
  <2>4. \A i \in 1..Len(answers) : \E j \in 1..Len(results \o answers) : (results \o answers)[j] = answers[i]
    <3> TAKE i \in 1..Len(answers)
    <3>1. Len(results) + i \in 1..Len(results \o answers)
      BY <2>1, <2>2
    <3>2. (results \o answers)[Len(results) + i] = answers[i]
      BY <2>1
    <3> QED
      BY <3>1, <3>2
  <2> QED
    BY <2>2, <2>3, <2>4
<1>5. results' \in Seq(AnswerRecords) /\ (\A i \in 1..Len(results') : AnswerFits(results'[i])) /\ 0 \in 0..Len(results')
  BY <1>1, <1>4 DEF P
<1>6. \A p \in Receivers : \E j \in 1..Len(results') : results'[j].from = p
  <2> TAKE p \in Receivers
  <2>1. PICK i \in 1..Len(answers) : answers[i].from = p
    BY <1>1 DEF Unanswered
  <2>2. PICK j \in 1..Len(results \o answers) : (results \o answers)[j] = answers[i]
    BY <1>4
  <2> QED
    BY <1>1, <2>1, <2>2
<1>7. answers' \in Seq(AnswerRecords) /\ \A i \in 1..Len(answers') : AnswerFits(answers'[i])
  BY <1>1
<1>8. channel' \in {"gc", "process", "stacks"} /\ (channel' = "stacks" <=> gathered' = "stacks") /\ outcome' \in {"none", "merging"}
  BY <1>1, <1>2
<1>9. GatherTypeOK'
  BY <1>1, <1>2, <1>5, <1>7, <1>8 DEF GatherInv, GatherTypeOK, Samples, AnswerRecords
<1>10. AnswersInv'
  BY <1>1, <1>2, <1>5, <1>6, <1>7, <1>8 DEF AnswersInv, AnswerFits, Samples
<1>11. MergedInv'
  <2>1. 1..merged = {} /\ merged' = merged /\ output' = output /\ stackOf' = stackOf /\ gathered' = gathered
    BY <1>1, <1>2
  <2> QED
    BY <2>1 DEF GatherInv, MergedInv
<1>12. BiggestInv'
  BY <1>1 DEF GatherInv, BiggestInv, BiggestAreKept
<1> QED
  BY <1>9, <1>10, <1>11, <1>12 DEF GatherInv

\* The next sample of a scrape: those of the answers before are known.
LEMMA SampleStep ==
  ASSUME GatherInv, gathered = "scrape", outcome = "merging", merged < Len(results),
         results[merged + 1].is # "error", output' = Deserialize(results[merged + 1]),
         merged' = merged + 1, UNCHANGED <<gathered, stackOf, results>>
  PROVE  MergedInv' /\ output' \in Seq(Samples)
<1> DEFINE a == results[merged + 1]
<1>1. /\ output \in Seq(Samples) /\ results \in Seq(AnswerRecords) /\ merged \in 0..Len(results)
      /\ \A i \in 1..Len(results) : AnswerFits(results[i])
      /\ \A i, j \in 1..Len(output) : output[i] = output[j] => i = j
      /\ \A x : x \in ToSet(output) <=> \E i \in 1..merged : results[i].is = "data" /\ results[i].data = x
  BY DEF GatherInv, GatherTypeOK, AnswersInv, MergedInv
<1>2. merged + 1 \in 1..Len(results) /\ a \in AnswerRecords /\ AnswerFits(a)
  BY <1>1
<1>3. a.is \in {"data", "none"}
  BY <1>2 DEF AnswerRecords
<1>4. 1..(merged + 1) = (1..merged) \cup {merged + 1}
  BY <1>1
<1>5. CASE a.is = "none" \/ a.data \in ToSet(output)
  <2>1. output' = output
    BY <1>5 DEF Deserialize
  <2>2. \A x : x \in ToSet(output') <=> \E i \in 1..merged' : results'[i].is = "data" /\ results'[i].data = x
    BY <1>1, <1>4, <1>5, <2>1
  <2> QED
    BY <1>1, <2>1, <2>2 DEF MergedInv
<1>6. CASE a.is = "data" /\ a.data \notin ToSet(output)
  <2>1. output' = Append(output, a.data)
    BY <1>6 DEF Deserialize
  <2>2. a.data \in Samples
    BY <1>2, <1>6 DEF AnswerFits
  <2> HIDE DEF a
  <2>3. /\ output' \in Seq(Samples) /\ Len(output') = Len(output) + 1 /\ output'[Len(output) + 1] = a.data
        /\ \A i \in 1..Len(output) : output'[i] = output[i]
        /\ ToSet(output') = ToSet(output) \cup {a.data}
    BY <1>1, <2>1, <2>2, Appended
  <2>4. \A i \in 1..Len(output) : output[i] # a.data
    BY <1>1, <1>6 DEF ToSet
  <2>5. ASSUME NEW i \in 1..Len(output'), NEW j \in 1..Len(output'), output'[i] = output'[j] PROVE i = j
    <3>1. 1..Len(output') = (1..Len(output)) \cup {Len(output) + 1}
      BY <1>1, <2>3
    <3>2. CASE i \in 1..Len(output) /\ j \in 1..Len(output)
      BY <1>1, <2>3, <2>5, <3>2
    <3>3. CASE i = Len(output) + 1 \/ j = Len(output) + 1
      BY <2>3, <2>4, <2>5, <3>1, <3>3
    <3> QED
      BY <3>1, <3>2, <3>3
  <2>6. \A x : x \in ToSet(output') <=> \E i \in 1..merged' : results'[i].is = "data" /\ results'[i].data = x
    BY <1>1, <1>4, <1>6, <2>3 DEF a
  <2> QED
    BY <2>3, <2>5, <2>6 DEF MergedInv
<1> QED
  BY <1>3, <1>5, <1>6

\* The stacks of the next process: its threads are put where their stacks are.
LEMMA StacksStep ==
  ASSUME GatherInv, gathered = "stacks", outcome = "merging", merged < Len(results),
         results[merged + 1].is = "data", output' = BeautifyStacks(results[merged + 1]),
         merged' = merged + 1, UNCHANGED <<gathered, stackOf, results>>
  PROVE  MergedInv' /\ output' \in [Frames -> SUBSET (Receivers \X ThreadNames)]
<1> DEFINE a == results[merged + 1]
<1>1. /\ output \in [Frames -> SUBSET (Receivers \X ThreadNames)] /\ results \in Seq(AnswerRecords)
      /\ merged \in 0..Len(results) /\ \A i \in 1..Len(results) : AnswerFits(results[i])
      /\ \A p \in Receivers, t \in ThreadNames, f \in Frames :
           <<p, t>> \in output[f] <=> stackOf[p][t] = f /\ \E i \in 1..merged : results[i].from = p
  BY DEF GatherInv, GatherTypeOK, AnswersInv, MergedInv
<1>2. merged + 1 \in 1..Len(results) /\ a.from \in Receivers /\ a.data = stackOf[a.from]
  <2>1. merged + 1 \in 1..Len(results)
    BY <1>1
  <2>2. a \in AnswerRecords /\ AnswerFits(a)
    BY <1>1, <2>1
  <2> QED
    BY <2>1, <2>2 DEF AnswerRecords, AnswerFits
<1>3. 1..(merged + 1) = (1..merged) \cup {merged + 1}
  BY <1>1
<1>4. output' = [f \in Frames |-> output[f] \cup {<<a.from, t>> : t \in {u \in ThreadNames : stackOf[a.from][u] = f}}]
  BY <1>2 DEF BeautifyStacks
<1>5. output' \in [Frames -> SUBSET (Receivers \X ThreadNames)]
  BY <1>1, <1>2, <1>4
<1>6. ASSUME NEW p \in Receivers, NEW t \in ThreadNames, NEW f \in Frames
      PROVE  <<p, t>> \in output'[f] <=> stackOf[p][t] = f /\ \E i \in 1..merged' : results'[i].from = p
  <2>1. <<p, t>> \in output'[f] <=> <<p, t>> \in output[f] \/ (p = a.from /\ stackOf[a.from][t] = f)
    BY <1>4
  <2>2. (\E i \in 1..merged' : results'[i].from = p) <=> (\E i \in 1..merged : results[i].from = p) \/ a.from = p
    BY <1>3
  <2> QED
    BY <1>1, <2>1, <2>2
<1> QED
  BY <1>5, <1>6 DEF MergedInv

LEMMA MergeAnswerStep == ASSUME GatherInv, MergeAnswer PROVE GatherInv'
<1> DEFINE a == results[merged + 1]
<1>1. /\ outcome = "merging" /\ merged < Len(results)
      /\ IF Crashes(a) THEN outcome' = "crash" /\ UNCHANGED <<merged, output>>
         ELSE merged' = merged + 1 /\ output' = Merged(a) /\ UNCHANGED outcome
      /\ UNCHANGED <<gathered, stackOf, limit, channel, answers, results, objs, biggest>>
  BY DEF MergeAnswer
<1>2. BiggestInv'
  BY <1>1 DEF GatherInv, BiggestInv, BiggestAreKept
<1>3. /\ GatherTypeOK /\ AnswersInv /\ MergedInv
      /\ results \in Seq(AnswerRecords) /\ merged \in 0..Len(results)
  BY DEF GatherInv, GatherTypeOK
<1>4. CASE Crashes(a)
  <2>1. GatherTypeOK'
    BY <1>1, <1>3, <1>4 DEF GatherTypeOK, Samples, AnswerRecords
  <2>2. AnswersInv'
    BY <1>1, <1>3, <1>4 DEF AnswersInv, AnswerFits, Samples
  <2>3. MergedInv'
    BY <1>1, <1>3, <1>4 DEF MergedInv
  <2> QED
    BY <1>2, <2>1, <2>2, <2>3 DEF GatherInv
<1>5. CASE ~Crashes(a)
  <2>1. merged' = merged + 1 /\ output' = Merged(a) /\ outcome' = outcome
    BY <1>1, <1>5
  <2>2. merged' \in 0..Len(results') /\ a \in AnswerRecords
    BY <1>1, <1>3, <2>1
  <2>3. a.is \in {"data", "error", "none"} /\ a.is # "error" /\ (gathered = "stacks" => a.is = "data")
    BY <1>5, <2>2 DEF Crashes, AnswerRecords
  <2>4. gathered # "memory"
    BY <1>1, <1>3 DEF AnswersInv
  <2>5. CASE gathered = "scrape"
    <3>1. MergedInv' /\ output' \in Seq(Samples)
      BY <1>1, <2>1, <2>3, <2>5, SampleStep DEF Merged
    <3> QED
      BY <1>1, <1>2, <1>3, <2>1, <2>2, <2>5, <3>1 DEF GatherInv, GatherTypeOK, AnswersInv, AnswerFits, Samples, AnswerRecords
  <2>6. CASE gathered = "stacks"
    <3>1. MergedInv' /\ output' \in [Frames -> SUBSET (Receivers \X ThreadNames)]
      BY <1>1, <2>1, <2>3, <2>6, StacksStep DEF Merged
    <3> QED
      BY <1>1, <1>2, <1>3, <2>1, <2>2, <2>6, <3>1 DEF GatherInv, GatherTypeOK, AnswersInv, AnswerFits, Samples, AnswerRecords
  <2> QED
    BY <1>3, <2>4, <2>5, <2>6 DEF GatherTypeOK
<1> QED
  BY <1>4, <1>5

LEMMA AllMergedStep == ASSUME GatherInv, AllMerged PROVE GatherInv'
<1>1. /\ outcome = "merging" /\ merged = Len(results) /\ outcome' = "done"
      /\ UNCHANGED <<gathered, stackOf, limit, channel, answers, results, merged, objs, biggest, output>>
  BY DEF AllMerged
<1>2. GatherTypeOK'
  BY <1>1 DEF GatherInv, GatherTypeOK, Samples, AnswerRecords
<1>3. AnswersInv'
  BY <1>1 DEF GatherInv, AnswersInv, AnswerFits, Samples
<1>4. MergedInv'
  BY <1>1 DEF GatherInv, MergedInv
<1>5. BiggestInv'
  BY <1>1 DEF GatherInv, BiggestInv, BiggestAreKept
<1> QED
  BY <1>2, <1>3, <1>4, <1>5 DEF GatherInv

\* The object is put where its size belongs: the objects kept are sorted again, and it is one
\* of them.
LEMMA InsertedIsSorted ==
  ASSUME GatherTypeOK, NEW size \in Sizes, NEW pos \in 1..(Len(biggest) + 1), PlaceOf(pos, size),
         objs' = Append(objs, size),
         \A i, j \in 1..Len(biggest) : i < j => biggest[i] # biggest[j] /\ objs[biggest[i]] <= objs[biggest[j]]
  PROVE  LET all == Inserted(pos) IN
         /\ all \in Seq(1..Len(objs')) /\ Len(all) = Len(biggest) + 1
         /\ \A i, j \in 1..Len(all) : i < j => all[i] # all[j] /\ objs'[all[i]] <= objs'[all[j]]
         /\ ToSet(all) = ToSet(biggest) \cup {Len(objs) + 1}
<1> DEFINE n == Len(biggest)
           m == Len(objs)
           all == Inserted(pos)
<1>1. /\ n \in Nat /\ m \in Nat /\ pos \in 1..(n + 1) /\ biggest \in [1..n -> 1..m] /\ objs \in [1..m -> Sizes]
      /\ DOMAIN biggest = 1..n
  BY DEF GatherTypeOK
<1>2. /\ Len(objs') = m + 1 /\ objs'[m + 1] = size /\ \A o \in 1..m : objs'[o] = objs[o]
  BY DEF GatherTypeOK
<1>3. all = [i \in 1..(n + 1) |-> IF i < pos THEN biggest[i] ELSE IF i = pos THEN m + 1 ELSE biggest[i - 1]]
  BY DEF Inserted
<1>4. \A i \in 1..n : (i < pos <=> objs[biggest[i]] <= size)
  BY DEF PlaceOf
<1>5. Sizes \subseteq Nat
  BY GatherAssumption
<1>6. \A i, j \in 1..n : i < j => biggest[i] # biggest[j] /\ objs[biggest[i]] <= objs[biggest[j]]
  OBVIOUS
<1> HIDE DEF n, m, all
<1>7. /\ \A i \in 1..(n + 1) : i < pos => i \in 1..n /\ all[i] = biggest[i]
      /\ all[pos] = m + 1
      /\ \A i \in 1..(n + 1) : i > pos => i - 1 \in 1..n /\ i - 1 >= pos /\ all[i] = biggest[i - 1]
  BY <1>1, <1>3
<1>8. all \in [1..(n + 1) -> 1..(m + 1)]
  BY <1>1, <1>3
<1>9. all \in Seq(1..(m + 1)) /\ Len(all) = n + 1 /\ DOMAIN all = 1..(n + 1)
  BY <1>1, <1>8
<1>10. ASSUME NEW i \in 1..(n + 1), NEW j \in 1..(n + 1), i < j
       PROVE  all[i] # all[j] /\ objs'[all[i]] <= objs'[all[j]]
  <2>1. CASE j < pos
    <3>1. i \in 1..n /\ j \in 1..n /\ all[i] = biggest[i] /\ all[j] = biggest[j]
      BY <1>1, <1>7, <1>10, <2>1
    <3> QED
      BY <1>1, <1>2, <1>6, <1>10, <3>1
  <2>2. CASE j = pos
    <3>1. i \in 1..n /\ all[i] = biggest[i] /\ all[j] = m + 1 /\ objs[biggest[i]] <= size
      BY <1>1, <1>4, <1>7, <1>10, <2>2
    <3> QED
      BY <1>1, <1>2, <3>1
  <2>3. CASE j > pos /\ i < pos
    <3>1. i \in 1..n /\ j - 1 \in 1..n /\ i < j - 1 /\ all[i] = biggest[i] /\ all[j] = biggest[j - 1]
      BY <1>1, <1>7, <1>10, <2>3
    <3> QED
      BY <1>1, <1>2, <1>6, <3>1
  <2>4. CASE j > pos /\ i = pos
    <3>1. j - 1 \in 1..n /\ ~(j - 1 < pos) /\ all[i] = m + 1 /\ all[j] = biggest[j - 1]
      BY <1>1, <1>7, <1>10, <2>4
    <3>2. biggest[j - 1] \in 1..m /\ objs[biggest[j - 1]] \in Nat /\ size \in Nat /\ ~(objs[biggest[j - 1]] <= size)
      BY <1>1, <1>4, <1>5, <3>1
    <3> QED
      BY <1>1, <1>2, <3>1, <3>2
  <2>5. CASE j > pos /\ i > pos
    <3>1. i - 1 \in 1..n /\ j - 1 \in 1..n /\ i - 1 < j - 1 /\ all[i] = biggest[i - 1] /\ all[j] = biggest[j - 1]
      BY <1>1, <1>7, <1>10, <2>5
    <3> QED
      BY <1>1, <1>2, <1>6, <3>1
  <2>6. (j < pos \/ j = pos \/ j > pos) /\ (i < pos \/ i = pos \/ i > pos)
    BY <1>1
  <2> QED
    BY <2>1, <2>2, <2>3, <2>4, <2>5, <2>6
<1>11. ToSet(all) = ToSet(biggest) \cup {m + 1}
  <2>1. ToSet(all) = {all[i] : i \in 1..(n + 1)} /\ ToSet(biggest) = {biggest[i] : i \in 1..n}
    BY <1>1, <1>9 DEF ToSet
  <2>2. ASSUME NEW i \in 1..(n + 1) PROVE all[i] \in ToSet(biggest) \cup {m + 1}
    <3>1. i < pos \/ i = pos \/ i > pos
      BY <1>1
    <3> QED
      BY <1>7, <2>1, <3>1
  <2>3. ASSUME NEW i \in 1..n PROVE biggest[i] \in ToSet(all)
    <3>1. CASE i < pos
      <4>1. i \in 1..(n + 1) /\ all[i] = biggest[i]
        BY <1>1, <1>7, <3>1
      <4> QED
        BY <2>1, <4>1
    <3>2. CASE ~(i < pos)
      <4>1. i + 1 \in 1..(n + 1) /\ i + 1 > pos /\ i + 1 - 1 = i
        BY <1>1, <3>2
      <4>2. all[i + 1] = biggest[i]
        BY <1>7, <4>1
      <4> QED
        BY <2>1, <4>1, <4>2
    <3> QED
      BY <3>1, <3>2
  <2>4. m + 1 \in ToSet(all)
    BY <1>1, <1>7, <2>1
  <2> QED
    BY <2>1, <2>2, <2>3, <2>4
<1> QED
  BY <1>2, <1>9, <1>10, <1>11 DEF n, m, all

LEMMA MeasureObjectStep == ASSUME GatherInv, NEW size \in Sizes, MeasureObject(size) PROVE GatherInv'
<1> DEFINE n == Len(biggest)
           m == Len(objs)
<1>1. /\ gathered = "memory" /\ outcome = "none" /\ objs' = Append(objs, size)
      /\ UNCHANGED <<gathered, stackOf, limit, channel, answers, results, merged, output>>
  BY DEF MeasureObject
<1>2. /\ GatherTypeOK /\ AnswersInv /\ MergedInv /\ BiggestInv
      /\ limit \in Nat /\ n \in Nat /\ m \in Nat /\ Sizes \subseteq Nat
      /\ biggest \in [1..n -> 1..m] /\ DOMAIN biggest = 1..n /\ objs \in [1..m -> Sizes]
  BY GatherAssumption DEF GatherInv, GatherTypeOK
<1>3. /\ objs' \in Seq(Sizes) /\ Len(objs') = m + 1 /\ objs'[m + 1] = size
      /\ \A o \in 1..m : objs'[o] = objs[o]
  BY <1>1 DEF GatherInv, GatherTypeOK
<1>4. MergedInv'
  BY <1>1, <1>2 DEF MergedInv
<1>5. CASE limit = 0
  <2>1. outcome' = "crash" /\ biggest' = biggest
    BY <1>5 DEF MeasureObject
  <2>2. biggest' \in Seq(1..Len(objs'))
    BY <1>2, <1>3, <2>1
  <2>3. GatherTypeOK'
    BY <1>1, <1>2, <1>3, <2>1, <2>2 DEF GatherTypeOK, Samples, AnswerRecords
  <2>4. AnswersInv'
    BY <1>1, <1>2, <2>1 DEF AnswersInv, AnswerFits, Samples
  <2>5. BiggestInv'
    BY <1>1, <1>5 DEF BiggestInv, BiggestAreKept
  <2> QED
    BY <1>4, <2>3, <2>4, <2>5 DEF GatherInv
<1>6. CASE limit # 0
  <2>1. /\ limit > 0 /\ outcome' = outcome
        /\ Kept(size) => \E pos \in 1..(n + 1) : PlaceOf(pos, size) /\ biggest' = LastOnes(Inserted(pos))
        /\ ~Kept(size) => biggest' = biggest
    BY <1>2, <1>6 DEF MeasureObject
  <2>2. /\ n = IF m < limit THEN m ELSE limit
        /\ \A i, j \in 1..n : i < j => biggest[i] # biggest[j] /\ objs[biggest[i]] <= objs[biggest[j]]
        /\ \A o \in 1..m : o \in ToSet(biggest) \/ \A k \in ToSet(biggest) : objs[o] <= objs[k]
        /\ m <= limit => \A o \in 1..m : o \in ToSet(biggest)
    BY <1>2, <2>1 DEF BiggestInv, BiggestAreKept
  <2>3. ToSet(biggest) = {biggest[i] : i \in 1..n}
    BY <1>2 DEF ToSet
  <2>4. AnswersInv'
    BY <1>1, <1>2, <2>1 DEF AnswersInv, AnswerFits, Samples
  <2>5. SUFFICES /\ biggest' \in Seq(1..(m + 1)) /\ BiggestInv'
    <3>1. GatherTypeOK'
      BY <1>1, <1>2, <1>3, <2>1, <2>5 DEF GatherTypeOK, Samples, AnswerRecords
    <3> QED
      BY <1>4, <2>4, <2>5, <3>1 DEF GatherInv
  <2> HIDE DEF n, m
  <2>6. CASE ~Kept(size)
    <3>1. biggest' = biggest /\ n = limit /\ m >= limit /\ size <= objs[biggest[1]] /\ 1 \in 1..n
      <4>1. biggest' = biggest /\ ~(n < limit) /\ ~(size > objs[biggest[1]])
        BY <2>1, <2>6 DEF Kept, n
      <4>2. n = limit /\ m >= limit /\ 1 \in 1..n
        BY <1>2, <2>1, <2>2, <4>1
      <4>3. biggest[1] \in 1..m /\ objs[biggest[1]] \in Nat /\ size \in Nat
        BY <1>2, <4>2
      <4> QED
        BY <4>1, <4>2, <4>3
    <3>2. biggest' \in Seq(1..(m + 1))
      BY <1>2, <3>1
    <3>3. \A i \in 1..n : objs'[biggest[i]] = objs[biggest[i]] /\ objs[biggest[1]] <= objs[biggest[i]]
      <4> TAKE i \in 1..n
      <4>1. biggest[i] \in 1..m /\ objs[biggest[i]] \in Nat
        BY <1>2
      <4>2. CASE i = 1
        BY <1>3, <4>1, <4>2
      <4>3. CASE 1 < i
        BY <1>3, <2>2, <3>1, <4>1, <4>3
      <4> QED
        BY <1>2, <4>2, <4>3
    <3>4. \A i, j \in 1..n : i < j => biggest[i] # biggest[j] /\ objs'[biggest[i]] <= objs'[biggest[j]]
      BY <2>2, <3>3
    <3>5. ASSUME NEW o \in 1..(m + 1) PROVE o \in ToSet(biggest) \/ \A k \in ToSet(biggest) : objs'[o] <= objs'[k]
      <4>1. CASE o \in 1..m
        BY <1>3, <2>2, <2>3, <3>3, <4>1
      <4>2. CASE o = m + 1
        <5>1. ASSUME NEW i \in 1..n PROVE objs'[o] <= objs'[biggest[i]]
          <6>1. objs'[o] = size /\ objs[biggest[i]] \in Nat /\ objs[biggest[1]] \in Nat /\ size \in Nat
            BY <1>2, <1>3, <3>1, <4>2
          <6> QED
            BY <3>1, <3>3, <6>1
        <5> QED
          BY <2>3, <5>1
      <4> QED
        BY <1>2, <4>1, <4>2
    <3>6. Len(biggest') = n /\ ToSet(biggest)' = ToSet(biggest) /\ limit' = limit
      BY <1>1, <3>1 DEF n
    <3>7. n = IF m + 1 < limit THEN m + 1 ELSE limit
      BY <1>2, <3>1
    <3>8. BiggestAreKept'
      BY <1>3, <3>1, <3>4, <3>5, <3>6, <3>7 DEF BiggestAreKept
    <3>9. ~(Len(objs') <= limit')
      BY <1>2, <1>3, <3>1, <3>6
    <3> QED
      BY <3>2, <3>8, <3>9 DEF BiggestInv
  <2>7. CASE Kept(size)
    <3>1. PICK pos \in 1..(n + 1) : PlaceOf(pos, size) /\ biggest' = LastOnes(Inserted(pos))
      BY <2>1, <2>7
    <3> DEFINE all == Inserted(pos)
    <3>2. /\ all \in Seq(1..Len(objs')) /\ Len(all) = n + 1
          /\ \A i, j \in 1..Len(all) : i < j => all[i] # all[j] /\ objs'[all[i]] <= objs'[all[j]]
          /\ ToSet(all) = ToSet(biggest) \cup {m + 1}
      BY <1>1, <1>2, <2>2, <3>1, InsertedIsSorted DEF n, m
    <3>3. biggest' = LastOnes(all) /\ n <= limit
      BY <1>2, <2>2, <3>1
    <3> HIDE DEF all
    <3>4. ToSet(all) = {all[i] : i \in 1..(n + 1)} /\ all \in [1..(n + 1) -> 1..(m + 1)]
      <4>1. all \in [1..Len(all) -> 1..(m + 1)] /\ DOMAIN all = 1..Len(all)
        BY <1>3, <3>2
      <4> QED
        BY <3>2, <4>1 DEF ToSet
    <3>5. CASE n < limit
      <4>1. biggest' = all /\ m = n
        BY <1>2, <2>2, <3>2, <3>3, <3>5 DEF LastOnes
      <4>2. \A o \in 1..(m + 1) : o \in ToSet(all)
        BY <1>2, <2>2, <3>2, <3>5, <4>1
      <4>3. BiggestInv'
        <5>1. Len(biggest') = IF Len(objs') < limit' THEN Len(objs') ELSE limit'
          BY <1>1, <1>2, <1>3, <3>2, <3>5, <4>1
        <5>2. ToSet(biggest)' = ToSet(all)
          BY <4>1
        <5> QED
          BY <1>3, <3>2, <4>1, <4>2, <5>1, <5>2 DEF BiggestInv, BiggestAreKept
      <4> QED
        BY <1>3, <3>2, <4>1, <4>3
    <3>6. CASE n = limit
      <4>1. /\ m >= limit /\ 1 \in 1..n /\ size > objs[biggest[1]]
        BY <1>2, <2>1, <2>2, <2>7, <3>6 DEF Kept, n
      <4>2. biggest' = SubSeq(all, 2, n + 1)
        BY <1>2, <3>2, <3>3, <3>6 DEF LastOnes
      <4>3. /\ biggest' \in Seq(1..(m + 1)) /\ Len(biggest') = n
            /\ \A i \in 1..n : i + 1 \in 1..(n + 1) /\ biggest'[i] = all[i + 1]
        BY <1>2, <1>3, <3>2, <4>2
      <4>4. ASSUME NEW i \in 1..n, NEW j \in 1..n, i < j
            PROVE  biggest'[i] # biggest'[j] /\ objs'[biggest'[i]] <= objs'[biggest'[j]]
        <5>1. i + 1 \in 1..Len(all) /\ j + 1 \in 1..Len(all) /\ i + 1 < j + 1
          BY <1>2, <3>2, <4>4
        <5> QED
          BY <3>2, <4>3, <5>1
      <4>5. ToSet(biggest)' = {all[i + 1] : i \in 1..n}
        <5>1. DOMAIN biggest' = 1..n
          BY <4>3
        <5>2. ToSet(biggest)' = {biggest'[i] : i \in 1..n}
          BY <5>1 DEF ToSet
        <5>3. \A i \in 1..n : biggest'[i] = all[i + 1]
          BY <4>3
        <5> QED
          BY <5>2, <5>3
      <4>6. 1..(n + 1) = {1} \cup {i + 1 : i \in 1..n}
        <5>1. ASSUME NEW k \in 1..(n + 1), k # 1 PROVE \E i \in 1..n : k = i + 1
          <6>1. k - 1 \in 1..n /\ k = (k - 1) + 1
            BY <1>2, <5>1
          <6> QED
            BY <6>1
        <5>2. 1 \in 1..(n + 1) /\ \A i \in 1..n : i + 1 \in 1..(n + 1)
          BY <1>2
        <5> HIDE DEF n
        <5> QED
          BY <5>1, <5>2
      <4>7. ASSUME NEW o \in 1..(m + 1), o \notin ToSet(biggest)', NEW i \in 1..n
            PROVE  objs'[o] <= objs'[all[i + 1]]
        <5>0. /\ i + 1 \in 1..Len(all) /\ 1 \in 1..Len(all) /\ 1 < i + 1
              /\ objs'[all[1]] <= objs'[all[i + 1]] /\ all[i + 1] \in 1..(m + 1) /\ objs'[all[i + 1]] \in Nat
          <6>1. i + 1 \in 1..Len(all) /\ 1 \in 1..Len(all) /\ 1 < i + 1 /\ i + 1 \in 1..(n + 1)
            BY <1>2, <3>2
          <6>2. objs'[all[1]] <= objs'[all[i + 1]]
            BY <3>2, <6>1
          <6>3. all[i + 1] \in 1..(m + 1)
            BY <3>4, <6>1
          <6>4. objs'[all[i + 1]] \in Nat
            <7>1. objs' \in [1..(m + 1) -> Sizes]
              BY <1>3
            <7> QED
              BY <1>2, <6>3, <7>1
          <6> QED
            BY <6>1, <6>2, <6>3, <6>4
        <5>1. CASE o \in ToSet(all)
          <6>1. o = all[1]
            BY <3>4, <4>5, <4>6, <4>7, <5>1
          <6> QED
            BY <5>0, <6>1
        <5>2. CASE o \notin ToSet(all)
          <6>1. o \in 1..m /\ o \notin ToSet(biggest) /\ objs'[o] = objs[o] /\ objs[o] \in Nat
            <7>1. o # m + 1 /\ o \notin ToSet(biggest)
              BY <3>2, <5>2
            <7>2. o \in 1..m
              BY <1>2, <7>1
            <7> QED
              BY <1>2, <1>3, <7>1, <7>2
          <6>2. \A k \in ToSet(biggest) : objs[o] <= objs[k] /\ k \in 1..m /\ objs'[k] = objs[k]
            BY <1>2, <1>3, <2>2, <2>3, <6>1
          <6>3. all[i + 1] \in ToSet(biggest) \/ all[i + 1] = m + 1
            BY <3>2, <3>4, <5>0
          <6>4. objs[o] <= size
            <7>1. biggest[1] \in ToSet(biggest) /\ objs[biggest[1]] \in Nat /\ size \in Nat
              BY <1>2, <2>3, <4>1
            <7> QED
              BY <4>1, <6>1, <6>2, <7>1
          <6> QED
            BY <1>3, <6>1, <6>2, <6>3, <6>4
        <5> QED
          BY <5>1, <5>2
      <4>8. BiggestAreKept'
        <5>1. Len(biggest') = IF Len(objs') < limit' THEN Len(objs') ELSE limit'
          BY <1>1, <1>2, <1>3, <3>6, <4>1, <4>3
        <5>2. \A o \in 1..Len(objs') : o \in ToSet(biggest)' \/ \A k \in ToSet(biggest)' : objs'[o] <= objs'[k]
          BY <1>3, <4>5, <4>7
        <5> QED
          BY <4>3, <4>4, <5>1, <5>2 DEF BiggestAreKept
      <4>9. ~(Len(objs') <= limit')
        BY <1>1, <1>2, <1>3, <4>1
      <4> QED
        BY <4>3, <4>8, <4>9 DEF BiggestInv
    <3> QED
      BY <1>2, <3>3, <3>5, <3>6
  <2> QED
    BY <2>6, <2>7
<1> QED
  BY <1>5, <1>6

LEMMA GatherAlways == GatherSpec => []GatherInv
<1>1. GatherInv /\ [GatherNext]_gatherVars => GatherInv'
  <2> SUFFICES ASSUME GatherInv, [GatherNext]_gatherVars PROVE GatherInv'
    OBVIOUS
  <2>1. CASE UNCHANGED gatherVars
    <3>1. GatherTypeOK'
      BY <2>1 DEF gatherVars, GatherInv, GatherTypeOK, Samples, AnswerRecords
    <3>2. AnswersInv'
      BY <2>1 DEF gatherVars, GatherInv, AnswersInv, AnswerFits, Samples
    <3>3. MergedInv'
      <4>1. gathered' = gathered /\ output' = output /\ merged' = merged /\ results' = results /\ stackOf' = stackOf
        BY <2>1 DEF gatherVars
      <4> QED
        BY <4>1 DEF GatherInv, MergedInv
    <3>4. BiggestInv'
      BY <2>1 DEF gatherVars, GatherInv, BiggestInv, BiggestAreKept
    <3> QED
      BY <3>1, <3>2, <3>3, <3>4 DEF GatherInv
  <2> QED
    BY <2>1, AnswerGatheredStep, TimeoutStep, NextChannelStep, MergeAnswerStep, AllMergedStep, MeasureObjectStep
       DEF GatherNext
<1> QED
  BY <1>1, GatherStarts, PTL DEF GatherSpec

\* No name and labels come twice in a scrape that succeeds, and nothing that came is missing.
THEOREM ScrapesAreSets == GatherSpec => []ScrapeIsASet
<1>1. GatherInv => ScrapeIsASet
  <2> SUFFICES ASSUME GatherInv, gathered = "scrape", outcome = "done"
      PROVE  /\ \A i, j \in 1..Len(output) : output[i] = output[j] => i = j
             /\ ToSet(output) = {a.data : a \in {b \in ToSet(results) : b.is = "data"}}
    BY DEF ScrapeIsASet
  <2>1. /\ \A i, j \in 1..Len(output) : output[i] = output[j] => i = j
        /\ \A x : x \in ToSet(output) <=> \E i \in 1..Len(results) : results[i].is = "data" /\ results[i].data = x
    BY DEF GatherInv, AnswersInv, MergedInv
  <2>2. ToSet(results) = {results[i] : i \in 1..Len(results)}
    BY DEF GatherInv, GatherTypeOK, ToSet
  <2>3. \A x : x \in ToSet(output) <=> x \in {a.data : a \in {b \in ToSet(results) : b.is = "data"}}
    BY <2>1, <2>2
  <2> QED
    BY <2>1, <2>3
<1> QED
  BY <1>1, GatherAlways, PTL

\* No thread of any process is missing among the stacks that are shown.
THEOREM AllStacksAreShown == GatherSpec => []StacksAreComplete
<1>1. GatherInv => StacksAreComplete
  <2> SUFFICES ASSUME GatherInv, gathered = "stacks", outcome = "done", NEW p \in Receivers, NEW t \in ThreadNames
      PROVE  {f \in Frames : <<p, t>> \in output[f]} = {stackOf[p][t]}
    BY DEF StacksAreComplete
  <2>1. \E i \in 1..merged : results[i].from = p
    BY DEF GatherInv, AnswersInv
  <2>2. stackOf[p][t] \in Frames
    BY DEF GatherInv, GatherTypeOK
  <2>3. \A f \in Frames : <<p, t>> \in output[f] <=> stackOf[p][t] = f
    BY <2>1 DEF GatherInv, MergedInv
  <2> QED
    BY <2>2, <2>3
<1> QED
  BY <1>1, GatherAlways, PTL

\* However many objects there are, and whatever their sizes, the biggest ones are kept.
THEOREM TheBiggestAreKept == GatherSpec => []BiggestAreKept
<1>1. GatherInv => BiggestAreKept
  BY DEF GatherInv, BiggestInv
<1> QED
  BY <1>1, GatherAlways, PTL
------------------------------------------------------------------------------
(* The components together, as MCRequests has them.                          *)

\* A component that is not explored stays as it is, so that each of them does what its own
\* specification allows.
LEMMA ComponentsBehave ==
  MCSpec => /\ BindSpec /\ AccessSpec /\ PathSpec /\ TimingSpec
            /\ StatSpec /\ TestSpec /\ GatherSpec
<1>1. MCInit => /\ BindInit /\ AccessInit /\ PathInit /\ TimingInit
                /\ StatInit /\ TestInit /\ GatherInit
  BY DEF MCInit
<1>2. [MCNext]_mcVars => /\ [BindNext]_bindVars /\ [AccessNext]_accessVars /\ [PathNext]_pathVars
                         /\ [TimingNext]_timingVars /\ [StatNext]_statVars
                         /\ [TestNext]_testVars /\ [GatherNext]_gatherVars
  BY DEF MCNext, mcVars
<1> QED
  BY <1>1, <1>2, PTL
  DEF MCSpec, BindSpec, AccessSpec, PathSpec, TimingSpec, StatSpec, TestSpec, GatherSpec

\* The variables of each component always have values of their types: no statement, cookie, engine,
\* answer or object that is kept ever is one that cannot be there.
THEOREM RequestsTypes == MCSpec => []RequestsTypeOK
<1> DEFINE Part == part \in {"binding", "access", "path", "timing", "stats", "test", "gather"}
<1>1. MCInit => Part
  BY DEF MCInit
<1>2. Part /\ [MCNext]_mcVars => Part'
  BY DEF MCNext, mcVars
<1>3. /\ Part /\ BindTypeOK /\ AccessTypeOK /\ PathTypeOK /\ TimingTypeOK
      /\ StatInv /\ TestTypeOK /\ GatherInv
      => RequestsTypeOK
  BY DEF StatInv, GatherInv, RequestsTypeOK
<1>4. MCSpec => []Part
  BY <1>1, <1>2, PTL DEF MCSpec
<1>5. StatSpec => []StatInv
  BY StatStarts, StatSteps, PTL DEF StatSpec
<1> QED
  BY <1>3, <1>4, <1>5, ComponentsBehave, BindTypesAlways, AccessTypesAlways, PathTypesAlways,
     TimingTypesAlways, TestTypesAlways, GatherAlways, PTL
==============================================================================
