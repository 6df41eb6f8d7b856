------------------------ MODULE SessionFactoryProofs ------------------------
(* Theorems about SessionFactory, for any number of threads. *)
EXTENDS SessionFactory, TLAPS

\* A call that has chosen has chosen an engine, and one that has configured the
\* factory finds an engine there.  While an undisturbed call is under way no other
\* one is, and what it set on the factory is still there.
AloneInv ==
  /\ \A t \in Threads : phase[t] = "chosen" => choice[t] \in Engines
  /\ \A t \in Threads : phase[t] = "configured" => bind \in Engines
  /\ \A t \in Threads : alone[t] /\ InCall(t)
       => \A u \in Threads \ {t} : ~InCall(u)
  /\ \A t \in Threads : alone[t] /\ phase[t] = "configured" => bind = choice[t]
  /\ AloneIsRight

IInv == TypeOK /\ AloneInv

\* A call always decides for one of the two engines.
LEMMA EngineType == \A q : Engine(q) \in Engines
BY DEF Engine, Engines

\* The invariant holds in every reachable state.
THEOREM Invariant == Spec => []IInv
<1>1. Init => IInv
  BY DEF Init, IInv, TypeOK, AloneInv, AloneIsRight, InCall, Phases
<1>2. IInv /\ [Next]_vars => IInv'
  <2> SUFFICES ASSUME TypeOK, AloneInv, [Next]_vars PROVE TypeOK' /\ AloneInv'
    BY DEF IInv
  <2>1. CASE UNCHANGED vars \/ SetReadonly
    BY <2>1 DEF TypeOK, AloneInv, AloneIsRight, InCall, vars, SetReadonly
  <2>2. ASSUME NEW t \in Threads, Choose(t) PROVE TypeOK' /\ AloneInv'
    <3>1. TypeOK'
      <4>1. choice' \in [Threads -> Engines \cup {None}]
        BY <2>2, EngineType DEF TypeOK, Choose
      <4>2. alone' \in [Threads -> BOOLEAN]
        <5>1. \A u \in Threads :
                /\ (\A v \in Threads \ {t} : ~InCall(v)) \in BOOLEAN
                /\ (alone[u] /\ ~InCall(u)) \in BOOLEAN
          OBVIOUS
        <5> QED
          BY <2>2, <5>1, Zenon DEF Choose
      <4>3. phase' \in [Threads -> Phases]
        BY <2>2 DEF TypeOK, Choose, Phases
      <4>4. \A u \in Threads : phase'[u] = "open" => phase[u] = "open"
        BY <2>2 DEF TypeOK, Choose
      <4> QED
        BY <2>2, <4>1, <4>2, <4>3, <4>4 DEF TypeOK, Choose
    <3>2. /\ \A u \in Threads : u # t => phase'[u] = phase[u] /\ choice'[u] = choice[u]
          /\ \A u \in Threads : u # t => (alone'[u] <=> alone[u] /\ ~InCall(u))
          /\ alone'[t] <=> \A u \in Threads \ {t} : ~InCall(u)
          /\ phase'[t] = "chosen"
          /\ session' = session /\ bind' = bind
          /\ choice'[t] \in Engines
      BY <2>2, EngineType DEF TypeOK, Choose
    <3>3. ASSUME NEW u \in Threads, alone'[u], InCall(u)'
          PROVE  \A v \in Threads \ {u} : ~InCall(v)'
      BY <3>2, <3>3 DEF InCall
    <3>4. ASSUME NEW u \in Threads, alone'[u], phase'[u] = "configured"
          PROVE  bind' = choice'[u]
      BY <3>2, <3>4 DEF InCall
    <3>5. AloneIsRight'
      BY <3>2 DEF AloneInv, AloneIsRight
    <3> QED
      BY <3>1, <3>2, <3>3, <3>4, <3>5 DEF AloneInv
  <2>3. ASSUME NEW t \in Threads, Configure(t) PROVE TypeOK' /\ AloneInv'
    BY <2>3 DEF TypeOK, AloneInv, AloneIsRight, Configure, InCall, Phases
  <2>4. ASSUME NEW t \in Threads, Create(t) PROVE TypeOK' /\ AloneInv'
    BY <2>4 DEF TypeOK, AloneInv, AloneIsRight, Create, InCall, Phases
  <2>5. ASSUME NEW t \in Threads, Close(t) PROVE TypeOK' /\ AloneInv'
    BY <2>5 DEF TypeOK, AloneInv, AloneIsRight, Close, InCall, Phases
  <2> QED
    BY <2>1, <2>2, <2>3, <2>4, <2>5 DEF Next, RequestStep
<1> QED
  BY <1>1, <1>2, PTL DEF Spec

\* Every reachable state is well typed; in particular a session always has an
\* engine, although the factory has none at first.
THEOREM TypeCorrect == Spec => []TypeOK
<1>1. IInv => TypeOK
  BY DEF IInv
<1> QED
  BY <1>1, Invariant, PTL

\* A request whose session is created while no other call runs gets the engine
\* it asked for, whatever earlier requests left set on the shared factory.
THEOREM AloneGetsItsEngine == Spec => []AloneIsRight
<1>1. IInv => AloneIsRight
  BY DEF IInv, AloneInv
<1> QED
  BY <1>1, Invariant, PTL
=============================================================================
