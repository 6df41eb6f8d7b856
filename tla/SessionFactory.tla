--------------------------- MODULE SessionFactory ---------------------------
(***************************************************************************)
(* The session factory of c2cwsgiutils (db.py, class SessionFactory): one  *)
(* object shared by all the threads of a process, which creates for each   *)
(* request a session bound to the master or to the slave database.         *)
(*                                                                         *)
(* A call sets the engine on the factory (sessionmaker.configure) and then *)
(* creates the session from what is set on the factory, so the calls of    *)
(* two threads can mix.  The thread that listens to the broadcasts changes *)
(* FORCE_READONLY at any moment (db_maintenance_view.py, _set_readonly).   *)
(***************************************************************************)
EXTENDS Naturals

CONSTANTS
  Threads,   \* the threads serving requests
  Master,    \* rw_engine
  Slave,     \* ro_engine
  None       \* no engine, no session

Engines == {Master, Slave}

ASSUME EnginesDistinct == Master # Slave /\ None \notin Engines

VARIABLES
  readonly,  \* FORCE_READONLY
  bind,      \* the engine set on the factory
  phase,     \* phase[t]: how far the request of the thread t is
  choice,    \* choice[t]: the engine that the call of t decided for
  session,   \* session[t]: the engine of the session of t
  alone      \* history: alone[t], no other call ran during the call of t

vars == <<readonly, bind, phase, choice, session, alone>>

Phases == {"idle", "chosen", "configured", "open"}

InCall(t) == phase[t] \in {"chosen", "configured"}

\* What a call depends on: an explicit readwrite argument, or the method of the
\* request and whether its path matches the force_master and force_slave lists.
ExplicitRequests == [explicit : {TRUE}, readwrite : BOOLEAN]
RoutedRequests ==
  [explicit : {FALSE}, reads : BOOLEAN, master : BOOLEAN, slave : BOOLEAN]

UsesSlave(q) ==
  IF q.explicit
  THEN ~q.readwrite
  ELSE ~q.master /\ (q.reads \/ q.slave)

\* Faulty variant: an explicit readwrite=True ignores FORCE_READONLY.
EngineUnlessExplicit(q) ==
  IF UsesSlave(q) \/ (readonly /\ ~q.explicit) THEN Slave ELSE Master

Engine(q) == IF readonly \/ UsesSlave(q) THEN Slave ELSE Master

------------------------------------------------------------------------------
Init ==
  /\ readonly \in BOOLEAN
  /\ bind = None
  /\ phase = [t \in Threads |-> "idle"]
  /\ choice = [t \in Threads |-> None]
  /\ session = [t \in Threads |-> None]
  /\ alone = [t \in Threads |-> FALSE]

Choose(t) ==
  /\ phase[t] = "idle"
  /\ \E q \in ExplicitRequests \cup RoutedRequests :
       choice' = [choice EXCEPT ![t] = Engine(q)]
  /\ phase' = [phase EXCEPT ![t] = "chosen"]
  /\ alone' = [u \in Threads |-> IF u = t
                                 THEN \A v \in Threads \ {t} : ~InCall(v)
                                 ELSE alone[u] /\ ~InCall(u)]
  /\ UNCHANGED <<readonly, bind, session>>

\* Faulty variant: the session is created without configuring the factory.
ConfigureNothing(t) ==
  /\ phase[t] = "chosen"
  /\ phase' = [phase EXCEPT ![t] = "configured"]
  /\ UNCHANGED <<readonly, bind, choice, session, alone>>

\* Faulty variant: the factory is configured for its first session only.
ConfigureOnce(t) ==
  /\ phase[t] = "chosen"
  /\ bind' = IF bind = None THEN choice[t] ELSE bind
  /\ phase' = [phase EXCEPT ![t] = "configured"]
  /\ UNCHANGED <<readonly, choice, session, alone>>

Configure(t) ==
  /\ phase[t] = "chosen"
  /\ bind' = choice[t]
  /\ phase' = [phase EXCEPT ![t] = "configured"]
  /\ UNCHANGED <<readonly, choice, session, alone>>

Create(t) ==
  /\ phase[t] = "configured"
  /\ session' = [session EXCEPT ![t] = bind]
  /\ phase' = [phase EXCEPT ![t] = "open"]
  /\ UNCHANGED <<readonly, bind, choice, alone>>

\* The request ends, and its session with it.
Close(t) ==
  /\ phase[t] = "open"
  /\ phase' = [phase EXCEPT ![t] = "idle"]
  /\ choice' = [choice EXCEPT ![t] = None]
  /\ session' = [session EXCEPT ![t] = None]
  /\ alone' = [alone EXCEPT ![t] = FALSE]
  /\ UNCHANGED <<readonly, bind>>

SetReadonly ==
  /\ readonly' \in BOOLEAN
  /\ UNCHANGED <<bind, phase, choice, session, alone>>

RequestStep(t) == Configure(t) \/ Create(t) \/ Close(t)

Next == SetReadonly \/ \E t \in Threads : Choose(t) \/ RequestStep(t)

Spec == Init /\ [][Next]_vars

\* Once a request is being served, its thread runs and the request ends.
Fairness == \A t \in Threads : WF_vars(RequestStep(t))

FairSpec == Spec /\ Fairness

------------------------------------------------------------------------------
\* Type invariant; a session is never created without an engine.
TypeOK ==
  /\ readonly \in BOOLEAN
  /\ bind \in Engines \cup {None}
  /\ phase \in [Threads -> Phases]
  /\ choice \in [Threads -> Engines \cup {None}]
  /\ session \in [Threads -> Engines \cup {None}]
  /\ alone \in [Threads -> BOOLEAN]
  /\ \A t \in Threads : phase[t] = "open" => session[t] \in Engines

\* A session is bound to the engine its own request asked for (README.md: the
\* lists "force a route to use the master or the slave engine").
EngineOfTheRequest ==
  \A t \in Threads : phase[t] = "open" => session[t] = choice[t]

\* It is when no other thread was creating a session meanwhile: what an earlier
\* request left set on the factory is never used.
AloneIsRight ==
  \A t \in Threads : phase[t] = "open" /\ alone[t] => session[t] = choice[t]

\* Once the database is read-only for good, the master ends up unused, even by
\* the requests that were routed before the switch and by those that got mixed
\* with them: the moment from which the master can be taken down exists.
MasterDrains ==
  <>[]readonly => <>[](\A t \in Threads : session[t] # Master)
=============================================================================
