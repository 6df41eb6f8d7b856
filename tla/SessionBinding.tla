---------------------------- MODULE SessionBinding ----------------------------
(***************************************************************************)
(* Which database a scoped session is bound to, in each thread: the ways   *)
(* to set up the engines and the older tween that chooses one for each     *)
(* request (db.py), and the health checks that try each engine in turn     *)
(* (health_check.py).  The tween keeps the previous engine in a local      *)
(* variable; a check keeps it in its binding object, which is created once *)
(* and used by all the threads.  A SessionFactory is shared as well: a    *)
(* call sets its engine, and then creates a session with it.               *)
(*                                                                         *)
(* An engine is named by its URL.  "main" is the URL of the master.        *)
(***************************************************************************)
EXTENDS Naturals, Sequences, SequencesExt

CONSTANTS
  BindThreads,   \* the threads serving requests
  MaxSwitches    \* bound: changes of FORCE_READONLY

ASSUME BindAssumption == MaxSwitches \in Nat

VARIABLES
  setup,     \* how the session was set up: the function, the engines, whether there is a tween
  asked,     \* the EngineType of the database check
  force,     \* FORCE_READONLY
  switches,  \* how often it changed
  bound,     \* bound[t]: session.bind in the thread t
  previous,  \* previous[i]: prev_bind of the i-th binding of the check
  request,   \* request[t]: the step of the request of t, the engine it was given and the one before
  check,     \* check[t]: the binding that is being checked in t, or 0
  factory,   \* the engine that the SessionFactory is configured with
  session,   \* session[t]: the engine of the session the factory made for t, none or calling
  mixed,     \* history: threads that were in a check at the same time as another one
  forced,    \* history: threads whose check asked the factory when it was switched to read-only
  crossed    \* history: threads whose call of the factory another thread's call came into

factoryVars == <<factory, session, forced, crossed>>
bindVars == <<setup, asked, force, switches, bound, previous, request, check, mixed, factoryVars>>

EngineTypes == {"READ_ONLY", "WRITE_ONLY", "READ_AND_WRITE"}

------------------------------------------------------------------------------
(* Setting up.                                                             *)

\* setup_session: the slave, unless it has the URL of the master.
SetupSession(slave) ==
  [by |-> "setup_session", rw |-> "main", ro |-> slave, tween |-> slave # "main"]

\* create_session: the same, and the master only when there is no configuration to add a tween to.
CreateSession(slave, config) ==
  [by |-> "create_session", rw |-> "main",
   ro |-> IF config THEN slave ELSE "main", tween |-> config /\ slave # "main"]

\* init: a SessionFactory, with both engines the same for the engine shared by tests.
InitFactory(slave, shared) ==
  [by |-> "init", rw |-> "main", ro |-> IF shared THEN "main" ELSE slave, tween |-> FALSE]

Setups == UNION {{SetupSession(slave), CreateSession(slave, b), InitFactory(slave, b)} :
                    slave \in {"main", "replica"}, b \in BOOLEAN}

HasFactory == setup.by = "init"

------------------------------------------------------------------------------
(* The bindings of a check.                                                *)

\* _get_binding_class: a factory is told whether to write, a scoped session is given an engine.
\* The engine it is given is the other one.
BindingClass(ro, rw, readwrite) ==
  IF HasFactory
  THEN [class |-> "_NewBinding", engine |-> IF readwrite THEN setup.rw ELSE setup.ro, readwrite |-> readwrite]
  ELSE [class |-> "_OldBinding", engine |-> IF readwrite THEN ro ELSE rw, readwrite |-> readwrite]

\* Faulty variant: both engines are passed where only one is meant.
BindingsOfBoth ==
  CASE setup.rw = setup.ro \/ asked = "WRITE_ONLY" -> <<BindingClass(setup.ro, setup.rw, TRUE)>>
    [] setup.rw # setup.ro /\ asked = "READ_AND_WRITE" ->
         <<BindingClass(setup.ro, setup.rw, FALSE), BindingClass(setup.ro, setup.rw, TRUE)>>
    [] setup.rw # setup.ro /\ asked = "READ_ONLY" -> <<BindingClass(setup.ro, setup.rw, FALSE)>>

\* _get_bindings
Bindings ==
  CASE setup.rw = setup.ro \/ asked = "WRITE_ONLY" -> <<BindingClass(setup.rw, setup.rw, TRUE)>>
    [] setup.rw # setup.ro /\ asked = "READ_AND_WRITE" ->
         <<BindingClass(setup.ro, setup.rw, FALSE), BindingClass(setup.ro, setup.rw, TRUE)>>
    [] setup.rw # setup.ro /\ asked = "READ_ONLY" -> <<BindingClass(setup.ro, setup.ro, FALSE)>>

------------------------------------------------------------------------------
Idle == [step |-> "idle", engine |-> "main", old |-> "main"]
Urls == {"main", "replica"}

BindTypeOK ==
  /\ setup \in Setups /\ asked \in EngineTypes
  /\ force \in BOOLEAN /\ switches \in 0..MaxSwitches
  /\ bound \in [BindThreads -> Urls]
  /\ previous \in [1..2 -> Urls]
  /\ request \in [BindThreads -> [step : {"idle", "handling"}, engine : Urls, old : Urls]]
  /\ check \in [BindThreads -> 0..2]
  /\ factory \in Urls /\ session \in [BindThreads -> Urls \cup {"none", "calling"}]
  /\ mixed \subseteq BindThreads /\ forced \subseteq BindThreads /\ crossed \subseteq BindThreads

BindInit ==
  /\ setup \in Setups /\ asked \in EngineTypes
  /\ force = FALSE /\ switches = 0
  /\ bound = [t \in BindThreads |-> "main"]
  /\ previous = [i \in 1..2 |-> "main"]
  /\ request = [t \in BindThreads |-> Idle]
  /\ check = [t \in BindThreads |-> 0]
  /\ factory = "main" /\ session = [t \in BindThreads |-> "none"]
  /\ mixed = {} /\ forced = {} /\ crossed = {}

\* The choice of the tween and of SessionFactory.__call__ for a request, which reads by its method,
\* and may match the force_master or the force_slave list.
EngineOf(reads, master, slave) ==
  IF force \/ (~master /\ (reads \/ slave)) THEN setup.ro ELSE setup.rw

\* The first step of SessionFactory.__call__: the engine of the factory.
Configure(t, engine) ==
  /\ factory' = engine
  /\ session' = [session EXCEPT ![t] = "calling"]
  /\ crossed' = (crossed \ {t}) \cup {u \in BindThreads \ {t} : session[u] = "calling"}

\* db_chooser_tween up to the handler.  Without the tween the session stays as it is.
Enter(t, reads, master, slave) ==
  LET e == IF setup.tween THEN EngineOf(reads, master, slave) ELSE bound[t] IN
  /\ request[t].step = "idle"
  /\ request' = [request EXCEPT ![t] = [step |-> "handling", engine |-> e, old |-> bound[t]]]
  /\ bound' = [bound EXCEPT ![t] = e]
  /\ mixed' = mixed \ {t}
  /\ UNCHANGED <<setup, asked, force, switches, previous, check, factoryVars>>

\* A view that asks the factory for a session, the first step.
CallFactory(t, reads, master, slave) ==
  /\ HasFactory /\ request[t].step = "handling" /\ check[t] = 0 /\ session[t] = "none"
  /\ Configure(t, EngineOf(reads, master, slave))
  /\ UNCHANGED <<setup, asked, force, switches, bound, previous, request, check, mixed, forced>>

\* The second step: a session with the engine that the factory has by now.
CreateOne(t) ==
  /\ session[t] = "calling"
  /\ session' = [session EXCEPT ![t] = factory]
  /\ UNCHANGED <<setup, asked, force, switches, bound, previous, request, check, factory, mixed,
                 forced, crossed>>

\* _OldBinding.__enter__, or _NewBinding.__enter__, which asks the factory for a session.
EnterCheck(t, i) ==
  /\ request[t].step = "handling" /\ check[t] = 0 /\ session[t] # "calling"
  /\ i \in 1..Len(Bindings)
  /\ check' = [check EXCEPT ![t] = i]
  /\ IF HasFactory
     THEN /\ Configure(t, IF Bindings[i].readwrite /\ ~force THEN setup.rw ELSE setup.ro)
          /\ forced' = IF force THEN forced \cup {t} ELSE forced \ {t}
          /\ UNCHANGED <<bound, previous>>
     ELSE /\ previous' = [previous EXCEPT ![i] = bound[t]]
          /\ bound' = [bound EXCEPT ![t] = Bindings[i].engine]
          /\ UNCHANGED factoryVars
  /\ mixed' = IF \E u \in BindThreads : check[u] = i
              THEN mixed \cup {t} \cup {u \in BindThreads : check[u] = i} ELSE mixed
  /\ UNCHANGED <<setup, asked, force, switches, request>>

\* The engine that the queries of the check go to.
CheckedOn(t) == IF HasFactory THEN session[t] ELSE bound[t]

\* Faulty variant: the engine is set back when the query succeeds only.
ExitCheckWithoutError(t) ==
  /\ check[t] # 0
  /\ check' = [check EXCEPT ![t] = 0]
  /\ bound' \in {bound, [bound EXCEPT ![t] = previous[check[t]]]}
  /\ UNCHANGED <<setup, asked, force, switches, previous, request, mixed, factoryVars>>

\* _OldBinding.__exit__, whether the query raised an error or not.
ExitCheck(t) ==
  /\ check[t] # 0 /\ session[t] # "calling"
  /\ check' = [check EXCEPT ![t] = 0]
  /\ bound' = IF HasFactory THEN bound ELSE [bound EXCEPT ![t] = previous[check[t]]]
  /\ session' = [session EXCEPT ![t] = "none"]
  /\ UNCHANGED <<setup, asked, force, switches, previous, request, mixed, factory, forced, crossed>>

\* The finally clause of the tween.
Leave(t) ==
  /\ request[t].step = "handling" /\ check[t] = 0 /\ session[t] # "calling"
  /\ request' = [request EXCEPT ![t] = Idle]
  /\ bound' = IF setup.tween THEN [bound EXCEPT ![t] = request[t].old] ELSE bound
  /\ session' = [session EXCEPT ![t] = "none"]
  /\ UNCHANGED <<setup, asked, force, switches, previous, check, mixed, factory, forced, crossed>>

SwitchReadonly ==
  /\ switches < MaxSwitches /\ switches' = switches + 1
  /\ force' = ~force
  /\ UNCHANGED <<setup, asked, bound, previous, request, check, mixed, factoryVars>>

BindNext ==
  \/ \E t \in BindThreads :
       \/ \E reads, master, slave \in BOOLEAN :
            Enter(t, reads, master, slave) \/ CallFactory(t, reads, master, slave)
       \/ CreateOne(t)
       \/ \E i \in 1..2 : EnterCheck(t, i)
       \/ ExitCheck(t) \/ Leave(t)
  \/ SwitchReadonly

BindSpec == BindInit /\ [][BindNext]_bindVars

------------------------------------------------------------------------------
\* The engines of a request: the tween's choice before and after each check, unless two threads
\* were in the same check at once, which share the place where the previous engine is kept; and
\* the master again once the request is over, however checks and requests of the threads mix.
BindComesBack ==
  \A t \in BindThreads :
    /\ request[t].step = "idle" => bound[t] = setup.rw
    /\ request[t].step = "handling" /\ check[t] = 0 /\ t \notin mixed => bound[t] = request[t].engine

\* What the checks try is together what the EngineType asks for, for both kinds of sessions (one of
\* which swaps the engines); and each tries what its name says.  A scoped session does whatever
\* the other threads do.  A SessionFactory does not if it was switched to read-only when it was
\* called, and then tries the slave under the name of the master; nor if a view or a check of
\* another thread configured it between the two steps of the call.
CheckTriesItsEngine ==
  /\ {Bindings[i].engine : i \in 1..Len(Bindings)} =
       (IF asked # "READ_ONLY" THEN {setup.rw} ELSE {}) \cup (IF asked # "WRITE_ONLY" THEN {setup.ro} ELSE {})
  /\ \A t \in BindThreads : check[t] # 0 /\ session[t] # "calling" /\ t \notin crossed =>
       CheckedOn(t) = IF HasFactory /\ t \in forced THEN setup.ro ELSE Bindings[check[t]].engine
==============================================================================
