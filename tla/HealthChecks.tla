----------------------------- MODULE HealthChecks -----------------------------
(***************************************************************************)
(* The health checks (health_check.py): a view runs the checks asked for,  *)
(* one after the other, reports them and keeps a gauge per process and per *)
(* check.  A failure sets the gauge of the process that runs the check; a  *)
(* success is broadcast, and every process clears its gauge.               *)
(*                                                                         *)
(* world is what the checks look at: the state of each database, of the    *)
(* URL and of Redis, which may change at any time.  Broadcasts are what    *)
(* ScatterGather promises: told[p] is what p has still to run, in order.   *)
(***************************************************************************)
EXTENDS Naturals, Sequences, FiniteSets, SequencesExt

CONSTANTS
  HealthProcs,  \* the processes
  Views,        \* the requests to the view
  Checks,       \* the checks in the order they were added: name, kind, level and, for a
                \* database check, the engine
  VersionOf,    \* VersionOf[p]: the version of the code of p
  Engines,      \* the engines of the session
  Queries,      \* the max_level and the names of checks that are asked for
  MaxChanges    \* bound: changes of the world and processes replaced

ASSUME HealthAssumption == MaxChanges \in Nat

\* The names of the checks are the keys of the results of a view.
ASSUME NamesDistinct == \A i, j \in DOMAIN Checks : Checks[i].name = Checks[j].name => i = j

VARIABLES
  world,    \* the databases (world.db), the URL (world.site) and Redis (world.redis)
  changes,  \* how many changes and replacements there were
  gauge,    \* gauge[p][c]: the failure gauge of the check, or none
  told,     \* told[p]: successes broadcast to p, not handled yet
  listens,  \* listens[p]: the subscription of p works
  probe,    \* probe[v]: what the view v has done
  steady,   \* history: the views during which the world did not change
  cleared   \* history: cleared[p] has the checks whose success was broadcast to p
            \* after p last recorded a failure of theirs

healthVars == <<world, changes, gauge, told, listens, probe, steady, cleared>>

Names == {Checks[i].name : i \in DOMAIN Checks}
\* A database is broken when it does not answer, or has no record or no version to show.
DbStates == {"ok", "old", "broken"}
Worlds == [db : [Engines -> DbStates], site : {"ok", "error"}, redis : {"up", "down"}]

\* A view of p that has no results.
Idle(p) == [at |-> p, asked |-> {}, ran |-> {}, telling |-> {}, failing |-> {},
            successes |-> {}, failures |-> {}, status |-> "new"]

HealthTypeOK ==
  /\ world \in Worlds /\ changes \in 0..MaxChanges
  /\ gauge \in [HealthProcs -> [Names -> {"none", "0", "1"}]]
  /\ \A p \in HealthProcs : told[p] \in Seq(Names)
  /\ listens \in [HealthProcs -> BOOLEAN]
  /\ probe \in [Views -> [at : HealthProcs, asked : SUBSET DOMAIN Checks, ran : SUBSET DOMAIN Checks,
                         telling : SUBSET DOMAIN Checks, failing : SUBSET DOMAIN Checks,
                         successes : SUBSET Names, failures : SUBSET Names,
                         status : {"new", "running", "200", "500", "lost"}]]
  /\ steady \subseteq Views
  /\ cleared \in [HealthProcs -> SUBSET Names]

HealthInit ==
  /\ world = [db |-> [e \in Engines |-> "ok"], site |-> "ok", redis |-> "up"]
  /\ changes = 0
  /\ gauge = [p \in HealthProcs |-> [n \in Names |-> "none"]]
  /\ told = [p \in HealthProcs |-> <<>>]
  /\ listens = [p \in HealthProcs |-> TRUE]
  /\ probe \in [Views -> {Idle(p) : p \in HealthProcs}]
  /\ steady = Views
  /\ cleared = [p \in HealthProcs |-> {}]

------------------------------------------------------------------------------
(* The checks.                                                             *)

\* add_db_session_check with at_least_one_model: the model has a record in this engine.
DbEngineCheck(c) == world.db[c.engine] # "broken"

\* add_alembic_check: in each engine, there is a version and it is that of the code.
AlembicCheck == \A e \in Engines : world.db[e] = "ok"

\* add_url_check: raise_for_status.
UrlCheck == world.site = "ok"

\* add_redis_check: each command is tried on its own and an error is a result like any other.
RedisCheck == TRUE

\* add_version_check: the processes of which an answer came before the timeout are compared;
\* the others count as an answer that is skipped, but no receiver at all is an error.
VersionCheck(p, answered) ==
  /\ world.redis = "up"
  /\ \E q \in HealthProcs : listens[q]
  /\ \A q \in answered : VersionOf[q] = VersionOf[p]

Passes(c, p, answered) ==
  CASE c.kind = "db" -> DbEngineCheck(c)
    [] c.kind = "alembic" -> AlembicCheck
    [] c.kind = "url" -> UrlCheck
    [] c.kind = "redis" -> RedisCheck
    [] c.kind = "version" -> VersionCheck(p, answered)

------------------------------------------------------------------------------
(* The view.                                                               *)

\* max_level and checks, an empty list of checks being the same as none.
Selected(maxLevel, names) ==
  {i \in DOMAIN Checks : Checks[i].level <= maxLevel /\ (names = {} \/ Checks[i].name \in names)}

BeginView(v, maxLevel, names) ==
  /\ probe[v].status = "new"
  /\ probe' = [probe EXCEPT ![v].status = "running", ![v].asked = Selected(maxLevel, names)]
  /\ UNCHANGED <<world, changes, gauge, told, listens, steady, cleared>>

\* The loop over the checks goes on, when one is done with, with the first one, in their
\* order, that is asked for.
Remaining(v) == probe[v].asked \ probe[v].ran
InACheck(v) == probe[v].telling \cup probe[v].failing # {}
IsNext(v, i) == ~InACheck(v) /\ i \in Remaining(v) /\ \A j \in Remaining(v) : i <= j

\* _run_one calls the check, which gets its entry in the successes when it passes.
RunCheck(v, i, answered) ==
  LET c == Checks[i]
      passes == Passes(c, probe[v].at, answered)
  IN
  /\ probe[v].status = "running" /\ IsNext(v, i)
  /\ probe' = [probe EXCEPT
       ![v].ran = @ \cup {i},
       ![v].telling = IF passes THEN {i} ELSE {},
       ![v].failing = IF passes THEN {} ELSE {i},
       ![v].successes = IF passes THEN @ \cup {c.name} ELSE @]
  /\ UNCHANGED <<world, changes, gauge, told, listens, steady, cleared>>

\* Faulty variant: the success is not broadcast, it clears the gauge of this process.
SuccessHere(v, i) ==
  /\ i \in probe[v].telling /\ world.redis = "up"
  /\ gauge' = [gauge EXCEPT ![probe[v].at][Checks[i].name] = "0"]
  /\ cleared' = [p \in HealthProcs |->
                   IF listens[p] THEN cleared[p] \cup {Checks[i].name} ELSE cleared[p]]
  /\ probe' = [probe EXCEPT ![v].telling = {}]
  /\ UNCHANGED <<world, changes, told, listens, steady>>

\* _set_success: every process that listens is told.
SetSuccess(v, i) ==
  LET n == Checks[i].name IN
  /\ i \in probe[v].telling /\ world.redis = "up"
  /\ told' = [p \in HealthProcs |-> IF listens[p] THEN Append(told[p], n) ELSE told[p]]
  /\ cleared' = [p \in HealthProcs |-> IF listens[p] THEN cleared[p] \cup {n} ELSE cleared[p]]
  /\ probe' = [probe EXCEPT ![v].telling = {}]
  /\ UNCHANGED <<world, changes, gauge, listens, steady>>

\* Faulty variant: an error of the broadcast is ignored.
IgnoreBroadcastError(v, i) ==
  /\ i \in probe[v].telling /\ world.redis = "down"
  /\ probe' = [probe EXCEPT ![v].telling = {}]
  /\ UNCHANGED <<world, changes, gauge, told, listens, steady, cleared>>

\* When the broadcast raises an error, the check that passed has failed too.
SetSuccessFails(v, i) ==
  /\ i \in probe[v].telling /\ world.redis = "down"
  /\ probe' = [probe EXCEPT ![v].telling = {}, ![v].failing = {i}]
  /\ UNCHANGED <<world, changes, gauge, told, listens, steady, cleared>>

\* The except clause of _run_one sets the gauge of its process.
RecordFailure(v, i) ==
  LET n == Checks[i].name IN
  /\ i \in probe[v].failing
  /\ gauge' = [gauge EXCEPT ![probe[v].at][n] = "1"]
  /\ cleared' = [cleared EXCEPT ![probe[v].at] = @ \ {n}]
  /\ probe' = [probe EXCEPT ![v].failing = {}, ![v].failures = @ \cup {n}]
  /\ UNCHANGED <<world, changes, told, listens, steady>>

\* The results are sent.
EndView(v) ==
  /\ probe[v].status = "running" /\ ~InACheck(v) /\ Remaining(v) = {}
  /\ probe' = [probe EXCEPT
       ![v] = [Idle(@.at) EXCEPT !.status = IF probe[v].failures # {} THEN "500" ELSE "200"]]
  /\ UNCHANGED <<world, changes, gauge, told, listens, steady, cleared>>

\* The callback of _set_success.
ClearGauge(p) ==
  /\ told[p] # <<>>
  /\ gauge' = [gauge EXCEPT ![p][Head(told[p])] = "0"]
  /\ told' = [told EXCEPT ![p] = Tail(@)]
  /\ UNCHANGED <<world, changes, listens, probe, steady, cleared>>

------------------------------------------------------------------------------
(* The environment.                                                        *)

\* A database, the URL or Redis breaks or is repaired.
Neighbours ==
  {[world EXCEPT !.db[e] = s] : e \in Engines, s \in DbStates}
    \cup {[world EXCEPT !.site = s] : s \in {"ok", "error"}}
    \cup {[world EXCEPT !.redis = s] : s \in {"up", "down"}}

Change(w) ==
  /\ w # world /\ changes < MaxChanges
  /\ world' = w /\ changes' = changes + 1
  /\ listens' = IF w.redis = "up" THEN listens ELSE [p \in HealthProcs |-> FALSE]
  /\ told' = IF w.redis = "up" THEN told ELSE [p \in HealthProcs |-> <<>>]
  /\ steady' = {v \in steady : probe[v].status # "running"}
  /\ cleared' = [p \in HealthProcs |-> IF w.redis = "up" THEN cleared[p] ELSE {}]
  /\ UNCHANGED <<gauge, probe>>

Resubscribe(p) ==
  /\ world.redis = "up" /\ ~listens[p]
  /\ listens' = [listens EXCEPT ![p] = TRUE]
  /\ UNCHANGED <<world, changes, gauge, told, probe, steady, cleared>>

\* A worker ends and another one takes its place: child_exit forgets the gauges of the dead.
Replace(p) ==
  /\ changes < MaxChanges /\ changes' = changes + 1
  /\ gauge' = [gauge EXCEPT ![p] = [n \in Names |-> "none"]]
  /\ told' = [told EXCEPT ![p] = <<>>]
  /\ listens' = [listens EXCEPT ![p] = FALSE]
  /\ probe' = [v \in Views |-> IF probe[v].at = p /\ probe[v].status = "running"
                               THEN [Idle(p) EXCEPT !.status = "lost"] ELSE probe[v]]
  /\ cleared' = [cleared EXCEPT ![p] = {}]
  /\ UNCHANGED <<world, steady>>

HealthNext ==
  \/ \E v \in Views :
       \/ \E q \in Queries : BeginView(v, q[1], q[2])
       \/ \E i \in DOMAIN Checks, answered \in SUBSET {q \in HealthProcs : listens[q]} :
            RunCheck(v, i, answered)
       \/ \E i \in DOMAIN Checks :
            SetSuccess(v, i) \/ SetSuccessFails(v, i) \/ RecordFailure(v, i)
       \/ EndView(v)
  \/ \E p \in HealthProcs : ClearGauge(p) \/ Resubscribe(p) \/ Replace(p)
  \/ \E w \in Neighbours : Change(w)

HealthSpec == HealthInit /\ [][HealthNext]_healthVars

------------------------------------------------------------------------------
\* A gauge that shows a failure although a success of the check was broadcast after it was
\* recorded is about to be cleared: the success is on its way to that process, whatever else
\* happens in between.  Otherwise the maximum over the processes, which is what is scraped,
\* would show for ever a failure that was repaired.  A failure that is found before the
\* success is broadcast and recorded after it does stay, until the next success.
NoStaleFailure ==
  \A p \in HealthProcs : \A n \in cleared[p] : gauge[p][n] = "1" => n \in ToSet(told[p])

\* While the world does not change, a view reports the truth about Redis although the check
\* of Redis itself cannot fail: when Redis is down every check that it is done with is a
\* failure, and only then is a check that passed among the failures as well.
RedisDownIsReported ==
  \A v \in steady : probe[v].status = "running" =>
    LET done == probe[v].ran \ (probe[v].telling \cup probe[v].failing)
    IN IF world.redis = "down" THEN probe[v].failures = {Checks[i].name : i \in done}
       ELSE probe[v].successes \cap probe[v].failures = {}
==============================================================================
