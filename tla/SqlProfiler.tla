----------------------------- MODULE SqlProfiler -----------------------------
(***************************************************************************)
(* The SQL profiler of one process (sql_profiler/_impl.py): a broadcast    *)
(* callback that installs or removes a listener on the engines, and the    *)
(* listener, which runs EXPLAIN on each SELECT the first time it sees it.  *)
(*                                                                         *)
(* With Redis the callbacks run in the listener thread, one at a time;     *)
(* with the local broadcaster each runs in the thread of its request.  The *)
(* callback checks the global _REPOSITORY and then changes it, in steps.   *)
(* A repository is a number: the n-th one that was created.                *)
(***************************************************************************)
EXTENDS Naturals, FiniteSets

CONSTANTS
  Callbacks,    \* the calls of the callback
  Enabling,     \* those that enable the profiler, the others disable it
  Selects,      \* the executions of a SELECT
  TextOf        \* TextOf[q]: its statement

\* There are finitely many calls, so that repositories can be numbered.
ASSUME ProfilerAssumption == IsFiniteSet(Callbacks)

VARIABLES
  local,       \* whether the local broadcaster is used
  repository,  \* _REPOSITORY: its number, or 0
  created,     \* how many there were
  installed,   \* the repositories whose profile method listens to the engines
  seen,        \* seen[r]: the statements of the repository r
  callback,    \* callback[k]: how far the call k is
  query,       \* query[q]: how far the execution q is
  todo,        \* todo[q]: the repositories that still have to be told of q
  explained    \* how often each statement was explained for each repository

profilerVars == <<local, repository, created, installed, seen, callback, query, todo, explained>>

Repositories == 1..Cardinality(Callbacks)

ProfilerTypeOK ==
  /\ local \in BOOLEAN
  /\ repository \in 0..created /\ created \in 0..Cardinality(Callbacks)
  /\ installed \subseteq 1..created
  /\ seen \in [Repositories -> SUBSET {TextOf[q] : q \in Selects}]
  /\ callback \in [Callbacks -> {"new", "absent", "present", "set", "removed", "done", "raised"}]
  /\ query \in [Selects -> {"new", "running", "explaining", "done"}]
  /\ todo \in [Selects -> SUBSET (1..created)]
  /\ explained \in [{TextOf[q] : q \in Selects} -> [Repositories -> Nat]]

ProfilerInit ==
  /\ local \in BOOLEAN
  /\ repository = 0 /\ created = 0 /\ installed = {}
  /\ seen = [r \in Repositories |-> {}]
  /\ callback = [k \in Callbacks |-> "new"]
  /\ query = [q \in Selects |-> "new"]
  /\ todo = [q \in Selects |-> {}]
  /\ explained = [s \in {TextOf[q] : q \in Selects} |-> [r \in Repositories |-> 0]]

------------------------------------------------------------------------------
CallbacksRunning == {k \in Callbacks : callback[k] \in {"absent", "present", "set", "removed"}}

CallbackAt(k, step) == callback' = [callback EXCEPT ![k] = step]

\* The test of _REPOSITORY: nothing to do, or a change to make.
TestRepository(k) ==
  /\ callback[k] = "new" /\ (local \/ CallbacksRunning = {})
  /\ CallbackAt(k, CASE k \in Enabling /\ repository = 0 -> "absent"
             [] k \notin Enabling /\ repository # 0 -> "present"
             [] OTHER -> "done")
  /\ UNCHANGED <<repository, created, installed, seen, query, todo, explained>>

NewRepository(k) ==
  /\ callback[k] = "absent" /\ CallbackAt(k, "set")
  /\ created' = created + 1 /\ repository' = created + 1
  /\ UNCHANGED <<installed, seen, query, todo, explained>>

\* event.listen with the profile method of what _REPOSITORY is now; None has no such method.
ListenEngines(k) ==
  /\ callback[k] = "set"
  /\ IF repository = 0 THEN CallbackAt(k, "raised") /\ UNCHANGED installed
     ELSE CallbackAt(k, "done") /\ installed' = installed \cup {repository}
  /\ UNCHANGED <<repository, created, seen, query, todo, explained>>

\* Faulty variant: the global is cleared before the listener is removed.
ForgetThenRemove(k) ==
  /\ callback[k] = "present"
  /\ repository' = 0 /\ CallbackAt(k, "raised")
  /\ UNCHANGED <<created, installed, seen, query, todo, explained>>

\* event.remove raises an error when there is no such listener.
RemoveListener(k) ==
  /\ callback[k] = "present"
  /\ IF repository \notin installed THEN CallbackAt(k, "raised") /\ UNCHANGED installed
     ELSE CallbackAt(k, "removed") /\ installed' = installed \ {repository}
  /\ UNCHANGED <<repository, created, seen, query, todo, explained>>

ForgetRepository(k) ==
  /\ callback[k] = "removed" /\ CallbackAt(k, "done")
  /\ repository' = 0
  /\ UNCHANGED <<created, installed, seen, query, todo, explained>>

------------------------------------------------------------------------------
\* before_cursor_execute: every listener installed at that moment is called.
ExecuteSelect(q) ==
  /\ query[q] = "new"
  /\ query' = [query EXCEPT ![q] = "running"]
  /\ todo' = [todo EXCEPT ![q] = installed]
  /\ UNCHANGED <<repository, created, installed, seen, callback, explained>>

ExplainFor(q, r) == explained' = [explained EXCEPT ![TextOf[q]][r] = @ + 1]

\* Faulty variant: the statement is remembered once it is explained.
ProfileUnlocked(q, r) ==
  /\ query[q] \in {"running", "explaining"} /\ r \in todo[q]
  /\ IF query[q] = "explaining"
     THEN /\ seen' = [seen EXCEPT ![r] = @ \cup {TextOf[q]}]
          /\ todo' = [todo EXCEPT ![q] = @ \ {r}]
          /\ query' = [query EXCEPT ![q] = "running"]
          /\ ExplainFor(q, r)
     ELSE /\ query' = [query EXCEPT ![q] = IF TextOf[q] \in seen[r] THEN "done" ELSE "explaining"]
          /\ UNCHANGED <<seen, todo, explained>>
  /\ UNCHANGED <<repository, created, installed, callback>>

\* profile: the statement is looked up and remembered under the lock; then it is explained,
\* which executes a statement that is no SELECT.  An error of EXPLAIN is ignored.
ProfileSelect(q, r) ==
  /\ query[q] = "running" /\ r \in todo[q]
  /\ todo' = [todo EXCEPT ![q] = @ \ {r}]
  /\ seen' = [seen EXCEPT ![r] = @ \cup {TextOf[q]}]
  /\ IF TextOf[q] \in seen[r] THEN UNCHANGED explained ELSE ExplainFor(q, r)
  /\ UNCHANGED <<repository, created, installed, callback, query>>

SelectExecuted(q) ==
  /\ query[q] = "running" /\ todo[q] = {}
  /\ query' = [query EXCEPT ![q] = "done"]
  /\ UNCHANGED <<repository, created, installed, seen, callback, todo, explained>>

ProfilerNext ==
  /\ UNCHANGED local
  /\ \/ \E k \in Callbacks : \/ TestRepository(k) \/ NewRepository(k) \/ ListenEngines(k)
                             \/ RemoveListener(k) \/ ForgetRepository(k)
     \/ \E q \in Selects : ExecuteSelect(q) \/ SelectExecuted(q) \/ \E r \in Repositories : ProfileSelect(q, r)

ProfilerSpec == ProfilerInit /\ [][ProfilerNext]_profilerVars

------------------------------------------------------------------------------
\* With Redis, between two callbacks, the engines have exactly the listener of the current
\* repository: none is left behind, which nothing could remove any more.
ListenerOfRepository ==
  ~local /\ CallbacksRunning = {} => installed = {repository} \ {0}

\* However many threads execute a statement at once, and whatever is enabled or disabled in the
\* meantime, a repository has it explained once: EXPLAIN ANALYZE runs the statement again.
ExplainedOnce ==
  \A q \in Selects, r \in Repositories : explained[TextOf[q]][r] <= 1
==============================================================================
