----------------------------- MODULE MCOperations -----------------------------
(***************************************************************************)
(* Instances for TLC of the components that operators use on running       *)
(* processes.  They share no state, so that a behaviour explores one of    *)
(* them, chosen at the start; the others stay as they are.                 *)
(***************************************************************************)
EXTENDS LogLevels, HealthChecks, SqlProfiler, BroadcasterSetup, TLC

CONSTANTS p1, p2, c1, c2, c3, la, lb, q1, q2, q3, v1, v2

VARIABLE part  \* the component that is explored

mcVars == <<part, logVars, healthVars, profilerVars, setupVars>>

(* Values of the constants. *)
MCChangeOf == (c1 :> la) @@ (c2 :> la) @@ (c3 :> lb)
MCChecks == <<[name |-> "db", kind |-> "db", level |-> 1, engine |-> "rw"],
              [name |-> "redis", kind |-> "redis", level |-> 1, engine |-> "none"],
              [name |-> "url", kind |-> "url", level |-> 1, engine |-> "none"],
              [name |-> "alembic", kind |-> "alembic", level |-> 2, engine |-> "none"],
              [name |-> "version", kind |-> "version", level |-> 2, engine |-> "none"]>>
MCVersionOf == (p1 :> "a") @@ (p2 :> "b")
MCQueries == {<<2, {"alembic", "version"}>>, <<1, {}>>}
MCTextOf == (q1 :> "a") @@ (q2 :> "a") @@ (q3 :> "b")

MCInit ==
  /\ part \in {"levels", "health", "profiler", "setup"}
  /\ LogInit /\ at = [c \in Changes |-> IF c = c2 THEN p2 ELSE p1]
  /\ HealthInit /\ probe[v1].at = p1 /\ probe[v2].at = p2
  /\ ProfilerInit /\ (part # "profiler" => local)
  /\ SetupInit /\ (part # "setup" => configured = "none")

MCNext ==
  \/ part = "levels" /\ LogNext /\ UNCHANGED <<part, healthVars, profilerVars, setupVars>>
  \/ part = "health" /\ HealthNext /\ UNCHANGED <<part, logVars, profilerVars, setupVars>>
  \/ part = "profiler" /\ ProfilerNext /\ UNCHANGED <<part, logVars, healthVars, setupVars>>
  \/ part = "setup" /\ SetupNext /\ UNCHANGED <<part, logVars, healthVars, profilerVars>>

MCSpec == MCInit /\ [][MCNext]_mcVars

\* The variables of each component have values of their types, whatever its actions do.
OperationsTypeOK ==
  CASE part = "levels" -> LogTypeOK
    [] part = "health" -> HealthTypeOK
    [] part = "profiler" -> ProfilerTypeOK
    [] part = "setup" -> SetupTypeOK
==============================================================================
