------------------------------ MODULE StatsReport ------------------------------
(***************************************************************************)
(* c2cwsgiutils-stats-db (scripts/stats_db.py): the statistics of a        *)
(* database, gathered statement by statement, pushed to the gateway of     *)
(* Prometheus or, without --prometheus-url, served to the first client     *)
(* that asks for anything, and tried again when something failed.          *)
(*                                                                         *)
(* A statement fails in the database, which then refuses every statement   *)
(* of that transaction, or in Python, for example for a table that was     *)
(* dropped meanwhile.  An attempt has an engine and a session of its own,  *)
(* and joins the transaction of the thread, which only                     *)
(* transaction.abort ends.                                                 *)
(***************************************************************************)
EXTENDS Naturals, FiniteSets, Sequences, SequencesExt

CONSTANTS
  Tables,    \* the tables
  Extras,    \* the sequence of the queries given with --extra; without any, args.extra is None
  Gauges,    \* the sequence of the queries given with --extra-gauge
  SampleOf,  \* the gauge and the metric of each query: the queries of --extra share a gauge
  TryNumber  \* C2CWSGIUTILS_STATS_DB_TRYNUMBER

\* A database has finitely many tables; the options of a command line are sequences.
ASSUME StatAssumption ==
  /\ IsFiniteSet(Tables) /\ TryNumber \in Nat
  /\ Extras \in Seq(ToSet(Extras)) /\ Gauges \in Seq(ToSet(Gauges))

VARIABLES
  args,       \* the extras and the extra gauges that were asked for, and whether to push
  stat,       \* the step of the attempt, or how the script ended
  attempt,    \* the number of the attempt
  listed,     \* the tables that exist for this attempt
  left,       \* the tables and queries to process, each the sequence of its statements
  aborted,    \* the database refuses the statements of this transaction
  joined,     \* the attempts whose session is in the transaction of the thread
  registry,   \* the statements whose samples are in the gauges
  failed,     \* history: how many times something failed in this attempt
  error,      \* the error that the reporter keeps: which failure of the attempt, and its kind
  raised,     \* what ended the last attempt
  delivered   \* the samples that Prometheus has, and the attempt they are of

statVars ==
  <<args, stat, attempt, listed, left, aborted, joined, registry, failed, error, raised, delivered>>

\* do_table: the statements of a table, one after the other.
TableParts(t) == <<<<t, "count">>, <<t, "size">>, <<t, "indexes">>>>

\* do_extra: one statement for each query.
QueryParts(queries, kind) == [i \in 1..Len(queries) |-> <<<<queries[i], kind>>>>]
QueryStatements(queries, kind) == {<<q, kind>> : q \in ToSet(queries)}

Statements(tables) ==
  (UNION {ToSet(TableParts(t)) : t \in tables})
  \cup QueryStatements(args.extra, "extra") \cup QueryStatements(args.gauge, "gauge")

\* The sample of a statement; one stands for those of its rows.
Sample(s) == IF s[2] \in {"extra", "gauge"} THEN <<SampleOf[s[1]], "query">> ELSE s

Options == [extra : {<<>>, Extras}, gauge : {<<>>, Gauges}, push : BOOLEAN]

NoFailure == [number |-> 0, kind |-> "none"]

\* The next failure of the attempt: of a statement by itself, of one that the database refuses
\* because of an earlier one, of the call of reporter.error, or of reporter.commit.
Failure(kind) == [number |-> failed + 1, kind |-> kind]

StatTypeOK ==
  /\ args \in Options
  /\ stat \in {"connect", "tables", "work", "commit", "success", "failure"}
  /\ attempt \in 1..(TryNumber + 1)
  /\ listed \subseteq Tables
  /\ left \in Seq(Seq(Statements(Tables)))
  /\ aborted \in BOOLEAN /\ joined \subseteq 1..TryNumber
  /\ registry \subseteq Statements(Tables)
  /\ failed \in Nat
  /\ error \in [number : Nat, kind : {"none", "cause", "refused"}]
  /\ raised \in [number : Nat, kind : {"none", "cause", "refused", "TypeError", "commit"}]
  /\ delivered \in [attempt : 0..TryNumber, samples : SUBSET Statements(Tables)]

StatInit ==
  /\ args \in Options
  /\ stat = (IF TryNumber = 0 THEN "failure" ELSE "connect")
  /\ attempt = 1 /\ listed = {} /\ left = <<>>
  /\ aborted = FALSE /\ joined = {} /\ registry = {}
  /\ failed = 0 /\ error = NoFailure /\ raised = NoFailure
  /\ delivered = [attempt |-> 0, samples |-> {}]

------------------------------------------------------------------------------
\* Faulty variant: the attempts are not counted.
RetryForever(cause) ==
  /\ raised' = cause
  /\ attempt' = attempt + 1
  /\ stat' = "connect"
  /\ left' = <<>>

\* The except clause of main: the next attempt, with a new reporter, or the end.
AttemptFails(cause) ==
  /\ raised' = cause
  /\ attempt' = attempt + 1
  /\ stat' = IF attempt < TryNumber THEN "connect" ELSE "failure"
  /\ left' = <<>>

ConnectDb ==
  /\ stat = "connect"
  /\ registry' = {} /\ error' = NoFailure /\ aborted' = FALSE
  /\ \/ stat' = "tables" /\ failed' = 0 /\ UNCHANGED <<attempt, left, raised>>
     \/ AttemptFails([number |-> 1, kind |-> "cause"]) /\ failed' = 1
  /\ UNCHANGED <<args, listed, joined, delivered>>

\* What an attempt has to process: the tables, then the extra queries.
Work(tables) ==
  [i \in 1..Len(tables) |-> TableParts(tables[i])]
  \o QueryParts(args.extra, "extra") \o QueryParts(args.gauge, "gauge")

\* The query for the tables is outside every try of the attempt.
ListTables(tables) ==
  /\ stat = "tables"
  /\ joined' = joined \cup {attempt}
  /\ \/ stat' = "work" /\ left' = Work(tables) /\ UNCHANGED <<attempt, failed, raised>>
     \/ AttemptFails(Failure("cause")) /\ failed' = failed + 1
  /\ listed' = ToSet(tables)
  /\ UNCHANGED <<args, aborted, registry, error, delivered>>

Current == Head(Head(left))

\* A statement of do_table or do_extra that succeeds: its samples are set in the gauges, in the
\* place of those that another query has set.
DoReport ==
  /\ stat = "work" /\ left # <<>> /\ ~aborted
  /\ registry' = {s \in registry : Sample(s) # Sample(Current)} \cup {Current}
  /\ left' = IF Len(Head(left)) = 1 THEN Tail(left) ELSE <<Tail(Head(left))>> \o Tail(left)
  /\ UNCHANGED <<args, stat, attempt, listed, aborted, joined, failed, error, raised, delivered>>

\* What is left after an error: the rest of the table is given up.
AfterError == Tail(left)

FailureOfStatement == Failure(IF aborted THEN "refused" ELSE "cause")

\* Faulty variant: the reporter keeps the last error.
LastError(refuses) ==
  /\ stat = "work" /\ left # <<>>
  /\ error' = FailureOfStatement /\ failed' = failed + 1
  /\ aborted' = (aborted \/ refuses)
  /\ left' = AfterError
  /\ UNCHANGED <<args, stat, attempt, listed, joined, registry, raised, delivered>>

\* A statement that fails; reporter.error keeps the first one.  With an extra gauge and no
\* extra, the call of reporter.error itself raises a TypeError: one more failure.
ReportError(refuses) ==
  /\ stat = "work" /\ left # <<>>
  /\ aborted' = (aborted \/ refuses)
  /\ IF Current[2] = "gauge" /\ args.extra = <<>>
     THEN /\ AttemptFails([number |-> failed + 2, kind |-> "TypeError"])
          /\ failed' = failed + 2 /\ UNCHANGED error
     ELSE /\ error' = IF error # NoFailure THEN error ELSE FailureOfStatement
          /\ failed' = failed + 1 /\ left' = AfterError
          /\ UNCHANGED <<stat, attempt, raised>>
  /\ UNCHANGED <<args, listed, joined, registry, delivered>>

WorkDone ==
  /\ stat = "work" /\ left = <<>>
  /\ stat' = "commit"
  /\ UNCHANGED <<args, attempt, listed, left, aborted, joined>>
  /\ UNCHANGED <<registry, failed, error, raised, delivered>>

\* What Prometheus gets: a push replaces all the samples of the job.
Report == [attempt |-> attempt, samples |-> registry]

\* Reporter.commit: the gateway has the report.  Without a gateway one request is answered, of
\* Prometheus or of anyone else, and what goes wrong in it is only printed.
PushOrServe ==
  \/ delivered' = Report
  \/ ~args.push /\ UNCHANGED delivered

\* It raises when the gateway does not answer, which may have got the report, or when the port
\* is taken.
PushOrServeFails ==
  \/ UNCHANGED delivered
  \/ args.push /\ delivered' = Report

\* Faulty variant: the error of the reporter is not raised.
CommitOnly ==
  /\ stat = "commit" /\ PushOrServe
  /\ joined' = {} /\ raised' = NoFailure /\ stat' = "success"
  /\ UNCHANGED <<args, attempt, listed, left, aborted, registry, failed, error>>

\* After reporter.commit the transaction is aborted and the first error raised.  When it
\* raises, neither happens.
CommitReport ==
  /\ stat = "commit"
  /\ \/ /\ PushOrServe /\ joined' = {} /\ UNCHANGED failed
        /\ IF error # NoFailure THEN AttemptFails(error)
           ELSE stat' = "success" /\ raised' = NoFailure /\ UNCHANGED <<attempt, left>>
     \/ /\ PushOrServeFails /\ UNCHANGED joined
        /\ AttemptFails(Failure("commit")) /\ failed' = failed + 1
  /\ UNCHANGED <<args, listed, aborted, registry, error>>

StatNext ==
  \/ ConnectDb
  \/ \E s \in SUBSET Tables : \E tables \in SetToSeqs(s) : ListTables(tables)
  \/ DoReport
  \/ \E refuses \in BOOLEAN : ReportError(refuses)
  \/ WorkDone \/ CommitReport
  \/ stat \in {"success", "failure"} /\ UNCHANGED statVars

StatSpec == StatInit /\ [][StatNext]_statVars

------------------------------------------------------------------------------
\* The script ends with success only when the gauges of its last attempt had a value for
\* each statement of each table that it listed and for every query, its own or that of a query
\* with the same metric: a failed statement, whose error is swallowed twice on its way, is
\* never forgotten, and attempts never add up to a success.  No transaction is open then, not
\* even one of an attempt that ended by an error.  With --prometheus-url the gateway has those
\* values; without it they were offered to one client, and nobody may have got them.
SuccessIsComplete ==
  stat = "success" =>
    /\ \A s \in Statements(listed) : \E r \in registry : Sample(r) = Sample(s)
    /\ args.push => delivered = Report
    /\ joined = {}

\* An attempt ends by the first thing that failed in it, whatever failed after, and so never by
\* one of the refusals that follow an error in the same transaction; unless what fails
\* last is reporter.error, for an extra gauge without an extra, or reporter.commit: these hide
\* the first error.
CauseIsRaised ==
  /\ raised.number <= 1 \/ raised.kind \in {"TypeError", "commit"}
  /\ raised.kind # "refused"
==============================================================================
