------------------------------- MODULE SqlTiming -------------------------------
(***************************************************************************)
(* The timing of SQL statements (stats_pyramid/_db_spy.py): before each    *)
(* statement a listener for the end of a statement is put on the           *)
(* connection, to be called once, with the name of its own statement.      *)
(*                                                                         *)
(* A statement may be executed in the middle of another one's preparation, *)
(* as EXPLAIN is by the SQL profiler, and may fail, which calls no         *)
(* listener.  A connection is used by one thread at a time.                *)
(***************************************************************************)
EXTENDS Naturals, Sequences, FiniteSets, SequencesExt

CONSTANTS
  Conns,          \* the connections
  SqlStatements   \* the executions of statements

VARIABLES
  on,        \* on[s]: the connection that s was executed on, or none
  sqlState,  \* sqlState[s]: new, running, succeeded or failed
  stack,     \* stack[c]: the statements being executed on c, the last one inside the others
  listening, \* listening[c]: the statements whose listener on c was not called yet
  observed,  \* observed[s]: how often the time of s was observed
  endedBy    \* endedBy[s]: the statement at whose end this was first, or none

timingVars == <<on, sqlState, stack, listening, observed, endedBy>>

NoConn == "no connection"
NoStatement == "no statement"

TimingTypeOK ==
  /\ on \in [SqlStatements -> Conns \cup {NoConn}]
  /\ sqlState \in [SqlStatements -> {"new", "running", "succeeded", "failed"}]
  /\ stack \in [Conns -> Seq(SqlStatements)]
  /\ listening \in [Conns -> SUBSET SqlStatements]
  /\ observed \in [SqlStatements -> Nat]
  /\ endedBy \in [SqlStatements -> SqlStatements \cup {NoStatement}]

TimingInit ==
  /\ on = [s \in SqlStatements |-> NoConn]
  /\ sqlState = [s \in SqlStatements |-> "new"]
  /\ stack = [c \in Conns |-> <<>>]
  /\ listening = [c \in Conns |-> {}]
  /\ observed = [s \in SqlStatements |-> 0]
  /\ endedBy = [s \in SqlStatements |-> NoStatement]

\* _before_cursor_execute: the listener is put on the connection.
BeforeCursorExecute(s, c) ==
  /\ sqlState[s] = "new"
  /\ on' = [on EXCEPT ![s] = c]
  /\ sqlState' = [sqlState EXCEPT ![s] = "running"]
  /\ stack' = [stack EXCEPT ![c] = Append(@, s)]
  /\ listening' = [listening EXCEPT ![c] = @ \cup {s}]
  /\ UNCHANGED <<observed, endedBy>>

\* Faulty variant: the listeners are called each time.
AfterEachExecute(c) ==
  LET done == Last(stack[c]) IN
  /\ stack[c] # <<>>
  /\ sqlState' = [sqlState EXCEPT ![done] = "succeeded"]
  /\ stack' = [stack EXCEPT ![c] = Front(@)]
  /\ observed' = [s \in SqlStatements |-> IF s \in listening[c] THEN observed[s] + 1 ELSE observed[s]]
  /\ endedBy' = [s \in SqlStatements |-> IF s \in listening[c] THEN done ELSE endedBy[s]]
  /\ UNCHANGED <<on, listening>>

\* The statement succeeds: every listener of the connection that was not called yet is.
AfterCursorExecute(c) ==
  LET done == Last(stack[c]) IN
  /\ stack[c] # <<>>
  /\ sqlState' = [sqlState EXCEPT ![done] = "succeeded"]
  /\ stack' = [stack EXCEPT ![c] = Front(@)]
  /\ observed' = [s \in SqlStatements |-> IF s \in listening[c] THEN observed[s] + 1 ELSE observed[s]]
  /\ endedBy' = [s \in SqlStatements |-> IF s \in listening[c] THEN done ELSE endedBy[s]]
  /\ listening' = [listening EXCEPT ![c] = {}]
  /\ UNCHANGED on

\* The statement fails: its listener is left on the connection.
FailExecute(c) ==
  /\ stack[c] # <<>>
  /\ sqlState' = [sqlState EXCEPT ![Last(stack[c])] = "failed"]
  /\ stack' = [stack EXCEPT ![c] = Front(@)]
  /\ UNCHANGED <<on, listening, observed, endedBy>>

\* The connection is given back, and the next one that is asked for has no listener.
GiveBack(c) ==
  /\ stack[c] = <<>> /\ listening[c] # {}
  /\ listening' = [listening EXCEPT ![c] = {}]
  /\ UNCHANGED <<on, sqlState, stack, observed, endedBy>>

TimingNext ==
  \E c \in Conns :
    \/ \E s \in SqlStatements : BeforeCursorExecute(s, c)
    \/ AfterCursorExecute(c) \/ FailExecute(c) \/ GiveBack(c)

TimingSpec == TimingInit /\ [][TimingNext]_timingVars

------------------------------------------------------------------------------
\* Every statement that succeeds is observed once, at its end or at that of a statement inside
\* it, and one that failed at most once, with a later statement of its own connection: the
\* listeners that failures leave behind never count a statement twice, or on another engine.
ObservedOnce ==
  \A s \in SqlStatements :
    /\ sqlState[s] = "succeeded" => observed[s] = 1
    /\ observed[s] <= 1
    /\ observed[s] = 1 => on[endedBy[s]] = on[s] /\ sqlState[endedBy[s]] = "succeeded"
==============================================================================
