---------------------------- MODULE SqlLogHandler ----------------------------
(***************************************************************************)
(* The handler that writes log lines to a database                         *)
(* (sqlalchemylogger/handlers.py, class SQLAlchemyHandler): emit() puts    *)
(* each line in a queue, a writer thread takes them one at a time and      *)
(* writes them in chunks, with one more attempt when the first one fails.  *)
(*                                                                         *)
(* The threads that log take turns (logging.Handler has a lock), and emit  *)
(* and the taking of a line both hold the condition, so each is one step.  *)
(* Time is abstracted: a wait may time out at any moment, and so may a     *)
(* chunk that got a line.                                                  *)
(***************************************************************************)
EXTENDS Naturals, Sequences, Functions

CONSTANTS
  Lines,      \* the lines logged by the application, after the filters
  Refused,    \* those whose insertion raises a SQLAlchemyError
  Fatal,      \* those whose insertion raises something else
  MaxNbLogs,  \* MAX_NB_LOGS
  MaxFaults   \* bound: failures of the database in a behaviour

ASSUME LinesAssumption == Refused \subseteq Lines /\ Fatal \subseteq Lines
ASSUME ChunkAssumption == MaxNbLogs \in Nat \ {0}
ASSUME FaultBound == MaxFaults \in Nat

VARIABLES
  writer,    \* where the writer thread is
  queue,     \* log_queue
  chunk,     \* logs, the chunk being built or written
  late,      \* a wait of this chunk timed out, so the chunk is due
  failed,    \* the session needs a rollback
  table,     \* the rows of the table, in the order of their insertion
  faults,    \* failures of the database so far
  \* History.
  emitted,   \* the lines put in the queue, in order
  settled,   \* those that the writer is done with, in order
  rejected   \* the lines whose emit() raised

pipe == <<queue, chunk, late, settled>>
database == <<failed, table, faults>>
logged == <<emitted, rejected>>
vars == <<writer, pipe, database, logged>>

WriterStates == {"unstarted", "looping", "waiting", "woken", "writing",
                 "recovering", "dead", "gone"}

Fail == faults < MaxFaults /\ faults' = faults + 1

\* Every line of the chunk can be inserted.
Insertable == Range(chunk) \cap (Refused \cup Fatal) = {}

Insert == table' = table \o chunk

\* _write_logs ends, and the next turn of the outer loop starts.
Settle ==
  /\ writer' = "looping"
  /\ settled' = settled \o chunk
  /\ chunk' = <<>>
  /\ late' = FALSE
  /\ UNCHANGED <<queue, logged>>

Init ==
  /\ writer = "unstarted"
  /\ queue = <<>> /\ chunk = <<>> /\ table = <<>>
  /\ emitted = <<>> /\ settled = <<>>
  /\ late = FALSE /\ failed = FALSE
  /\ faults = 0
  /\ rejected = {}

------------------------------------------------------------------------------
(* The application.                                                        *)

\* __init__, or start() after the fork when the start is delayed.
Start ==
  /\ writer = "unstarted"
  /\ writer' = "looping"
  /\ UNCHANGED <<pipe, database, logged>>

IsNew(l) == l \notin Range(emitted) \cup rejected

\* Nothing to put the line in yet: the logging call raises.
EmitUnstarted(l) ==
  /\ writer = "unstarted"
  /\ IsNew(l)
  /\ rejected' = rejected \cup {l}
  /\ UNCHANGED <<writer, pipe, database, emitted>>

\* notify() is lost unless the writer waits right now.
Emit(l) ==
  /\ writer \notin {"unstarted", "gone"}
  /\ IsNew(l)
  /\ queue' = Append(queue, l)
  /\ emitted' = Append(emitted, l)
  /\ writer' = IF writer = "waiting" THEN "woken" ELSE writer
  /\ UNCHANGED <<chunk, late, settled, database, rejected>>

\* The process ends: the writer is a daemon thread.
Stop ==
  /\ writer # "gone"
  /\ writer' = "gone"
  /\ UNCHANGED <<pipe, database, logged>>

------------------------------------------------------------------------------
(* The writer thread: _processor.                                          *)

\* Faulty variant: the chunk is emptied in the inner loop.
BeginWaitEmpty ==
  /\ writer = "looping"
  /\ writer' = "waiting"
  /\ chunk' = <<>>
  /\ UNCHANGED <<queue, late, settled, database, logged>>

BeginWait ==
  /\ writer = "looping"
  /\ writer' = "waiting"
  /\ UNCHANGED <<pipe, database, logged>>

\* Faulty variant: a line is taken only after a notification.
WaitTimesOutEmpty ==
  /\ writer = "waiting"
  /\ writer' = "writing"
  /\ late' = TRUE
  /\ UNCHANGED <<queue, chunk, settled, database, logged>>

WaitTimesOut ==
  /\ writer = "waiting"
  /\ writer' = "woken"
  /\ late' = TRUE
  /\ UNCHANGED <<queue, chunk, settled, database, logged>>

\* Faulty variant: all the lines of the queue are taken.
TakeAll ==
  /\ writer = "woken"
  /\ chunk' = chunk \o queue
  /\ queue' = <<>>
  /\ writer' \in IF late \/ Len(chunk') >= MaxNbLogs
                 THEN {"writing"} ELSE {"looping", "writing"}
  /\ UNCHANGED <<late, settled, database, logged>>

\* Faulty variant: the queue is a LifoQueue.
TakeNewest ==
  /\ writer = "woken"
  /\ IF queue = <<>>
     THEN UNCHANGED <<queue, chunk>>
     ELSE /\ chunk' = Append(chunk, queue[Len(queue)])
          /\ queue' = SubSeq(queue, 1, Len(queue) - 1)
  /\ writer' \in IF late \/ Len(chunk') >= MaxNbLogs
                 THEN {"writing"} ELSE {"looping", "writing"}
  /\ UNCHANGED <<late, settled, database, logged>>

\* One line at most for each wait; the chunk is written when it is full or due.
TakeLine ==
  /\ writer = "woken"
  /\ IF queue = <<>>
     THEN UNCHANGED <<queue, chunk>>
     ELSE chunk' = Append(chunk, Head(queue)) /\ queue' = Tail(queue)
  /\ writer' \in IF late \/ Len(chunk') >= MaxNbLogs
                 THEN {"writing"} ELSE {"looping", "writing"}
  /\ UNCHANGED <<late, settled, database, logged>>

------------------------------------------------------------------------------
(* The writer thread: _write_logs.                                         *)

Write ==
  /\ writer = "writing"
  /\ ~failed /\ Insertable
  /\ Insert
  /\ Settle
  /\ UNCHANGED <<failed, faults>>

\* A SQLAlchemyError: the session still failed from the last chunk, a line that is
\* refused, or the database, before the commit or after it (the reply is lost).
WriteFails ==
  /\ writer = "writing"
  /\ \/ /\ failed \/ Range(chunk) \cap Refused # {}
        /\ UNCHANGED <<table, faults>>
     \/ /\ ~failed /\ chunk # <<>>
        /\ Fail
        /\ UNCHANGED table \/ (Insertable /\ Insert)
  /\ failed' = TRUE
  /\ writer' = "recovering"
  /\ UNCHANGED <<pipe, logged>>

\* Any other exception leaves _write_logs and _processor.
WriteEscapes ==
  /\ writer = "writing"
  /\ ~failed /\ Range(chunk) \cap Fatal # {}
  /\ writer' = "dead"
  /\ UNCHANGED <<pipe, database, logged>>

\* Faulty variant: the chunk is not saved again after the rollback.
RecoverNothing ==
  /\ writer = "recovering"
  /\ Insertable
  /\ UNCHANGED table
  /\ failed' = FALSE
  /\ Settle
  /\ UNCHANGED faults

\* create_db, rollback and the second attempt.
Recover ==
  /\ writer = "recovering"
  /\ Insertable
  /\ Insert
  /\ failed' = FALSE
  /\ Settle
  /\ UNCHANGED faults

\* Any exception: the chunk is dropped.
RecoverFails ==
  /\ writer = "recovering"
  /\ \/ ~Insertable /\ UNCHANGED <<table, faults>>
     \/ Fail /\ (UNCHANGED table \/ (Insertable /\ Insert))
  /\ Settle
  /\ UNCHANGED failed

------------------------------------------------------------------------------
WriterStep ==
  \/ BeginWait \/ WaitTimesOut \/ TakeLine
  \/ Write \/ WriteFails \/ WriteEscapes \/ Recover \/ RecoverFails

Next == Start \/ Stop \/ WriterStep \/ \E l \in Lines : EmitUnstarted(l) \/ Emit(l)

Spec == Init /\ [][Next]_vars

\* The writer thread runs, and its waits end.
FairSpec == Spec /\ WF_vars(WriterStep)

------------------------------------------------------------------------------
(* Properties.                                                             *)

\* Type invariant; a chunk has at most MAX_NB_LOGS lines.
TypeOK ==
  /\ writer \in WriterStates
  /\ queue \in Seq(Lines)
  /\ chunk \in Seq(Lines) /\ Len(chunk) <= MaxNbLogs
  /\ late \in BOOLEAN
  /\ failed \in BOOLEAN
  /\ table \in Seq(Lines)
  /\ faults \in 0 .. MaxFaults
  /\ emitted \in Seq(Lines)
  /\ settled \in Seq(Lines)
  /\ rejected \in SUBSET Lines

\* No line gets lost between emit() and the database, or taken twice or out of
\* turn: what the writer is done with, its chunk and the queue are together what
\* was emitted, through lost notifications, failed chunks and the writer's death.
NothingLost == emitted = settled \o chunk \o queue

\* Rows are in the order of the log calls and no line has two, except that the
\* lines of one chunk may be there twice when the database failed (_write_logs
\* cannot know whether a commit whose reply is lost was done).
RowsInOrder ==
  \A i, j \in DOMAIN table, k, m \in DOMAIN emitted :
    i < j /\ table[i] = emitted[k] /\ table[j] = emitted[m]
      => k < m \/ (faults > 0 /\ k < m + MaxNbLogs)

\* A line that cannot be inserted takes along its chunk at most: as long as the
\* database works, a line without a row has such a line nearby.  The session that
\* a dropped chunk leaves failed costs the next chunk nothing.
DropIsLocal ==
  faults = 0 =>
    \A i \in DOMAIN settled : settled[i] \notin Range(table) =>
      \E j \in DOMAIN settled :
        /\ settled[j] \in Refused \cup Fatal
        /\ i < j + MaxNbLogs /\ j < i + MaxNbLogs

\* Every emitted line is written or dropped in the end, although notifications
\* that come while the writer is busy are lost, unless the process ends or some
\* line kills the writer.
EveryLineLeaves ==
  \A l \in Lines :
    l \in Range(emitted)
      ~> \/ l \in Range(settled)
         \/ writer = "gone" \/ Range(emitted) \cap Fatal # {}

\* "if we really cannot commit the log to DB, do not lock the thread and do not
\* crash the application" (_write_logs): no line stops the logging.
WriterSurvives == writer # "dead"
=============================================================================
