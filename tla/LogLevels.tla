------------------------------ MODULE LogLevels ------------------------------
(***************************************************************************)
(* The view that changes the level of a logger in all the processes        *)
(* (logging_view.py), and the restoring of the levels by the processes     *)
(* that start later.                                                       *)
(*                                                                         *)
(* A change is the request that asks for it: ChangeOf says its logger, and *)
(* Refused are those whose level setLevel raises an error for.  The level  *)
(* of a logger is the change it comes from.  Broadcasts are what           *)
(* ScatterGather promises: inbox[p] is what p has still to run, in the     *)
(* common order.  The list of the answers is not looked at, so the wait    *)
(* for it may end at any time.                                             *)
(***************************************************************************)
EXTENDS Naturals, Sequences, FiniteSets

CONSTANTS
  LogProcs,  \* the processes
  Changes,   \* the requests that give a name and a level
  Refused,   \* those with a level that setLevel refuses
  Loggers,   \* the names of the loggers
  ChangeOf,  \* ChangeOf[c]: the logger that c names
  AsCoded    \* the level a logger has without an override

ASSUME ChangesAssumption == ChangeOf \in [Changes -> Loggers] /\ AsCoded \notin Changes

VARIABLES
  life,      \* life[p]: off, restoring or up
  level,     \* level[p][l]: the change whose level the logger l has in p
  keys,      \* keys[p]: the keys that scan_iter has still to yield at least once
  got,       \* got[p]: the logger and the level that the restore has read and not set yet
  inbox,     \* inbox[p]: the broadcast changes that p has still to run
  change,    \* change[c]: how far the view is with c
  at,        \* at[c]: the process that runs the view
  stored,    \* the keys of the Redis master, after each write
  copied,    \* which of these states the slave has
  known,     \* known[p]: what copied was when p started
  cut        \* cut[p]: the restore of p ended by an error

logVars == <<life, level, keys, got, inbox, change, at, stored, copied, known, cut>>

LogTypeOK ==
  /\ life \in [LogProcs -> {"off", "restoring", "up"}]
  /\ level \in [LogProcs -> [Loggers -> (Changes \ Refused) \cup {AsCoded}]]
  /\ keys \in [LogProcs -> SUBSET Loggers]
  /\ got \in [LogProcs -> SUBSET [logger : Loggers, level : Changes]]
  /\ \A p \in LogProcs : inbox[p] \in Seq(Changes)
  /\ change \in [Changes -> {"new", "waiting", "done"}]
  /\ at \in [Changes -> LogProcs]
  /\ stored \in Seq([Loggers -> Changes \cup {AsCoded}])
  /\ copied \in 1..Len(stored)
  /\ known \in [LogProcs -> 1..Len(stored)]
  /\ cut \in [LogProcs -> BOOLEAN]

LogInit ==
  /\ life = [p \in LogProcs |-> "off"]
  /\ level = [p \in LogProcs |-> [l \in Loggers |-> AsCoded]]
  /\ keys = [p \in LogProcs |-> {}] /\ got = [p \in LogProcs |-> {}]
  /\ inbox = [p \in LogProcs |-> <<>>]
  /\ change = [c \in Changes |-> "new"]
  /\ at \in [Changes -> LogProcs]
  /\ stored = <<[l \in Loggers |-> AsCoded]>> /\ copied = 1
  /\ known = [p \in LogProcs |-> 1]
  /\ cut = [p \in LogProcs |-> FALSE]

------------------------------------------------------------------------------
\* A process starts: it subscribes, then scans the keys of the slave, in any order.  A scan
\* yields every key that is there all the time; it may yield one twice, or one that comes.
StartLogging(p) ==
  /\ life[p] = "off"
  /\ life' = [life EXCEPT ![p] = "restoring"]
  /\ level' = [level EXCEPT ![p] = [l \in Loggers |-> AsCoded]]
  /\ keys' = [keys EXCEPT ![p] = {l \in Loggers : stored[copied][l] # AsCoded}]
  /\ known' = [known EXCEPT ![p] = copied]
  /\ cut' = [cut EXCEPT ![p] = FALSE]
  /\ UNCHANGED <<got, inbox, change, at, stored, copied>>

\* Faulty variant: the oldest override of the logger is read.
ReadOldest(p, l) ==
  /\ life[p] = "restoring" /\ ~cut[p] /\ got[p] = {} /\ stored[copied][l] # AsCoded
  /\ keys' = [keys EXCEPT ![p] = @ \ {l}]
  /\ LET overrides == {i \in 1..copied : stored[i][l] # AsCoded}
         oldest == stored[CHOOSE i \in overrides : \A j \in overrides : i <= j][l]
     IN got' = [got EXCEPT ![p] = {[logger |-> l, level |-> oldest]}]
  /\ UNCHANGED <<life, level, inbox, change, at, stored, copied, known, cut>>

\* The scan yields a key, and the level is read from the slave.
ReadKey(p, l) ==
  /\ life[p] = "restoring" /\ ~cut[p] /\ got[p] = {} /\ stored[copied][l] # AsCoded
  /\ keys' = [keys EXCEPT ![p] = @ \ {l}]
  /\ got' = [got EXCEPT ![p] = {[logger |-> l, level |-> stored[copied][l]]}]
  /\ UNCHANGED <<life, level, inbox, change, at, stored, copied, known, cut>>

\* What was read is given to setLevel, whatever the broadcasts have set meanwhile; an error
\* ends the loop.
RestoreKey(p, read) ==
  /\ life[p] = "restoring" /\ read \in got[p]
  /\ got' = [got EXCEPT ![p] = {}]
  /\ IF read.level \in Refused
     THEN /\ keys' = [keys EXCEPT ![p] = {}]
          /\ cut' = [cut EXCEPT ![p] = TRUE]
          /\ UNCHANGED level
     ELSE /\ level' = [level EXCEPT ![p][read.logger] = read.level]
          /\ UNCHANGED <<keys, cut>>
  /\ UNCHANGED <<life, inbox, change, at, stored, copied, known>>

\* The slave does not answer: the error is logged and ignored.
RestoreBreaks(p) ==
  /\ life[p] = "restoring" /\ got[p] = {}
  /\ keys' = [keys EXCEPT ![p] = {}]
  /\ cut' = [cut EXCEPT ![p] = TRUE]
  /\ UNCHANGED <<life, level, got, inbox, change, at, stored, copied, known>>

Restored(p) ==
  /\ life[p] = "restoring" /\ keys[p] = {} /\ got[p] = {}
  /\ life' = [life EXCEPT ![p] = "up"]
  /\ UNCHANGED <<level, keys, got, inbox, change, at, stored, copied, known, cut>>

\* The process ends, with the views it was running.
StopLogging(p) ==
  /\ life[p] = "up"
  /\ life' = [life EXCEPT ![p] = "off"]
  /\ inbox' = [inbox EXCEPT ![p] = <<>>]
  /\ change' = [c \in Changes |-> IF at[c] = p /\ change[c] # "new" THEN "done" ELSE change[c]]
  /\ UNCHANGED <<level, keys, got, at, stored, copied, known, cut>>

------------------------------------------------------------------------------
\* _logging_change_level up to the broadcast, which reaches every process that listens.
ChangeLevel(c) ==
  /\ change[c] = "new" /\ life[at[c]] = "up"
  /\ change' = [change EXCEPT ![c] = "waiting"]
  /\ inbox' = [p \in LogProcs |-> IF life[p] = "off" THEN inbox[p] ELSE Append(inbox[p], c)]
  /\ UNCHANGED <<life, level, keys, got, at, stored, copied, known, cut>>

\* The broadcast or the store raises an error, and so does the view.
ChangeFails(c) ==
  /\ change[c] \in {"new", "waiting"} /\ life[at[c]] = "up"
  /\ change' = [change EXCEPT ![c] = "done"]
  /\ UNCHANGED <<life, level, keys, got, inbox, at, stored, copied, known, cut>>

\* Faulty variant: the level is assigned without being looked at.
AssignLevel(p) ==
  /\ inbox[p] # <<>>
  /\ level' = [level EXCEPT ![p][ChangeOf[Head(inbox[p])]] = Head(inbox[p])]
  /\ inbox' = [inbox EXCEPT ![p] = Tail(@)]
  /\ UNCHANGED <<life, keys, got, change, at, stored, copied, known, cut>>

\* The callback: a refused level raises an error, which is sent as the answer.
SetLevel(p) ==
  /\ inbox[p] # <<>>
  /\ level' = IF Head(inbox[p]) \in Refused THEN level
              ELSE [level EXCEPT ![p][ChangeOf[Head(inbox[p])]] = Head(inbox[p])]
  /\ inbox' = [inbox EXCEPT ![p] = Tail(@)]
  /\ UNCHANGED <<life, keys, got, change, at, stored, copied, known, cut>>

\* The wait for the answers is over, whatever they say.
StoreOverride(c) ==
  /\ change[c] = "waiting"
  /\ change' = [change EXCEPT ![c] = "done"]
  /\ stored' = Append(stored, [stored[Len(stored)] EXCEPT ![ChangeOf[c]] = c])
  /\ UNCHANGED <<life, level, keys, got, inbox, at, copied, known, cut>>

CopyToSlave ==
  /\ copied < Len(stored)
  /\ copied' = copied + 1
  /\ UNCHANGED <<life, level, keys, got, inbox, change, at, stored, known, cut>>

LogNext ==
  \/ \E p \in LogProcs : \/ StartLogging(p) \/ RestoreBreaks(p) \/ Restored(p)
                         \/ StopLogging(p) \/ SetLevel(p)
                         \/ \E l \in Loggers : ReadKey(p, l)
                         \/ \E read \in got[p] : RestoreKey(p, read)
  \/ \E c \in Changes : ChangeLevel(c) \/ ChangeFails(c) \/ StoreOverride(c)
  \/ CopyToSlave

LogSpec == LogInit /\ [][LogNext]_logVars

------------------------------------------------------------------------------
\* A process that serves after a restore without errors has, for each logger, an override
\* at least as recent as the one that the slave had when the process started: nothing that
\* was stored is forgotten, and no broadcast or late read brings back what it replaced.
RestoredOrNewer ==
  \A p \in LogProcs, l \in Loggers : life[p] = "up" /\ ~cut[p] =>
    \/ level[p][l] \notin {stored[i][l] : i \in 1..known[p]}
    \/ level[p][l] = stored[known[p]][l]
==============================================================================
