--------------------------- MODULE OperationsProofs ---------------------------
(* Theorems about LogLevels, HealthChecks, SqlProfiler and BroadcasterSetup, *)
(* for any number of processes, changes, checks, callbacks and threads.      *)
EXTENDS MCOperations, FiniteSetTheorems, TLAPS

------------------------------------------------------------------------------
(* LogLevels.                                                                *)

Levels == Changes \cup {AsCoded}

LevelTypes ==
  /\ life \in [LogProcs -> {"off", "restoring", "up"}]
  /\ level \in [LogProcs -> [Loggers -> Levels]]
  /\ keys \in [LogProcs -> SUBSET Loggers]
  /\ got \in [LogProcs -> SUBSET [logger : Loggers, level : Levels]]
  /\ inbox \in [LogProcs -> Seq(Changes)]
  /\ change \in [Changes -> {"new", "waiting", "done"}]
  /\ stored \in Seq([Loggers -> Levels]) /\ copied \in 1..Len(stored)
  /\ known \in [LogProcs -> Nat \ {0}] /\ \A p \in LogProcs : known[p] <= copied
  /\ cut \in [LogProcs -> BOOLEAN]

\* A change is stored once, at its end, so that a value that was replaced never comes back.
StoredInv ==
  /\ \A i \in 1..Len(stored), l \in Loggers :
       stored[i][l] # AsCoded => change[stored[i][l]] = "done"
  /\ \A l \in Loggers, i, j, k \in 1..Len(stored) :
       i <= j /\ j <= k /\ stored[i][l] = stored[k][l] => stored[j][l] = stored[i][l]

\* What a process has still to run was not yet stored when it started.
InboxInv ==
  /\ \A p \in LogProcs : life[p] = "off" => inbox[p] = <<>>
  /\ \A p \in LogProcs, l \in Loggers : \A m \in 1..Len(inbox[p]), i \in 1..known[p] :
       stored[i][l] # inbox[p][m]

Recent(p, l) ==
  \/ level[p][l] \notin {stored[i][l] : i \in 1..known[p]}
  \/ level[p][l] = stored[known[p]][l]

RecentRead(p, read) ==
  \/ read.level \notin {stored[i][read.logger] : i \in 1..known[p]}
  \/ read.level = stored[known[p]][read.logger]

\* What RestoredOrNewer says holds for each logger from the moment its key was read, or will
\* hold when the level that was read is set.
RecentOf(p) ==
  /\ life[p] = "up" => keys[p] = {}
  /\ life[p] # "restoring" => got[p] = {}
  /\ \A read, other \in got[p] : read = other
  /\ \A read \in got[p] : RecentRead(p, read)
  /\ life[p] # "off" /\ ~cut[p] =>
       \A l \in Loggers \ keys[p] : Recent(p, l) \/ \E read \in got[p] : read.logger = l

RecentInv == \A p \in LogProcs : RecentOf(p)

LevelInv == LevelTypes /\ StoredInv /\ InboxInv /\ RecentInv

LEMMA StoredTypes ==
  ASSUME LevelTypes
  PROVE  \A i \in 1..Len(stored), l \in Loggers : stored[i][l] \in Levels
BY DEF LevelTypes

\* A change that ends leaves what is stored as it is.
LEMMA StoredStays ==
  ASSUME LevelTypes, StoredInv, UNCHANGED stored,
         \A c \in Changes : change[c] = "done" => change'[c] = "done"
  PROVE  StoredInv'
<1>1. \A i \in 1..Len(stored), l \in Loggers : stored[i][l] # AsCoded => stored[i][l] \in Changes
  BY StoredTypes DEF Levels
<1> QED
  BY <1>1 DEF StoredInv

\* A process stays as it is when nothing of its own changes.
LEMMA OthersStay ==
  ASSUME NEW p, RecentOf(p), UNCHANGED stored,
         UNCHANGED <<life[p], level[p], keys[p], got[p], known[p], cut[p]>>
  PROVE  RecentOf(p)'
<1>1. \A l : Recent(p, l)' <=> Recent(p, l)
  BY DEF Recent
<1>2. \A read : RecentRead(p, read)' <=> RecentRead(p, read)
  BY DEF RecentRead
<1> QED
  BY <1>1, <1>2 DEF RecentOf

\* A process that serves after a restore without errors has what the slave had when it
\* started, or something newer.
THEOREM NothingStoredIsForgotten == LogSpec => []RestoredOrNewer
<1>1. LogInit => LevelInv
  <2> SUFFICES ASSUME LogInit PROVE LevelInv
    OBVIOUS
  <2>1. /\ Len(stored) = 1 /\ \A l \in Loggers : stored[1][l] = AsCoded
        /\ stored \in Seq([Loggers -> Levels])
    BY DEF LogInit, Levels
  <2>2. LevelTypes
    BY <2>1 DEF LogInit, LevelTypes, Levels
  <2>3. StoredInv /\ InboxInv /\ RecentInv
    BY <2>1 DEF LogInit, StoredInv, InboxInv, RecentInv, RecentOf
  <2> QED
    BY <2>2, <2>3 DEF LevelInv
<1>2. LevelInv /\ [LogNext]_logVars => LevelInv'
  <2> SUFFICES ASSUME LevelInv, [LogNext]_logVars PROVE LevelInv'
    OBVIOUS
  <2> USE DEF LevelInv
  <2>1. CASE UNCHANGED logVars
    <3> USE <2>1 DEF logVars
    <3>1. LevelTypes'
      BY DEF LevelTypes
    <3>2. StoredInv'
      BY DEF StoredInv
    <3>3. InboxInv'
      BY DEF InboxInv
    <3>4. RecentInv'
      BY OthersStay DEF RecentInv
    <3> QED
      BY <3>1, <3>2, <3>3, <3>4
  <2>2. ASSUME NEW p \in LogProcs, StartLogging(p) PROVE LevelInv'
    <3>1. LevelTypes'
      BY <2>2 DEF LevelTypes, StartLogging, Levels
    <3>2. StoredInv'
      BY <2>2 DEF StoredInv, StartLogging
    <3>3. /\ inbox[p] = <<>> /\ inbox' = inbox /\ stored' = stored
          /\ known'[p] = copied /\ life'[p] = "restoring"
          /\ \A q \in LogProcs \ {p} :
               /\ known'[q] = known[q] /\ life'[q] = life[q] /\ keys'[q] = keys[q]
               /\ cut'[q] = cut[q] /\ level'[q] = level[q]
          /\ got' = got /\ life[p] = "off"
          /\ \A l \in Loggers : level'[p][l] = AsCoded
          /\ \A l \in Loggers \ keys'[p] : stored[copied][l] = AsCoded
      BY <2>2 DEF LevelTypes, InboxInv, StartLogging
    <3>4. InboxInv'
      BY <3>3 DEF InboxInv
    <3>5. RecentOf(p)'
      <4>1. got'[p] = {}
        BY <3>3 DEF RecentInv, RecentOf
      <4>2. \A l \in Loggers \ keys'[p] : Recent(p, l)'
        BY <3>3 DEF Recent
      <4> QED
        BY <3>3, <4>1, <4>2 DEF RecentOf
    <3>6. \A q \in LogProcs \ {p} : RecentOf(q)'
      BY <3>3, OthersStay DEF RecentInv
    <3> QED
      BY <3>1, <3>2, <3>4, <3>5, <3>6 DEF RecentInv
  <2>3. ASSUME NEW p \in LogProcs, NEW l \in Loggers, ReadKey(p, l) PROVE LevelInv'
    <3>1. /\ stored[copied][l] \in Levels
          /\ known[p] \in 1..copied /\ copied \in 1..Len(stored) /\ Len(stored) \in Nat
      BY DEF LevelTypes
    <3>2. PICK read \in [logger : Loggers, level : Levels] :
            read = [logger |-> l, level |-> stored[copied][l]]
      BY <3>1
    <3>3. /\ UNCHANGED <<life, level, inbox, change, stored, copied, known, cut>>
          /\ life[p] = "restoring" /\ got[p] = {}
          /\ keys' = [keys EXCEPT ![p] = @ \ {l}] /\ got' = [got EXCEPT ![p] = {read}]
      BY <2>3, <3>2 DEF ReadKey
    <3>4. StoredInv' /\ InboxInv'
      BY <3>3 DEF StoredInv, InboxInv
    <3>5. LevelTypes'
      BY <3>2, <3>3 DEF LevelTypes
    <3>6. read.logger = l /\ read.level = stored[copied][l]
      BY <3>2
    <3>7. /\ got'[p] = {read} /\ keys'[p] = keys[p] \ {l}
          /\ \A q \in LogProcs \ {p} : got'[q] = got[q] /\ keys'[q] = keys[q]
      BY <3>3 DEF LevelTypes
    <3>8. RecentRead(p, read)'
      <4>1. RecentRead(p, read)
        <5>1. ASSUME NEW i \in 1..known[p], read.level = stored[i][l]
              PROVE  read.level = stored[known[p]][l]
          <6>1. i \in 1..Len(stored) /\ known[p] \in 1..Len(stored) /\ i <= known[p] /\ known[p] <= copied
            BY <3>1
          <6>2. \A h, j, k \in 1..Len(stored) :
                  h <= j /\ j <= k /\ stored[h][l] = stored[k][l] => stored[j][l] = stored[h][l]
            BY DEF StoredInv
          <6>3. stored[i][l] = stored[copied][l]
            BY <3>6, <5>1
          <6>4. stored[known[p]][l] = stored[i][l]
            BY <3>1, <6>1, <6>2, <6>3
          <6> QED
            BY <5>1, <6>4
        <5> QED
          BY <3>6, <5>1 DEF RecentRead
      <4> QED
        BY <3>3, <4>1 DEF RecentRead
    <3>9. RecentOf(p)'
      <4>1. \A k \in Loggers : Recent(p, k)' <=> Recent(p, k)
        BY <3>3 DEF Recent
      <4>2. ~cut[p] => \A k \in Loggers \ keys[p] : Recent(p, k)
        BY <3>3 DEF RecentInv, RecentOf
      <4> HIDE DEF LevelInv
      <4> QED
        BY <3>3, <3>6, <3>7, <3>8, <4>1, <4>2 DEF RecentOf
    <3>10. \A q \in LogProcs \ {p} : RecentOf(q)'
      BY <3>3, <3>7, OthersStay DEF RecentInv
    <3> QED
      BY <3>4, <3>5, <3>9, <3>10 DEF RecentInv
  <2>30. ASSUME NEW p \in LogProcs, NEW read \in got[p], RestoreKey(p, read) PROVE LevelInv'
    <3> DEFINE c == read.level
               l == read.logger
    <3>1. /\ c \in Levels /\ l \in Loggers /\ RecentRead(p, read)
          /\ \A other \in got[p] : other = read
      BY DEF LevelTypes, RecentInv, RecentOf
    <3>3. /\ UNCHANGED <<life, inbox, change, stored, copied, known>> /\ life[p] = "restoring"
          /\ got' = [got EXCEPT ![p] = {}]
      BY <2>30 DEF RestoreKey
    <3>4. StoredInv' /\ InboxInv'
      BY <3>3 DEF StoredInv, InboxInv
    <3>40. /\ got'[p] = {} /\ \A q \in LogProcs \ {p} : got'[q] = got[q]
      BY <3>3 DEF LevelTypes
    <3>5. CASE c \in Refused
      <4>1. /\ keys' = [keys EXCEPT ![p] = {}] /\ cut' = [cut EXCEPT ![p] = TRUE]
            /\ level' = level
        BY <2>30, <3>5 DEF RestoreKey
      <4>2. LevelTypes'
        BY <3>3, <4>1 DEF LevelTypes
      <4>3. RecentOf(p)'
        <5>1. keys'[p] = {} /\ cut'[p] = TRUE
          BY <4>1 DEF LevelTypes
        <5> QED
          BY <3>40, <5>1 DEF RecentOf
      <4>4. \A q \in LogProcs \ {p} : keys'[q] = keys[q] /\ cut'[q] = cut[q]
        BY <4>1 DEF LevelTypes
      <4>5. \A q \in LogProcs \ {p} : RecentOf(q)'
        BY <3>3, <3>40, <4>1, <4>4, OthersStay DEF RecentInv
      <4> QED
        BY <3>4, <4>2, <4>3, <4>5 DEF RecentInv
    <3>6. CASE c \notin Refused
      <4>1. /\ keys' = keys /\ level' = [level EXCEPT ![p][l] = c] /\ cut' = cut
        BY <2>30, <3>6 DEF RestoreKey
      <4>2. LevelTypes'
        BY <3>1, <3>3, <4>1 DEF LevelTypes
      <4>3. Recent(p, l)'
        BY <3>1, <3>3, <4>1 DEF LevelTypes, Recent, RecentRead
      <4>4. \A q \in LogProcs, k \in Loggers : q # p \/ k # l => level'[q][k] = level[q][k]
        BY <3>1, <4>1 DEF LevelTypes
      <4>5. RecentOf(p)'
        <5>1. ASSUME NEW k \in Loggers \ keys[p], ~cut[p] PROVE Recent(p, k)'
          <6>1. k = l \/ Recent(p, k)
            BY <3>1, <3>3, <5>1 DEF RecentInv, RecentOf
          <6>2. k # l => (Recent(p, k)' <=> Recent(p, k))
            BY <3>3, <4>4 DEF Recent
          <6> QED
            BY <4>3, <6>1, <6>2
        <5> QED
          BY <3>3, <3>40, <4>1, <5>1 DEF RecentOf
      <4>6. \A q \in LogProcs \ {p} : level'[q] = level[q]
        BY <4>1 DEF LevelTypes
      <4>7. \A q \in LogProcs \ {p} : RecentOf(q)'
        BY <3>3, <3>40, <4>1, <4>6, OthersStay DEF RecentInv
      <4> QED
        BY <3>4, <4>2, <4>5, <4>7 DEF RecentInv
    <3> QED
      BY <3>5, <3>6
  <2>4. ASSUME NEW p \in LogProcs, RestoreBreaks(p) PROVE LevelInv'
    <3>1. /\ UNCHANGED <<life, level, got, inbox, change, stored, copied, known>>
          /\ life[p] = "restoring" /\ got[p] = {}
          /\ keys' = [keys EXCEPT ![p] = {}] /\ cut' = [cut EXCEPT ![p] = TRUE]
      BY <2>4 DEF RestoreBreaks
    <3>2. LevelTypes'
      BY <3>1 DEF LevelTypes
    <3>3. StoredInv' /\ InboxInv'
      BY <3>1 DEF StoredInv, InboxInv
    <3>4. /\ keys'[p] = {} /\ cut'[p] = TRUE
          /\ \A q \in LogProcs \ {p} : keys'[q] = keys[q] /\ cut'[q] = cut[q]
      BY <3>1 DEF LevelTypes
    <3>5. RecentOf(p)'
      BY <3>1, <3>4 DEF RecentOf
    <3>6. \A q \in LogProcs \ {p} : RecentOf(q)'
      BY <3>1, <3>4, OthersStay DEF RecentInv
    <3> QED
      BY <3>2, <3>3, <3>5, <3>6 DEF RecentInv
  <2>5. ASSUME NEW p \in LogProcs, Restored(p) PROVE LevelInv'
    <3>1. /\ UNCHANGED <<level, keys, got, inbox, change, stored, copied, known, cut>>
          /\ life[p] = "restoring" /\ keys[p] = {} /\ got[p] = {}
          /\ life' = [life EXCEPT ![p] = "up"]
      BY <2>5 DEF Restored
    <3>2. life'[p] = "up" /\ \A q \in LogProcs \ {p} : life'[q] = life[q]
      BY <3>1 DEF LevelTypes
    <3>3. LevelTypes'
      BY <3>1 DEF LevelTypes
    <3>4. StoredInv'
      BY <3>1 DEF StoredInv
    <3>5. InboxInv'
      BY <3>1, <3>2 DEF InboxInv
    <3>6. RecentOf(p)'
      <4>1. RecentOf(p) /\ \A l : Recent(p, l)' <=> Recent(p, l)
        BY <3>1 DEF RecentInv, Recent
      <4> QED
        BY <3>1, <3>2, <4>1 DEF RecentOf
    <3>7. \A q \in LogProcs \ {p} : RecentOf(q)'
      BY <3>1, <3>2, OthersStay DEF RecentInv
    <3> QED
      BY <3>3, <3>4, <3>5, <3>6, <3>7 DEF RecentInv
  <2>6. ASSUME NEW p \in LogProcs, StopLogging(p) PROVE LevelInv'
    <3>1. /\ inbox' \in [LogProcs -> Seq(Changes)] /\ inbox'[p] = <<>>
          /\ \A q \in LogProcs \ {p} : inbox'[q] = inbox[q]
      BY <2>6 DEF StopLogging, LevelTypes
    <3>2. /\ change' \in [Changes -> {"new", "waiting", "done"}]
          /\ \A c \in Changes : change[c] = "done" => change'[c] = "done"
      BY <2>6 DEF StopLogging, LevelTypes
    <3>3. /\ life' \in [LogProcs -> {"off", "restoring", "up"}] /\ life'[p] = "off"
          /\ \A q \in LogProcs \ {p} : life'[q] = life[q]
          /\ UNCHANGED <<level, keys, got, stored, copied, known, cut>> /\ life[p] = "up"
      BY <2>6 DEF StopLogging, LevelTypes
    <3>4. LevelTypes'
      BY <3>1, <3>2, <3>3 DEF LevelTypes
    <3>5. StoredInv'
      BY <3>2, <3>3, StoredStays
    <3>6. InboxInv'
      <4>1. ASSUME NEW q \in LogProcs, NEW l \in Loggers,
                   NEW m \in 1..Len(inbox'[q]), NEW i \in 1..known[q]
            PROVE  stored[i][l] # inbox'[q][m]
        <5>1. q # p
          BY <3>1
        <5>2. inbox'[q] = inbox[q]
          BY <3>1, <5>1
        <5>3. m \in 1..Len(inbox[q])
          BY <5>2
        <5>4. stored[i][l] # inbox[q][m]
          BY <5>3 DEF InboxInv
        <5> QED
          BY <5>2, <5>4
      <4>2. \A q \in LogProcs : life'[q] = "off" => inbox'[q] = <<>>
        BY <3>1, <3>3 DEF InboxInv
      <4> QED
        BY <3>3, <4>1, <4>2 DEF InboxInv
    <3>7. RecentInv'
      <4>1. RecentOf(p)'
        BY <3>3 DEF RecentInv, RecentOf
      <4>2. \A q \in LogProcs \ {p} : RecentOf(q)'
        BY <3>3, OthersStay DEF RecentInv
      <4> QED
        BY <4>1, <4>2 DEF RecentInv
    <3> QED
      BY <3>4, <3>5, <3>6, <3>7
  <2>7. ASSUME NEW c \in Changes, ChangeLevel(c) PROVE LevelInv'
    <3>1. \A i \in 1..Len(stored), l \in Loggers : stored[i][l] # c
      BY <2>7, ChangesAssumption DEF ChangeLevel, StoredInv
    <3>2. /\ inbox' \in [LogProcs -> Seq(Changes)]
          /\ \A p \in LogProcs :
               /\ life[p] = "off" => inbox'[p] = inbox[p]
               /\ \A m \in 1..Len(inbox'[p]) :
                    inbox'[p][m] = c \/ (m \in 1..Len(inbox[p]) /\ inbox'[p][m] = inbox[p][m])
      BY <2>7 DEF ChangeLevel, LevelTypes
    <3>3. /\ change' \in [Changes -> {"new", "waiting", "done"}] /\ change[c] = "new"
          /\ \A d \in Changes \ {c} : change'[d] = change[d]
          /\ UNCHANGED <<life, level, keys, got, stored, copied, known, cut>>
      BY <2>7 DEF ChangeLevel, LevelTypes
    <3>4. LevelTypes'
      BY <3>2, <3>3 DEF LevelTypes
    <3>5. StoredInv'
      BY <3>3, StoredStays
    <3>6. InboxInv'
      <4>1. \A p \in LogProcs : known[p] \in Nat /\ known[p] <= Len(stored) /\ Len(stored) \in Nat
        BY DEF LevelTypes
      <4> QED
        <5>1. ASSUME NEW p \in LogProcs, NEW l \in Loggers,
                     NEW m \in 1..Len(inbox'[p]), NEW i \in 1..known[p]
              PROVE  stored[i][l] # inbox'[p][m]
          <6>1. i \in 1..Len(stored)
            BY <4>1
          <6> QED
            BY <3>1, <3>2, <6>1 DEF InboxInv
        <5>2. \A p \in LogProcs : life[p] = "off" => inbox'[p] = <<>>
          BY <3>2 DEF InboxInv
        <5> QED
          BY <3>3, <5>1, <5>2 DEF InboxInv
    <3>7. RecentInv'
      BY <3>3, OthersStay DEF RecentInv
    <3> QED
      BY <3>4, <3>5, <3>6, <3>7
  <2>8. ASSUME NEW c \in Changes, ChangeFails(c) PROVE LevelInv'
    <3>1. /\ change' \in [Changes -> {"new", "waiting", "done"}]
          /\ \A d \in Changes : change[d] = "done" => change'[d] = "done"
          /\ UNCHANGED <<life, level, keys, got, inbox, stored, copied, known, cut>>
      BY <2>8 DEF ChangeFails, LevelTypes
    <3> QED
      <4>1. LevelTypes'
        BY <3>1 DEF LevelTypes
      <4>2. StoredInv'
        BY <3>1, StoredStays
      <4>3. InboxInv' /\ RecentInv'
        BY <3>1, OthersStay DEF InboxInv, RecentInv
      <4> QED
        BY <4>1, <4>2, <4>3
  <2>9. ASSUME NEW p \in LogProcs, SetLevel(p) PROVE LevelInv'
    <3> DEFINE c == Head(inbox[p])
    <3>1. /\ c \in Changes /\ Tail(inbox[p]) \in Seq(Changes) /\ 1 \in 1..Len(inbox[p])
          /\ c = inbox[p][1]
          /\ \A m \in 1..Len(Tail(inbox[p])) :
               m + 1 \in 1..Len(inbox[p]) /\ Tail(inbox[p])[m] = inbox[p][m + 1]
      BY <2>9 DEF SetLevel, LevelTypes
    <3>2. /\ inbox' \in [LogProcs -> Seq(Changes)] /\ inbox'[p] = Tail(inbox[p])
          /\ \A q \in LogProcs \ {p} : inbox'[q] = inbox[q]
          /\ life[p] # "off"
          /\ UNCHANGED <<life, keys, got, change, stored, copied, known, cut>>
      BY <2>9, <3>1 DEF SetLevel, LevelTypes, InboxInv
    <3>3. \A l \in Loggers : \A i \in 1..known[p] : stored[i][l] # c
      BY <3>1 DEF InboxInv
    <3>4. ChangeOf[c] \in Loggers
      BY <3>1, ChangesAssumption
    <3>5. /\ level' \in [LogProcs -> [Loggers -> Levels]]
          /\ \A q \in LogProcs, l \in Loggers :
               level'[q][l] = level[q][l] \/ (q = p /\ level'[q][l] = c)
      BY <2>9, <3>1, <3>4 DEF SetLevel, LevelTypes, Levels
    <3>6. LevelTypes' /\ StoredInv'
      BY <3>2, <3>5 DEF LevelTypes, StoredInv
    <3>7. InboxInv'
      <4>1. ASSUME NEW q \in LogProcs, NEW l \in Loggers,
                   NEW m \in 1..Len(inbox'[q]), NEW i \in 1..known[q]
            PROVE  stored[i][l] # inbox'[q][m]
        <5>1. CASE q = p
          <6>1. m + 1 \in 1..Len(inbox[p]) /\ inbox'[q][m] = inbox[p][m + 1]
            BY <3>1, <3>2, <5>1
          <6> QED
            BY <5>1, <6>1 DEF InboxInv
        <5>2. CASE q # p
          BY <3>2, <5>2 DEF InboxInv
        <5> QED
          BY <5>1, <5>2
      <4>2. \A q \in LogProcs : life[q] = "off" => inbox'[q] = <<>>
        BY <3>2 DEF InboxInv
      <4> QED
        BY <3>2, <4>1, <4>2 DEF InboxInv
    <3> HIDE DEF c
    <3>8. RecentInv'
      <4>1. ASSUME NEW q \in LogProcs, NEW l \in Loggers, Recent(q, l) PROVE Recent(q, l)'
        <5>1. CASE level'[q][l] = level[q][l]
          BY <3>2, <4>1, <5>1 DEF Recent
        <5>2. CASE q = p /\ level'[q][l] = c
          BY <3>2, <3>3, <5>2 DEF Recent
        <5> QED
          BY <3>5, <5>1, <5>2
      <4>2. ASSUME NEW q \in LogProcs PROVE RecentOf(q)'
        <5>1. RecentOf(q) /\ \A read \in got[q] : RecentRead(q, read)' <=> RecentRead(q, read)
          BY <3>2 DEF RecentInv, RecentRead
        <5> QED
          BY <3>2, <4>1, <5>1 DEF RecentOf
      <4> QED
        BY <4>2 DEF RecentInv
    <3> QED
      BY <3>6, <3>7, <3>8
  <2>10. ASSUME NEW c \in Changes, StoreOverride(c) PROVE LevelInv'
    <3> DEFINE n == Len(stored)
               next == [stored[n] EXCEPT ![ChangeOf[c]] = c]
    <3>1. /\ n \in Nat \ {0} /\ stored[n] \in [Loggers -> Levels]
          /\ \A p \in LogProcs : known[p] \in 1..n
      BY DEF LevelTypes
    <3>2. /\ next \in [Loggers -> Levels]
          /\ \A l \in Loggers : next[l] = IF l = ChangeOf[c] THEN c ELSE stored[n][l]
      BY <3>1, ChangesAssumption DEF Levels
    <3>3. stored' = Append(stored, next) /\ change[c] = "waiting"
      BY <2>10 DEF StoreOverride
    <3>4. /\ stored' \in Seq([Loggers -> Levels]) /\ Len(stored') = n + 1 /\ stored'[n + 1] = next
          /\ \A i \in 1..n : stored'[i] = stored[i]
      BY <3>2, <3>3 DEF LevelTypes
    <3>5. /\ change' \in [Changes -> {"new", "waiting", "done"}] /\ change'[c] = "done"
          /\ \A d \in Changes : change[d] = "done" => change'[d] = "done"
          /\ UNCHANGED <<life, level, keys, got, inbox, copied, known, cut>>
      BY <2>10 DEF StoreOverride, LevelTypes
    <3>6. \A i \in 1..n, l \in Loggers : stored[i][l] # c
      BY <3>3, ChangesAssumption DEF StoredInv
    <3> HIDE DEF next
    <3>7. LevelTypes'
      BY <3>1, <3>4, <3>5 DEF LevelTypes
    <3>8. StoredInv'
      <4>1. ASSUME NEW i \in 1..(n + 1), NEW l \in Loggers, stored'[i][l] # AsCoded
            PROVE  change'[stored'[i][l]] = "done"
        <5>1. CASE i \in 1..n
          <6>1. stored[i][l] \in Changes /\ change[stored[i][l]] = "done"
            BY <3>4, <4>1, <5>1, StoredTypes DEF StoredInv, Levels
          <6> QED
            BY <3>4, <3>5, <5>1, <6>1
        <5>2. CASE i = n + 1
          <6>1. CASE l = ChangeOf[c]
            BY <3>2, <3>4, <3>5, <5>2, <6>1
          <6>2. CASE l # ChangeOf[c]
            <7>1. n \in 1..n /\ stored'[i][l] = stored[n][l]
              BY <3>1, <3>2, <3>4, <5>2, <6>2
            <7>2. stored[n][l] \in Changes /\ change[stored[n][l]] = "done"
              BY <4>1, <7>1, StoredTypes DEF StoredInv, Levels
            <7> QED
              BY <3>5, <7>1, <7>2
          <6> QED
            BY <6>1, <6>2
        <5> QED
          BY <3>1, <5>1, <5>2
      <4>2. ASSUME NEW l \in Loggers, NEW i \in 1..(n + 1), NEW j \in 1..(n + 1), NEW k \in 1..(n + 1),
                   i <= j, j <= k, stored'[i][l] = stored'[k][l]
            PROVE  stored'[j][l] = stored'[i][l]
        <5>1. CASE k \in 1..n
          <6>1. i \in 1..n /\ j \in 1..n
            BY <3>1, <4>2, <5>1
          <6> QED
            BY <3>4, <4>2, <5>1, <6>1 DEF StoredInv
        <5>2. CASE k = n + 1 /\ i \in 1..n
          <6>1. l # ChangeOf[c] /\ stored'[k][l] = stored[n][l]
            BY <3>2, <3>4, <3>6, <4>2, <5>2
          <6>2. n \in 1..n
            BY <3>1
          <6>3. CASE j \in 1..n
            BY <3>1, <3>4, <4>2, <5>2, <6>1, <6>2, <6>3 DEF StoredInv
          <6>4. CASE j = n + 1
            BY <4>2, <5>2, <6>4
          <6> QED
            BY <3>1, <6>3, <6>4
        <5>3. CASE i = n + 1
          BY <3>1, <4>2, <5>3
        <5> QED
          BY <3>1, <5>1, <5>2, <5>3
      <4> QED
        BY <3>4, <4>1, <4>2 DEF StoredInv
    <3>9. \A p \in LogProcs : \A i \in 1..known[p] : stored'[i] = stored[i]
      BY <3>1, <3>4
    <3>10. InboxInv'
      BY <3>5, <3>9 DEF InboxInv
    <3>11. RecentInv'
      <4>1. ASSUME NEW p \in LogProcs, NEW l \in Loggers, Recent(p, l) PROVE Recent(p, l)'
        <5>1. known[p] \in 1..known[p]
          BY <3>1
        <5>2. {stored'[i][l] : i \in 1..known[p]} = {stored[i][l] : i \in 1..known[p]}
          BY <3>9
        <5> QED
          BY <3>5, <3>9, <4>1, <5>1, <5>2 DEF Recent
      <4>2. ASSUME NEW p \in LogProcs, NEW read \in got[p], RecentRead(p, read) PROVE RecentRead(p, read)'
        <5>1. known[p] \in 1..known[p]
          BY <3>1
        <5>2. {stored'[i][read.logger] : i \in 1..known[p]} = {stored[i][read.logger] : i \in 1..known[p]}
          BY <3>9
        <5> QED
          BY <3>5, <3>9, <4>2, <5>1, <5>2 DEF RecentRead
      <4>3. ASSUME NEW p \in LogProcs PROVE RecentOf(p)'
        <5>1. RecentOf(p)
          BY DEF RecentInv
        <5> QED
          BY <3>5, <4>1, <4>2, <5>1 DEF RecentOf
      <4> QED
        BY <4>3 DEF RecentInv
    <3> QED
      BY <3>7, <3>8, <3>10, <3>11
  <2>11. CASE CopyToSlave
    <3>1. /\ UNCHANGED <<life, level, keys, got, inbox, change, stored, known, cut>>
          /\ copied < Len(stored) /\ copied' = copied + 1
      BY <2>11 DEF CopyToSlave
    <3>2. LevelTypes'
      BY <3>1 DEF LevelTypes
    <3>3. StoredInv' /\ InboxInv'
      BY <3>1 DEF StoredInv, InboxInv
    <3>4. RecentInv'
      BY <3>1, OthersStay DEF RecentInv
    <3> QED
      BY <3>2, <3>3, <3>4
  <2> QED
    BY <2>1, <2>2, <2>3, <2>30, <2>4, <2>5, <2>6, <2>7, <2>8, <2>9, <2>10, <2>11 DEF LogNext
<1>3. LevelInv => RestoredOrNewer
  <2> SUFFICES ASSUME LevelInv, NEW p \in LogProcs, NEW l \in Loggers, life[p] = "up", ~cut[p]
               PROVE  Recent(p, l)
    BY DEF Recent, RestoredOrNewer
  <2>1. RecentOf(p)
    BY DEF LevelInv, RecentInv
  <2> QED
    BY <2>1 DEF RecentOf
<1> QED
  BY <1>1, <1>2, <1>3, PTL DEF LogSpec


\* LogTypeOK with the domain of inbox, without which its elements could not be changed one by one.
LogTypes == LogTypeOK /\ inbox \in [LogProcs -> Seq(Changes)]

LEMMA LogSteps == LogTypes /\ [LogNext]_logVars => LogTypes'
<1> SUFFICES ASSUME LogTypes, [LogNext]_logVars PROVE LogTypes'
  OBVIOUS
<1> USE DEF LogTypes, LogTypeOK
<1>1. CASE UNCHANGED logVars
  BY <1>1 DEF logVars
<1>2. ASSUME NEW p \in LogProcs, StartLogging(p) PROVE LogTypes'
  BY <1>2 DEF StartLogging
<1>3. ASSUME NEW p \in LogProcs, NEW l \in Loggers, ReadKey(p, l) PROVE LogTypes'
  <2> DEFINE read == [logger |-> l, level |-> stored[copied][l]]
  <2>1. read \in [logger : Loggers, level : Changes]
    BY <1>3 DEF ReadKey
  <2>2. /\ keys' = [keys EXCEPT ![p] = @ \ {l}] /\ got' = [got EXCEPT ![p] = {read}]
        /\ UNCHANGED <<life, level, cut, inbox, change, at, stored, copied, known>>
    BY <1>3 DEF ReadKey
  <2> HIDE DEF read
  <2> QED
    BY <2>1, <2>2
<1>30. ASSUME NEW p \in LogProcs, NEW read \in got[p], RestoreKey(p, read) PROVE LogTypes'
  <2> DEFINE c == read.level
             l == read.logger
  <2>1. c \in Changes /\ l \in Loggers
    OBVIOUS
  <2>2. got' = [got EXCEPT ![p] = {}] /\ UNCHANGED <<life, inbox, change, at, stored, copied, known>>
    BY <1>30 DEF RestoreKey
  <2>3. CASE c \in Refused
    <3>1. keys' = [keys EXCEPT ![p] = {}] /\ cut' = [cut EXCEPT ![p] = TRUE] /\ UNCHANGED level
      BY <1>30, <2>3 DEF RestoreKey
    <3> QED
      BY <2>2, <3>1
  <2>4. CASE c \notin Refused
    <3>1. level' = [level EXCEPT ![p][l] = c] /\ UNCHANGED <<keys, cut>>
      BY <1>30, <2>4 DEF RestoreKey
    <3>2. c \in (Changes \ Refused) \cup {AsCoded}
      BY <2>1, <2>4
    <3> HIDE DEF c, l
    <3>3. level' \in [LogProcs -> [Loggers -> (Changes \ Refused) \cup {AsCoded}]]
      BY <2>1, <3>1, <3>2
    <3> QED
      BY <2>2, <3>1, <3>3
  <2> QED
    BY <2>3, <2>4
<1>4. ASSUME NEW p \in LogProcs, RestoreBreaks(p) PROVE LogTypes'
  BY <1>4 DEF RestoreBreaks
<1>5. ASSUME NEW p \in LogProcs, Restored(p) PROVE LogTypes'
  BY <1>5 DEF Restored
<1>6. ASSUME NEW p \in LogProcs, StopLogging(p) PROVE LogTypes'
  BY <1>6 DEF StopLogging
<1>7. ASSUME NEW p \in LogProcs, SetLevel(p) PROVE LogTypes'
  <2> DEFINE c == Head(inbox[p])
  <2>1. c \in Changes /\ Tail(inbox[p]) \in Seq(Changes)
    BY <1>7 DEF SetLevel
  <2>2. ChangeOf[c] \in Loggers
    BY <2>1, ChangesAssumption
  <2>3. inbox' \in [LogProcs -> Seq(Changes)]
    BY <1>7, <2>1 DEF SetLevel
  <2>4. level' = IF c \in Refused THEN level ELSE [level EXCEPT ![p][ChangeOf[c]] = c]
    BY <1>7 DEF SetLevel
  <2> HIDE DEF c
  <2>5. level' \in [LogProcs -> [Loggers -> (Changes \ Refused) \cup {AsCoded}]]
    BY <2>1, <2>2, <2>4
  <2> QED
    BY <1>7, <2>3, <2>5 DEF SetLevel
<1>8. ASSUME NEW c \in Changes, ChangeLevel(c) PROVE LogTypes'
  BY <1>8 DEF ChangeLevel
<1>9. ASSUME NEW c \in Changes, ChangeFails(c) PROVE LogTypes'
  BY <1>9 DEF ChangeFails
<1>10. ASSUME NEW c \in Changes, StoreOverride(c) PROVE LogTypes'
  <2> DEFINE next == [stored[Len(stored)] EXCEPT ![ChangeOf[c]] = c]
  <2>1. next \in [Loggers -> Changes \cup {AsCoded}]
    BY ChangesAssumption
  <2>2. stored' = Append(stored, next)
    BY <1>10 DEF StoreOverride
  <2> HIDE DEF next
  <2>3. stored' \in Seq([Loggers -> Changes \cup {AsCoded}]) /\ Len(stored') = Len(stored) + 1
    BY <2>1, <2>2
  <2>4. 1..Len(stored) \subseteq 1..Len(stored')
    BY <2>3
  <2> QED
    BY <1>10, <2>3, <2>4 DEF StoreOverride
<1>11. CASE CopyToSlave
  BY <1>11 DEF CopyToSlave
<1> QED
  BY <1>1, <1>2, <1>3, <1>30, <1>4, <1>5, <1>6, <1>7, <1>8, <1>9, <1>10, <1>11 DEF LogNext

LEMMA LogTypesAlways == LogSpec => []LogTypes
<1>1. LogInit => LogTypes
  <2> SUFFICES ASSUME LogInit PROVE LogTypes
    OBVIOUS
  <2>1. Len(stored) = 1 /\ stored \in Seq([Loggers -> Changes \cup {AsCoded}])
    BY DEF LogInit
  <2> QED
    BY <2>1 DEF LogInit, LogTypes, LogTypeOK
<1> QED
  BY <1>1, LogSteps, PTL DEF LogSpec
------------------------------------------------------------------------------
(* SqlProfiler.                                                              *)

Texts == {TextOf[q] : q \in Selects}

\* A statement is in the set of the repository before it is explained for it.
ExplainedInv ==
  /\ seen \in [Repositories -> SUBSET Texts]
  /\ explained \in [Texts -> [Repositories -> Nat]]
  /\ \A s \in Texts, r \in Repositories :
       explained[s][r] <= 1 /\ (explained[s][r] = 1 => s \in seen[r])

\* However many threads execute a statement at once, a repository has it explained once.
THEOREM StatementsAreExplainedOnce == ProfilerSpec => []ExplainedOnce
<1>1. ProfilerInit => ExplainedInv
  BY DEF ProfilerInit, ExplainedInv, Texts
<1>2. ExplainedInv /\ [ProfilerNext]_profilerVars => ExplainedInv'
  <2> SUFFICES ASSUME ExplainedInv, [ProfilerNext]_profilerVars PROVE ExplainedInv'
    OBVIOUS
  <2>1. CASE UNCHANGED <<seen, explained>>
    BY <2>1 DEF ExplainedInv
  <2>2. ASSUME NEW q \in Selects, NEW r \in Repositories, ProfileSelect(q, r)
        PROVE  ExplainedInv'
    <3>1. TextOf[q] \in Texts
      BY DEF Texts
    <3>2. /\ seen' \in [Repositories -> SUBSET Texts]
          /\ \A i \in Repositories : seen[i] \subseteq seen'[i]
          /\ TextOf[q] \in seen'[r]
      BY <2>2, <3>1 DEF ExplainedInv, ProfileSelect
    <3>3. CASE TextOf[q] \in seen[r]
      BY <2>2, <3>2, <3>3 DEF ExplainedInv, ProfileSelect
    <3>4. CASE TextOf[q] \notin seen[r]
      <4>1. explained' = [explained EXCEPT ![TextOf[q]][r] = @ + 1]
        BY <2>2, <3>4 DEF ProfileSelect, ExplainFor
      <4>2. explained[TextOf[q]][r] = 0
        <5>1. explained[TextOf[q]][r] \in Nat
          BY <3>1 DEF ExplainedInv
        <5>2. explained[TextOf[q]][r] <= 1 /\ explained[TextOf[q]][r] # 1
          BY <3>1, <3>4 DEF ExplainedInv
        <5> QED
          BY <5>1, <5>2
      <4> QED
        BY <3>1, <3>2, <4>1, <4>2 DEF ExplainedInv
    <3> QED
      BY <3>3, <3>4
  <2> QED
    BY <2>1, <2>2
    DEF ProfilerNext, profilerVars, TestRepository, NewRepository, ListenEngines, RemoveListener,
        ForgetRepository, ExecuteSelect, SelectExecuted
<1>3. ExplainedInv => ExplainedOnce
  <2> SUFFICES ASSUME ExplainedInv, NEW q \in Selects, NEW r \in Repositories
               PROVE  explained[TextOf[q]][r] <= 1
    BY DEF ExplainedOnce
  <2> QED
    BY DEF ExplainedInv, Texts
<1> QED
  BY <1>1, <1>2, <1>3, PTL DEF ProfilerSpec

\* With Redis one callback runs at a time, and says at each of its steps which repository
\* there is and which of them listens.
ListenerInv ==
  /\ repository \in Nat /\ created \in Nat
  /\ callback \in [Callbacks -> {"new", "absent", "present", "set", "removed", "done", "raised"}]
  /\ ~local =>
       /\ \A j, k \in CallbacksRunning : j = k
       /\ CallbacksRunning = {} => installed = {repository} \ {0}
       /\ \A k \in CallbacksRunning :
            /\ callback[k] = "absent" => repository = 0 /\ installed = {}
            /\ callback[k] = "set" => repository # 0 /\ installed = {}
            /\ callback[k] = "present" => repository # 0 /\ installed = {repository}
            /\ callback[k] = "removed" => repository # 0 /\ installed = {}

\* The running callbacks after a step of k.
LEMMA RunningAfter ==
  ASSUME NEW k \in Callbacks, NEW step, CallbackAt(k, step),
         callback \in [Callbacks -> {"new", "absent", "present", "set", "removed", "done", "raised"}]
  PROVE  /\ CallbacksRunning' = IF step \in {"absent", "present", "set", "removed"}
                                THEN CallbacksRunning \cup {k} ELSE CallbacksRunning \ {k}
         /\ callback'[k] = step
         /\ \A j \in Callbacks \ {k} : callback'[j] = callback[j]
BY DEF CallbackAt, CallbacksRunning

\* With Redis, between two callbacks, no listener is left on the engines that the current
\* repository does not know of.
THEOREM NoListenerIsLeft == ProfilerSpec => []ListenerOfRepository
<1>1. ProfilerInit => ListenerInv
  BY DEF ProfilerInit, ListenerInv, CallbacksRunning
<1>2. ListenerInv /\ [ProfilerNext]_profilerVars => ListenerInv'
  <2> SUFFICES ASSUME ListenerInv, [ProfilerNext]_profilerVars PROVE ListenerInv'
    OBVIOUS
  <2>1. CASE UNCHANGED <<local, repository, created, installed, callback>>
    BY <2>1 DEF ListenerInv, CallbacksRunning
  <2>2. ASSUME NEW k \in Callbacks, TestRepository(k), local' = local PROVE ListenerInv'
    <3> DEFINE step == CASE k \in Enabling /\ repository = 0 -> "absent"
                         [] k \notin Enabling /\ repository # 0 -> "present"
                         [] OTHER -> "done"
    <3>1. CallbackAt(k, step) /\ callback[k] = "new"
      BY <2>2 DEF TestRepository
    <3>2. step \in {"absent", "present", "done"}
      BY DEF ListenerInv
    <3>3. callback' \in [Callbacks -> {"new", "absent", "present", "set", "removed", "done", "raised"}]
      BY <3>1, <3>2 DEF ListenerInv, CallbackAt
    <3>4. ASSUME ~local PROVE CallbacksRunning = {}
      BY <2>2, <3>4 DEF TestRepository
    <3>5. /\ step = "absent" => repository = 0
          /\ step = "present" => repository # 0
      BY DEF ListenerInv
    <3>6. CASE step = "done"
      BY <2>2, <3>1, <3>3, <3>4, <3>6, RunningAfter DEF ListenerInv, TestRepository
    <3>7. CASE step \in {"absent", "present"}
      <4>1. ASSUME ~local
            PROVE  /\ CallbacksRunning' = {k} /\ callback'[k] = step
                   /\ installed = {repository} \ {0}
        BY <3>1, <3>4, <3>7, <4>1, RunningAfter DEF ListenerInv
      <4>2. UNCHANGED <<local, repository, created, installed>>
        BY <2>2 DEF TestRepository
      <4> HIDE DEF step
      <4> QED
        BY <3>3, <3>5, <3>7, <4>1, <4>2 DEF ListenerInv
    <3> QED
      BY <3>2, <3>6, <3>7
  <2>3. ASSUME NEW k \in Callbacks, NewRepository(k), local' = local PROVE ListenerInv'
    <3>1. CallbackAt(k, "set") /\ callback[k] = "absent" /\ k \in CallbacksRunning
      BY <2>3 DEF NewRepository, CallbacksRunning
    <3>2. callback' \in [Callbacks -> {"new", "absent", "present", "set", "removed", "done", "raised"}]
      BY <3>1 DEF ListenerInv, CallbackAt
    <3> QED
      BY <2>3, <3>1, <3>2, RunningAfter DEF ListenerInv, NewRepository
  <2>4. ASSUME NEW k \in Callbacks, ListenEngines(k), local' = local PROVE ListenerInv'
    <3>1. /\ callback[k] = "set" /\ k \in CallbacksRunning
          /\ CallbackAt(k, IF repository = 0 THEN "raised" ELSE "done")
      BY <2>4 DEF ListenEngines, CallbacksRunning
    <3>2. callback' \in [Callbacks -> {"new", "absent", "present", "set", "removed", "done", "raised"}]
      BY <3>1 DEF ListenerInv, CallbackAt
    <3>3. CallbacksRunning' = CallbacksRunning \ {k}
      BY <3>1, RunningAfter DEF ListenerInv
    <3>4. ASSUME ~local PROVE CallbacksRunning' = {} /\ installed' = {repository} \ {0}
      BY <2>4, <3>1, <3>3, <3>4 DEF ListenerInv, ListenEngines
    <3> QED
      BY <2>4, <3>2, <3>4 DEF ListenerInv, ListenEngines
  <2>5. ASSUME NEW k \in Callbacks, RemoveListener(k), local' = local PROVE ListenerInv'
    <3>1. callback[k] = "present" /\ k \in CallbacksRunning
      BY <2>5 DEF RemoveListener, CallbacksRunning
    <3>2. CASE repository \in installed
      <4>1. CallbackAt(k, "removed") /\ installed' = installed \ {repository}
        BY <2>5, <3>2 DEF RemoveListener
      <4>2. callback' \in [Callbacks -> {"new", "absent", "present", "set", "removed", "done", "raised"}]
        BY <4>1 DEF ListenerInv, CallbackAt
      <4> QED
        BY <2>5, <3>1, <4>1, <4>2, RunningAfter DEF ListenerInv, RemoveListener
    <3>3. CASE repository \notin installed
      <4>1. CallbackAt(k, "raised") /\ local
        BY <2>5, <3>1, <3>3 DEF ListenerInv, RemoveListener
      <4>2. callback' \in [Callbacks -> {"new", "absent", "present", "set", "removed", "done", "raised"}]
        BY <4>1 DEF ListenerInv, CallbackAt
      <4> QED
        BY <2>5, <4>1, <4>2 DEF ListenerInv, RemoveListener
    <3> QED
      BY <3>2, <3>3
  <2>6. ASSUME NEW k \in Callbacks, ForgetRepository(k), local' = local PROVE ListenerInv'
    <3>1. CallbackAt(k, "done") /\ callback[k] = "removed" /\ k \in CallbacksRunning
      BY <2>6 DEF ForgetRepository, CallbacksRunning
    <3>2. callback' \in [Callbacks -> {"new", "absent", "present", "set", "removed", "done", "raised"}]
      BY <3>1 DEF ListenerInv, CallbackAt
    <3>3. CallbacksRunning' = CallbacksRunning \ {k}
      BY <3>1, RunningAfter DEF ListenerInv
    <3>4. ASSUME ~local PROVE CallbacksRunning' = {} /\ installed = {}
      BY <3>1, <3>3, <3>4 DEF ListenerInv
    <3> QED
      BY <2>6, <3>2, <3>4 DEF ListenerInv, ForgetRepository
  <2> QED
    BY <2>1, <2>2, <2>3, <2>4, <2>5, <2>6
    DEF ProfilerNext, profilerVars, ExecuteSelect, SelectExecuted, ProfileSelect
<1>3. ListenerInv => ListenerOfRepository
  BY DEF ListenerInv, ListenerOfRepository
<1> QED
  BY <1>1, <1>2, <1>3, PTL DEF ProfilerSpec

\* The callbacks that are past the creation of a repository: there are at least as many of
\* them as repositories.
Past == {k \in Callbacks : callback[k] \notin {"new", "absent"}}

ProfilerTypes ==
  /\ ProfilerTypeOK
  /\ created <= Cardinality(Past)

\* A callback that is past stays so, and no repository is created without one that gets there.
LEMMA PastGrows ==
  ASSUME NEW k \in Callbacks, NEW step \in {"present", "set", "removed", "done", "raised"},
         ProfilerTypes, CallbackAt(k, step)
  PROVE  /\ Cardinality(Past) <= Cardinality(Past')
         /\ k \notin Past => Cardinality(Past') = Cardinality(Past) + 1
         /\ Cardinality(Past') \in 0..Cardinality(Callbacks)
<1>1. Past' = Past \cup {k}
  BY DEF Past, CallbackAt, ProfilerTypes, ProfilerTypeOK
<1>2. IsFiniteSet(Past) /\ Past' \subseteq Callbacks
  BY ProfilerAssumption, FS_Subset DEF Past
<1>3. Cardinality(Past) \in Nat /\ Cardinality(Callbacks) \in Nat /\ Cardinality(Past') \in Nat
      /\ Cardinality(Past') <= Cardinality(Callbacks)
  BY <1>2, ProfilerAssumption, FS_Subset, FS_CardinalityType
<1>4. CASE k \in Past
  BY <1>1, <1>3, <1>4
<1>5. CASE k \notin Past
  <2>1. Cardinality(Past \cup {k}) = Cardinality(Past) + 1
    BY <1>2, <1>5, FS_AddElement
  <2> QED
    BY <1>1, <1>3, <1>5, <2>1
<1> QED
  BY <1>4, <1>5

LEMMA PastStays ==
  ASSUME ProfilerTypes
  PROVE  created \in Nat /\ Cardinality(Past) \in 0..Cardinality(Callbacks)
<1>1. IsFiniteSet(Past) /\ Past \subseteq Callbacks
  BY ProfilerAssumption, FS_Subset DEF Past
<1>2. Cardinality(Past) \in Nat /\ Cardinality(Callbacks) \in Nat /\ Cardinality(Past) <= Cardinality(Callbacks)
  BY <1>1, ProfilerAssumption, FS_Subset, FS_CardinalityType
<1> QED
  BY <1>2 DEF ProfilerTypes, ProfilerTypeOK

LEMMA CallbackSteps ==
  ASSUME ProfilerTypes, NEW k \in Callbacks, local' = local,
         \/ TestRepository(k) \/ NewRepository(k) \/ ListenEngines(k)
         \/ RemoveListener(k) \/ ForgetRepository(k)
  PROVE  ProfilerTypes'
<1> DEFINE steps == {"new", "absent", "present", "set", "removed", "done", "raised"}
<1>1. /\ created \in Nat /\ Cardinality(Past) \in 0..Cardinality(Callbacks)
      /\ created <= Cardinality(Past) /\ Cardinality(Callbacks) \in Nat
  <2>1. Cardinality(Callbacks) \in Nat
    BY ProfilerAssumption, FS_CardinalityType
  <2> QED
    BY <2>1, PastStays DEF ProfilerTypes
<1>2. ASSUME NEW step \in steps, CallbackAt(k, step), step # "new" PROVE callback' \in [Callbacks -> steps]
  BY <1>2 DEF ProfilerTypes, ProfilerTypeOK, CallbackAt
<1>3. CASE TestRepository(k)
  <2> DEFINE step == CASE k \in Enabling /\ repository = 0 -> "absent"
                       [] k \notin Enabling /\ repository # 0 -> "present"
                       [] OTHER -> "done"
  <2>1. CallbackAt(k, step) /\ callback[k] = "new"
        /\ UNCHANGED <<repository, created, installed, seen, query, todo, explained>>
    BY <1>3 DEF TestRepository
  <2>2. step \in {"absent", "present", "done"}
    OBVIOUS
  <2> HIDE DEF step
  <2>3. callback' \in [Callbacks -> steps]
    BY <1>2, <2>1, <2>2
  <2>4. Cardinality(Past) <= Cardinality(Past')
    <3>1. CASE step = "absent"
      <4>1. Past' = Past
        BY <2>1, <3>1 DEF Past, CallbackAt, ProfilerTypes, ProfilerTypeOK
      <4> QED
        BY <1>1, <4>1
    <3>2. CASE step # "absent"
      BY <2>1, <2>2, <3>2, PastGrows
    <3> QED
      BY <3>1, <3>2
  <2>5. Cardinality(Past') \in Nat
    <3>1. IsFiniteSet(Past')
      BY ProfilerAssumption, FS_Subset DEF Past
    <3> QED
      BY <3>1, FS_CardinalityType
  <2>6. created' <= Cardinality(Past')
    BY <1>1, <2>1, <2>4, <2>5
  <2>7. ProfilerTypeOK'
    BY <2>1, <2>3 DEF ProfilerTypes, ProfilerTypeOK
  <2> QED
    BY <2>6, <2>7 DEF ProfilerTypes
<1>4. CASE NewRepository(k)
  <2>1. /\ CallbackAt(k, "set") /\ callback[k] = "absent" /\ k \notin Past
        /\ created' = created + 1 /\ repository' = created + 1
        /\ UNCHANGED <<installed, seen, query, todo, explained>>
    BY <1>4 DEF NewRepository, Past
  <2>2. Cardinality(Past') = Cardinality(Past) + 1 /\ Cardinality(Past') \in 0..Cardinality(Callbacks)
    BY <2>1, PastGrows
  <2>3. /\ created' \in 0..Cardinality(Callbacks) /\ created' <= Cardinality(Past')
        /\ 1..created \subseteq 1..created' /\ repository' \in 0..created'
    BY <1>1, <2>1, <2>2
  <2>4. callback' \in [Callbacks -> steps]
    BY <1>2, <2>1
  <2>5. installed' \subseteq 1..created' /\ todo' \in [Selects -> SUBSET (1..created')]
    BY <2>1, <2>3 DEF ProfilerTypes, ProfilerTypeOK
  <2> QED
    BY <2>1, <2>3, <2>4, <2>5 DEF ProfilerTypes, ProfilerTypeOK
<1>5. CASE ListenEngines(k) \/ RemoveListener(k) \/ ForgetRepository(k)
  <2>1. PICK step \in {"removed", "done", "raised"} : CallbackAt(k, step)
    BY <1>5 DEF ListenEngines, RemoveListener, ForgetRepository
  <2>2. /\ repository' \in {0, repository} /\ installed' \subseteq installed \cup ({repository} \ {0})
        /\ UNCHANGED <<created, seen, query, todo, explained>>
    BY <1>5 DEF ListenEngines, RemoveListener, ForgetRepository
  <2>3. callback' \in [Callbacks -> steps]
    BY <1>2, <2>1
  <2>4. created' <= Cardinality(Past')
    BY <1>1, <2>1, <2>2, PastGrows
  <2>5. repository' \in 0..created' /\ installed' \subseteq 1..created'
    BY <1>1, <2>2 DEF ProfilerTypes, ProfilerTypeOK
  <2> QED
    BY <2>2, <2>3, <2>4, <2>5 DEF ProfilerTypes, ProfilerTypeOK
<1> QED
  BY <1>3, <1>4, <1>5

LEMMA ExecutionSteps ==
  ASSUME ProfilerTypes, NEW q \in Selects, local' = local,
         ExecuteSelect(q) \/ SelectExecuted(q) \/ \E r \in Repositories : ProfileSelect(q, r)
  PROVE  ProfilerTypes'
<1>1. UNCHANGED <<repository, created, installed, callback>>
  BY DEF ExecuteSelect, SelectExecuted, ProfileSelect
<1>2. Past' = Past
  BY <1>1 DEF Past
<1> DEFINE texts == {TextOf[s] : s \in Selects}
<1>3. TextOf[q] \in texts
  OBVIOUS
<1>4. CASE ExecuteSelect(q) \/ SelectExecuted(q)
  BY <1>1, <1>2, <1>4 DEF ExecuteSelect, SelectExecuted, ProfilerTypes, ProfilerTypeOK
<1>5. ASSUME NEW r \in Repositories, ProfileSelect(q, r) PROVE ProfilerTypes'
  <2>1. todo' \in [Selects -> SUBSET (1..created)] /\ UNCHANGED query
    BY <1>5 DEF ProfileSelect, ProfilerTypes, ProfilerTypeOK
  <2>2. seen' \in [Repositories -> SUBSET texts]
    BY <1>3, <1>5 DEF ProfileSelect, ProfilerTypes, ProfilerTypeOK
  <2>3. explained' \in [texts -> [Repositories -> Nat]]
    BY <1>3, <1>5 DEF ProfileSelect, ExplainFor, ProfilerTypes, ProfilerTypeOK
  <2> QED
    BY <1>1, <1>2, <2>1, <2>2, <2>3 DEF ProfilerTypes, ProfilerTypeOK
<1> QED
  BY <1>4, <1>5

LEMMA ProfilerTypesAlways == ProfilerSpec => []ProfilerTypes
<1>1. ProfilerInit => ProfilerTypes
  <2> SUFFICES ASSUME ProfilerInit PROVE ProfilerTypes
    OBVIOUS
  <2>1. Past = {}
    BY DEF ProfilerInit, Past
  <2>2. Cardinality(Callbacks) \in Nat
    BY ProfilerAssumption, FS_CardinalityType
  <2>3. created <= Cardinality(Past)
    BY <2>1, FS_EmptySet DEF ProfilerInit
  <2> QED
    BY <2>2, <2>3 DEF ProfilerInit, ProfilerTypes, ProfilerTypeOK
<1>2. ProfilerTypes /\ [ProfilerNext]_profilerVars => ProfilerTypes'
  <2> SUFFICES ASSUME ProfilerTypes, [ProfilerNext]_profilerVars PROVE ProfilerTypes'
    OBVIOUS
  <2>1. CASE UNCHANGED profilerVars
    BY <2>1 DEF profilerVars, ProfilerTypes, ProfilerTypeOK, Past
  <2> QED
    BY <2>1, CallbackSteps, ExecutionSteps DEF ProfilerNext
<1> QED
  BY <1>1, <1>2, PTL DEF ProfilerSpec
------------------------------------------------------------------------------
(* HealthChecks.                                                             *)

Probes == [at : HealthProcs, asked : SUBSET DOMAIN Checks, ran : SUBSET DOMAIN Checks,
           telling : SUBSET DOMAIN Checks, failing : SUBSET DOMAIN Checks,
           successes : SUBSET Names, failures : SUBSET Names,
           status : {"new", "running", "200", "500", "lost"}]

\* The steps of a view in a check.
InCheck(v, i) == SetSuccess(v, i) \/ SetSuccessFails(v, i) \/ RecordFailure(v, i)

\* A view stays the one of its process, whatever it does.
LEMMA ViewSteps ==
  ASSUME probe \in [Views -> Probes],
         \/ \E v \in Views, q \in Queries : BeginView(v, q[1], q[2])
         \/ \E v \in Views, i \in DOMAIN Checks, answered \in SUBSET HealthProcs :
              RunCheck(v, i, answered)
         \/ \E v \in Views, i \in DOMAIN Checks : InCheck(v, i)
         \/ \E v \in Views : EndView(v)
         \/ \E p \in HealthProcs : Replace(p)
  PROVE  probe' \in [Views -> Probes] /\ \A v \in Views : probe'[v].at = probe[v].at
<1>1. ASSUME NEW v \in Views, NEW q \in Queries, BeginView(v, q[1], q[2])
      PROVE  probe' \in [Views -> Probes] /\ \A u \in Views : probe'[u].at = probe[u].at
  <2>1. Selected(q[1], q[2]) \in SUBSET DOMAIN Checks
    BY DEF Selected
  <2> QED
    BY <1>1, <2>1 DEF BeginView, Probes
<1>2. ASSUME NEW v \in Views, NEW i \in DOMAIN Checks, NEW answered, RunCheck(v, i, answered)
      PROVE  probe' \in [Views -> Probes] /\ \A u \in Views : probe'[u].at = probe[u].at
  <2> DEFINE n == Checks[i].name
             passes == Passes(Checks[i], probe[v].at, answered)
             after == [probe[v] EXCEPT
                         !.ran = @ \cup {i},
                         !.telling = IF passes THEN {i} ELSE {},
                         !.failing = IF passes THEN {} ELSE {i},
                         !.successes = IF passes THEN @ \cup {n} ELSE @]
  <2>1. probe' = [probe EXCEPT ![v] = after]
    BY <1>2 DEF RunCheck
  <2>2. n \in Names
    BY DEF Names
  <2>3. probe[v] \in Probes
    OBVIOUS
  <2> HIDE DEF n, passes
  <2>4. after \in Probes /\ after.at = probe[v].at
    BY <2>2, <2>3 DEF Probes
  <2> QED
    BY <2>1, <2>4
<1>3. ASSUME NEW v \in Views, NEW i \in DOMAIN Checks, InCheck(v, i)
      PROVE  probe' \in [Views -> Probes] /\ \A u \in Views : probe'[u].at = probe[u].at
  <2>1. Checks[i].name \in Names /\ probe[v] \in Probes
    BY DEF Names
  <2>2. CASE SetSuccess(v, i)
    BY <2>1, <2>2 DEF SetSuccess, Probes
  <2>3. CASE SetSuccessFails(v, i)
    BY <2>1, <2>3 DEF SetSuccessFails, Probes
  <2>4. CASE RecordFailure(v, i)
    BY <2>1, <2>4 DEF RecordFailure, Probes
  <2> QED
    BY <1>3, <2>2, <2>3, <2>4 DEF InCheck
<1>4. ASSUME NEW v \in Views, EndView(v)
      PROVE  probe' \in [Views -> Probes] /\ \A u \in Views : probe'[u].at = probe[u].at
  BY <1>4 DEF EndView, Idle, Probes
<1>5. ASSUME NEW p \in HealthProcs, Replace(p)
      PROVE  probe' \in [Views -> Probes] /\ \A u \in Views : probe'[u].at = probe[u].at
  BY <1>5 DEF Replace, Idle, Probes
<1> QED
  BY <1>1, <1>2, <1>3, <1>4, <1>5

\* The types that say what a step does to gauges and messages, with NoStaleFailure, which is
\* inductive given them.
GaugeInv ==
  /\ told \in [HealthProcs -> Seq(Names)]
  /\ gauge \in [HealthProcs -> [Names -> {"none", "0", "1"}]]
  /\ cleared \in [HealthProcs -> SUBSET Names]
  /\ probe \in [Views -> Probes]
  /\ NoStaleFailure

\* What is in the sequence after it got one more element, or lost its first one.
LEMMA ToSetAppend ==
  ASSUME NEW S, NEW s \in Seq(S), NEW e \in S
  PROVE  Append(s, e) \in Seq(S) /\ ToSet(Append(s, e)) = ToSet(s) \cup {e}
<1>1. DOMAIN s = 1..Len(s) /\ DOMAIN Append(s, e) = 1..(Len(s) + 1) /\ Len(s) \in Nat
  OBVIOUS
<1>2. \A i \in 1..(Len(s) + 1) : Append(s, e)[i] = IF i \in 1..Len(s) THEN s[i] ELSE e
  OBVIOUS
<1>3. Append(s, e)[Len(s) + 1] = e
  BY <1>1, <1>2
<1>4. \A i \in 1..Len(s) : i \in 1..(Len(s) + 1) /\ Append(s, e)[i] = s[i]
  BY <1>1, <1>2
<1>5. ToSet(Append(s, e)) \subseteq ToSet(s) \cup {e}
  BY <1>1, <1>2 DEF ToSet
<1>6. ToSet(s) \cup {e} \subseteq ToSet(Append(s, e))
  BY <1>1, <1>3, <1>4 DEF ToSet
<1> QED
  BY <1>5, <1>6

LEMMA ToSetTail ==
  ASSUME NEW S, NEW s \in Seq(S), s # <<>>
  PROVE  Head(s) \in S /\ Tail(s) \in Seq(S) /\ ToSet(s) = ToSet(Tail(s)) \cup {Head(s)}
<1>1. /\ Len(s) \in Nat \ {0} /\ Len(Tail(s)) = Len(s) - 1 /\ Head(s) = s[1]
      /\ DOMAIN s = 1..Len(s) /\ DOMAIN Tail(s) = 1..Len(Tail(s))
  OBVIOUS
<1>2. \A i \in 1..Len(Tail(s)) : i + 1 \in 1..Len(s) /\ Tail(s)[i] = s[i + 1]
  OBVIOUS
<1>3. \A i \in 1..Len(s) : i = 1 \/ (i - 1 \in 1..Len(Tail(s)) /\ s[i] = Tail(s)[i - 1])
  BY <1>1, <1>2
<1>4. ToSet(s) \subseteq ToSet(Tail(s)) \cup {Head(s)}
  BY <1>1, <1>3 DEF ToSet
<1>5. ToSet(Tail(s)) \cup {Head(s)} \subseteq ToSet(s)
  BY <1>1, <1>2 DEF ToSet
<1> QED
  BY <1>4, <1>5

\* A gauge shows no failure that a later success repaired, unless the success is on its way.
THEOREM RepairedFailuresAreCleared == HealthSpec => []NoStaleFailure
<1>1. HealthInit => GaugeInv
  BY DEF HealthInit, Idle, GaugeInv, NoStaleFailure, Probes
<1>2. GaugeInv /\ [HealthNext]_healthVars => GaugeInv'
  <2> SUFFICES ASSUME GaugeInv, [HealthNext]_healthVars PROVE GaugeInv'
    OBVIOUS
  <2>0. ASSUME probe' \in [Views -> Probes], UNCHANGED <<gauge, told, cleared>> PROVE GaugeInv'
    BY <2>0 DEF GaugeInv, NoStaleFailure
  <2>1. CASE UNCHANGED <<gauge, told, cleared, probe>>
    BY <2>0, <2>1 DEF GaugeInv
  <2>2. ASSUME NEW v \in Views, NEW q \in Queries, BeginView(v, q[1], q[2]) PROVE GaugeInv'
    BY <2>0, <2>2, ViewSteps DEF GaugeInv, BeginView
  <2>3. ASSUME NEW v \in Views, NEW i \in DOMAIN Checks, NEW answered \in SUBSET HealthProcs,
               RunCheck(v, i, answered)
        PROVE  GaugeInv'
    BY <2>0, <2>3, ViewSteps DEF GaugeInv, RunCheck
  <2>4. ASSUME NEW v \in Views, NEW i \in DOMAIN Checks, InCheck(v, i) PROVE GaugeInv'
    <3> DEFINE n == Checks[i].name
    <3>1. n \in Names
      BY DEF Names
    <3>2. probe' \in [Views -> Probes]
      BY <2>4, ViewSteps DEF GaugeInv
    <3>3. CASE SetSuccess(v, i)
      <4>1. \A p \in HealthProcs :
              /\ Append(told[p], n) \in Seq(Names)
              /\ ToSet(Append(told[p], n)) = ToSet(told[p]) \cup {n}
        BY <3>1, ToSetAppend DEF GaugeInv
      <4>2. told' \in [HealthProcs -> Seq(Names)] /\ cleared' \in [HealthProcs -> SUBSET Names]
        BY <3>1, <3>3, <4>1 DEF GaugeInv, SetSuccess
      <4>3. gauge' = gauge
        BY <3>3 DEF SetSuccess
      <4>4. ASSUME NEW p \in HealthProcs, NEW m \in cleared'[p], gauge'[p][m] = "1"
            PROVE  m \in ToSet(told'[p])
        <5>1. CASE listens[p]
          <6>1. cleared'[p] = cleared[p] \cup {n} /\ told'[p] = Append(told[p], n)
            BY <3>3, <5>1 DEF SetSuccess
          <6> QED
            BY <4>1, <4>3, <4>4, <6>1 DEF GaugeInv, NoStaleFailure
        <5>2. CASE ~listens[p]
          <6>1. cleared'[p] = cleared[p] /\ told'[p] = told[p]
            BY <3>3, <5>2 DEF SetSuccess
          <6> QED
            BY <4>3, <4>4, <6>1 DEF GaugeInv, NoStaleFailure
        <5> QED
          BY <5>1, <5>2
      <4> QED
        BY <3>2, <4>2, <4>3, <4>4 DEF GaugeInv, NoStaleFailure
    <3>4. CASE RecordFailure(v, i)
      <4> DEFINE where == probe[v].at
      <4>1. where \in HealthProcs
        BY DEF GaugeInv, Probes
      <4>2. /\ gauge' \in [HealthProcs -> [Names -> {"none", "0", "1"}]]
            /\ cleared' \in [HealthProcs -> SUBSET Names] /\ told' = told
        BY <3>4, <4>1 DEF GaugeInv, RecordFailure
      <4>3. \A p \in HealthProcs : \A m \in cleared'[p] :
              m \in cleared[p] /\ gauge'[p][m] = gauge[p][m]
        BY <3>1, <3>4, <4>1 DEF GaugeInv, RecordFailure
      <4> QED
        BY <3>2, <4>2, <4>3 DEF GaugeInv, NoStaleFailure
    <3>5. CASE SetSuccessFails(v, i)
      BY <2>0, <3>2, <3>5 DEF SetSuccessFails
    <3> QED
      BY <2>4, <3>3, <3>4, <3>5 DEF InCheck
  <2>8. ASSUME NEW v \in Views, EndView(v) PROVE GaugeInv'
    BY <2>0, <2>8, ViewSteps DEF GaugeInv, EndView
  <2>5. ASSUME NEW p \in HealthProcs, ClearGauge(p) PROVE GaugeInv'
    <3>1. /\ Head(told[p]) \in Names /\ Tail(told[p]) \in Seq(Names)
          /\ ToSet(told[p]) = ToSet(Tail(told[p])) \cup {Head(told[p])}
      BY <2>5, ToSetTail DEF GaugeInv, ClearGauge
    <3>2. /\ told' \in [HealthProcs -> Seq(Names)] /\ told'[p] = Tail(told[p])
          /\ gauge' \in [HealthProcs -> [Names -> {"none", "0", "1"}]]
          /\ UNCHANGED <<cleared, probe>>
      BY <2>5, <3>1 DEF GaugeInv, ClearGauge
    <3>3. \A q \in HealthProcs \ {p} : told'[q] = told[q] /\ gauge'[q] = gauge[q]
      BY <2>5 DEF GaugeInv, ClearGauge
    <3>4. /\ gauge'[p][Head(told[p])] = "0"
          /\ \A n \in Names \ {Head(told[p])} : gauge'[p][n] = gauge[p][n]
      BY <2>5, <3>1 DEF GaugeInv, ClearGauge
    <3>5. \A n \in cleared[p] : gauge'[p][n] = "1" => n \in ToSet(told'[p])
      BY <3>1, <3>2, <3>4 DEF GaugeInv, NoStaleFailure
    <3> QED
      BY <3>2, <3>3, <3>5 DEF GaugeInv, NoStaleFailure
  <2>6. ASSUME NEW w \in Neighbours, Change(w) PROVE GaugeInv'
    BY <2>6 DEF GaugeInv, NoStaleFailure, Change
  <2>7. ASSUME NEW p \in HealthProcs, Replace(p) PROVE GaugeInv'
    <3>1. /\ told' \in [HealthProcs -> Seq(Names)] /\ cleared' \in [HealthProcs -> SUBSET Names]
          /\ gauge' \in [HealthProcs -> [Names -> {"none", "0", "1"}]]
      <4>1. <<>> \in Seq(Names) /\ [n \in Names |-> "none"] \in [Names -> {"none", "0", "1"}]
        OBVIOUS
      <4> QED
        BY <2>7, <4>1 DEF GaugeInv, Replace
    <3>4. probe' \in [Views -> Probes]
      BY <2>7, ViewSteps DEF GaugeInv
    <3>2. cleared'[p] = {}
      BY <2>7 DEF GaugeInv, Replace
    <3>3. \A q \in HealthProcs \ {p} :
            told'[q] = told[q] /\ gauge'[q] = gauge[q] /\ cleared'[q] = cleared[q]
      BY <2>7 DEF GaugeInv, Replace
    <3> QED
      BY <3>1, <3>2, <3>3, <3>4 DEF GaugeInv, NoStaleFailure
  <2> QED
    BY <2>1, <2>2, <2>3, <2>4, <2>5, <2>6, <2>7, <2>8
    DEF HealthNext, healthVars, Resubscribe, InCheck
<1>3. GaugeInv => NoStaleFailure
  BY DEF GaugeInv
<1> QED
  BY <1>1, <1>2, <1>3, PTL DEF HealthSpec

NamesRun(v) == {Checks[i].name : i \in probe[v].ran}
NamesDone(v) == {Checks[i].name : i \in probe[v].ran \ (probe[v].telling \cup probe[v].failing)}

\* A view is in one check at most, which it ran, and has a verdict for no check that it did
\* not run.
ViewInv(v) ==
  /\ probe[v].telling \cup probe[v].failing \subseteq probe[v].ran
  /\ probe[v].telling \cap probe[v].failing = {}
  /\ \A i, j \in probe[v].telling \cup probe[v].failing : i = j
  /\ probe[v].successes \subseteq NamesRun(v) /\ probe[v].failures \subseteq NamesDone(v)
  /\ probe[v].status = "new" => probe[v].ran = {}

\* What is true of a view that runs while the world does not change: with Redis up, a check
\* that is about to be recorded as a failure has not passed.
Truthful(v) ==
  probe[v].status = "running" =>
    IF world.redis = "down" THEN probe[v].failures = NamesDone(v)
    ELSE /\ probe[v].successes \cap probe[v].failures = {}
         /\ \A i \in probe[v].failing : Checks[i].name \notin probe[v].successes

VerdictInv ==
  /\ probe \in [Views -> Probes] /\ steady \subseteq Views /\ world \in Worlds
  /\ \A v \in Views : ViewInv(v) /\ (v \in steady => Truthful(v))

\* What breaks or is repaired is still one of the neighbours of the service.
LEMMA WorldStays ==
  ASSUME world \in Worlds, NEW w \in Neighbours
  PROVE  w \in Worlds
<1>1. /\ world.db \in [Engines -> DbStates] /\ world.site \in {"ok", "error"}
      /\ world.redis \in {"up", "down"}
  BY DEF Worlds
<1>2. ASSUME NEW e \in Engines, NEW st \in DbStates, w = [world EXCEPT !.db[e] = st]
      PROVE  w \in Worlds
  <2>1. [world.db EXCEPT ![e] = st] \in [Engines -> DbStates]
    BY <1>1
  <2>2. w = [world EXCEPT !.db = [world.db EXCEPT ![e] = st]]
    BY <1>2 DEF Worlds
  <2> QED
    BY <2>1, <2>2 DEF Worlds
<1>3. ASSUME NEW st \in {"ok", "error"}, w = [world EXCEPT !.site = st] PROVE w \in Worlds
  BY <1>3 DEF Worlds
<1>4. ASSUME NEW st \in {"up", "down"}, w = [world EXCEPT !.redis = st] PROVE w \in Worlds
  BY <1>4 DEF Worlds
<1> QED
  BY <1>2, <1>3, <1>4 DEF Neighbours

\* A step of one view that leaves the world as it is.
LEMMA VerdictStep ==
  ASSUME VerdictInv, probe' \in [Views -> Probes], UNCHANGED <<world, steady>>,
         NEW v \in Views, \A u \in Views \ {v} : probe'[u] = probe[u],
         ViewInv(v)', v \in steady => Truthful(v)'
  PROVE  VerdictInv'
<1>1. ASSUME NEW u \in Views \ {v} PROVE ViewInv(u)' /\ (u \in steady => Truthful(u)')
  <2>1. NamesRun(u)' = NamesRun(u) /\ NamesDone(u)' = NamesDone(u)
    BY DEF NamesRun, NamesDone
  <2> QED
    BY <2>1 DEF VerdictInv, ViewInv, Truthful
<1> QED
  BY <1>1 DEF VerdictInv

\* A view without results.
LEMMA VerdictIdle ==
  ASSUME NEW v \in Views, probe'[v].ran = {}, probe'[v].telling = {}, probe'[v].failing = {},
         probe'[v].successes = {}, probe'[v].failures = {}, probe'[v].status # "running"
  PROVE  ViewInv(v)' /\ Truthful(v)'
BY DEF ViewInv, Truthful, NamesRun, NamesDone

\* The check that comes next has no verdict yet.
LEMMA VerdictRun ==
  ASSUME VerdictInv, NEW v \in Views, NEW i \in DOMAIN Checks,
         NEW answered \in SUBSET HealthProcs, RunCheck(v, i, answered)
  PROVE  VerdictInv'
<1> DEFINE n == Checks[i].name
           passes == Passes(Checks[i], probe[v].at, answered)
<1>1. probe' \in [Views -> Probes]
  BY ViewSteps DEF VerdictInv
<1>2. /\ probe[v].status = "running" /\ probe'[v].status = "running"
      /\ probe'[v].ran = probe[v].ran \cup {i}
      /\ probe'[v].telling = IF passes THEN {i} ELSE {}
      /\ probe'[v].failing = IF passes THEN {} ELSE {i}
      /\ probe'[v].successes = IF passes THEN probe[v].successes \cup {n} ELSE probe[v].successes
      /\ probe'[v].failures = probe[v].failures
      /\ \A u \in Views \ {v} : probe'[u] = probe[u]
      /\ UNCHANGED <<world, steady>>
  BY DEF RunCheck, VerdictInv, Probes
<1>3. i \notin probe[v].ran /\ probe[v].telling \cup probe[v].failing = {}
  BY DEF RunCheck, IsNext, InACheck, Remaining
<1>4. n \notin NamesRun(v)
  <2> SUFFICES ASSUME NEW j \in probe[v].ran, Checks[j].name = n PROVE FALSE
    BY DEF NamesRun
  <2>1. j \in DOMAIN Checks
    BY DEF VerdictInv, Probes
  <2> QED
    BY <1>3, <2>1, NamesDistinct
<1>5. NamesRun(v)' = NamesRun(v) \cup {n}
  BY <1>2 DEF NamesRun
<1>6. NamesDone(v)' = NamesRun(v) /\ NamesDone(v) = NamesRun(v)
  BY <1>2, <1>3 DEF NamesDone, NamesRun
<1> HIDE DEF n, passes
<1>7. ViewInv(v)
  BY DEF VerdictInv
<1>8. ViewInv(v)'
  <2>1. \A j, k \in probe'[v].telling \cup probe'[v].failing : j = k
    BY <1>2
  <2> QED
    BY <1>2, <1>5, <1>6, <1>7, <2>1 DEF ViewInv
<1>9. ASSUME v \in steady PROVE Truthful(v)'
  <2>1. Truthful(v) /\ world.redis \in {"up", "down"}
    BY <1>9 DEF VerdictInv, Worlds
  <2>2. n \notin probe[v].successes /\ n \notin probe[v].failures
    BY <1>4, <1>6, <1>7 DEF ViewInv
  <2>3. \A j \in probe'[v].failing : ~passes /\ Checks[j].name = n
    BY <1>2 DEF n
  <2> QED
    BY <1>2, <1>6, <2>1, <2>2, <2>3 DEF Truthful
<1> QED
  BY <1>1, <1>2, <1>8, <1>9, VerdictStep

\* The check gets its verdict.
LEMMA VerdictIn ==
  ASSUME VerdictInv, NEW v \in Views, NEW i \in DOMAIN Checks, InCheck(v, i)
  PROVE  VerdictInv'
<1> DEFINE n == Checks[i].name
<1>1. probe' \in [Views -> Probes] /\ ViewInv(v)
  BY ViewSteps DEF VerdictInv
<1>2. /\ \A u \in Views \ {v} : probe'[u] = probe[u]
      /\ probe'[v].status = probe[v].status /\ probe'[v].ran = probe[v].ran
      /\ probe'[v].successes = probe[v].successes
      /\ UNCHANGED <<world, steady>>
  BY DEF InCheck, SetSuccess, SetSuccessFails, RecordFailure, VerdictInv, Probes
<1>3. NamesRun(v)' = NamesRun(v)
  BY <1>2 DEF NamesRun
<1>4. v \in steady => Truthful(v)
  BY DEF VerdictInv
<1>5. CASE SetSuccess(v, i)
  <2>1. /\ i \in probe[v].telling /\ probe'[v].telling = {} /\ probe'[v].failing = probe[v].failing
        /\ probe'[v].failures = probe[v].failures /\ world.redis = "up"
    BY <1>5 DEF SetSuccess, VerdictInv, Probes
  <2>2. NamesDone(v) \subseteq NamesDone(v)'
    BY <1>2, <2>1 DEF NamesDone
  <2>3. ViewInv(v)'
    BY <1>1, <1>2, <1>3, <2>1, <2>2 DEF ViewInv
  <2>4. v \in steady => Truthful(v)'
    BY <1>2, <1>4, <2>1 DEF Truthful
  <2> QED
    BY <1>1, <1>2, <2>3, <2>4, VerdictStep
<1>6. CASE SetSuccessFails(v, i)
  <2>1. /\ i \in probe[v].telling /\ probe'[v].telling = {} /\ probe'[v].failing = {i}
        /\ probe'[v].failures = probe[v].failures /\ world.redis = "down"
    BY <1>6 DEF SetSuccessFails, VerdictInv, Probes
  <2>2. probe'[v].telling \cup probe'[v].failing = probe[v].telling \cup probe[v].failing
    BY <1>1, <2>1 DEF ViewInv
  <2>3. NamesDone(v)' = NamesDone(v)
    BY <1>2, <2>2 DEF NamesDone
  <2>4. ViewInv(v)'
    BY <1>1, <1>2, <1>3, <2>1, <2>2, <2>3 DEF ViewInv
  <2>5. v \in steady => Truthful(v)'
    BY <1>2, <1>4, <2>1, <2>3 DEF Truthful
  <2> QED
    BY <1>1, <1>2, <2>4, <2>5, VerdictStep
<1>7. CASE RecordFailure(v, i)
  <2>1. /\ i \in probe[v].failing /\ probe'[v].telling = probe[v].telling /\ probe'[v].failing = {}
        /\ probe'[v].failures = probe[v].failures \cup {n}
    BY <1>7 DEF RecordFailure, VerdictInv, Probes
  <2>2. NamesDone(v)' = NamesDone(v) \cup {n}
    <3>1. /\ probe[v].telling \cup probe[v].failing = {i} /\ i \in probe[v].ran
          /\ probe[v].telling \subseteq {i}
      BY <1>1, <2>1 DEF ViewInv
    <3>2. i \notin probe[v].telling
      BY <1>1, <2>1 DEF ViewInv
    <3>3. probe'[v].ran \ (probe'[v].telling \cup probe'[v].failing)
            = (probe[v].ran \ (probe[v].telling \cup probe[v].failing)) \cup {i}
      BY <1>2, <2>1, <3>1, <3>2
    <3> QED
      BY <3>3 DEF NamesDone
  <2>3. ViewInv(v)'
    BY <1>1, <1>2, <1>3, <2>1, <2>2 DEF ViewInv
  <2>4. v \in steady => Truthful(v)'
    BY <1>2, <1>4, <2>1, <2>2 DEF Truthful
  <2> QED
    BY <1>1, <1>2, <2>3, <2>4, VerdictStep
<1> QED
  BY <1>5, <1>6, <1>7 DEF InCheck

\* A view that runs while the world is steady reports every check as failed when Redis is
\* down, and gives no check two verdicts otherwise.
THEOREM RedisIsReported == HealthSpec => []RedisDownIsReported
<1>1. HealthInit => VerdictInv
  BY DEF HealthInit, Idle, VerdictInv, ViewInv, Truthful, NamesRun, NamesDone, Probes, Worlds, DbStates
<1>2. VerdictInv /\ [HealthNext]_healthVars => VerdictInv'
  <2> SUFFICES ASSUME VerdictInv, [HealthNext]_healthVars PROVE VerdictInv'
    OBVIOUS
  <2>1. CASE UNCHANGED <<world, probe, steady>>
    BY <2>1 DEF VerdictInv, ViewInv, Truthful, NamesRun, NamesDone
  <2>2. ASSUME NEW v \in Views, NEW q \in Queries, BeginView(v, q[1], q[2]) PROVE VerdictInv'
    <3>1. probe' \in [Views -> Probes] /\ ViewInv(v)
      BY <2>2, ViewSteps DEF VerdictInv
    <3>2. /\ probe[v].status = "new" /\ probe'[v].status = "running"
          /\ probe'[v].ran = probe[v].ran /\ probe'[v].successes = probe[v].successes
          /\ probe'[v].failures = probe[v].failures
          /\ probe'[v].telling = probe[v].telling /\ probe'[v].failing = probe[v].failing
          /\ \A u \in Views \ {v} : probe'[u] = probe[u]
          /\ UNCHANGED <<world, steady>>
      BY <2>2 DEF BeginView, VerdictInv, Probes
    <3>3. /\ probe[v].successes = {} /\ probe[v].failures = {} /\ probe[v].ran = {}
          /\ probe[v].telling = {} /\ probe[v].failing = {}
      BY <3>1, <3>2 DEF ViewInv, NamesRun, NamesDone
    <3>4. ViewInv(v)' /\ Truthful(v)'
      BY <3>2, <3>3 DEF ViewInv, Truthful, NamesRun, NamesDone
    <3> QED
      BY <3>1, <3>2, <3>4, VerdictStep
  <2>3. ASSUME NEW v \in Views, EndView(v) PROVE VerdictInv'
    <3>1. probe' \in [Views -> Probes]
      BY <2>3, ViewSteps DEF VerdictInv
    <3>2. /\ probe'[v].status \in {"200", "500"} /\ probe'[v].ran = {}
          /\ probe'[v].telling = {} /\ probe'[v].failing = {}
          /\ probe'[v].successes = {} /\ probe'[v].failures = {}
          /\ \A u \in Views \ {v} : probe'[u] = probe[u]
          /\ UNCHANGED <<world, steady>>
      BY <2>3 DEF EndView, Idle, VerdictInv, Probes
    <3> QED
      BY <3>1, <3>2, VerdictIdle, VerdictStep
  <2>4. ASSUME NEW w \in Neighbours, Change(w) PROVE VerdictInv'
    <3>1. /\ probe' = probe /\ steady' = {v \in steady : probe[v].status # "running"}
          /\ world' = w
      BY <2>4 DEF Change
    <3>2. w \in Worlds
      BY WorldStays DEF VerdictInv
    <3>3. \A v \in Views : NamesRun(v)' = NamesRun(v) /\ NamesDone(v)' = NamesDone(v)
      BY <3>1 DEF NamesRun, NamesDone
    <3> QED
      BY <3>1, <3>2, <3>3 DEF VerdictInv, ViewInv, Truthful
  <2>5. ASSUME NEW p \in HealthProcs, Replace(p) PROVE VerdictInv'
    <3>1. probe' \in [Views -> Probes] /\ UNCHANGED <<world, steady>>
      BY <2>5, ViewSteps DEF VerdictInv, Replace
    <3>2. ASSUME NEW v \in Views PROVE ViewInv(v)' /\ (v \in steady => Truthful(v)')
      <4>1. CASE probe'[v] = probe[v]
        <5>1. NamesRun(v)' = NamesRun(v) /\ NamesDone(v)' = NamesDone(v)
          BY <4>1 DEF NamesRun, NamesDone
        <5> QED
          BY <3>1, <4>1, <5>1 DEF VerdictInv, ViewInv, Truthful
      <4>2. CASE probe'[v] = [Idle(p) EXCEPT !.status = "lost"]
        BY <4>2, VerdictIdle DEF Idle
      <4> QED
        BY <2>5, <4>1, <4>2 DEF Replace
    <3> QED
      BY <3>1, <3>2 DEF VerdictInv
  <2> QED
    BY <2>1, <2>2, <2>3, <2>4, <2>5, VerdictRun, VerdictIn
    DEF HealthNext, healthVars, Resubscribe, ClearGauge, InCheck
<1>3. VerdictInv => RedisDownIsReported
  BY DEF VerdictInv, Truthful, RedisDownIsReported, NamesDone
<1> QED
  BY <1>1, <1>2, <1>3, PTL DEF HealthSpec

\* HealthTypeOK with the domain of told.
HealthTypes == HealthTypeOK /\ told \in [HealthProcs -> Seq(Names)]

LEMMA HealthSteps == HealthTypes /\ [HealthNext]_healthVars => HealthTypes'
<1> SUFFICES ASSUME HealthTypes, [HealthNext]_healthVars PROVE HealthTypes'
  OBVIOUS
<1>0. probe \in [Views -> Probes]
  BY DEF HealthTypes, HealthTypeOK, Probes
<1>1. CASE UNCHANGED healthVars
  BY <1>1 DEF healthVars, HealthTypes, HealthTypeOK
<1>2. ASSUME NEW v \in Views, NEW q \in Queries, BeginView(v, q[1], q[2]) PROVE HealthTypes'
  <2>1. probe' \in [Views -> Probes]
    BY <1>0, <1>2, ViewSteps
  <2> QED
    BY <1>2, <2>1 DEF BeginView, HealthTypes, HealthTypeOK, Probes
<1>3. ASSUME NEW v \in Views, NEW i \in DOMAIN Checks, NEW answered \in SUBSET HealthProcs,
             RunCheck(v, i, answered)
      PROVE  HealthTypes'
  <2>1. probe' \in [Views -> Probes]
    BY <1>0, <1>3, ViewSteps
  <2> QED
    BY <1>3, <2>1 DEF RunCheck, HealthTypes, HealthTypeOK, Probes
<1>9. ASSUME NEW v \in Views, NEW i \in DOMAIN Checks, InCheck(v, i) PROVE HealthTypes'
  <2>1. probe' \in [Views -> Probes]
    BY <1>0, <1>9, ViewSteps
  <2>2. Checks[i].name \in Names /\ probe[v].at \in HealthProcs
    BY <1>0 DEF Names, Probes
  <2>3. /\ gauge' \in [HealthProcs -> [Names -> {"none", "0", "1"}]]
        /\ told' \in [HealthProcs -> Seq(Names)]
        /\ cleared' \in [HealthProcs -> SUBSET Names]
        /\ UNCHANGED <<world, changes, listens, steady>>
    <3>1. CASE SetSuccess(v, i)
      BY <2>2, <3>1 DEF SetSuccess, HealthTypes, HealthTypeOK
    <3>2. CASE SetSuccessFails(v, i)
      BY <3>2 DEF SetSuccessFails, HealthTypes, HealthTypeOK
    <3>3. CASE RecordFailure(v, i)
      BY <2>2, <3>3 DEF RecordFailure, HealthTypes, HealthTypeOK
    <3> QED
      BY <1>9, <3>1, <3>2, <3>3 DEF InCheck
  <2> QED
    BY <2>1, <2>3 DEF HealthTypes, HealthTypeOK, Probes
<1>4. ASSUME NEW v \in Views, EndView(v) PROVE HealthTypes'
  <2>1. probe' \in [Views -> Probes]
    BY <1>0, <1>4, ViewSteps
  <2> QED
    BY <1>4, <2>1 DEF EndView, HealthTypes, HealthTypeOK, Probes
<1>5. ASSUME NEW p \in HealthProcs, ClearGauge(p) PROVE HealthTypes'
  <2>1. Head(told[p]) \in Names /\ Tail(told[p]) \in Seq(Names)
    BY <1>5 DEF ClearGauge, HealthTypes
  <2> QED
    BY <1>5, <2>1 DEF ClearGauge, HealthTypes, HealthTypeOK
<1>6. ASSUME NEW p \in HealthProcs, Resubscribe(p) PROVE HealthTypes'
  BY <1>6 DEF Resubscribe, HealthTypes, HealthTypeOK
<1>7. ASSUME NEW p \in HealthProcs, Replace(p) PROVE HealthTypes'
  <2>1. probe' \in [Views -> Probes]
    BY <1>0, <1>7, ViewSteps
  <2>2. changes' \in 0..MaxChanges
    BY <1>7, HealthAssumption DEF Replace, HealthTypes, HealthTypeOK
  <2>3. /\ gauge' \in [HealthProcs -> [Names -> {"none", "0", "1"}]]
        /\ told' \in [HealthProcs -> Seq(Names)]
        /\ listens' \in [HealthProcs -> BOOLEAN]
        /\ cleared' \in [HealthProcs -> SUBSET Names]
        /\ UNCHANGED <<world, steady>>
    BY <1>7 DEF Replace, HealthTypes, HealthTypeOK
  <2> QED
    BY <2>1, <2>2, <2>3 DEF HealthTypes, HealthTypeOK, Probes
<1>8. ASSUME NEW w \in Neighbours, Change(w) PROVE HealthTypes'
  <2>1. world' \in Worlds /\ changes' \in 0..MaxChanges
    BY <1>8, HealthAssumption, WorldStays DEF Change, HealthTypes, HealthTypeOK
  <2>2. /\ told' \in [HealthProcs -> Seq(Names)]
        /\ listens' \in [HealthProcs -> BOOLEAN]
        /\ cleared' \in [HealthProcs -> SUBSET Names]
        /\ steady' \subseteq Views /\ UNCHANGED <<gauge, probe>>
    BY <1>8 DEF Change, HealthTypes, HealthTypeOK
  <2> QED
    BY <2>1, <2>2 DEF HealthTypes, HealthTypeOK
<1> QED
  BY <1>1, <1>2, <1>3, <1>4, <1>5, <1>6, <1>7, <1>8, <1>9 DEF HealthNext, InCheck

LEMMA HealthTypesAlways == HealthSpec => []HealthTypes
<1>1. HealthInit => HealthTypes
  BY HealthAssumption DEF HealthInit, Idle, HealthTypes, HealthTypeOK, Worlds, DbStates
<1> QED
  BY <1>1, HealthSteps, PTL DEF HealthSpec
------------------------------------------------------------------------------
(* BroadcasterSetup.                                                         *)

Broadcasters == [kind : {"local", "redis"}, subs : SUBSET Channels]

\* What a thread holds at each step.  Only the one that sets up makes the first broadcaster and
\* replaces it.
StepInv ==
  /\ \A t \in SetupThreads :
       /\ doing[t].step = "getting" => broadcaster # 0
       /\ doing[t].step = "subscribing" => doing[t].object \in 1..Len(objects)
       /\ doing[t].step \in {"failed"} \cup (Exchanges \ {"making"}) => t = Main
  /\ doing[Main].step \in {"replacing", "connecting", "switched", "copying"} => broadcaster # 0
  /\ doing[Main].step \in {"connecting", "switched", "copying"} =>
       doing[Main].from \in 1..Len(objects)
  /\ doing[Main].step = "copying" => doing[Main].object \in 1..Len(objects)

\* A subscription that was made: no thread is about to put another broadcaster without having
\* looked at the one in use, which has the subscription or gets it by the copy.
Made(ch) ==
  /\ \A t \in SetupThreads : doing[t].step \notin Openings
  /\ broadcaster # 0
  /\ doing[Main].step = "connecting" => doing[Main].from = broadcaster
  /\ \/ ch \in objects[broadcaster].subs
     \/ doing[Main].step = "switched" /\ ch \in objects[doing[Main].from].subs
     \/ /\ doing[Main].step = "copying" /\ doing[Main].object = broadcaster
        /\ ch \in doing[Main].left

\* A subscription whose call is under way, while no other thread is at an exchange.
BeingMade(ch) ==
  \E t \in SetupThreads :
    /\ doing[t].step \in Calls /\ doing[t].left = {ch}
    /\ doing[t].step = "subscribing" => doing[t].object = broadcaster
    /\ \A u \in SetupThreads \ {t} : doing[u].step \notin Exchanges

SubsInv == doing[Main].step # "failed" => \A ch \in asked \ crossed : Made(ch) \/ BeingMade(ch)

SetupInv == SetupTypeOK /\ StepInv /\ SubsInv

\* Subscriptions are added to one broadcaster.
LEMMA SubsGrow ==
  ASSUME objects \in Seq(Broadcasters), NEW o \in 1..Len(objects), NEW C \in SUBSET Channels,
         objects' = [objects EXCEPT ![o].subs = @ \cup C]
  PROVE  /\ objects' \in Seq(Broadcasters) /\ Len(objects') = Len(objects)
         /\ objects'[o].subs = objects[o].subs \cup C
         /\ \A i \in 1..Len(objects) \ {o} : objects'[i] = objects[i]
<1>1. objects[o] \in Broadcasters
  OBVIOUS
<1>2. PICK new \in Broadcasters : new = [objects[o] EXCEPT !.subs = @ \cup C]
  BY <1>1 DEF Broadcasters
<1>3. new.subs = objects[o].subs \cup C
  BY <1>1, <1>2 DEF Broadcasters
<1>4. objects' = [objects EXCEPT ![o] = new]
  BY <1>2
<1>5. objects' \in Seq(Broadcasters) /\ Len(objects') = Len(objects)
  <2>1. Len(objects) \in Nat /\ objects \in [1..Len(objects) -> Broadcasters]
    OBVIOUS
  <2>2. objects' \in [1..Len(objects) -> Broadcasters]
    BY <1>4, <2>1
  <2>3. objects' \in Seq(Broadcasters)
    BY <2>1, <2>2
  <2> QED
    BY <2>1, <2>2, <2>3
<1>6. objects'[o] = new /\ \A i \in 1..Len(objects) \ {o} : objects'[i] = objects[i]
  BY <1>4
<1> QED
  BY <1>3, <1>5, <1>6

\* A broadcaster is created without subscriptions, and is the one in use.
LEMMA Created ==
  ASSUME SetupTypeOK, NEW kind \in {"local", "redis"}, Create(kind)
  PROVE  /\ objects' \in Seq(Broadcasters) /\ Len(objects') = Len(objects) + 1
         /\ Len(objects') <= MaxObjects /\ broadcaster' = Len(objects')
         /\ broadcaster' \in 1..Len(objects')
         /\ \A i \in 1..Len(objects) : objects'[i] = objects[i]
<1> DEFINE new == [kind |-> kind, subs |-> {}]
<1>1. new \in Broadcasters
  BY DEF Broadcasters
<1>2. /\ objects \in Seq(Broadcasters) /\ objects' = Append(objects, new)
      /\ Len(objects) < MaxObjects /\ broadcaster' = Len(objects) + 1
  BY DEF Create, SetupTypeOK, Broadcasters
<1> HIDE DEF new
<1> QED
  BY <1>1, <1>2, SetupAssumption

\* One thread goes on to its next step.
LEMMA Goes ==
  ASSUME SetupTypeOK, NEW t \in SetupThreads, NEW d \in Doings, Does(t, d)
  PROVE  /\ doing' \in [SetupThreads -> Doings] /\ doing'[t] = d
         /\ \A u \in SetupThreads \ {t} : doing'[u] = doing[u]
BY DEF Does, SetupTypeOK

LEMMA RestIsDoing == AtRest \in Doings
BY SetupAssumption DEF AtRest, Doings, Steps

\* The broadcaster in use is one of those that were created.
LEMMA InUse == ASSUME SetupTypeOK PROVE broadcaster \in 0..MaxObjects
BY SetupAssumption DEF SetupTypeOK

\* A thread that is at no exchange leaves the subscriptions where they are, and a call that
\* goes on stays under way.
LEMMA OutsideExchange ==
  ASSUME NEW t \in SetupThreads, NEW ch, SetupAssumption,
         doing[t].step \in {"idle", "creating", "getting"},
         doing'[t].step \in {"idle", "creating", "subscribing"},
         \A u \in SetupThreads \ {t} : doing'[u] = doing[u],
         objects' = objects, broadcaster' = broadcaster
  PROVE  /\ Made(ch) => Made(ch)'
         /\ (doing[t].step = "getting" => /\ doing'[t].step = "subscribing"
                                          /\ doing'[t].left = doing[t].left
                                          /\ doing'[t].object = broadcaster)
            => (BeingMade(ch) => BeingMade(ch)')
<1> USE SetupAssumption
<1>1. /\ doing[t].step \notin Exchanges /\ doing'[t].step \notin Exchanges
      /\ doing'[t].step \notin Openings
  BY DEF Exchanges, Openings
<1>2. \/ doing'[Main] = doing[Main]
      \/ doing'[Main].step \in {"idle", "creating", "subscribing"} /\ doing[Main].step \in {"idle", "creating", "getting"}
  BY SetupAssumption
<1>3. ASSUME Made(ch) PROVE Made(ch)'
  <2>1. \A u \in SetupThreads : doing'[u].step \notin Openings
    BY <1>1, <1>3 DEF Made
  <2> QED
    BY <1>2, <1>3, <2>1 DEF Made
<1>4. ASSUME BeingMade(ch),
             doing[t].step = "getting" =>
               /\ doing'[t].step = "subscribing" /\ doing'[t].left = doing[t].left
               /\ doing'[t].object = broadcaster
      PROVE  BeingMade(ch)'
  <2>1. PICK s \in SetupThreads :
          /\ doing[s].step \in Calls /\ doing[s].left = {ch}
          /\ doing[s].step = "subscribing" => doing[s].object = broadcaster
          /\ \A u \in SetupThreads \ {s} : doing[u].step \notin Exchanges
    BY <1>4 DEF BeingMade
  <2>2. \A u \in SetupThreads \ {s} : doing'[u].step \notin Exchanges
    BY <1>1, <2>1
  <2>3. /\ doing'[s].step \in Calls /\ doing'[s].left = {ch}
        /\ doing'[s].step = "subscribing" => doing'[s].object = broadcaster
    BY <1>4, <2>1 DEF Calls
  <2> QED
    BY <2>2, <2>3 DEF BeingMade
<1> QED
  BY <1>3, <1>4

LEMMA SetupInitially == SetupInit => SetupInv
<1> SUFFICES ASSUME SetupInit PROVE SetupInv
  OBVIOUS
<1>1. SetupTypeOK
  <2>1. /\ objects = <<>> /\ Len(objects) = 0
        /\ objects \in Seq([kind : {"local", "redis"}, subs : SUBSET Channels])
    BY DEF SetupInit
  <2>2. doing \in [SetupThreads -> Doings]
    BY RestIsDoing DEF SetupInit
  <2>3. Len(objects) <= MaxObjects /\ broadcaster \in 0..Len(objects)
    BY <2>1, SetupAssumption DEF SetupInit
  <2> QED
    BY <2>1, <2>2, <2>3 DEF SetupInit, SetupTypeOK
<1>2. StepInv
  BY SetupAssumption DEF SetupInit, StepInv, AtRest, Exchanges, Openings
<1>3. SubsInv
  BY DEF SetupInit, SubsInv
<1> QED
  BY <1>1, <1>2, <1>3 DEF SetupInv


LEMMA SetupAlways == SetupSpec => []SetupInv
<1> USE SetupAssumption
<1>1. SetupInv /\ [SetupNext]_setupVars => SetupInv'
  <2> SUFFICES ASSUME SetupInv, [SetupNext]_setupVars PROVE SetupInv'
    OBVIOUS
  <2> USE DEF SetupInv
  <2>1. CASE UNCHANGED setupVars
    BY <2>1 DEF setupVars, SetupTypeOK, StepInv, SubsInv, Made, BeingMade
  <2>2. ASSUME NEW t \in SetupThreads, GetRedis(t) PROVE SetupInv'
    <3>1. /\ doing' \in [SetupThreads -> Doings] /\ \A u \in SetupThreads \ {t} : doing'[u] = doing[u]
          /\ doing[t].step = "idle" /\ doing'[t].step \in {"idle", "creating"}
      <4>1. (IF configured = "sentinels" THEN [AtRest EXCEPT !.step = "creating"] ELSE AtRest) \in Doings
        BY <2>2, RestIsDoing DEF GetRedis, SetupTypeOK, Doings, Steps, AtRest, Calls, Exchanges, Openings
      <4>2. Does(t, (IF configured = "sentinels" THEN [AtRest EXCEPT !.step = "creating"] ELSE AtRest))
        BY <2>2 DEF GetRedis
      <4> QED
        BY <2>2, <4>1, <4>2, Goes DEF AtRest, Doings, GetRedis
    <3>2. SetupTypeOK'
      BY <2>2, <3>1 DEF GetRedis, SetupTypeOK
    <3>3. StepInv'
      BY <2>2, <3>1 DEF GetRedis, SetupTypeOK, StepInv, Exchanges, Openings
    <3>4. SubsInv'
      <4>1. \A ch : (Made(ch) => Made(ch)') /\ (BeingMade(ch) => BeingMade(ch)')
        BY <2>2, <3>1, OutsideExchange DEF GetRedis
      <4>2. doing'[Main].step # "failed" => doing[Main].step # "failed"
        BY <3>1
      <4> QED
        BY <2>2, <4>1, <4>2 DEF GetRedis, SubsInv
    <3> QED
      BY <3>2, <3>3, <3>4 DEF SetupInv
  <2>3. ASSUME NEW t \in SetupThreads, GetSlave(t) PROVE SetupInv'
    <3>1. /\ doing' \in [SetupThreads -> Doings] /\ \A u \in SetupThreads \ {t} : doing'[u] = doing[u]
          /\ doing[t].step = "creating" /\ doing'[t].step = "idle"
      <4>1. AtRest \in Doings
        BY <2>3, RestIsDoing DEF GetSlave, SetupTypeOK, Doings, Steps, AtRest, Calls, Exchanges, Openings
      <4>2. Does(t, AtRest)
        BY <2>3 DEF GetSlave
      <4> QED
        BY <2>3, <4>1, <4>2, Goes DEF AtRest, Doings, GetSlave
    <3>2. SetupTypeOK'
      BY <2>3, <3>1 DEF GetSlave, SetupTypeOK
    <3>3. StepInv'
      BY <2>3, <3>1 DEF GetSlave, SetupTypeOK, StepInv, Exchanges, Openings
    <3>4. SubsInv'
      <4>1. \A ch : (Made(ch) => Made(ch)') /\ (BeingMade(ch) => BeingMade(ch)')
        BY <2>3, <3>1, OutsideExchange DEF GetSlave
      <4>2. doing'[Main].step # "failed" => doing[Main].step # "failed"
        BY <3>1
      <4> QED
        BY <2>3, <4>1, <4>2 DEF GetSlave, SubsInv
    <3> QED
      BY <3>2, <3>3, <3>4 DEF SetupInv
  <2>4. ASSUME NEW t \in SetupThreads, NEW ch \in Channels, SubscribeFirst(t, ch) PROVE SetupInv'
    <3>1. PICK d \in Doings : Does(t, d) /\ d.step = "making" /\ d.left = {ch}
      <4> DEFINE d == [AtRest EXCEPT !.step = "making", !.left = {ch}]
      <4>1. d \in Doings /\ d.step = "making" /\ d.left = {ch}
        BY RestIsDoing DEF AtRest, Doings, Steps, Calls
      <4>2. Does(t, d)
        BY <2>4 DEF SubscribeFirst
      <4> QED
        BY <4>1, <4>2
    <3>2. /\ doing' \in [SetupThreads -> Doings] /\ \A u \in SetupThreads \ {t} : doing'[u] = doing[u]
          /\ doing[t].step = "idle" /\ doing'[t] = d
      BY <2>4, <3>1, Goes DEF SubscribeFirst
    <3>3. SetupTypeOK'
      <4>1. crossed' \subseteq Channels /\ asked' \subseteq Channels
        BY <2>4 DEF SubscribeFirst, Crossing, UnderWay, SetupTypeOK, Doings
      <4> QED
        BY <2>4, <3>2, <4>1 DEF SubscribeFirst, SetupTypeOK
    <3>4. StepInv'
      BY <2>4, <3>1, <3>2 DEF SubscribeFirst, SetupTypeOK, StepInv, Exchanges, Openings
    <3>5. ASSUME NEW c \in asked' \ crossed', doing'[Main].step # "failed" PROVE c = ch
      <4> SUFFICES ASSUME c # ch, doing[Main].step # "failed" PROVE FALSE
        BY <3>2, <3>5
      <4>1. c \in asked \ crossed /\ c \notin UnderWay(t) /\ ~Made(c)
        BY <2>4, <3>5 DEF SubscribeFirst, Made
      <4>2. PICK s \in SetupThreads : doing[s].step \in Calls /\ doing[s].left = {c}
        BY <4>1 DEF SubsInv, BeingMade
      <4>3. s # t
        BY <3>2, <4>2 DEF Calls
      <4> QED
        BY <4>1, <4>2, <4>3 DEF UnderWay
    <3>6. ASSUME ch \notin crossed' PROVE BeingMade(ch)'
      <4>1. \A u \in SetupThreads \ {t} : doing[u].step \notin Exchanges
        BY <2>4, <3>6 DEF SubscribeFirst, Crossing
      <4> QED
        BY <3>1, <3>2, <4>1 DEF BeingMade, Calls
    <3>7. SubsInv'
      BY <3>5, <3>6 DEF SubsInv
    <3> QED
      BY <3>3, <3>4, <3>7
  <2>5. ASSUME NEW t \in SetupThreads, GetReturns(t) PROVE SetupInv'
    <3>1. PICK d \in Doings : /\ Does(t, d) /\ d.step = "subscribing" /\ d.object = broadcaster
                              /\ d.left = doing[t].left
      <4> DEFINE d == [doing[t] EXCEPT !.step = "subscribing", !.object = broadcaster]
      <4>1. doing[t] \in Doings
        BY DEF SetupTypeOK
      <4>2. /\ d \in Doings /\ d.step = "subscribing" /\ d.object = broadcaster
            /\ d.left = doing[t].left
        BY <4>1, InUse DEF Doings, Steps, Calls
      <4>3. Does(t, d)
        BY <2>5 DEF GetReturns
      <4> QED
        BY <4>2, <4>3
    <3>2. /\ doing' \in [SetupThreads -> Doings] /\ \A u \in SetupThreads \ {t} : doing'[u] = doing[u]
          /\ doing[t].step = "getting" /\ doing'[t] = d
      BY <2>5, <3>1, Goes DEF GetReturns
    <3>3. SetupTypeOK'
      BY <2>5, <3>2 DEF GetReturns, SetupTypeOK
    <3>4. StepInv'
      BY <2>5, <3>1, <3>2 DEF GetReturns, SetupTypeOK, StepInv, Exchanges, Openings
    <3>5. SubsInv'
      <4>1. \A ch : (Made(ch) => Made(ch)') /\ (BeingMade(ch) => BeingMade(ch)')
        BY <2>5, <3>1, <3>2, OutsideExchange DEF GetReturns
      <4>2. doing'[Main].step # "failed" => doing[Main].step # "failed"
        BY <3>2
      <4> QED
        BY <2>5, <4>1, <4>2 DEF GetReturns, SubsInv
    <3> QED
      BY <3>3, <3>4, <3>5
  <2>6. ASSUME NEW t \in SetupThreads, NEW ch \in Channels, SubscribeGet(t, ch) PROVE SetupInv'
    <3>1. PICK d \in Doings : /\ Does(t, d) /\ d.step = "subscribing" /\ d.object = broadcaster
                              /\ d.left = {ch}
      <4> DEFINE d == [AtRest EXCEPT !.step = "subscribing", !.object = broadcaster, !.left = {ch}]
      <4>1. /\ d \in Doings /\ d.step = "subscribing" /\ d.object = broadcaster
            /\ d.left = {ch}
        BY RestIsDoing, InUse DEF AtRest, Doings, Steps, Calls
      <4>2. Does(t, d)
        BY <2>6 DEF SubscribeGet
      <4> QED
        BY <4>1, <4>2
    <3>2. /\ doing' \in [SetupThreads -> Doings] /\ \A u \in SetupThreads \ {t} : doing'[u] = doing[u]
          /\ doing[t].step = "idle" /\ doing'[t] = d
      BY <2>6, <3>1, Goes DEF SubscribeGet
    <3>3. SetupTypeOK'
      <4>1. crossed' \subseteq Channels /\ asked' \subseteq Channels
        BY <2>6 DEF SubscribeGet, Crossing, SetupTypeOK
      <4> QED
        BY <2>6, <3>2, <4>1 DEF SubscribeGet, SetupTypeOK
    <3>4. StepInv'
      BY <2>6, <3>1, <3>2 DEF SubscribeGet, SetupTypeOK, StepInv, Exchanges, Openings
    <3>5. ASSUME ch \notin crossed' PROVE BeingMade(ch)'
      <4>1. \A u \in SetupThreads \ {t} : doing[u].step \notin Exchanges
        BY <2>6, <3>5 DEF SubscribeGet, Crossing
      <4> QED
        BY <2>6, <3>1, <3>2, <4>1 DEF SubscribeGet, BeingMade, Calls
    <3>6. SubsInv'
      <4>1. \A c : (Made(c) => Made(c)') /\ (BeingMade(c) => BeingMade(c)')
        BY <2>6, <3>1, <3>2, OutsideExchange DEF SubscribeGet
      <4>2. doing'[Main].step # "failed" => doing[Main].step # "failed"
        BY <3>2
      <4>3. \A c \in asked' \ crossed' : c = ch \/ c \in asked \ crossed
        BY <2>6 DEF SubscribeGet
      <4> QED
        BY <3>5, <4>1, <4>2, <4>3 DEF SubsInv
    <3> QED
      BY <3>3, <3>4, <3>6
  <2>7. CASE TakePrevious
    <3>1. /\ doing' \in [SetupThreads -> Doings] /\ \A u \in SetupThreads \ {Main} : doing'[u] = doing[u]
          /\ doing[Main].step = "replacing" /\ doing'[Main].step = "connecting" /\ doing'[Main].from = broadcaster
      <4> DEFINE d == [AtRest EXCEPT !.step = "connecting", !.from = broadcaster]
      <4>1. d \in Doings /\ d.step = "connecting" /\ d.from = broadcaster
        BY RestIsDoing, InUse DEF AtRest, Doings, Steps, Exchanges
      <4>2. Does(Main, d) /\ doing[Main].step = "replacing"
        BY <2>7 DEF TakePrevious
      <4> HIDE DEF d
      <4> QED
        BY <4>1, <4>2, Goes
    <3>2. SetupTypeOK'
      BY <2>7, <3>1 DEF TakePrevious, SetupTypeOK
    <3>3. StepInv'
      BY <2>7, <3>1 DEF TakePrevious, SetupTypeOK, StepInv, Exchanges, Openings
    <3>4. SubsInv'
      BY <2>7, <3>1 DEF TakePrevious, SubsInv, StepInv, Made, BeingMade, Calls, Exchanges, Openings, SetupTypeOK
    <3> QED
      BY <3>2, <3>3, <3>4 DEF SetupInv
  <2>8. CASE ConnectFails
    <3>1. /\ doing' \in [SetupThreads -> Doings] /\ \A u \in SetupThreads \ {Main} : doing'[u] = doing[u]
          /\ doing'[Main].step = "failed"
      <4>1. [AtRest EXCEPT !.step = "failed"] \in Doings
        BY <2>8, RestIsDoing DEF ConnectFails, SetupTypeOK, Doings, Steps, AtRest, Calls, Exchanges, Openings
      <4>2. Does(Main, [AtRest EXCEPT !.step = "failed"])
        BY <2>8 DEF ConnectFails
      <4> QED
        BY <2>8, <4>1, <4>2, Goes DEF AtRest, Doings, ConnectFails
    <3>2. SetupTypeOK'
      BY <2>8, <3>1 DEF ConnectFails, SetupTypeOK
    <3>3. StepInv'
      BY <2>8, <3>1 DEF ConnectFails, SetupTypeOK, StepInv, Exchanges, Openings
    <3>4. SubsInv'
      BY <2>8, <3>1 DEF ConnectFails, SubsInv, StepInv, Made, BeingMade, Calls, Exchanges, Openings, SetupTypeOK
    <3> QED
      BY <3>2, <3>3, <3>4 DEF SetupInv
  <2>9. CASE CopyBegins
    <3>1. /\ doing' \in [SetupThreads -> Doings] /\ \A u \in SetupThreads \ {Main} : doing'[u] = doing[u]
          /\ doing[Main].step = "switched" /\ doing'[Main].step \in {"failed", "copying"}
          /\ doing'[Main].step = "copying" => /\ doing'[Main].object = broadcaster /\ doing'[Main].from = doing[Main].from
                                     /\ doing'[Main].left = objects[doing[Main].from].subs
      <4> DEFINE old == doing[Main]
                 subs == objects[old.from].subs
                 gone == [AtRest EXCEPT !.step = "failed"]
                 copy == [old EXCEPT !.step = "copying", !.object = broadcaster,
                                     !.taken = subs, !.left = subs]
      <4>1. old \in Doings /\ old.step = "switched" /\ old.from \in 1..Len(objects)
        BY <2>9 DEF CopyBegins, SetupTypeOK, StepInv
      <4>2. subs \in SUBSET Channels
        <5>1. objects \in [1..Len(objects) -> Broadcasters]
          <6>1. objects \in Seq(Broadcasters)
            BY DEF SetupTypeOK, Broadcasters
          <6> QED
            BY <6>1
        <5> HIDE DEF old
        <5>2. objects[old.from] \in Broadcasters
          BY <4>1, <5>1
        <5> QED
          BY <5>2 DEF Broadcasters
      <4>3. gone \in Doings /\ gone.step = "failed"
        BY DEF AtRest, Doings, Steps
      <4>4. /\ copy \in Doings /\ copy.step = "copying" /\ copy.object = broadcaster
            /\ copy.from = old.from /\ copy.left = subs
        <5> HIDE DEF old, subs
        <5> QED
          BY <4>1, <4>2, InUse DEF Doings, Steps, Exchanges
      <4>5. Does(Main, gone) \/ Does(Main, copy)
        BY <2>9 DEF CopyBegins
      <4> HIDE DEF gone, copy
      <4> QED
        BY <4>1, <4>3, <4>4, <4>5, Goes
    <3>2. SetupTypeOK'
      BY <2>9, <3>1 DEF CopyBegins, SetupTypeOK
    <3>3. StepInv'
      BY <2>9, <3>1 DEF CopyBegins, SetupTypeOK, StepInv, Exchanges, Openings
    <3>4. SubsInv'
      BY <2>9, <3>1 DEF CopyBegins, SubsInv, StepInv, Made, BeingMade, Calls, Exchanges, Openings, SetupTypeOK
    <3> QED
      BY <3>2, <3>3, <3>4 DEF SetupInv
  <2>10. CASE CopyDone
    <3>1. /\ doing' \in [SetupThreads -> Doings] /\ \A u \in SetupThreads \ {Main} : doing'[u] = doing[u]
          /\ doing[Main].step = "copying" /\ doing'[Main].step \in {"failed", "idle"}
          /\ doing'[Main].step = "idle" => doing[Main].left = {}
      <4>1. (IF Grown THEN [AtRest EXCEPT !.step = "failed"] ELSE AtRest) \in Doings
        BY <2>10, RestIsDoing DEF CopyDone, SetupTypeOK, Doings, Steps, AtRest, Calls, Exchanges, Openings
      <4>2. Does(Main, (IF Grown THEN [AtRest EXCEPT !.step = "failed"] ELSE AtRest))
        BY <2>10 DEF CopyDone
      <4> QED
        BY <2>10, <4>1, <4>2, Goes DEF AtRest, Doings, CopyDone
    <3>2. SetupTypeOK'
      BY <2>10, <3>1 DEF CopyDone, SetupTypeOK
    <3>3. StepInv'
      BY <2>10, <3>1 DEF CopyDone, SetupTypeOK, StepInv, Exchanges, Openings
    <3>4. SubsInv'
      BY <2>10, <3>1 DEF CopyDone, SubsInv, StepInv, Made, BeingMade, Calls, Exchanges, Openings, SetupTypeOK
    <3> QED
      BY <3>2, <3>3, <3>4 DEF SetupInv
  <2>11. CASE Include
    <3>1. PICK d \in Doings :
            /\ Does(Main, d) /\ d.step \in {"including", "defaulting", "replacing"}
            /\ broadcaster = 0 \/ d.step = "replacing"
            /\ broadcaster # 0 \/ d.step \in {"including", "defaulting"}
      <4>1. CASE broadcaster = 0
        <5> DEFINE d == [AtRest EXCEPT !.step = IF master /\ slave THEN "including" ELSE "defaulting"]
        <5>1. d \in Doings /\ d.step \in {"including", "defaulting"}
          BY RestIsDoing DEF Doings, Steps, AtRest, Exchanges, Openings
        <5>2. Does(Main, d)
          BY <2>11, <4>1 DEF Include
        <5> QED
          BY <4>1, <5>1, <5>2
      <4>2. CASE broadcaster # 0
        <5> DEFINE d == [AtRest EXCEPT !.step = "replacing"]
        <5>1. d \in Doings /\ d.step = "replacing"
          BY RestIsDoing DEF Doings, Steps, AtRest, Exchanges, Openings
        <5>2. Does(Main, d)
          BY <2>11, <4>2 DEF Include
        <5> QED
          BY <4>2, <5>1, <5>2
      <4> QED
        BY <4>1, <4>2
    <3>2. /\ doing' \in [SetupThreads -> Doings] /\ \A u \in SetupThreads \ {Main} : doing'[u] = doing[u]
          /\ doing'[Main] = d /\ doing[Main].step = "idle"
      BY <2>11, <3>1, Goes DEF Include
    <3>3. SetupTypeOK'
      BY <2>11, <3>2 DEF Include, UnderWay, SetupTypeOK, Doings
    <3>4. StepInv'
      BY <2>11, <3>1, <3>2 DEF Include, StepInv, Exchanges, Openings
    <3>5. SubsInv'
      BY <2>11, <3>1, <3>2 DEF Include, SubsInv, StepInv, Made, BeingMade, UnderWay, Calls, Exchanges, Openings
    <3> QED
      BY <3>3, <3>4, <3>5
  <2>12. ASSUME NEW t \in SetupThreads, GetMakes(t) PROVE SetupInv'
    <3>1. /\ objects' \in Seq(Broadcasters) /\ Len(objects') = Len(objects) + 1
          /\ Len(objects') <= MaxObjects /\ broadcaster' = Len(objects')
          /\ broadcaster' \in 1..Len(objects')
          /\ \A i \in 1..Len(objects) : objects'[i] = objects[i]
      BY <2>12, Created DEF GetMakes
    <3>2. /\ doing' \in [SetupThreads -> Doings] /\ \A u \in SetupThreads \ {t} : doing'[u] = doing[u]
          /\ doing[t].step = "making" /\ doing'[t].step = "getting" /\ doing'[t].left = doing[t].left
      <4> DEFINE d == [doing[t] EXCEPT !.step = "getting"]
      <4>1. doing[t] \in Doings
        BY DEF SetupTypeOK
      <4>2. d \in Doings /\ d.step = "getting" /\ d.left = doing[t].left
        BY <4>1 DEF Doings, Steps, Calls
      <4>3. Does(t, d) /\ doing[t].step = "making"
        BY <2>12 DEF GetMakes
      <4> HIDE DEF d
      <4> QED
        BY <4>2, <4>3, Goes
    <3>3. SetupTypeOK'
      BY <2>12, <3>1, <3>2 DEF GetMakes, SetupTypeOK, Broadcasters
    <3>4. StepInv'
      BY <3>1, <3>2, SetupAssumption DEF SetupTypeOK, StepInv, Exchanges, Openings
    <3>5. SubsInv'
      <4>1. ASSUME NEW ch, BeingMade(ch) PROVE BeingMade(ch)'
        <5>1. PICK s \in SetupThreads :
                /\ doing[s].left = {ch}
                /\ \A u \in SetupThreads \ {s} : doing[u].step \notin Exchanges
          BY <4>1 DEF BeingMade
        <5>2. s = t
          BY <3>2, <5>1 DEF Exchanges, Openings
        <5> QED
          BY <3>2, <5>1, <5>2 DEF BeingMade, Calls
      <4>2. \A ch : ~Made(ch)
        BY <3>2 DEF Made, Openings
      <4>3. doing'[Main].step # "failed" => doing[Main].step # "failed"
        BY <3>2
      <4> QED
        BY <2>12, <4>1, <4>2, <4>3 DEF GetMakes, SubsInv
    <3> QED
      BY <3>3, <3>4, <3>5
  <2>13. CASE IncludeFirst
    <3>1. /\ objects' \in Seq(Broadcasters) /\ Len(objects') = Len(objects) + 1
          /\ Len(objects') <= MaxObjects /\ broadcaster' = Len(objects')
          /\ broadcaster' \in 1..Len(objects')
          /\ \A i \in 1..Len(objects) : objects'[i] = objects[i]
      BY <2>13, Created DEF IncludeFirst
    <3>2. /\ doing' \in [SetupThreads -> Doings] /\ \A u \in SetupThreads \ {Main} : doing'[u] = doing[u]
          /\ doing[Main].step \in {"defaulting", "including"} /\ doing'[Main].step = "idle"
      BY <2>13, RestIsDoing, Goes DEF IncludeFirst, AtRest
    <3>3. SetupTypeOK'
      BY <2>13, <3>1, <3>2 DEF IncludeFirst, SetupTypeOK, Broadcasters
    <3>4. StepInv'
      BY <3>1, <3>2, SetupAssumption DEF SetupTypeOK, StepInv, Exchanges, Openings
    <3>5. SubsInv'
      BY <2>13, <3>1, <3>2 DEF IncludeFirst, SubsInv, StepInv, Made, BeingMade, Calls, Exchanges, Openings
    <3> QED
      BY <3>3, <3>4, <3>5
  <2>14. CASE ReplaceLocal
    <3>1. /\ objects' \in Seq(Broadcasters) /\ Len(objects') = Len(objects) + 1
          /\ Len(objects') <= MaxObjects /\ broadcaster' = Len(objects')
          /\ broadcaster' \in 1..Len(objects')
          /\ \A i \in 1..Len(objects) : objects'[i] = objects[i]
      BY <2>14, Created DEF ReplaceLocal
    <3>2. /\ doing' \in [SetupThreads -> Doings] /\ \A u \in SetupThreads \ {Main} : doing'[u] = doing[u]
          /\ doing[Main].step = "connecting" /\ doing'[Main].step = "switched"
          /\ doing'[Main].from = doing[Main].from
      <4> DEFINE d == [doing[Main] EXCEPT !.step = "switched"]
      <4>1. doing[Main] \in Doings
        BY DEF SetupTypeOK
      <4>2. d \in Doings /\ d.step = "switched" /\ d.from = doing[Main].from
        BY <4>1 DEF Doings, Steps, Exchanges
      <4>3. Does(Main, d) /\ doing[Main].step = "connecting"
        BY <2>14 DEF ReplaceLocal
      <4> HIDE DEF d
      <4> QED
        BY <4>2, <4>3, Goes
    <3>3. SetupTypeOK'
      BY <2>14, <3>1, <3>2 DEF ReplaceLocal, SetupTypeOK, Broadcasters
    <3>4. StepInv'
      BY <3>1, <3>2, SetupAssumption DEF SetupTypeOK, StepInv, Exchanges, Openings
    <3>5. SubsInv'
      BY <2>14, <3>1, <3>2 DEF ReplaceLocal, SubsInv, StepInv, Made, BeingMade, Calls, Exchanges, Openings
    <3> QED
      BY <3>3, <3>4, <3>5
  <2>15. ASSUME NEW t \in SetupThreads, SubscribePut(t) PROVE SetupInv'
    <3> DEFINE o == doing[t].object
    <3>1. /\ o \in 1..Len(objects) /\ doing[t].left \in SUBSET Channels
          /\ doing[t].step = "subscribing"
      BY <2>15 DEF SubscribePut, SetupTypeOK, StepInv, Doings
    <3>2. /\ objects' \in Seq(Broadcasters) /\ Len(objects') = Len(objects)
          /\ objects'[o].subs = objects[o].subs \cup doing[t].left
          /\ \A i \in 1..Len(objects) \ {o} : objects'[i] = objects[i]
      <4>1. objects \in Seq(Broadcasters) /\ objects' = [objects EXCEPT ![o].subs = @ \cup doing[t].left]
        BY <2>15 DEF SubscribePut, SetupTypeOK, Broadcasters
      <4> QED
        BY <3>1, <4>1, SubsGrow
    <3>3. /\ doing' \in [SetupThreads -> Doings] /\ \A u \in SetupThreads \ {t} : doing'[u] = doing[u]
          /\ doing'[t].step = "idle"
      BY <2>15, RestIsDoing, Goes DEF SubscribePut, AtRest
    <3>4. SetupTypeOK'
      BY <2>15, <3>2, <3>3 DEF SubscribePut, SetupTypeOK, Broadcasters
    <3>5. StepInv'
      BY <2>15, <3>2, <3>3 DEF SubscribePut, StepInv, Exchanges, Openings
    <3>6. \A i \in 1..Len(objects) : objects[i].subs \subseteq objects'[i].subs
      BY <3>2
    <3>7. ASSUME NEW ch, Made(ch), doing'[Main].step # "failed" PROVE Made(ch)'
      <4>1. doing'[Main] = doing[Main] \/ (t = Main /\ doing'[Main].step = "idle")
        BY <3>3
      <4> QED
        BY <2>15, <3>1, <3>3, <3>6, <3>7, <4>1 DEF SubscribePut, Made, SetupTypeOK, StepInv, Openings
    <3>8. ASSUME NEW ch, BeingMade(ch) PROVE Made(ch)' \/ BeingMade(ch)'
      <4>1. PICK s \in SetupThreads :
              /\ doing[s].step \in Calls /\ doing[s].left = {ch}
              /\ doing[s].step = "subscribing" => doing[s].object = broadcaster
              /\ \A u \in SetupThreads \ {s} : doing[u].step \notin Exchanges
        BY <3>8 DEF BeingMade
      <4>2. CASE s = t
        <5>1. broadcaster' = o /\ ch \in objects'[o].subs /\ o # 0
          BY <2>15, <3>1, <3>2, <4>1, <4>2 DEF SubscribePut
        <5>2. \A u \in SetupThreads : doing'[u].step \notin Exchanges
          BY <3>3, <4>1, <4>2 DEF Exchanges, Openings
        <5> QED
          BY <5>1, <5>2 DEF Made, Exchanges
      <4>3. CASE s # t
        BY <2>15, <3>3, <4>1, <4>3 DEF SubscribePut, BeingMade, Exchanges, Openings
      <4> QED
        BY <4>2, <4>3
    <3>9. doing'[Main].step # "failed" => doing[Main].step # "failed"
      BY <3>1, <3>3
    <3>10. SubsInv'
      BY <2>15, <3>7, <3>8, <3>9 DEF SubscribePut, SubsInv
    <3> QED
      BY <3>4, <3>5, <3>10
  <2>16. ASSUME NEW ch \in Channels, CopySubscription(ch) PROVE SetupInv'
    <3> DEFINE o == doing[Main].object
    <3>1. o \in 1..Len(objects) /\ doing[Main].step = "copying"
      BY <2>16 DEF CopySubscription, StepInv
    <3>2. /\ objects' \in Seq(Broadcasters) /\ Len(objects') = Len(objects)
          /\ objects'[o].subs = objects[o].subs \cup {ch}
          /\ \A i \in 1..Len(objects) \ {o} : objects'[i] = objects[i]
      <4>1. objects \in Seq(Broadcasters) /\ objects' = [objects EXCEPT ![o].subs = @ \cup {ch}]
        BY <2>16 DEF CopySubscription, SetupTypeOK, Broadcasters
      <4>2. {ch} \in SUBSET Channels
        OBVIOUS
      <4> QED
        BY <3>1, <4>1, <4>2, SubsGrow
    <3>3. /\ doing' \in [SetupThreads -> Doings] /\ \A u \in SetupThreads \ {Main} : doing'[u] = doing[u]
          /\ doing'[Main].step = "copying" /\ doing'[Main].object = o
          /\ doing'[Main].from = doing[Main].from /\ doing'[Main].left = doing[Main].left \ {ch}
      <4> DEFINE old == doing[Main]
                 d == [old EXCEPT !.left = @ \ {ch}]
      <4>1. old \in Doings
        BY DEF SetupTypeOK
      <4>2. /\ d \in Doings /\ d.step = old.step /\ d.object = old.object
            /\ d.from = old.from /\ d.left = old.left \ {ch}
        <5> HIDE DEF old
        <5> QED
          BY <4>1 DEF Doings
      <4>3. Does(Main, d)
        BY <2>16 DEF CopySubscription
      <4> HIDE DEF d
      <4> QED
        BY <3>1, <4>2, <4>3, Goes
    <3>4. SetupTypeOK'
      BY <2>16, <3>2, <3>3 DEF CopySubscription, SetupTypeOK, Broadcasters
    <3>5. StepInv'
      BY <2>16, <3>1, <3>2, <3>3 DEF CopySubscription, StepInv, Exchanges, Openings
    <3>6. \A i \in 1..Len(objects) : objects[i].subs \subseteq objects'[i].subs
      BY <3>2
    <3>7. ASSUME NEW c, Made(c) PROVE Made(c)'
      <4>1. broadcaster \in 1..Len(objects) /\ broadcaster' = broadcaster
        BY <2>16, <3>7 DEF CopySubscription, Made, SetupTypeOK
      <4>2. \A t \in SetupThreads : doing'[t].step \notin Openings
        BY <3>3, <3>7 DEF Made, Openings
      <4>3. \/ c \in objects'[broadcaster].subs
            \/ o = broadcaster /\ c \in doing'[Main].left
        <5>1. CASE c \in objects[broadcaster].subs
          BY <3>6, <4>1, <5>1
        <5>2. CASE o = broadcaster /\ c \in doing[Main].left
          BY <3>1, <3>2, <3>3, <5>2
        <5> QED
          BY <3>1, <3>7, <5>1, <5>2 DEF Made
      <4> QED
        BY <3>3, <4>1, <4>2, <4>3 DEF Made
    <3>8. ASSUME NEW c, BeingMade(c) PROVE BeingMade(c)'
      <4>1. \A t \in SetupThreads : doing[t].step \in Calls => t # Main
        BY <3>1 DEF Calls
      <4> QED
        BY <2>16, <3>3, <3>1, <3>8, <4>1 DEF CopySubscription, BeingMade, Exchanges
    <3>9. SubsInv'
      BY <2>16, <3>1, <3>7, <3>8 DEF CopySubscription, SubsInv
    <3> QED
      BY <3>4, <3>5, <3>9
  <2>17. CASE CleanUp
    <3>1. \A t \in SetupThreads : doing'[t] = AtRest
      BY <2>17 DEF CleanUp
    <3>2. SetupTypeOK'
      <4>1. doing' \in [SetupThreads -> Doings]
        BY <2>17, RestIsDoing DEF CleanUp
      <4>2. Len(objects) \in Nat
        BY DEF SetupTypeOK
      <4>3. broadcaster' \in 0..Len(objects')
        BY <2>17, <4>2 DEF CleanUp
      <4> QED
        BY <2>17, <4>1, <4>3 DEF CleanUp, SetupTypeOK
    <3>3. StepInv'
      BY <3>1 DEF StepInv, AtRest, Exchanges, Openings
    <3>4. SubsInv'
      BY <2>17 DEF CleanUp, SubsInv
    <3> QED
      BY <3>2, <3>3, <3>4
  <2> QED
    BY <2>1, <2>2, <2>3, <2>4, <2>5, <2>6, <2>7, <2>8, <2>9, <2>10, <2>11, <2>12, <2>13, <2>14,
       <2>15, <2>16, <2>17 DEF SetupNext
<1> QED
  BY <1>1, SetupInitially, PTL DEF SetupSpec

\* A callback subscribed before, between or after the calls of includeme ends up in the broadcaster
\* in use, if no exchange of another thread overlapped its subscription.
THEOREM NoSubscriptionIsLost == SetupSpec => []SubscriptionsKept
<1>1. SetupInv => SubscriptionsKept
  BY DEF SetupInv, SubsInv, Made, BeingMade, SubscriptionsKept
<1> QED
  BY <1>1, SetupAlways, PTL

LEMMA SetupTypesAlways == SetupSpec => []SetupTypeOK
<1>1. SetupInv => SetupTypeOK
  BY DEF SetupInv
<1> QED
  BY <1>1, SetupAlways, PTL
------------------------------------------------------------------------------
(* The components together, as MCOperations has them.                        *)

\* A component that is not explored stays as it is, so that each of them does what its own
\* specification allows.
LEMMA ComponentsBehave ==
  MCSpec => LogSpec /\ HealthSpec /\ ProfilerSpec /\ SetupSpec
<1>1. MCInit => LogInit /\ HealthInit /\ ProfilerInit /\ SetupInit
  BY DEF MCInit
<1>2. [MCNext]_mcVars => /\ [LogNext]_logVars /\ [HealthNext]_healthVars
                         /\ [ProfilerNext]_profilerVars /\ [SetupNext]_setupVars
  BY DEF MCNext, mcVars
<1> QED
  BY <1>1, <1>2, PTL DEF MCSpec, LogSpec, HealthSpec, ProfilerSpec, SetupSpec

\* The variables of each component always have values of their types: no gauge, level, repository
\* or subscription ever refers to a check, a refused change, a call or a broadcaster that is none.
THEOREM OperationsTypes == MCSpec => []OperationsTypeOK
<1> DEFINE Part == part \in {"levels", "health", "profiler", "setup"}
<1>1. MCInit => Part
  BY DEF MCInit
<1>2. Part /\ [MCNext]_mcVars => Part'
  BY DEF MCNext, mcVars
<1>3. Part /\ LogTypes /\ HealthTypes /\ ProfilerTypes /\ SetupTypeOK => OperationsTypeOK
  BY DEF LogTypes, HealthTypes, ProfilerTypes, OperationsTypeOK
<1>4. MCSpec => []Part
  BY <1>1, <1>2, PTL DEF MCSpec
<1> QED
  BY <1>3, <1>4, ComponentsBehave, LogTypesAlways, HealthTypesAlways, ProfilerTypesAlways,
     SetupTypesAlways, PTL
==============================================================================
