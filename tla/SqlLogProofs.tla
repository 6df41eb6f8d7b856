----------------------------- MODULE SqlLogProofs -----------------------------
(* Proofs about SqlLogHandler: no line is lost, the order of the rows and the   *)
(* damage of a dropped chunk.                                                   *)
EXTENDS SqlLogHandler, SequenceTheorems, TLAPS

------------------------------------------------------------------------------
(* Sequences.                                                              *)

\* The elements of a concatenation.
LEMMA Concat ==
  ASSUME NEW S, NEW s \in Seq(S), NEW t \in Seq(S)
  PROVE  /\ s \o t \in Seq(S) /\ Len(s \o t) = Len(s) + Len(t)
         /\ DOMAIN s = 1 .. Len(s) /\ DOMAIN t = 1 .. Len(t)
         /\ DOMAIN (s \o t) = 1 .. Len(s) + Len(t)
         /\ \A i \in 1 .. Len(s) : (s \o t)[i] = s[i]
         /\ \A i \in 1 .. Len(t) : (s \o t)[Len(s) + i] = t[i]
         /\ Range(s \o t) = Range(s) \cup Range(t)
<1>1. /\ s \o t \in Seq(S) /\ Len(s \o t) = Len(s) + Len(t)
      /\ DOMAIN s = 1 .. Len(s) /\ DOMAIN t = 1 .. Len(t)
      /\ DOMAIN (s \o t) = 1 .. Len(s) + Len(t)
      /\ \A i \in 1 .. Len(s) : (s \o t)[i] = s[i]
      /\ \A i \in 1 .. Len(t) : (s \o t)[Len(s) + i] = t[i]
  OBVIOUS
<1>2. Range(s \o t) = Range(s) \cup Range(t)
  BY RangeConcatenation
<1> QED
  BY <1>1, <1>2

------------------------------------------------------------------------------
(* Types, and the lines on their way.                                      *)

\* A chunk that may get another line is not full.
ChunkInv ==
  writer \in {"unstarted", "looping", "waiting", "woken"} => Len(chunk) < MaxNbLogs

\* What is left when the writer is done with a chunk.
LEMMA SettleFacts ==
  ASSUME TypeOK, Settle
  PROVE  /\ writer' = "looping" /\ chunk' = <<>> /\ late' = FALSE
         /\ settled' = settled \o chunk /\ settled' \in Seq(Lines)
         /\ UNCHANGED <<queue, emitted, rejected>>
BY Concat DEF TypeOK, Settle, logged

\* What the writes do to the table.
LEMMA InsertFacts ==
  ASSUME TypeOK, UNCHANGED table \/ Insert
  PROVE  table' \in Seq(Lines)
<1>1. table \in Seq(Lines) /\ chunk \in Seq(Lines)
  BY DEF TypeOK
<1>2. table \o chunk \in Seq(Lines)
  BY <1>1, Concat
<1> QED
  BY <1>1, <1>2 DEF Insert

\* What a failure of the database does to the count.
LEMMA FailFacts ==
  ASSUME TypeOK, UNCHANGED faults \/ Fail
  PROVE  faults' \in 0 .. MaxFaults
BY FaultBound DEF TypeOK, Fail

\* Every step keeps the types.
LEMMA TypeStep ==
  ASSUME TypeOK, ChunkInv, [Next]_vars
  PROVE  TypeOK' /\ ChunkInv'
<1>1. CASE UNCHANGED vars
  BY <1>1 DEF vars, TypeOK, ChunkInv, pipe, database, logged
<1>2. CASE Start \/ Stop \/ BeginWait \/ WaitTimesOut \/ WriteEscapes
  BY <1>2 DEF Start, Stop, BeginWait, WaitTimesOut, WriteEscapes, TypeOK, ChunkInv,
              WriterStates, pipe, database, logged
<1>3. ASSUME NEW l \in Lines, EmitUnstarted(l) \/ Emit(l) PROVE TypeOK' /\ ChunkInv'
  <2>1. CASE EmitUnstarted(l)
    BY <2>1 DEF EmitUnstarted, TypeOK, ChunkInv, pipe, database
  <2>2. CASE Emit(l)
    <3>1. /\ writer' = IF writer = "waiting" THEN "woken" ELSE writer
          /\ queue' = Append(queue, l) /\ emitted' = Append(emitted, l)
          /\ UNCHANGED <<chunk, late, settled, database, rejected>>
      BY <2>2 DEF Emit
    <3>2. queue' \in Seq(Lines) /\ emitted' \in Seq(Lines)
      BY <3>1 DEF TypeOK
    <3>3. writer' \in WriterStates
      BY <3>1 DEF TypeOK, WriterStates
    <3>4. ChunkInv'
      BY <3>1 DEF ChunkInv
    <3> QED
      BY <3>1, <3>2, <3>3, <3>4 DEF TypeOK, database
  <2> QED
    BY <1>3, <2>1, <2>2
<1>4. CASE TakeLine
  <2>1. /\ writer = "woken"
        /\ writer' \in {"looping", "writing"}
        /\ Len(chunk') >= MaxNbLogs => writer' = "writing"
        /\ UNCHANGED <<late, settled, database, logged>>
    BY <1>4 DEF TakeLine
  <2>2. chunk' \in Seq(Lines) /\ queue' \in Seq(Lines) /\ Len(chunk') <= Len(chunk) + 1
    <3>1. /\ chunk \in Seq(Lines) /\ queue \in Seq(Lines)
          /\ queue # <<>> => Head(queue) \in Lines /\ Tail(queue) \in Seq(Lines)
      BY HeadTailProperties DEF TypeOK
    <3>2. CASE queue = <<>>
      BY <1>4, <3>1, <3>2 DEF TakeLine
    <3>3. CASE queue # <<>>
      <4>1. chunk' = Append(chunk, Head(queue)) /\ queue' = Tail(queue)
        BY <1>4, <3>3 DEF TakeLine
      <4> QED
        BY <3>1, <3>3, <4>1
    <3> QED
      BY <3>2, <3>3
  <2>3. Len(chunk') <= MaxNbLogs
    BY <2>1, <2>2, ChunkAssumption DEF ChunkInv, TypeOK
  <2> QED
    BY <2>1, <2>2, <2>3, ChunkAssumption DEF TypeOK, ChunkInv, WriterStates, database, logged
<1>5. CASE Write \/ Recover \/ RecoverFails
  <2>1. Settle /\ (UNCHANGED table \/ Insert) /\ (UNCHANGED faults \/ Fail)
        /\ failed' \in BOOLEAN
    BY <1>5 DEF Write, Recover, RecoverFails, TypeOK
  <2>2. table' \in Seq(Lines) /\ faults' \in 0 .. MaxFaults
    BY <2>1, InsertFacts, FailFacts
  <2> QED
    <3>1. Len(chunk') = 0 /\ chunk' \in Seq(Lines) /\ 0 < MaxNbLogs /\ 0 <= MaxNbLogs
      BY <2>1, SettleFacts, ChunkAssumption, EmptySeq
    <3> QED
      BY <2>1, <2>2, <3>1, SettleFacts DEF TypeOK, ChunkInv, WriterStates
<1>6. CASE WriteFails
  <2>1. /\ UNCHANGED table \/ Insert
        /\ UNCHANGED faults \/ Fail
        /\ failed' = TRUE /\ writer' = "recovering"
        /\ UNCHANGED <<pipe, logged>>
    BY <1>6 DEF WriteFails
  <2>2. table' \in Seq(Lines) /\ faults' \in 0 .. MaxFaults
    BY <2>1, InsertFacts, FailFacts
  <2> QED
    BY <2>1, <2>2 DEF TypeOK, ChunkInv, WriterStates, pipe, logged
<1> QED
  BY <1>1, <1>2, <1>3, <1>4, <1>5, <1>6 DEF Next, WriterStep

\* Well typed in every reachable state, the bound of the chunk included (_processor).
THEOREM TypeCorrect == Spec => []TypeOK
<1>1. Init => TypeOK /\ ChunkInv
  <2> SUFFICES ASSUME Init PROVE TypeOK /\ ChunkInv
    OBVIOUS
  <2>1. /\ Len(<<>>) = 0 /\ <<>> \in Seq(Lines) /\ 0 \in 0 .. MaxFaults
        /\ 0 < MaxNbLogs /\ 0 <= MaxNbLogs
    BY ChunkAssumption, FaultBound, EmptySeq
  <2> QED
    BY <2>1 DEF Init, TypeOK, ChunkInv, WriterStates
<1>2. (TypeOK /\ ChunkInv) /\ [Next]_vars => (TypeOK /\ ChunkInv)'
  BY TypeStep
<1> QED
  BY <1>1, <1>2, PTL DEF Spec

\* Every step keeps NothingLost.
LEMMA PipeStep ==
  ASSUME TypeOK, NothingLost, [Next]_vars
  PROVE  NothingLost'
<1>1. /\ settled \in Seq(Lines) /\ chunk \in Seq(Lines) /\ queue \in Seq(Lines)
  BY DEF TypeOK
<1>2. ASSUME UNCHANGED <<emitted, settled, chunk, queue>> PROVE NothingLost'
  BY <1>2 DEF NothingLost
<1>3. CASE UNCHANGED vars
  BY <1>2, <1>3 DEF vars, pipe, logged
<1>4. CASE Start \/ Stop \/ BeginWait \/ WaitTimesOut \/ WriteEscapes \/ WriteFails
  BY <1>2, <1>4 DEF Start, Stop, BeginWait, WaitTimesOut, WriteEscapes, WriteFails, pipe,
                    logged
<1>5. ASSUME NEW l \in Lines, EmitUnstarted(l) PROVE NothingLost'
  BY <1>2, <1>5 DEF EmitUnstarted, pipe
<1>6. ASSUME NEW l \in Lines, Emit(l) PROVE NothingLost'
  <2>1. /\ emitted' = Append(emitted, l) /\ queue' = Append(queue, l)
        /\ UNCHANGED <<chunk, settled>>
    BY <1>6 DEF Emit
  <2>2. settled \o chunk \in Seq(Lines)
    BY <1>1
  <2>3. (settled \o chunk) \o queue \in Seq(Lines) /\ <<l>> \in Seq(Lines)
    BY <1>1, <2>2, ConcatProperties
  <2>4. /\ Append((settled \o chunk) \o queue, l) = ((settled \o chunk) \o queue) \o <<l>>
        /\ Append(queue, l) = queue \o <<l>>
    BY <1>1, <2>3, AppendIsConcat
  <2>5. ((settled \o chunk) \o queue) \o <<l>> = (settled \o chunk) \o (queue \o <<l>>)
    BY <1>1, <2>2, <2>3, ConcatAssociative
  <2> QED
    BY <2>1, <2>4, <2>5 DEF NothingLost
<1>7. CASE TakeLine
  <2>1. CASE queue = <<>>
    BY <1>2, <1>7, <2>1 DEF TakeLine, logged
  <2>2. CASE queue # <<>>
    <3>1. /\ chunk' = Append(chunk, Head(queue)) /\ queue' = Tail(queue)
          /\ UNCHANGED <<settled, emitted>>
      BY <1>7, <2>2 DEF TakeLine, logged
    <3>2. Head(queue) \in Lines /\ Tail(queue) \in Seq(Lines)
          /\ queue = <<Head(queue)>> \o Tail(queue)
      BY <1>1, <2>2
    <3> DEFINE l == Head(queue)
               rest == Tail(queue)
    <3>3. <<l>> \in Seq(Lines) /\ settled \o chunk \in Seq(Lines)
      BY <1>1, <3>2
    <3>4. Append(chunk, l) = chunk \o <<l>>
      BY <1>1, <3>2, AppendIsConcat
    <3> HIDE DEF l, rest
    <3>5. (settled \o chunk) \o (<<l>> \o rest) = ((settled \o chunk) \o <<l>>) \o rest
      BY <1>1, <3>2, <3>3, ConcatAssociative DEF l, rest
    <3>6. (settled \o chunk) \o <<l>> = settled \o (chunk \o <<l>>)
      BY <1>1, <3>3, ConcatAssociative
    <3> QED
      BY <3>1, <3>2, <3>4, <3>5, <3>6 DEF NothingLost, l, rest
  <2> QED
    BY <2>1, <2>2
<1>8. CASE Write \/ Recover \/ RecoverFails
  <2>1. /\ settled' = settled \o chunk /\ chunk' = <<>>
        /\ UNCHANGED <<queue, emitted>>
    BY <1>8, SettleFacts DEF Write, Recover, RecoverFails
  <2>2. (settled \o chunk) \o <<>> = settled \o chunk
    BY <1>1
  <2> QED
    BY <2>1, <2>2 DEF NothingLost
<1> QED
  BY <1>3, <1>4, <1>5, <1>6, <1>7, <1>8 DEF Next, WriterStep

\* No line is lost, taken twice or overtaken on its way to the database: the queue
\* and the chunk hold what was emitted and not settled yet (emit, _processor).
THEOREM PipeCorrect == Spec => []NothingLost
<1>1. Init => NothingLost
  BY DEF Init, NothingLost
<1>2. TypeOK /\ NothingLost /\ [Next]_vars => NothingLost'
  BY PipeStep
<1> QED
  BY <1>1, <1>2, TypeCorrect, PTL DEF Spec

------------------------------------------------------------------------------
(* The damage of a dropped chunk.                                          *)

\* Every step keeps DropIsLocal.
LEMMA DropStep ==
  ASSUME TypeOK, DropIsLocal, [Next]_vars
  PROVE  DropIsLocal'
<1>1. table \in Seq(Lines) /\ chunk \in Seq(Lines) /\ settled \in Seq(Lines)
      /\ faults \in Nat
  BY DEF TypeOK
<1>2. ASSUME faults' = 0, faults = 0, UNCHANGED settled, Range(table) \subseteq Range(table')
      PROVE  DropIsLocal'
  BY <1>2 DEF DropIsLocal
<1>3. ASSUME UNCHANGED <<settled, table, faults>> PROVE DropIsLocal'
  BY <1>3 DEF DropIsLocal
<1>4. CASE UNCHANGED vars
  BY <1>3, <1>4 DEF vars, pipe, database
<1>5. CASE Start \/ Stop \/ BeginWait \/ WaitTimesOut \/ TakeLine \/ WriteEscapes
  BY <1>3, <1>5 DEF Start, Stop, BeginWait, WaitTimesOut, TakeLine, WriteEscapes, pipe,
                    database
<1>6. ASSUME NEW l \in Lines, EmitUnstarted(l) \/ Emit(l) PROVE DropIsLocal'
  BY <1>3, <1>6 DEF EmitUnstarted, Emit, pipe, database
<1>7. Insert => Range(table') = Range(table) \cup Range(chunk)
  BY <1>1, Concat DEF Insert
<1>8. faults' = 0 => UNCHANGED faults \/ ~Fail
  BY <1>1 DEF Fail
<1>9. CASE WriteFails
  <2>1. CASE faults' # 0
    BY <2>1 DEF DropIsLocal
  <2>2. CASE faults' = 0
    BY <1>1, <1>3, <1>9, <2>2 DEF WriteFails, Fail, pipe
  <2> QED
    BY <2>1, <2>2
<1>10. CASE Write \/ Recover \/ RecoverFails
  <2>1. settled' = settled \o chunk
    BY <1>10, SettleFacts DEF Write, Recover, RecoverFails
  <2> SUFFICES ASSUME faults' = 0, NEW i \in DOMAIN settled',
                      settled'[i] \notin Range(table')
               PROVE  \E j \in DOMAIN settled' :
                        /\ settled'[j] \in Refused \cup Fatal
                        /\ i < j + MaxNbLogs /\ j < i + MaxNbLogs
    BY DEF DropIsLocal
  <2>2. /\ faults = 0
        /\ Insert \/ (UNCHANGED table /\ ~Insertable)
    BY <1>1, <1>10 DEF Write, Recover, RecoverFails, Fail
  <2>3. Range(table) \subseteq Range(table')
    BY <1>7, <2>2
  <2>4. /\ DOMAIN settled = 1 .. Len(settled) /\ DOMAIN chunk = 1 .. Len(chunk)
        /\ DOMAIN settled' = 1 .. Len(settled) + Len(chunk)
        /\ \A k \in 1 .. Len(settled) : settled'[k] = settled[k]
        /\ \A k \in 1 .. Len(chunk) : settled'[Len(settled) + k] = chunk[k]
    BY <1>1, <2>1, Concat
  <2>5. CASE i \in 1 .. Len(settled)
    <3>1. PICK j \in DOMAIN settled :
            /\ settled[j] \in Refused \cup Fatal
            /\ i < j + MaxNbLogs /\ j < i + MaxNbLogs
      BY <2>2, <2>3, <2>4, <2>5 DEF DropIsLocal
    <3>2. j \in DOMAIN settled' /\ settled'[j] = settled[j]
      BY <1>1, <2>4
    <3> QED
      BY <3>1, <3>2
  <2>6. CASE i \notin 1 .. Len(settled)
    <3> DEFINE k == i - Len(settled)
    <3>1. k \in 1 .. Len(chunk) /\ i = Len(settled) + k
      BY <1>1, <2>4, <2>6
    <3>2. settled'[i] = chunk[k]
      BY <2>4, <3>1
    <3>3. chunk[k] \in Range(chunk)
      BY <2>4, <3>1 DEF Range
    <3>4. ~Insertable
      BY <1>7, <2>2, <3>2, <3>3
    <3>5. PICK n \in 1 .. Len(chunk) : chunk[n] \in Refused \cup Fatal
      BY <2>4, <3>4 DEF Insertable, Range
    <3>6. Len(settled) + n \in DOMAIN settled' /\ settled'[Len(settled) + n] = chunk[n]
      BY <1>1, <2>4, <3>5
    <3>7. Len(chunk) <= MaxNbLogs
      BY DEF TypeOK
    <3>8. i < (Len(settled) + n) + MaxNbLogs /\ Len(settled) + n < i + MaxNbLogs
      BY <1>1, <3>1, <3>5, <3>7, ChunkAssumption
    <3> QED
      BY <3>5, <3>6, <3>8
  <2> QED
    BY <2>5, <2>6
<1> QED
  BY <1>4, <1>5, <1>6, <1>9, <1>10 DEF Next, WriterStep

\* While the database works, a line without a row has been in one chunk with a line
\* that cannot be inserted (_write_logs).
THEOREM DropCorrect == Spec => []DropIsLocal
<1>1. Init => DropIsLocal
  BY DEF Init, DropIsLocal
<1>2. TypeOK /\ DropIsLocal /\ [Next]_vars => DropIsLocal'
  BY DropStep
<1> QED
  BY <1>1, <1>2, TypeCorrect, PTL DEF Spec

------------------------------------------------------------------------------
(* The order of the rows.                                                  *)

\* A line is emitted once.
EmittedOnce == \A i, j \in DOMAIN emitted : emitted[i] = emitted[j] => i = j

\* A row is of a settled line or, when a commit may have been done whose reply was
\* lost, of a line of the chunk that is about to be written again.
RowsInv ==
  \A i \in DOMAIN table : \E k \in DOMAIN emitted :
    /\ table[i] = emitted[k]
    /\ k <= Len(settled) + Len(chunk)
    /\ k > Len(settled) => faults > 0 /\ writer \in {"recovering", "gone"}

OrderInv == EmittedOnce /\ RowsInv /\ RowsInOrder

\* Where the lines of the chunk are among the emitted ones.
LEMMA ChunkPosition ==
  ASSUME TypeOK, NothingLost, NEW i \in DOMAIN chunk
  PROVE  /\ i \in 1 .. Len(chunk) /\ Len(settled) + i \in DOMAIN emitted
         /\ emitted[Len(settled) + i] = chunk[i]
<1>1. settled \in Seq(Lines) /\ chunk \in Seq(Lines) /\ queue \in Seq(Lines)
  BY DEF TypeOK
<1>2. /\ settled \o chunk \in Seq(Lines) /\ i \in 1 .. Len(chunk)
      /\ Len(settled \o chunk) = Len(settled) + Len(chunk)
      /\ (settled \o chunk)[Len(settled) + i] = chunk[i]
  BY <1>1, Concat
<1>3. Len(settled) + i \in 1 .. Len(settled \o chunk)
  BY <1>1, <1>2
<1>4. /\ DOMAIN emitted = 1 .. Len(settled \o chunk) + Len(queue)
      /\ \A k \in 1 .. Len(settled \o chunk) : emitted[k] = (settled \o chunk)[k]
  BY <1>1, <1>2, Concat DEF NothingLost
<1>5. 1 .. Len(settled \o chunk) \subseteq 1 .. Len(settled \o chunk) + Len(queue)
  BY <1>1, <1>2
<1> QED
  BY <1>2, <1>3, <1>4, <1>5

\* A step that leaves the table and what was emitted alone.
LEMMA KeepOrder ==
  ASSUME TypeOK, OrderInv, UNCHANGED <<table, emitted>>, faults' >= faults,
         faults \in Nat, faults' \in Nat,
         Len(settled') >= Len(settled),
         Len(settled') + Len(chunk') >= Len(settled) + Len(chunk),
         Len(settled') \in Nat, Len(chunk') \in Nat,
         writer \in {"recovering", "gone"} =>
            writer' \in {"recovering", "gone"} \/ Len(settled') >= Len(settled) + Len(chunk)
  PROVE  OrderInv'
<1>1. Len(settled) \in Nat /\ Len(chunk) \in Nat
  BY DEF TypeOK
<1>2. EmittedOnce'
  BY DEF OrderInv, EmittedOnce
<1>3. RowsInOrder'
  BY DEF OrderInv, RowsInOrder
<1>4. RowsInv'
  <2> SUFFICES ASSUME NEW i \in DOMAIN table
               PROVE  \E k \in DOMAIN emitted :
                        /\ table[i] = emitted[k]
                        /\ k <= Len(settled') + Len(chunk')
                        /\ k > Len(settled') => faults' > 0 /\ writer' \in {"recovering", "gone"}
    BY DEF RowsInv
  <2>1. PICK k \in DOMAIN emitted :
          /\ table[i] = emitted[k]
          /\ k <= Len(settled) + Len(chunk)
          /\ k > Len(settled) => faults > 0 /\ writer \in {"recovering", "gone"}
    BY DEF OrderInv, RowsInv
  <2>2. k \in Nat
    BY DEF TypeOK
  <2>3. k <= Len(settled') + Len(chunk')
    BY <1>1, <2>1, <2>2
  <2>4. k > Len(settled') => faults' > 0 /\ writer' \in {"recovering", "gone"}
    BY <1>1, <2>1, <2>2
  <2> QED
    BY <2>1, <2>3, <2>4
<1> QED
  BY <1>2, <1>3, <1>4 DEF OrderInv

\* The rows of a chunk that is inserted come after the others, or repeat it.
LEMMA InsertOrder ==
  ASSUME TypeOK, NothingLost, OrderInv, Insert, UNCHANGED emitted,
         faults \in Nat, faults' \in Nat, faults' >= faults
  PROVE  RowsInOrder'
<1>1. /\ table \in Seq(Lines) /\ chunk \in Seq(Lines) /\ emitted \in Seq(Lines)
      /\ Len(settled) \in Nat /\ Len(chunk) \in Nat /\ Len(chunk) <= MaxNbLogs
      /\ Len(table) \in Nat /\ DOMAIN table = 1 .. Len(table)
      /\ DOMAIN chunk = 1 .. Len(chunk) /\ DOMAIN emitted \subseteq Nat
  BY DEF TypeOK
<1>2. /\ DOMAIN table' = 1 .. Len(table) + Len(chunk)
      /\ \A i \in 1 .. Len(table) : table'[i] = table[i]
      /\ \A i \in 1 .. Len(chunk) : table'[Len(table) + i] = chunk[i]
  BY <1>1, Concat DEF Insert
<1> SUFFICES ASSUME NEW i \in DOMAIN table', NEW j \in DOMAIN table',
                    NEW k \in DOMAIN emitted, NEW m \in DOMAIN emitted,
                    i < j, table'[i] = emitted[k], table'[j] = emitted[m]
             PROVE  k < m \/ (faults' > 0 /\ k < m + MaxNbLogs)
  BY DEF RowsInOrder
\* The position of a row of the chunk.
<1>3. ASSUME NEW r \in DOMAIN table', r \notin 1 .. Len(table),
             NEW n \in DOMAIN emitted, table'[r] = emitted[n]
      PROVE  n = Len(settled) + (r - Len(table)) /\ r - Len(table) \in 1 .. Len(chunk)
  <2> DEFINE c == r - Len(table)
  <2>1. c \in 1 .. Len(chunk) /\ r = Len(table) + c
    BY <1>1, <1>2, <1>3
  <2>2. table'[r] = chunk[c]
    BY <1>2, <2>1
  <2>3. Len(settled) + c \in DOMAIN emitted /\ emitted[Len(settled) + c] = chunk[c]
    BY <1>1, <2>1, ChunkPosition
  <2> QED
    BY <1>3, <2>1, <2>2, <2>3 DEF OrderInv, EmittedOnce
<1>4. CASE j \in 1 .. Len(table)
  <2>1. i \in 1 .. Len(table)
    BY <1>1, <1>2, <1>4
  <2>2. table[i] = emitted[k] /\ table[j] = emitted[m]
    BY <1>2, <1>4, <2>1
  <2>3. k < m \/ (faults > 0 /\ k < m + MaxNbLogs)
    BY <1>1, <1>4, <2>1, <2>2 DEF OrderInv, RowsInOrder
  <2> QED
    BY <2>3
<1>5. CASE j \notin 1 .. Len(table) /\ i \in 1 .. Len(table)
  <2>1. m = Len(settled) + (j - Len(table)) /\ j - Len(table) \in 1 .. Len(chunk)
    BY <1>3, <1>5
  <2>2. table[i] = emitted[k]
    BY <1>2, <1>5
  <2>3. PICK n \in DOMAIN emitted :
          /\ table[i] = emitted[n] /\ n <= Len(settled) + Len(chunk)
          /\ n > Len(settled) => faults > 0
    BY <1>1, <1>5 DEF OrderInv, RowsInv
  <2>4. k = n
    BY <2>2, <2>3 DEF OrderInv, EmittedOnce
  <2>5. k \in Nat /\ m \in Nat /\ j \in Nat /\ MaxNbLogs \in Nat
    BY <1>1, <1>2, ChunkAssumption
  <2>6. CASE k <= Len(settled)
    BY <1>1, <2>1, <2>5, <2>6
  <2>7. CASE k > Len(settled)
    BY <1>1, <2>1, <2>3, <2>4, <2>5, <2>7
  <2> QED
    BY <1>1, <2>5, <2>6, <2>7
<1>6. CASE j \notin 1 .. Len(table) /\ i \notin 1 .. Len(table)
  <2>1. /\ m = Len(settled) + (j - Len(table))
        /\ k = Len(settled) + (i - Len(table))
    BY <1>3, <1>6
  <2> QED
    BY <1>1, <1>2, <2>1
<1> QED
  BY <1>4, <1>5, <1>6

\* Every row is of an emitted line at a known place, after an insertion too.
LEMMA InsertRows ==
  ASSUME TypeOK, NothingLost, OrderInv, Insert, UNCHANGED emitted,
         faults \in Nat, faults' \in Nat, faults' >= faults,
         \/ settled' = settled \o chunk /\ chunk' = <<>>
         \/ /\ UNCHANGED <<settled, chunk>>
            /\ faults' > 0 /\ writer' = "recovering"
  PROVE  RowsInv'
<1>1. /\ table \in Seq(Lines) /\ chunk \in Seq(Lines) /\ settled \in Seq(Lines)
      /\ Len(settled) \in Nat /\ Len(chunk) \in Nat /\ Len(table) \in Nat
      /\ DOMAIN table = 1 .. Len(table) /\ DOMAIN chunk = 1 .. Len(chunk)
      /\ emitted \in Seq(Lines) /\ DOMAIN emitted \subseteq Nat
  BY DEF TypeOK
<1>2. /\ DOMAIN table' = 1 .. Len(table) + Len(chunk)
      /\ \A i \in 1 .. Len(table) : table'[i] = table[i]
      /\ \A i \in 1 .. Len(chunk) : table'[Len(table) + i] = chunk[i]
  BY <1>1, Concat DEF Insert
<1>3. /\ Len(settled') + Len(chunk') = Len(settled) + Len(chunk)
      /\ Len(settled') = Len(settled) + Len(chunk) \/ (faults' > 0 /\ writer' = "recovering")
  <2>1. CASE settled' = settled \o chunk /\ chunk' = <<>>
    <3>1. Len(settled') = Len(settled) + Len(chunk) /\ Len(chunk') = 0
      BY <1>1, <2>1, Concat, EmptySeq
    <3> QED
      BY <1>1, <3>1
  <2>2. CASE UNCHANGED <<settled, chunk>> /\ faults' > 0 /\ writer' = "recovering"
    BY <2>2
  <2> QED
    BY <2>1, <2>2
<1> SUFFICES ASSUME NEW r \in DOMAIN table'
             PROVE  \E k \in DOMAIN emitted :
                      table'[r] = emitted[k] /\ k <= Len(settled) + Len(chunk)
  <2>1. \A k \in DOMAIN emitted :
          k <= Len(settled) + Len(chunk) =>
            /\ k <= Len(settled') + Len(chunk')
            /\ k > Len(settled') => faults' > 0 /\ writer' \in {"recovering", "gone"}
    BY <1>1, <1>3
  <2> QED
    BY <2>1 DEF RowsInv
<1>4. CASE r \in 1 .. Len(table)
  BY <1>1, <1>2, <1>4 DEF OrderInv, RowsInv
<1>5. CASE r \notin 1 .. Len(table)
  <2> DEFINE c == r - Len(table)
  <2>1. c \in 1 .. Len(chunk) /\ r = Len(table) + c
    BY <1>1, <1>2, <1>5
  <2>2. /\ Len(settled) + c \in DOMAIN emitted
        /\ emitted[Len(settled) + c] = chunk[c] /\ table'[r] = chunk[c]
    BY <1>1, <1>2, <2>1, ChunkPosition
  <2>3. Len(settled) + c <= Len(settled) + Len(chunk)
    BY <1>1, <2>1
  <2> QED
    BY <2>2, <2>3
<1> QED
  BY <1>4, <1>5

\* An emitted line comes last.
LEMMA EmitOrder ==
  ASSUME TypeOK, OrderInv, NEW l \in Lines, Emit(l)
  PROVE  OrderInv'
<1>1. /\ emitted' = Append(emitted, l) /\ l \notin Range(emitted)
      /\ UNCHANGED <<chunk, settled, table, faults>>
      /\ writer \in {"recovering", "gone"} => writer' = writer
  BY DEF Emit, IsNew, database
<1>2. /\ emitted \in Seq(Lines) /\ DOMAIN emitted = 1 .. Len(emitted)
      /\ Len(emitted) \in Nat
      /\ DOMAIN emitted' = 1 .. Len(emitted) + 1
      /\ \A k \in DOMAIN emitted : emitted'[k] = emitted[k] /\ emitted[k] # l
      /\ emitted'[Len(emitted) + 1] = l
      /\ DOMAIN emitted \subseteq DOMAIN emitted'
  BY <1>1, AppendProperties DEF TypeOK, Range
<1>3. EmittedOnce'
  BY <1>2 DEF OrderInv, EmittedOnce
<1>4. RowsInv'
  BY <1>1, <1>2 DEF OrderInv, RowsInv
<1>5. RowsInOrder'
  <2>1. ASSUME NEW i \in DOMAIN table, NEW k \in DOMAIN emitted', table[i] = emitted'[k]
        PROVE  k \in DOMAIN emitted /\ table[i] = emitted[k]
    <3>1. PICK n \in DOMAIN emitted : table[i] = emitted[n]
      BY DEF OrderInv, RowsInv
    <3>2. table[i] # l
      BY <1>2, <3>1
    <3> QED
      BY <1>2, <2>1, <3>2
  <2> QED
    BY <1>1, <2>1 DEF OrderInv, RowsInOrder
<1> QED
  BY <1>3, <1>4, <1>5 DEF OrderInv

\* Every step keeps the order of the rows.
LEMMA OrderStep ==
  ASSUME TypeOK, TypeOK', NothingLost, OrderInv, [Next]_vars
  PROVE  OrderInv'
<1>1. /\ faults \in Nat /\ faults' \in Nat
      /\ Len(settled) \in Nat /\ Len(chunk) \in Nat
      /\ Len(settled') \in Nat /\ Len(chunk') \in Nat
      /\ settled \in Seq(Lines) /\ chunk \in Seq(Lines)
  BY DEF TypeOK
<1>2. UNCHANGED faults \/ Fail => faults' >= faults /\ (Fail => faults' > 0)
  BY <1>1 DEF Fail
<1>3. ASSUME UNCHANGED <<table, emitted, faults, settled, chunk>>,
             writer = "recovering" => writer' \in {"recovering", "gone"},
             writer = "gone" => writer' = "gone"
      PROVE  OrderInv'
  BY <1>1, <1>3, KeepOrder
<1>4. CASE UNCHANGED vars
  BY <1>3, <1>4 DEF vars, pipe, database, logged
<1>5. CASE Start \/ Stop \/ BeginWait \/ WaitTimesOut \/ WriteEscapes
  BY <1>3, <1>5 DEF Start, Stop, BeginWait, WaitTimesOut, WriteEscapes, pipe, database,
                    logged
<1>6. ASSUME NEW l \in Lines, EmitUnstarted(l) PROVE OrderInv'
  BY <1>3, <1>6 DEF EmitUnstarted, pipe, database
<1>7. ASSUME NEW l \in Lines, Emit(l) PROVE OrderInv'
  BY <1>7, EmitOrder
<1>8. CASE TakeLine
  <2>1. /\ UNCHANGED <<table, emitted, faults, settled>> /\ writer = "woken"
        /\ Len(chunk') >= Len(chunk)
    BY <1>1, <1>8 DEF TakeLine, database, logged
  <2> QED
    BY <1>1, <2>1, KeepOrder
<1>9. CASE WriteFails
  <2>1. /\ writer' = "recovering" /\ writer = "writing"
        /\ UNCHANGED <<settled, chunk, emitted>>
        /\ UNCHANGED faults \/ Fail
        /\ UNCHANGED table \/ (Insert /\ Fail)
    BY <1>9 DEF WriteFails, pipe, logged
  <2>2. CASE UNCHANGED table
    BY <1>1, <1>2, <2>1, <2>2, KeepOrder
  <2>3. CASE Insert /\ Fail
    <3>1. RowsInOrder'
      BY <1>1, <1>2, <2>1, <2>3, InsertOrder
    <3>2. RowsInv'
      BY <1>1, <1>2, <2>1, <2>3, InsertRows
    <3> QED
      BY <2>1, <3>1, <3>2 DEF OrderInv, EmittedOnce
  <2> QED
    BY <2>1, <2>2, <2>3
<1>10. CASE Write \/ Recover \/ RecoverFails
  <2>1. /\ settled' = settled \o chunk /\ chunk' = <<>> /\ UNCHANGED emitted
        /\ UNCHANGED faults \/ Fail
        /\ UNCHANGED table \/ Insert
    BY <1>10, SettleFacts DEF Write, Recover, RecoverFails
  <2>2. Len(settled') = Len(settled) + Len(chunk) /\ Len(chunk') = 0
    BY <1>1, <2>1, Concat, EmptySeq
  <2>3. CASE UNCHANGED table
    BY <1>1, <1>2, <2>1, <2>2, <2>3, KeepOrder
  <2>4. CASE Insert
    <3>1. RowsInOrder'
      BY <1>1, <1>2, <2>1, <2>4, InsertOrder
    <3>2. RowsInv'
      BY <1>1, <1>2, <2>1, <2>4, InsertRows
    <3> QED
      BY <2>1, <3>1, <3>2 DEF OrderInv, EmittedOnce
  <2> QED
    BY <2>1, <2>3, <2>4
<1> QED
  BY <1>4, <1>5, <1>6, <1>7, <1>8, <1>9, <1>10 DEF Next, WriterStep

\* The inductive invariant behind the order of the rows.
THEOREM OrderCorrect == Spec => []OrderInv
<1>1. Init => OrderInv
  BY DEF Init, OrderInv, EmittedOnce, RowsInv, RowsInOrder
<1>2. TypeOK /\ TypeOK' /\ NothingLost /\ OrderInv /\ [Next]_vars => OrderInv'
  BY OrderStep
<1> QED
  BY <1>1, <1>2, TypeCorrect, PipeCorrect, PTL DEF Spec

\* Rows are in the order of the log calls, and only the lines of a chunk whose write
\* met a failure of the database can be there twice (_write_logs).
THEOREM RowsAreOrdered == Spec => []RowsInOrder
<1>1. OrderInv => RowsInOrder
  BY DEF OrderInv
<1> QED
  BY <1>1, OrderCorrect, PTL
=============================================================================
