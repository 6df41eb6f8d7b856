-------------------------------- MODULE Gather --------------------------------
(***************************************************************************)
(* What is put together from many: in a scrape, the metrics of all the     *)
(* processes (prometheus.py); in the debug views, the stacks of their      *)
(* threads, and the biggest objects (debug/_views.py, _listeners.py).      *)
(*                                                                         *)
(* A broadcast gives a list of answers in any order: data, the error that  *)
(* the callback raised, or None for a receiver that was too late.  Then    *)
(* the answers are merged one after the other.  One job is done, chosen at *)
(* the start.                                                              *)
(***************************************************************************)
EXTENDS Naturals, FiniteSets, Sequences, SequencesExt

CONSTANTS
  Receivers,   \* the processes
  PidOf,       \* PidOf[p]: its pid, that processes of two hosts may share
  ThreadNames, \* the threads of each process
  Frames,      \* what a stack may be
  Sizes,       \* the sizes that objects may have
  Limits,      \* the numbers of objects that the dump of the memory may be asked for
  MaxObjs      \* bound: objects of the analyzed type

\* There are finitely many processes; a thread that runs has a stack.
ASSUME GatherAssumption ==
  /\ IsFiniteSet(Receivers) /\ Frames # {}
  /\ Sizes \subseteq Nat /\ Limits \subseteq Nat /\ Limits # {}

VARIABLES
  gathered,  \* scrape, stacks or memory
  stackOf,   \* stackOf[p][t]: the frames of the thread t
  limit,     \* how many objects are asked for
  channel,   \* the channel that is asked: gc, process or stacks
  answers,   \* the answers on this channel, so far
  results,   \* those of the channels before, then of all
  merged,    \* how many of the results are merged
  objs,      \* the sizes of the objects looked at
  biggest,   \* biggest_objects, in increasing order: their places in objs
  outcome,   \* none, merging, crash or done
  output     \* the samples in their order, or for each stack the threads that have it

gatherVars ==
  <<gathered, stackOf, limit, channel, answers, results, merged, objs, biggest, outcome, output>>

Samples == {"gc", "process"} \X {PidOf[p] : p \in Receivers}
AnswerRecords == [is : {"data", "error", "none"}, from : Receivers,
                  data : [ThreadNames -> Frames] \cup {<<>>} \cup Samples]

GatherTypeOK ==
  /\ gathered \in {"scrape", "stacks", "memory"}
  /\ stackOf \in [Receivers -> [ThreadNames -> Frames]]
  /\ limit \in Limits /\ channel \in {"gc", "process", "stacks"}
  /\ answers \in Seq(AnswerRecords) /\ results \in Seq(AnswerRecords) /\ merged \in 0..Len(results)
  /\ objs \in Seq(Sizes) /\ biggest \in Seq(1..Len(objs))
  /\ outcome \in {"none", "merging", "crash", "done"}
  /\ IF gathered = "stacks" THEN output \in [Frames -> SUBSET (Receivers \X ThreadNames)]
     ELSE output \in Seq(Samples)

GatherInit ==
  /\ gathered \in {"scrape", "stacks", "memory"}
  /\ IF gathered = "stacks" THEN stackOf \in [Receivers -> [ThreadNames -> Frames]]
     ELSE stackOf = [p \in Receivers |-> [t \in ThreadNames |-> CHOOSE f \in Frames : TRUE]]
  /\ limit \in (IF gathered = "memory" THEN Limits ELSE {CHOOSE n \in Limits : TRUE})
  /\ channel = (IF gathered = "stacks" THEN "stacks" ELSE "gc")
  /\ answers = <<>> /\ results = <<>> /\ merged = 0 /\ objs = <<>> /\ biggest = <<>>
  /\ outcome = "none"
  /\ output = (IF gathered = "stacks" THEN [f \in Frames |-> {}] ELSE <<>>)

------------------------------------------------------------------------------
(* The answers to a broadcast.                                             *)

\* serialize_collected_data: the samples of a channel all have the pid among their labels, and
\* stand for one here.
SerializeCollected(p) == <<channel, PidOf[p]>>

\* _dump_stacks_impl
DumpStacks(p) == stackOf[p]

Collected(p) == IF channel = "stacks" THEN DumpStacks(p) ELSE SerializeCollected(p)

Asking == outcome = "none" /\ gathered \in {"scrape", "stacks"}
Unanswered == {p \in Receivers : \A i \in 1..Len(answers) : answers[i].from # p}

AnswerGathered(p, fails) ==
  /\ Asking /\ p \in Unanswered
  /\ answers' = Append(answers, IF fails THEN [is |-> "error", from |-> p, data |-> <<>>]
                                ELSE [is |-> "data", from |-> p, data |-> Collected(p)])
  /\ UNCHANGED <<gathered, stackOf, limit, channel, results, merged, objs, biggest, outcome, output>>

\* The timeout of the broadcast: None stands for each missing answer.
Timeout ==
  /\ Asking /\ Unanswered # {}
  /\ \E late \in SetToSeqs(Unanswered) :
       answers' = answers \o [i \in 1..Len(late) |-> [is |-> "none", from |-> late[i], data |-> <<>>]]
  /\ UNCHANGED <<gathered, stackOf, limit, channel, results, merged, objs, biggest, outcome, output>>

\* MultiProcessCustomCollector.collect: one channel after the other; then, as for the only
\* channel of the stacks, the answers are merged.
NextChannel ==
  /\ Asking /\ Unanswered = {}
  /\ results' = results \o answers /\ answers' = <<>>
  /\ IF channel = "gc" THEN channel' = "process" /\ UNCHANGED outcome
     ELSE outcome' = "merging" /\ UNCHANGED channel
  /\ UNCHANGED <<gathered, stackOf, limit, merged, objs, biggest, output>>

------------------------------------------------------------------------------
(* The merging of the answers.                                             *)

\* Faulty variant: what was imported is forgotten from one answer to the next.
DeserializeEach(answer) == IF answer.is = "none" THEN output ELSE Append(output, answer.data)

\* _deserialize_collected_data: the first sample of each name and labels is kept.
Deserialize(answer) ==
  IF answer.is = "none" \/ answer.data \in ToSet(output) THEN output ELSE Append(output, answer.data)

\* _beautify_stacks: the threads of a process are put with the others that have the same stack.
BeautifyStacks(answer) ==
  [f \in Frames |-> output[f] \cup {<<answer.from, t>> : t \in {u \in ThreadNames : answer.data[u] = f}}]

\* The errors of callbacks are not data: neither function expects them, and the stacks
\* cannot do without an answer either.
Crashes(answer) == answer.is = "error" \/ (gathered = "stacks" /\ answer.is = "none")

Merged(answer) == IF gathered = "scrape" THEN Deserialize(answer) ELSE BeautifyStacks(answer)

\* Faulty variant: the stacks of the processes that answered in time are shown.
MergePresent ==
  LET answer == results[merged + 1] IN
  /\ outcome = "merging" /\ merged < Len(results)
  /\ IF answer.is = "error" THEN outcome' = "crash" /\ UNCHANGED <<merged, output>>
     ELSE /\ merged' = merged + 1 /\ UNCHANGED outcome
          /\ output' = IF answer.is = "none" THEN output ELSE Merged(answer)
  /\ UNCHANGED <<gathered, stackOf, limit, channel, answers, results, objs, biggest>>

MergeAnswer ==
  LET answer == results[merged + 1] IN
  /\ outcome = "merging" /\ merged < Len(results)
  /\ IF Crashes(answer) THEN outcome' = "crash" /\ UNCHANGED <<merged, output>>
     ELSE merged' = merged + 1 /\ output' = Merged(answer) /\ UNCHANGED outcome
  /\ UNCHANGED <<gathered, stackOf, limit, channel, answers, results, objs, biggest>>

AllMerged ==
  /\ outcome = "merging" /\ merged = Len(results)
  /\ outcome' = "done"
  /\ UNCHANGED <<gathered, stackOf, limit, channel, answers, results, merged, objs, biggest, output>>

------------------------------------------------------------------------------
(* The memory.                                                             *)

\* biggest_objects.sort of a sorted list to which an object was appended: it goes behind all those
\* that are not bigger, to the place pos.
PlaceOf(pos, size) ==
  \A i \in 1..Len(biggest) : i < pos <=> objs[biggest[i]] <= size

Inserted(pos) ==
  [i \in 1..(Len(biggest) + 1) |->
     IF i < pos THEN biggest[i] ELSE IF i = pos THEN Len(objs) + 1 ELSE biggest[i - 1]]

\* biggest_objects[-limit:], when there are more.
LastOnes(kept) == IF Len(kept) > limit THEN SubSeq(kept, Len(kept) - limit + 1, Len(kept)) ELSE kept

\* Faulty variant: a new object is compared with the biggest one.
KeptIfBiggest(size) == Len(biggest) < limit \/ size > objs[biggest[Len(biggest)]]

\* _dump_memory_impl: an object is kept when there is room, or when it is bigger than the
\* smallest one that is kept.
Kept(size) == Len(biggest) < limit \/ size > objs[biggest[1]]

\* The next object of the type; without a limit to compare with, biggest_objects[0] is an error.
MeasureObject(size) ==
  /\ gathered = "memory" /\ outcome = "none" /\ Len(objs) < MaxObjs
  /\ objs' = Append(objs, size)
  /\ IF limit = 0 THEN outcome' = "crash" /\ UNCHANGED biggest
     ELSE /\ IF Kept(size)
             THEN \E pos \in 1..(Len(biggest) + 1) : PlaceOf(pos, size) /\ biggest' = LastOnes(Inserted(pos))
             ELSE UNCHANGED biggest
          /\ UNCHANGED outcome
  /\ UNCHANGED <<gathered, stackOf, limit, channel, answers, results, merged, output>>

GatherNext ==
  \/ \E p \in Receivers : \E fails \in BOOLEAN : AnswerGathered(p, fails)
  \/ Timeout \/ NextChannel \/ MergeAnswer \/ AllMerged
  \/ \E size \in Sizes : MeasureObject(size)

GatherSpec == GatherInit /\ [][GatherNext]_gatherVars

------------------------------------------------------------------------------
\* In whatever order and with whatever delay the processes answer, a scrape that succeeds has
\* one sample for each pid and each channel of which data came, and no name and labels
\* twice, which Prometheus would refuse altogether.  (Two processes with the same pid, on
\* two hosts, are one of them: their samples are not told apart.)
ScrapeIsASet ==
  gathered = "scrape" /\ outcome = "done" =>
    /\ \A i, j \in 1..Len(output) : output[i] = output[j] => i = j
    /\ ToSet(output) = {a.data : a \in {b \in ToSet(results) : b.is = "data"}}

\* A list of stacks that is shown has every thread of every receiver exactly once, under the
\* stack that it has: a process that hangs, whose stacks one looks for, is never left out
\* of an answer that looks complete (the view fails instead).
StacksAreComplete ==
  gathered = "stacks" /\ outcome = "done" =>
    \A p \in Receivers, t \in ThreadNames : {f \in Frames : <<p, t>> \in output[f]} = {stackOf[p][t]}

\* The objects kept are the biggest ones of all those that were measured, however the sizes
\* come: as many as were asked for or as there are, none twice, in the order of their
\* sizes, and no object that was left out is bigger than one that is kept.
BiggestAreKept ==
  limit > 0 =>
    /\ Len(biggest) = IF Len(objs) < limit THEN Len(objs) ELSE limit
    /\ \A i, j \in 1..Len(biggest) : i < j => biggest[i] # biggest[j] /\ objs[biggest[i]] <= objs[biggest[j]]
    /\ \A o \in 1..Len(objs) : o \in ToSet(biggest) \/ \A k \in ToSet(biggest) : objs[o] <= objs[k]
==============================================================================
