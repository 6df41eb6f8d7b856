---------------------------- MODULE ScatterGather ----------------------------
(***************************************************************************)
(* What the broadcast component promises to the rest of c2cwsgiutils:      *)
(* every broadcast message takes one place in a single order, the          *)
(* processes that receive it run its callback in that order and at most    *)
(* once, and an "ask" that returns without a missing answer returns only   *)
(* after every one of its receivers ran the callback.                      *)
(*                                                                         *)
(* Broadcast.tla, the model of the code, is checked to implement this      *)
(* specification.                                                          *)
(***************************************************************************)
EXTENDS Naturals, Sequences, Functions

CONSTANTS
  Procs,   \* the processes sharing one Redis server
  Asks,    \* broadcasts called with expect_answers=True
  Tells    \* broadcasts called with expect_answers=False

VARIABLES
  log,        \* the messages, in the order in which they were published
  receivers,  \* receivers[m]: the processes counted as receivers of m
  applied,    \* applied[p]: the messages whose callback p has run, in order
  outcome     \* outcome[a]: what the caller of the ask a has got so far

vars == <<log, receivers, applied, outcome>>

Messages == Asks \cup Tells

Outcomes == {"none", "complete", "partial", "raised"}

\* m1 was published before m2.
Before(m1, m2) ==
  \E i, j \in DOMAIN log : i < j /\ log[i] = m1 /\ log[j] = m2

Init ==
  /\ log = <<>>
  /\ receivers = [m \in Messages |-> {}]
  /\ applied = [p \in Procs |-> <<>>]
  /\ outcome = [a \in Asks |-> "none"]

\* A message reaches an arbitrary set of processes.
Publish(m) ==
  /\ m \notin Range(log)
  /\ log' = Append(log, m)
  /\ \E S \in SUBSET Procs : receivers' = [receivers EXCEPT ![m] = S]
  /\ UNCHANGED <<applied, outcome>>

\* p runs the callback of m, never after that of a later message.
Apply(p, m) ==
  /\ m \in Range(log)
  /\ p \in receivers[m]
  /\ \A n \in Range(applied[p]) : Before(n, m)
  /\ applied' = [applied EXCEPT ![p] = Append(@, m)]
  /\ UNCHANGED <<log, receivers, outcome>>

\* The caller gets all the answers: every receiver has run the callback.
Complete(a) ==
  /\ outcome[a] = "none"
  /\ a \in Range(log)
  /\ \A p \in receivers[a] : a \in Range(applied[p])
  /\ outcome' = [outcome EXCEPT ![a] = "complete"]
  /\ UNCHANGED <<log, receivers, applied>>

\* The caller gets a list with missing answers.
TimeOut(a) ==
  /\ outcome[a] = "none"
  /\ a \in Range(log)
  /\ outcome' = [outcome EXCEPT ![a] = "partial"]
  /\ UNCHANGED <<log, receivers, applied>>

\* The caller gets an exception.
Raise(a) ==
  /\ outcome[a] = "none"
  /\ outcome' = [outcome EXCEPT ![a] = "raised"]
  /\ UNCHANGED <<log, receivers, applied>>

Next ==
  \/ \E m \in Messages : Publish(m)
  \/ \E p \in Procs, m \in Messages : Apply(p, m)
  \/ \E a \in Asks : Complete(a) \/ TimeOut(a) \/ Raise(a)

Spec == Init /\ [][Next]_vars
==============================================================================
