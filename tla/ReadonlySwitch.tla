--------------------------- MODULE ReadonlySwitch ---------------------------
(***************************************************************************)
(* The read-only switch of c2cwsgiutils (db_maintenance_view.py): a view   *)
(* that makes every process of the service use the slave database, and the *)
(* restoring of the switch by the processes that start later.              *)
(*                                                                         *)
(* The view broadcasts the new value, waits for the answers and stores the *)
(* value in the Redis master.  A process that starts subscribes to the     *)
(* broadcasts (pyramid.py includes broadcast first) and then restores the  *)
(* value from the Redis slave, which follows the master with a delay.      *)
(*                                                                         *)
(* The broadcaster is used through what it promises: SG is ScatterGather,  *)
(* which Broadcast.tla implements.  A process of the model starts and      *)
(* stops once; a restarted one is another process.                         *)
(***************************************************************************)
EXTENDS Naturals, Sequences, Functions

CONSTANTS
  Procs,      \* the processes, over the life of the service
  TurnOn,     \* requests with readonly=true
  TurnOff,    \* requests with any other value of readonly
  None,       \* no process
  MaxFaults   \* bound: failures of a behaviour

Switches == TurnOn \cup TurnOff

ASSUME SwitchesDistinct == TurnOn \cap TurnOff = {} /\ None \notin Procs
ASSUME FaultBound == MaxFaults \in Nat

VARIABLES
  \* The broadcaster.
  log, receivers, applied, outcome,
  inbox,       \* inbox[p]: received by p, the callback not run yet
  listening,   \* listening[p]: the server knows the subscription of p
  \* The processes.
  life,        \* life[p]: where p is between its start and its stop
  readonly,    \* readonly[p]: FORCE_READONLY
  \* The requests to the view.
  view,        \* view[s]: how far the request s is
  at,          \* at[s]: the process that runs the view, while it does
  \* Redis.
  stored,      \* the switches written to the master, the last one being its value
  replicated,  \* how many of them the slave has got
  faults,      \* failures so far
  \* History.
  overlapped,  \* two views ran at the same time
  disturbed,   \* disturbed[p]: a switch was under way while p started, and it ran none since
  outdated     \* outdated[p]: p restored too early, or listened too late, for the last switch

SG == INSTANCE ScatterGather WITH Asks <- Switches, Tells <- {}

broadcastVars == <<log, receivers, applied, outcome, inbox, listening>>
processVars == <<life, readonly>>
redisVars == <<stored, replicated>>
history == <<overlapped, disturbed, outdated>>
vars == <<broadcastVars, processVars, view, at, redisVars, faults, history>>

Lives == {"off", "starting", "serving", "stopped"}
Views == {"new", "asking", "storing", "done", "failed"}

\* readonly_param.lower() == "true"
Wanted(s) == s \in TurnOn

\* The value that the first n switches leave in Redis; a missing key is no override.
StoredValue(n) == n > 0 /\ Wanted(stored[n])

UnderWay(s) == view[s] \in {"asking", "storing"}
Quiet == \A s \in Switches : ~UnderWay(s)

Up(p) == life[p] \in {"starting", "serving"}

\* p has yet to run the switch: it will be published to p, or it is in its inbox.
Due(s, p) == listening[p] /\ (s \notin Range(log) \/ s \in Range(inbox[p]))

\* The last switch is not in what p would restore now, nor will p run it later.
TooEarly(p) ==
  \/ \E s \in Switches : UnderWay(s) /\ ~Due(s, p)
  \/ Quiet /\ replicated # Len(stored)

Fail == faults < MaxFaults /\ faults' = faults + 1

------------------------------------------------------------------------------
Init ==
  /\ SG!Init
  /\ inbox = [p \in Procs |-> <<>>]
  /\ listening = [p \in Procs |-> FALSE]
  /\ life = [p \in Procs |-> "off"]
  /\ readonly = [p \in Procs |-> FALSE]
  /\ view = [s \in Switches |-> "new"]
  /\ at = [s \in Switches |-> None]
  /\ stored = <<>>
  /\ replicated = 0
  /\ faults = 0
  /\ overlapped = FALSE
  /\ disturbed = [p \in Procs |-> FALSE]
  /\ outdated = [p \in Procs |-> FALSE]

------------------------------------------------------------------------------
(* The life of a process.                                                  *)

\* The callback is registered and SUBSCRIBE sent.
Start(p) ==
  /\ life[p] = "off"
  /\ life' = [life EXCEPT ![p] = "starting"]
  /\ disturbed' = [disturbed EXCEPT ![p] = ~Quiet]
  /\ UNCHANGED <<broadcastVars, readonly, view, at, redisVars, faults>>
  /\ UNCHANGED <<overlapped, outdated>>

\* The server sees SUBSCRIBE, the first one or that of a reconnection.
Listen(p) ==
  /\ Up(p) /\ ~listening[p]
  /\ listening' = [listening EXCEPT ![p] = TRUE]
  /\ UNCHANGED <<log, receivers, applied, outcome, inbox>>
  /\ UNCHANGED <<processVars, view, at, redisVars, faults, history>>

\* The pub/sub connection is lost, and the messages under way with it.
Lose(p) ==
  /\ listening[p]
  /\ Fail
  /\ listening' = [listening EXCEPT ![p] = FALSE]
  /\ inbox' = [inbox EXCEPT ![p] = <<>>]
  /\ UNCHANGED <<log, receivers, applied, outcome>>
  /\ UNCHANGED <<processVars, view, at, redisVars, history>>

\* Faulty variant: a missing value is restored like any other.
RestoreString(p) ==
  /\ life[p] = "starting"
  /\ life' = [life EXCEPT ![p] = "serving"]
  /\ readonly' = [readonly EXCEPT ![p] =
                    IF replicated = 0 THEN None ELSE StoredValue(replicated)]
  /\ outdated' = [outdated EXCEPT ![p] = TooEarly(p)]
  /\ UNCHANGED <<broadcastVars, view, at, redisVars, faults, overlapped, disturbed>>

\* Faulty variant: a restored string is true, whatever it says.
RestoreTruthy(p) ==
  /\ life[p] = "starting"
  /\ life' = [life EXCEPT ![p] = "serving"]
  /\ readonly' = [readonly EXCEPT ![p] = replicated > 0]
  /\ outdated' = [outdated EXCEPT ![p] = TooEarly(p)]
  /\ UNCHANGED <<broadcastVars, view, at, redisVars, faults, overlapped, disturbed>>

\* _restore: a missing value changes nothing.
Restore(p) ==
  /\ life[p] = "starting"
  /\ life' = [life EXCEPT ![p] = "serving"]
  /\ readonly' = IF replicated = 0
                 THEN readonly
                 ELSE [readonly EXCEPT ![p] = StoredValue(replicated)]
  /\ outdated' = [outdated EXCEPT ![p] = TooEarly(p)]
  /\ UNCHANGED <<broadcastVars, view, at, redisVars, faults, overlapped, disturbed>>

\* An error of the restore is logged, and the process serves.
RestoreFails(p) ==
  /\ life[p] = "starting"
  /\ Fail
  /\ life' = [life EXCEPT ![p] = "serving"]
  /\ outdated' = [outdated EXCEPT ![p] = TRUE]
  /\ UNCHANGED <<broadcastVars, readonly, view, at, redisVars, overlapped, disturbed>>

\* The process ends or is killed, in the middle of the views it runs, and its
\* memory is gone.
Stop(p) ==
  /\ Up(p)
  /\ life' = [life EXCEPT ![p] = "stopped"]
  /\ listening' = [listening EXCEPT ![p] = FALSE]
  /\ inbox' = [inbox EXCEPT ![p] = <<>>]
  /\ view' = [s \in Switches |-> IF at[s] = p THEN "failed" ELSE view[s]]
  /\ at' = [s \in Switches |-> IF at[s] = p THEN None ELSE at[s]]
  /\ readonly' = [readonly EXCEPT ![p] = FALSE]
  /\ disturbed' = [disturbed EXCEPT ![p] = FALSE]
  /\ outdated' = [outdated EXCEPT ![p] = FALSE]
  /\ UNCHANGED <<log, receivers, applied, outcome>>
  /\ UNCHANGED <<redisVars, faults, overlapped>>

------------------------------------------------------------------------------
(* _db_maintenance with a value.                                           *)

Request(s, p) ==
  /\ view[s] = "new"
  /\ life[p] = "serving"
  /\ view' = [view EXCEPT ![s] = "asking"]
  /\ at' = [at EXCEPT ![s] = p]
  /\ overlapped' = (overlapped \/ \E t \in Switches : UnderWay(t))
  /\ disturbed' = [q \in Procs |-> disturbed[q] \/ life[q] = "starting"]
  /\ outdated' = [q \in Procs |-> life[q] = "serving" /\ ~listening[q]]
  /\ UNCHANGED <<broadcastVars, processVars, redisVars, faults>>

\* Faulty variant: the switch is published to the other processes only.
BroadcastToOthers(s) ==
  /\ view[s] = "asking"
  /\ SG!Publish(s)
  /\ receivers'[s] = {p \in Procs : listening[p] /\ p # at[s]}
  /\ inbox' = [p \in Procs |-> IF p \in receivers'[s]
                               THEN Append(inbox[p], s) ELSE inbox[p]]
  /\ UNCHANGED <<listening, processVars, view, at, redisVars, faults, history>>

\* _set_readonly: PUBLISH, to the processes that the server knows of.
Broadcast(s) ==
  /\ view[s] = "asking"
  /\ SG!Publish(s)
  /\ receivers'[s] = {p \in Procs : listening[p]}
  /\ inbox' = [p \in Procs |-> IF listening[p] THEN Append(inbox[p], s) ELSE inbox[p]]
  /\ UNCHANGED <<listening, processVars, view, at, redisVars, faults, history>>

\* Faulty variant: the callback sets a variable of its own (no global statement).
ApplyLocally(p) ==
  /\ inbox[p] # <<>>
  /\ SG!Apply(p, Head(inbox[p]))
  /\ inbox' = [inbox EXCEPT ![p] = Tail(@)]
  /\ disturbed' = [disturbed EXCEPT ![p] = @ /\ life[p] = "starting"]
  /\ UNCHANGED <<listening, processVars, view, at, redisVars, faults, overlapped, outdated>>

\* The callback, in a process that starts or serves.
Apply(p) ==
  /\ inbox[p] # <<>>
  /\ LET s == Head(inbox[p])
     IN /\ SG!Apply(p, s)
        /\ readonly' = [readonly EXCEPT ![p] = Wanted(s)]
  /\ inbox' = [inbox EXCEPT ![p] = Tail(@)]
  /\ disturbed' = [disturbed EXCEPT ![p] = @ /\ life[p] = "starting"]
  /\ UNCHANGED <<listening, life, view, at, redisVars, faults, overlapped, outdated>>

\* All the answers or, after the timeout, some of them: the view looks at none.
Answered(s) ==
  /\ view[s] = "asking"
  /\ SG!Complete(s) \/ SG!TimeOut(s)
  /\ view' = [view EXCEPT ![s] = "storing"]
  /\ UNCHANGED <<inbox, listening, processVars, at, redisVars, faults, history>>

\* The broadcast raises, before or after it was published: nothing is stored.
BroadcastFails(s) ==
  /\ view[s] = "asking"
  /\ Fail
  /\ SG!Raise(s)
  /\ view' = [view EXCEPT ![s] = "failed"]
  /\ at' = [at EXCEPT ![s] = None]
  /\ UNCHANGED <<inbox, listening, processVars, redisVars, history>>

Store(s) ==
  /\ view[s] = "storing"
  /\ stored' = Append(stored, s)
  /\ view' = [view EXCEPT ![s] = "done"]
  /\ at' = [at EXCEPT ![s] = None]
  /\ UNCHANGED <<broadcastVars, processVars, replicated, faults, history>>

\* SET raises, before the master saw it or after.
StoreFails(s) ==
  /\ view[s] = "storing"
  /\ Fail
  /\ stored' \in {stored, Append(stored, s)}
  /\ view' = [view EXCEPT ![s] = "failed"]
  /\ at' = [at EXCEPT ![s] = None]
  /\ UNCHANGED <<broadcastVars, processVars, replicated, history>>

\* The slave gets the next value from the master.
Replicate ==
  /\ replicated < Len(stored)
  /\ replicated' = replicated + 1
  /\ UNCHANGED <<broadcastVars, processVars, view, at, stored, faults, history>>

------------------------------------------------------------------------------
ViewStep(s) == Broadcast(s) \/ Answered(s) \/ Store(s)

Next ==
  \/ \E p \in Procs :
       \/ Start(p) \/ Listen(p) \/ Lose(p) \/ Restore(p) \/ RestoreFails(p)
       \/ Stop(p) \/ Apply(p)
  \/ \E s \in Switches :
       \/ ViewStep(s) \/ BroadcastFails(s) \/ StoreFails(s)
       \/ \E p \in Procs : Request(s, p)
  \/ Replicate

Spec == Init /\ [][Next]_vars

\* The threads that run the views and the callbacks run.
Fairness ==
  /\ \A s \in Switches : WF_vars(ViewStep(s))
  /\ \A p \in Procs : WF_vars(Apply(p))

FairSpec == Spec /\ Fairness

------------------------------------------------------------------------------
(* Properties.                                                             *)

\* Type invariant.
TypeOK ==
  /\ inbox \in [Procs -> Seq(Switches)]
  /\ listening \in [Procs -> BOOLEAN]
  /\ life \in [Procs -> Lives]
  /\ readonly \in [Procs -> BOOLEAN]
  /\ view \in [Switches -> Views]
  /\ at \in [Switches -> Procs \cup {None}]
  /\ stored \in Seq(Switches)
  /\ replicated \in 0 .. Len(stored)
  /\ faults \in 0 .. MaxFaults
  /\ overlapped \in BOOLEAN
  /\ disturbed \in [Procs -> BOOLEAN]
  /\ outdated \in [Procs -> BOOLEAN]
  /\ log \in Seq(Switches)
  /\ receivers \in [Switches -> SUBSET Procs]
  /\ applied \in [Procs -> Seq(Switches)]
  /\ outcome \in [Switches -> SG!Outcomes]

\* Every request that began has ended well, and nothing is on its way to p.
Settled(p) ==
  /\ \A s \in Switches : view[s] \in {"new", "done"}
  /\ inbox[p] = <<>>
  /\ life[p] = "serving" /\ listening[p]

\* The last published switch is the last one that p ran.
RanLast(p) ==
  applied[p] # <<>> /\ applied[p][Len(applied[p])] = log[Len(log)]

\* When nothing failed and no two requests overlapped, a process at rest uses the
\* value in Redis: the restoring, the broadcasts and the stores together keep it
\* right, across restarts, timeouts and a slave that is late.  The exception is a
\* process that restored from a slave behind the master, or in the middle of a
\* switch that it had run already or was not subscribed for: it keeps the old value,
\* and the next switch puts it right.
SettledUsesStored ==
  \A p \in Procs :
    Settled(p) /\ faults = 0 /\ ~overlapped /\ ~outdated[p]
      => readonly[p] = StoredValue(Len(stored))

\* Two processes that both run the callback of the last published switch use the
\* same value, also when requests overlap, stores fail and connections are lost:
\* only what is restored can set them apart.
LastSwitchPrevails ==
  \A p \in Procs :
    life[p] = "serving" /\ ~disturbed[p] /\ RanLast(p)
      => readonly[p] = Wanted(log[Len(log)])

\* A switch reaches every process that serves and listens when it is requested,
\* whatever the view meets, unless the process stops or something fails.
SwitchSpreads ==
  \A s \in Switches, p \in Procs :
    view[s] = "asking" /\ s \notin Range(log) /\ life[p] = "serving" /\ listening[p]
      ~> \/ s \in Range(applied[p])
         \/ life[p] = "stopped" \/ view[s] = "failed" \/ faults > 0

\* "The current state is stored in Redis" (README.md): when every request has
\* ended well, a process that ran the last switch uses the value in Redis.
CurrentStateIsStored ==
  \A p \in Procs :
    Settled(p) /\ faults = 0 /\ RanLast(p)
      => readonly[p] = StoredValue(Len(stored))
=============================================================================
