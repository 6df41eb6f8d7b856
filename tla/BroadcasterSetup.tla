--------------------------- MODULE BroadcasterSetup ---------------------------
(***************************************************************************)
(* The broadcaster of one process as the rest of the library gets it       *)
(* (broadcast/__init__.py, broadcast/local.py) and the Redis clients it is *)
(* made with (redis_utils.py): set up while callbacks are already          *)
(* subscribed, by the decorators of imported modules, and dropped after a  *)
(* fork.  A broadcaster is an object with its subscriptions; the module    *)
(* variable _broadcaster refers to one of them.  Threads are the one that  *)
(* sets up the application and one that imports or serves meanwhile.       *)
(***************************************************************************)
EXTENDS Naturals, Sequences, FiniteSets, SequencesExt

CONSTANTS
  SetupThreads,  \* the threads
  Main,          \* the one that sets up the application
  Channels,      \* the channels
  MaxObjects     \* bound: broadcasters created

ASSUME SetupAssumption == Main \in SetupThreads /\ MaxObjects \in Nat

VARIABLES
  configured,   \* which Redis is configured: none, url or sentinels
  master,       \* whether redis_utils._master is set
  slave,        \* whether redis_utils._slave is set
  objects,      \* the broadcasters created so far: kind and subs
  broadcaster,  \* _broadcaster: an index in objects, or 0
  doing,        \* doing[t]: the step the thread t is at, with what it got
  asked,        \* history: the channels subscribed since the last cleanup
  crossed       \* history: those subscribed while another thread was at an exchange

setupVars == <<configured, master, slave, objects, broadcaster, doing, asked, crossed>>

\* An exchange is the steps from the test of _broadcaster to the last use of what it decided: in
\* _get the creation of a local broadcaster, in includeme that of the first one, or the
\* replacement of a local one and the copy of its subscriptions.
Openings == {"making", "defaulting", "including"}
Exchanges == Openings \cup {"replacing", "connecting", "switched", "copying"}
Calls == {"making", "getting", "subscribing"}
Steps == {"idle", "creating", "failed"} \cup Exchanges \cup Calls

Doings == [step : Steps, object : 0..MaxObjects, from : 0..MaxObjects,
           taken : SUBSET Channels, left : SUBSET Channels]
AtRest == [step |-> "idle", object |-> 0, from |-> 0, taken |-> {}, left |-> {}]

SetupTypeOK ==
  /\ configured \in {"none", "url", "sentinels"}
  /\ master \in BOOLEAN /\ slave \in BOOLEAN
  /\ objects \in Seq([kind : {"local", "redis"}, subs : SUBSET Channels])
  /\ Len(objects) <= MaxObjects /\ broadcaster \in 0..Len(objects)
  /\ doing \in [SetupThreads -> Doings]
  /\ asked \subseteq Channels /\ crossed \subseteq Channels

SetupInit ==
  /\ configured \in {"none", "url", "sentinels"}
  /\ master = FALSE /\ slave = FALSE
  /\ objects = <<>> /\ broadcaster = 0
  /\ doing = [t \in SetupThreads |-> AtRest]
  /\ asked = {} /\ crossed = {}

------------------------------------------------------------------------------
Does(t, doings) == doing' = [doing EXCEPT ![t] = doings]

Create(kind) ==
  /\ Len(objects) < MaxObjects
  /\ objects' = Append(objects, [kind |-> kind, subs |-> {}])
  /\ broadcaster' = Len(objects) + 1

\* What a call of subscribe by t crosses, and an exchange of t: the calls that overlap an exchange
\* of another thread.
Crossing(t, ch) ==
  {c \in {ch} : \E u \in SetupThreads \ {t} : doing[u].step \in Exchanges}

UnderWay(t) ==
  UNION {doing[u].left : u \in {u \in SetupThreads \ {t} : doing[u].step \in Calls}}

\* redis_utils.get: the clients are made unless there is a master.  From an URL both are the
\* same client; with sentinels the slave comes after the master, and a thread that calls get
\* between the two has a master and no slave.
GetRedis(t) ==
  /\ doing[t].step = "idle" /\ ~master
  /\ master' = (configured # "none")
  /\ slave' = (configured = "url")
  /\ Does(t, IF configured = "sentinels" THEN [AtRest EXCEPT !.step = "creating"] ELSE AtRest)
  /\ UNCHANGED <<configured, objects, broadcaster, asked, crossed>>

GetSlave(t) ==
  /\ doing[t].step = "creating"
  /\ slave' = TRUE
  /\ Does(t, AtRest)
  /\ UNCHANGED <<configured, master, objects, broadcaster, asked, crossed>>

\* subscribe, in which _get finds no broadcaster.
SubscribeFirst(t, ch) ==
  /\ doing[t].step = "idle" /\ broadcaster = 0
  /\ Does(t, [AtRest EXCEPT !.step = "making", !.left = {ch}])
  /\ asked' = asked \cup {ch}
  /\ crossed' = crossed \cup Crossing(t, ch) \cup UnderWay(t)
  /\ UNCHANGED <<configured, master, slave, objects, broadcaster>>

\* _get makes a local one, whatever the variable refers to by now.
GetMakes(t) ==
  /\ doing[t].step = "making"
  /\ Create("local")
  /\ Does(t, [doing[t] EXCEPT !.step = "getting"])
  /\ UNCHANGED <<configured, master, slave, asked, crossed>>

\* _get returns what the variable refers to, to the call that made one or to another.
GetReturns(t) ==
  /\ doing[t].step = "getting"
  /\ Does(t, [doing[t] EXCEPT !.step = "subscribing", !.object = broadcaster])
  /\ UNCHANGED <<configured, master, slave, objects, broadcaster, asked, crossed>>

SubscribeGet(t, ch) ==
  /\ doing[t].step = "idle" /\ broadcaster # 0
  /\ Does(t, [AtRest EXCEPT !.step = "subscribing", !.object = broadcaster, !.left = {ch}])
  /\ asked' = asked \cup {ch} /\ crossed' = crossed \cup Crossing(t, ch)
  /\ UNCHANGED <<configured, master, slave, objects, broadcaster>>

\* The subscription on the broadcaster that _get returned.
SubscribePut(t) ==
  /\ doing[t].step = "subscribing"
  /\ objects' = [objects EXCEPT ![doing[t].object].subs = @ \cup doing[t].left]
  /\ Does(t, AtRest)
  /\ UNCHANGED <<configured, master, slave, broadcaster, asked, crossed>>

\* includeme, once it has called redis_utils.get, tests what is there and what to make.
Include ==
  /\ doing[Main].step = "idle" /\ (master \/ configured = "none")
  /\ \/ /\ broadcaster = 0
        /\ Does(Main, [AtRest EXCEPT !.step = IF master /\ slave THEN "including" ELSE "defaulting"])
     \/ /\ broadcaster # 0 /\ objects[broadcaster].kind = "local" /\ master /\ slave
        /\ Does(Main, [AtRest EXCEPT !.step = "replacing"])
  /\ crossed' = crossed \cup UnderWay(Main)
  /\ UNCHANGED <<configured, master, slave, objects, broadcaster, asked>>

\* The first broadcaster of the set-up: a local one, or one that connects to Redis.
IncludeFirst ==
  /\ doing[Main].step \in {"defaulting", "including"}
  /\ Create(IF doing[Main].step = "including" THEN "redis" ELSE "local")
  /\ Does(Main, AtRest)
  /\ UNCHANGED <<configured, master, slave, asked, crossed>>

\* The local broadcaster to replace is the one of now.
TakePrevious ==
  /\ doing[Main].step = "replacing"
  /\ Does(Main, [AtRest EXCEPT !.step = "connecting", !.from = broadcaster])
  /\ UNCHANGED <<configured, master, slave, objects, broadcaster, asked, crossed>>

\* The connection to Redis fails, when it is made or in the middle of the copy, and with it the
\* set-up.
ConnectFails ==
  /\ doing[Main].step \in {"including", "connecting", "copying"}
  /\ Does(Main, [AtRest EXCEPT !.step = "failed"])
  /\ UNCHANGED <<configured, master, slave, objects, broadcaster, asked, crossed>>

\* Faulty variant: the subscriptions of the local broadcaster are not copied.
ReplaceEmpty ==
  /\ doing[Main].step = "connecting"
  /\ Create("redis")
  /\ Does(Main, AtRest)
  /\ UNCHANGED <<configured, master, slave, asked, crossed>>

\* The variable is changed before the subscriptions are copied.
ReplaceLocal ==
  /\ doing[Main].step = "connecting"
  /\ Create("redis")
  /\ Does(Main, [doing[Main] EXCEPT !.step = "switched"])
  /\ UNCHANGED <<configured, master, slave, asked, crossed>>

\* copy_local_subscriptions begins, on what the variable refers to by now: a local broadcaster
\* that another thread made in between has no such method.
CopyBegins ==
  /\ doing[Main].step = "switched"
  /\ LET subs == objects[doing[Main].from].subs IN
     Does(Main, IF objects[broadcaster].kind = "local" THEN [AtRest EXCEPT !.step = "failed"]
                ELSE [doing[Main] EXCEPT !.step = "copying", !.object = broadcaster,
                                         !.taken = subs, !.left = subs])
  /\ UNCHANGED <<configured, master, slave, objects, broadcaster, asked, crossed>>

\* Whether the dictionary that is copied has grown since.
Grown == objects[doing[Main].from].subs # doing[Main].taken

\* One subscription.
CopySubscription(ch) ==
  /\ doing[Main].step = "copying" /\ ~Grown /\ ch \in doing[Main].left
  /\ objects' = [objects EXCEPT ![doing[Main].object].subs = @ \cup {ch}]
  /\ Does(Main, [doing[Main] EXCEPT !.left = @ \ {ch}])
  /\ UNCHANGED <<configured, master, slave, broadcaster, asked, crossed>>

\* A subscription meanwhile ends the iteration over the dictionary, and the set-up, by an error.
CopyDone ==
  /\ doing[Main].step = "copying" /\ (Grown \/ doing[Main].left = {})
  /\ Does(Main, IF Grown THEN [AtRest EXCEPT !.step = "failed"] ELSE AtRest)
  /\ UNCHANGED <<configured, master, slave, objects, broadcaster, asked, crossed>>

\* prometheus.cleanup in a process that was just forked: only the thread that forked is left.
CleanUp ==
  /\ doing[Main].step = "idle"
  /\ master' = FALSE /\ slave' = FALSE /\ broadcaster' = 0
  /\ doing' = [t \in SetupThreads |-> AtRest]
  /\ asked' = {} /\ crossed' = {}
  /\ UNCHANGED <<configured, objects>>

SetupNext ==
  \/ \E t \in SetupThreads : \/ GetRedis(t) \/ GetSlave(t)
                             \/ GetMakes(t) \/ GetReturns(t) \/ SubscribePut(t)
                             \/ \E ch \in Channels : SubscribeFirst(t, ch) \/ SubscribeGet(t, ch)
  \/ Include \/ IncludeFirst \/ TakePrevious \/ ConnectFails \/ ReplaceLocal \/ CopyBegins
  \/ CopyDone \/ CleanUp
  \/ \E ch \in Channels : CopySubscription(ch)

SetupSpec == SetupInit /\ [][SetupNext]_setupVars

------------------------------------------------------------------------------
\* Whatever the order of imports, decorators and includes, and however often includeme runs, a
\* callback subscribed since the last cleanup ends up in the broadcaster in use: it is there, or
\* the call under way, or the copy that Main is at, puts it there.  A request to a view is not
\* answered by silence because its module was imported before Redis was set up.  Excepted are the
\* subscriptions whose call overlapped an exchange of another thread: between the test of
\* _broadcaster and its assignment nothing is locked, and they can be lost; and a set-up that
\* ended by an error.
SubscriptionsKept ==
  doing[Main].step # "failed" => \A ch \in asked \ crossed :
    \/ broadcaster # 0 /\ ch \in objects[broadcaster].subs
    \/ \E t \in SetupThreads : /\ doing[t].step \in Calls /\ doing[t].left = {ch}
                               /\ doing[t].step = "subscribing" => doing[t].object = broadcaster
    \/ doing[Main].step = "switched" /\ ch \in objects[doing[Main].from].subs
    \/ /\ doing[Main].step = "copying" /\ doing[Main].object = broadcaster
       /\ ch \in doing[Main].left
==============================================================================
