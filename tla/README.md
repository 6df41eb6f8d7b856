# c2cwsgiutils: verification project

TLA+ models of [c2cwsgiutils](../src/README.md): first of the parts where several processes or threads
act on shared state, then of those where a failure, a retry or a late answer has to be put right.
With them come the TLC configurations that check them on small instances, and TLAPS proofs
of their main properties for every value of the constants. Paths such as `broadcast/redis.py:64`
are under `src/c2cwsgiutils/`.

## 1. The system

c2cwsgiutils is a library for WSGI services written with Pyramid. A service runs as several
processes (often on several machines), each with several threads (gunicorn, `gthread` workers), and
the library gives them operating views: change a log level, make the database read-only, profile
SQL, run health checks, dump stacks. A request to such a view arrives in *one* thread of *one*
process and must take effect in *all* of them. Everything that makes this code hard follows from
that: the broadcaster that carries the request to the other processes, the Redis values that carry
it to the processes that start later, and the globals that request threads read while the
broadcaster's thread changes them.

### Inventory

| Component | State | Operations | What is hard | What makes it correct |
|---|---|---|---|---|
| **Redis broadcaster** `broadcast/redis.py` | per process: the handlers of the pub/sub connection; per call: the answer channel, the list of answers, the number of receivers | `subscribe`, `unsubscribe`, `broadcast` with or without answers, `copy_local_subscriptions` | two connections without a common order, three threads and a server, timeouts, late answers, lost connections, errors in callbacks, counting answers instead of identifying them | no answer twice, a list without `None` is complete, one order of callbacks everywhere, no call blocks for ever, answer channels are given up |
| **Pub/sub listener** `redis_utils.py` | the thread, the connection | `PubSubWorkerThread.run`, client creation and cleanup | it must survive broken connections and failing handlers; a new connection resumes from the handlers the client remembers | callbacks run one at a time, in the order received |
| **Broadcaster selection** `broadcast/__init__.py`, `broadcast/local.py` | the module variable `_broadcaster`, the local subscriptions | `includeme`, `cleanup`, `subscribe`, `broadcast`, `decorator` | set up in steps while other threads use it; cleared after a fork | no subscription is lost when Redis replaces the local broadcaster, but those made during it |
| **Database sessions** `db.py` | `FORCE_READONLY`, the engine set on the shared factory, the session of each thread | `SessionFactory.__call__`, the older tween (`_add_tween`) | one factory for all threads, configured and then read back | a request gets the engine it asked for; after the switch to read-only the master empties |
| **Read-only switch** `db_maintenance_view.py` | `FORCE_READONLY` of each process, the value in Redis (master and slave) | the view, `_set_readonly`, `_store`, `_restore` | broadcast and store are two steps; processes start between them; the slave is late; each step may fail | the processes agree with each other and with the stored value |
| **Logger levels** `logging_view.py` | the level of each logger in each process, one Redis key per logger | the view, `_set_level`, `_store_override`, `_restore_overrides` | as above, with several keys, and a restore that stops at the first bad one | what was stored before a process started is what it has afterwards, or something newer |
| **Health checks** `health_check.py` | the list of checks, the failure gauge of each process | `_view`, `_run_one`, `_set_success`, `_get_all_versions` | the success of a check is told to all processes, its failure is not; missing answers are skipped | a success clears in every process the failures recorded before it; a check that passed is not reported as failed unless Redis is down |
| **SQL profiler** `sql_profiler/_impl.py` | `_REPOSITORY`, the event listener | `_setup_profiler`, `profile` | check and set of a global by a callback | the listener is that of the repository; a statement is explained once |
| **SQLAlchemy log handler** `sqlalchemylogger/handlers.py` | a queue, a condition, the chunk of the writer thread, the session | `emit`, `_processor`, `_write_logs`, `create_db` | lost wake-ups, chunks, a failing database | a line is written once and in order, or dropped with a message; a line does not wait for ever |
| **Prometheus** `prometheus.py` | the metrics of each process | the view, the merge of all processes | missing answers; equal names from several processes | a scrape is a set: each sample once, whatever the order of the answers |
| **Debug views** `debug/` | none of its own | stacks, memory, gc of all processes | answers that are missing, a list cut to its limit at each step | stacks that are shown are complete; the objects kept are the biggest |
| **Request and SQL timing** `stats_pyramid/`, `redis_stats.py`, `request_tracking/` | histograms, a request id per request | hooks of Pyramid, SQLAlchemy, redis-py and requests | a rendering or a statement that fails in the middle; statements inside one another | a failure is not counted as a success; a statement is observed once |
| **Authentication** `auth.py`, and the login views of `index.py` | signed cookies, the login under way in the session | `auth_view`, `is_auth`, GitHub login, logout and access | several methods and fallbacks; tabs whose responses come back in any order | what is linked may be used; only a late response undoes a logout; a login fails only because of another one |
| **Error views** `errors.py` | the exception kept on the request | a view for each kind of exception | the response and the exception of a request are two things | what the client is shown is in the log too |
| **Client information** `client_info.py` | none | the filter of the WSGI environment | several headers for the same thing | fixed precedence |
| **Statistics script** `scripts/stats_db.py` | the first error, the gauges | one report, its retries | a failure in the middle of a report, then a retry | success only with all the values of one attempt; the error reported is the first, unless the report of it fails |
| **Acceptance library** `acceptance/` | the expected image | `retry`, `retry_timeout`, the HTTP helpers, the print server, `check_image` | timed retries around checks that raise | a test passes for what it tests only |
| Set-up, version, Sentry, formatters, developer tools | none, or configuration of an external library | — | — | — |

### How the components interact

```
 request thread --> view (db_maintenance, logging, sql_profiler, debug, health_check)
                      |  broadcast()                         | set/get
                      v                                      v
 broadcaster --PUBLISH--> Redis server --request--> each    Redis master --> Redis slave
      ^                       |                 listener        ^ (restored from by
      '------ answers --------'                 thread          |  processes that start)
                                                  | callback
                                                  v
                               globals of the process: FORCE_READONLY, log levels, ...
                                                  ^ read by the request threads (SessionFactory)
```

* The listener thread of each process runs all the callbacks of that process, one after another.
* `pyramid.py` includes `broadcast` first (line 45) and `db_maintenance_view` and `logging_view` after it
  (49, 50), so a process subscribes before it restores. The order matters to the read-only switch.
* `PUBLISH` uses a pooled connection, `SUBSCRIBE` the pub/sub connection: nothing orders the two.

`PROJECT.json` lists the hazards of this code line by line, with the properties that cover them.

## 2. Modules

| Module | Role |
|---|---|
| `ScatterGather` | abstract specification: what the broadcaster promises to the rest of the library |
| `Broadcast` | the broadcaster, its listener thread, the pub/sub connection and the server |
| `MCBroadcast` | its instance for TLC (symmetry of the processes) |
| `BroadcastProofs`, `AnswerProofs`, `ScatterGatherProofs` | types and order; answers; refinement |
| `ReadonlySwitch`, `ReadonlyProofs` | the read-only switch over `ScatterGather`; its proofs |
| `SessionFactory`, `SessionFactoryProofs` | the session factory shared by threads; its proofs |
| `SqlLogHandler`, `SqlLogProofs` | the log handler that writes to a database; its proofs |
| `LogLevels` | logger levels: change, restore, replica |
| `HealthChecks` | the checks, the view, the gauges of all processes |
| `SqlProfiler` | the profiler of one process |
| `BroadcasterSetup` | clients, the choice of a broadcaster and its replacement, the cleanup after a fork |
| `MCOperations` | the instance of these four: what operators do to running processes |
| `OperationsProofs` | the proofs about these four and their instance |
| `SessionBinding` | scoped sessions: set-up, tween, bindings of a database check |
| `Access` | authentication, index page, GitHub login, for one browser |
| `RequestPath` | a request through error views, rendering and counters |
| `SqlTiming` | the listeners that time statements |
| `StatsReport` | the statistics script |
| `Acceptance` | the acceptance library |
| `Gather` | answers put together: scrape, stacks; biggest objects |
| `MCRequests` | the instance of these seven: what serves requests and reports on them |
| `RequestsProofs` | the proofs about them and their instance |

### ScatterGather

Four variables: the order of the published messages, who received each, what each process has run,
what each caller got. Promises: one order for everyone, at most one run each, and "complete" only
when all the receivers ran the callback. It promises nothing about which processes receive a
message, nor that a caller gets anything: that is liveness, checked on `Broadcast` itself.

### Broadcast

Atomic steps are what other threads, the server or the other connections can observe:

| Action | Code |
|---|---|
| `SubscribeMain`, `RegisterMain` | `subscribe` (62-64): redis-py sends `SUBSCRIBE`, *then* records the handler. Between the two the server may already count the process as a receiver while its listener ignores the message |
| `UnsubscribeMain` | `unsubscribe` (66-70) |
| `StartTell`, `StartAsk`, `RegisterAnswers` | `broadcast` (72-83), `_broadcast_with_answer` up to 106 |
| `PublishCall`, `PublishFails` | `_broadcast` (131-136): the server counts its subscribers and queues the request to them in one step. A failure is either before the server got it or after (the reply is lost) |
| `GetAnswers`, `Timeout` | the wait (112-127). `Timeout` pads the list with `None` |
| `Release` | the `finally` clause (128-129); on a broken connection `UNSUBSCRIBE` raises and its exception replaces the answers |
| `ReadRequest`, `ReadAnswer`, `ReadUnsubscribed` | the listener (`redis_utils.py:148-153`) with `wrapper` (49-53) and `callback` (95-99) |
| `FinishCallback`, `AnswerFails` | the end of `wrapper` (52-60): an exception of the callback is an answer too; an exception of its `PUBLISH` reaches `run`, which goes on |
| `ServerSubscribe`, `ServerUnsubscribe`, `Disconnect`, `Reconnect` | Redis and redis-py, modelled from how the code uses them |

What an answer contains matters to no property, so a process stands for its answer. `applied`
records the *start* of a callback. `log` and `applied` are history.

`ScatterGather` is implemented with `log`, `receivers` and `applied` as they are and `outcome`
computed from the state of the call (`Broadcast!outcome`): `PublishCall` is `Publish`, `ReadRequest`
is `Apply`, `Release` is `Complete`, `TimeOut` or `Raise`, the rest are stutters.

### ReadonlySwitch

Uses the broadcaster through `SG == INSTANCE ScatterGather`: the view's broadcast *is* `SG!Publish`
to the processes that listen, the callback is `SG!Apply`, the end of the wait is `SG!Complete` or
`SG!TimeOut` (the view ignores the list), an exception is `SG!Raise`. Because `Broadcast` implements
`ScatterGather`, nothing of it is modelled again, except a mailbox that says which published
messages a live process has not run yet.

| Action | Code (`db_maintenance_view.py`) |
|---|---|
| `Start`, `Listen`, `Restore`, `RestoreFails` | `includeme` and `_restore` (59-69): subscribe, then read the slave; a missing key changes nothing; an exception is logged and ignored |
| `Request`, `Broadcast`, `Answered`, `BroadcastFails` | `_db_maintenance` (37-45) |
| `Apply` | `_set_readonly` (53-56) |
| `Store`, `StoreFails` | `_store` (72-75), after the answers |
| `Replicate`, `Lose`, `Stop` | Redis replication; a lost connection; the end or crash of a process, which takes its views with it |

The stored value is the *sequence* of the writes, so that the slave can be late by any number of
them. A process lives once; a restarted process is another element of `Procs`. `outdated` (history) has the processes that
restored a value without the last switch, which will not reach them any more, or did not listen when it was requested. The query without a
value only reads.

### SessionFactory

`__call__` (247-277) is three steps: decide for an engine (reads `FORCE_READONLY`, the method and the
path), `configure(bind=...)` on the shared factory, and `sessionmaker.__call__`, which reads the
factory. `SetReadonly` is the listener thread. The path lists are abstracted to whether they match.

### SqlLogHandler

| Action | Code (`sqlalchemylogger/handlers.py`) |
|---|---|
| `Start`, `EmitUnstarted`, `Emit` | `__init__` and `start` (38-81), `emit` (139-154). Before the start there is nothing to put a line in, and the logging call raises |
| `BeginWait`, `WaitTimesOut`, `TakeLine` | the inner loop of `_processor` (88-101). A notification reaches the writer only while it waits; each wait takes one line at most; a chunk is written when it is full or due |
| `Write`, `WriteFails`, `WriteEscapes` | the first attempt of `_write_logs` (105-108): done, a `SQLAlchemyError`, or any other exception, which ends the thread |
| `Recover`, `RecoverFails` | the second attempt (109-119): `create_db`, rollback and save again; any exception drops the chunk |
| `Stop` | the end of the process: the writer is a daemon thread |

A commit that raises may have been done (its reply is lost) or not. `failed` is the session that
refuses everything until a rollback: SQLAlchemy leaves it so when a chunk is dropped, and the next
chunk gets its rollback in its own second attempt. Lines are of three kinds: those that can be
inserted, those that raise a `SQLAlchemyError` (`Refused`), and those that raise something else (`Fatal`, for
example a text that cannot be encoded). `Fatal` may be empty: all the theorems hold either way.

### LogLevels

The pattern of `ReadonlySwitch` with many keys. A level is named by the *change* it comes from, so that
"older" and "newer" mean something: two requests for the same level are told apart. The mailboxes say
what `ScatterGather` promises (one order, each message at most once); the answers are not looked at by the
view, so that the wait may end at any time. `stored` is the state of the keys after each write to the master, `copied` says
which of these states the slave has, and `known` (of a process) which one it had when the process started.

| Action | Code (`logging_view.py`) |
|---|---|
| `StartLogging`, `ReadKey`, `RestoreKey`, `RestoreBreaks`, `Restored` | `includeme`, `_restore_overrides` and `_list_overrides`: a scan of the slave, which yields each key that is there all the time, some of them twice, and some that come meanwhile; then for each key a read and a `setLevel`, with other steps in between. A level that `setLevel` refuses is stored all the same, and ends the loop of every restore |
| `ChangeLevel`, `SetLevel`, `StoreOverride`, `ChangeFails` | the view (broadcast, then store) and the callback |
| `CopyToSlave`, `StopLogging` | replication; the end of a process with its views |

### HealthChecks

`world` is what the checks look at and may change between any two steps. `_run_one` is several of them, because there is I/O between them
and other processes pass or fail the same check meanwhile:

| Action | Code (`health_check.py`) |
|---|---|
| `BeginView`, `EndView` | `_view` (476-493), which selects the checks and sends the results |
| `RunCheck` | the check (506), whose entry in the successes comes first (507) |
| `SetSuccess` | the broadcast of the success (510), to the processes that listen |
| `SetSuccessFails` | the broadcast raises: the check that passed is about to be a failure as well |
| `RecordFailure` | the `except` clause (511-519): the gauge of this process, the entry in the failures |
| `ClearGauge` | the callback (554-557) in each process that was told |
| `Change`, `Resubscribe`, `Replace` | a database, the URL or Redis breaks or is repaired; a process listens again; a worker that another one takes the place of |

`Passes` gives the verdict of each kind of check (`DbEngineCheck`, `AlembicCheck`, `UrlCheck`, `RedisCheck`, `VersionCheck`); the version check
compares any subset of the processes that listen.

### SqlProfiler

`_setup_profiler` in the steps `TestRepository`, `NewRepository`, `ListenEngines` and `RemoveListener`,
`ForgetRepository`; with the local broadcaster callbacks interleave, with Redis they do not. `ProfileSelect` is
`profile`, whose look-up happens under the lock.

### BroadcasterSetup

`_broadcaster` is a number of an object. A test of it and the assignment it leads to are steps of their own, since nothing is locked between them and
the connection to Redis takes its time; `doing[t]` is the step of a thread and what it holds on to.

| Action | Code |
|---|---|
| `GetRedis`, `GetSlave` | `redis_utils.get` (47-110), which makes the two sentinel clients one after the other |
| `SubscribeFirst`, `GetMakes`, `GetReturns` | `subscribe` and `_get` (57-63) when the test finds no broadcaster: a local one is made, over whatever another thread has put there meanwhile |
| `SubscribeGet`, `SubscribePut` | `_get` when there is one; the subscription on the object that it returned |
| `Include`, `IncludeFirst` | the tests of `includeme` (42-50), the first broadcaster (45, 48) |
| `TakePrevious`, `ReplaceLocal`, `CopyBegins` | the replacement of a local broadcaster (52-54): the variable changes before the subscriptions are copied |
| `CopySubscription`, `CopyDone` | `copy_local_subscriptions`, one by one; a subscription made meanwhile to the old object makes the iteration over its dictionary fail (`Grown`) |
| `ConnectFails` | an error of Redis, when the broadcaster is made or in the copy |
| `CleanUp` | `prometheus.cleanup` in a forked process |

### SessionBinding

`Setups` has every result of `setup_session`, `create_session` and `init`. `Enter` and `Leave` are the older
tween, `EnterCheck` and `ExitCheck` the bindings of a database check. The previous engine of a binding is one
attribute for all threads, as in the code: two threads in the same check can give each other a wrong engine until
the tween puts its own back. With a `SessionFactory`, a view (`CallFactory`) or a check sets the engine of the shared factory (`Configure`) and
then creates a session with the one it has by then (`CreateOne`), the two steps of `SessionFactory.tla`. `crossed` has the threads whose call another
one came into. `Bindings` keeps the detail that `_get_binding_class` gives an
`_OldBinding` the *other* engine of the two it was given, and its callers pass each what makes up for that.

### Access

A response is separate from its arrival (`GetIndex`, `Receive`), because it is then that the cookies change. That goes for the session too when it is
a cookie (`settings.session`): the state of a login is in the next requests from the arrival of the response on, and a callback may write the session again
as it read it. A session that the server keeps changes when the request is handled. `out` says that the user logged out and has not authenticated since;
`after` has the tabs whose request was sent after that, without credentials.
`AuthType`, `IsAuthSecret`, `CheckAccess` are the functions of `auth.py`; an empty secret, in the parameter or in the header, logs out. A hash of a secret stands
for the secret; signatures are taken to be sound. `GithubLogin`, `GithubCallback`, `GithubLogout` are the views.

### RequestPath and SqlTiming

`RequestPath` keeps apart three things that the counters could look at: the exception, which Pyramid leaves on the request, `request.response`, as the view
left it (`kept`), and the response that the client gets (`status`, of `author`). The counters look at the first, then at the second. A view returns data
(`ViewReturns`), a response of its own (`ViewResponds`), or raises. An error view works on a `request.response` of its own; when it fails itself (`BotoClientErrorFails`: a
code that is not a number) or its data cannot be rendered, Pyramid takes the exception off the request and the WSGI server answers (`ErrorViewFails`).
A rendering that fails has added its counter before.
`SqlTiming` is the listener on a connection: put there before a statement and called once, at the end of the first
statement that succeeds on that connection, its own or another one. Connections that are given back lose the listeners.

### StatsReport

One attempt is `ConnectDb`, `ListTables`, the work (`DoReport` or `ReportError` for each statement), `WorkDone`, `CommitReport`.
`left` is what there is to process, in order: for each table the sequence of its three statements, for each extra query the one
statement of it; an error gives up the rest of a table. The statements share a transaction, and after a failure in the database
each one is refused. `AttemptFails` is the retry of `main`. The options of the command line are sequences, and `args` says which
of them were given: with `--extra-gauge` and without `--extra`, the report of an error raises a `TypeError` of its own. Queries can share a gauge (`SampleOf`; all the queries of
`--extra` do), and the later one overwrites the samples of the earlier one that have the same labels. `CommitReport` is `Reporter.commit`: a push to the gateway, or, without
`--prometheus-url`, one request that is answered to anyone (`PushOrServe`); in that mode nobody may have got the report and the script does not know.
A push that fails may have reached the gateway (`PushOrServeFails`). `failed` numbers the failures of an attempt, so that the first one is told from the others.

### Acceptance

A job of a test per behaviour: `wait_url`, the ready check, a PDF of the print server, the decorator `retry`, an image. Each
request gets any response; `CheckResponse`, `CheckCors`, `GetJson`, ... say which ones the helper accepts. Time passes in
each try, and the wait looks at the clock after it.

### Gather

Answers come in any order and are data, an error, or `None` (`AnswerGathered`, `Timeout`), one channel after the other for a scrape
(`NextChannel`). Then they are merged one at a time (`MergeAnswer`, `merged` counts them): `Deserialize` for samples,
`BeautifyStacks` for the threads by stack. Neither expects the errors of callbacks, and the second not `None` either: `Crashes`.
`MeasureObject` is the selection of the biggest objects, one object at a time. `biggest` holds the places of the kept objects in `objs`, so
that two objects of one size are told apart; the sort of a sorted list with one object more at its end is the insertion `Inserted`.

## 3. What TLC checks

| Run | Instance | Properties |
|---|---|---|
| `broadcast_safety` | 2 processes, 1 ask, 1 tell, 1 fault | `TypeOK`, `OneAnswerEach`, `CompleteAnswers`, `SameOrder`, `ImplementsScatterGather` |
| `broadcast_liveness` | 2 processes, 1 ask, 1 fault | `EveryCallSettles`, `AnswerChannelsReleased` |
| `broadcast_late` | 2 processes, 1 ask | `ReturnedAnswersFixed`, **violated** |
| `readonly_switch` | 2 processes, one request of each value, 1 fault | `TypeOK`, `SettledUsesStored`, `LastSwitchPrevails`, `SwitchSpreads` |
| `readonly_switch_stored` | 2 processes, one request of each value | `CurrentStateIsStored`, **violated** |
| `session_factory` | 3 threads | `TypeOK`, `AloneIsRight`, `MasterDrains` |
| `session_factory_mixed` | 2 threads | `EngineOfTheRequest`, **violated** |
| `sql_log_handler` | 5 lines, one refused, one fatal, chunks of 2, 1 fault | `TypeOK`, `NothingLost`, `RowsInOrder`, `DropIsLocal`, `EveryLineLeaves` |
| `sql_log_handler_fatal` | 2 lines, one fatal | `WriterSurvives`, **violated** |
| `operations` | 2 processes; 3 changes of 2 loggers, one refused; 5 checks, 2 views, 2 changes of the world; 4 callbacks, 3 executions of 2 statements; 2 threads, 2 channels, 4 broadcasters | `OperationsTypeOK`, `RestoredOrNewer`, `NoStaleFailure`, `RedisDownIsReported`, `ListenerOfRepository`, `ExplainedOnce`, `SubscriptionsKept` |
| `requests` | 2 threads; 2 tabs, 2 secrets, 3 events; 2 requests; 2 connections, 4 statements; 2 tables, 2 extra queries with one sample and a gauge, 2 attempts; timeout 4; 3 receivers, 2 with one pid; 5 objects | `RequestsTypeOK`, `BindComesBack`, `CheckTriesItsEngine`, `LinkedIsAccepted`, `LogoutHolds`, `LoneLoginCompletes`, `FailureIsCounted`, `ObservedOnce`, `SuccessIsComplete`, `CauseIsRaised`, `NoFalsePass`, `ScrapeIsASet`, `StacksAreComplete`, `BiggestAreKept` |
| `acceptance_retry` | 3 tries | `RetriedToTheEnd`, **violated** |

**Several components in one run.** The modules of `MCOperations`, and those of `MCRequests`, share no state. Their runs
choose one of them at the start (`part`) and leave the others as they are, which explores the union of their state
spaces and not the product, without loss: no step of one could enable or disable a step of another.

The properties of these two runs, and what each is about:

* `RestoredOrNewer`: after a restart without errors a logger has the level that the slave had when the process started, or one of
  a later change; a broadcast that overtakes a key's read, a late replica and a scan that is not a snapshot cannot bring back an older one.
* `NoStaleFailure`: a failure that a gauge shows although a success of the check was broadcast *after it was recorded* is on its way to be cleared.
  `cleared` is the history it needs: what was broadcast to a process since its own last failure. The code does not promise more: a process that has found a failure and not yet
  set its gauge, while another one broadcasts a success, ends with a failure that only the next success clears.
* `RedisDownIsReported`: while the world is steady, a view during which Redis is down reports every check it is done with as failed, and in no other case has one
  check two verdicts. It is the broadcast of the success that fails, since the check of Redis itself cannot.
* `ListenerOfRepository`, `ExplainedOnce`: no listener is left on the engines that no later call could remove; no repository has a
  statement explained (that is, run) twice.
* `SubscriptionsKept`: what was subscribed since the last cleanup is known to the present broadcaster, or the call or copy that puts it there is under way; except a
  subscription whose call overlapped the steps from a test of `_broadcaster` to the last use of its outcome in *another* thread (`crossed`), which the code may lose, and a set-up that failed.
* `BindComesBack`, `CheckTriesItsEngine`: the engines of a thread after any mix of requests and checks; the engines that a check really tries. For a `SessionFactory` the second
  names what the code leaves open: another thread that configures the factory in the middle of the call (finding 2), and the slave tried for the master in read-only mode.
* `LinkedIsAccepted`, `LogoutHolds`, `LoneLoginCompletes`: for any order of responses, changes of the secret and logins. The second allows what the code does: the late response to a
  request sent before the logout writes the cookie again. The third replaces "only the last login can be completed", which is false for a session in a cookie: the response of an older login
  that comes last brings its state back.
* `FailureIsCounted`: a 5xx from the data of a view or from an error view is counted as one, and what is shown of an exception is logged. A response that a view made itself, or the server for a failing
  error view, is counted by `request.response`, that is, as a success if nobody touched it.
* `ObservedOnce`: timers, through failures of nested statements.
* `SuccessIsComplete`, `CauseIsRaised`: any statement may fail in any attempt, and so may the push. The first ends with the gateway (or the one client that asks): who that client is, the script
  does not know. The second says in which cases it is not the first failure that is raised.
* `NoFalsePass`: each job of a test, for any sequence of responses.
* `ScrapeIsASet`, `StacksAreComplete`, `BiggestAreKept`: for any order of answers or objects.

**Bounds.** `MaxFaults` bounds the lost connections and failed commands of a behaviour; the numbers of
processes, calls and requests are those of the constants, and each call runs once. Nothing else is
bounded. Two processes are enough for a caller that is also a receiver, for a receiver elsewhere,
and for disagreement between the two; two calls are enough for an order. One fault is enough to lose
a message on its way, a subscription before and after its handler is known, an answer, or the
connection of the caller before, during and after its wait. With three threads one call can overlap
with two others, of which only one with the third. Chunks of two lines can be full, partly filled and
empty, and five lines make more than two of them, so that a dropped chunk has neighbours. The safety results of these modules do not depend on the
bounds: they are also proved (section 4).

The other bounds: `MaxChanges` (changes of the world and replaced workers), `MaxObjects` (broadcasters created), `MaxSwitches` (changes
of `FORCE_READONLY`), `MaxEvents` (logins, changes of the secret and of the permission), `MaxRequests` (requests after the first), `TryNumber`, `WaitTimeout`
and `MaxTime` (time of a test), `MaxObjs` (objects measured). Three changes are a change that is replaced by another one and one that
is refused; two changes of the world put a failure and its repair between two steps of a check, or let Redis fail with a success on its way, and come back. Four callbacks enable twice and disable
twice; three executions are two at once of the same statement, and another one. Four objects are a local broadcaster, a Redis one, and both again
after a cleanup. Three events are two logins and a change, or a change of the secret and back. Two extra queries with one sample overwrite one another. Two attempts are enough
for a first one whose leftovers could be taken for the second's; four statements nest three deep, with one before or after. Three receivers
have two with the same pid and one without; five objects with a limit of three make the list full and then cut it.

**Symmetry** of the processes is used in `broadcast_safety` only, where every property is a safety
property.

**Deadlock.** `CHECK_DEADLOCK FALSE` in the runs of `Broadcast`, `ReadonlySwitch` and `SqlLogHandler`: each call, request or
line of the constants comes once, and the process of the handler may end, so a behaviour ends when all of them are over. That no call is stuck
before its end is `EveryCallSettles`. `SessionFactory` never stops and is checked for deadlock.
`operations`, `requests` and `acceptance_retry` have it for the same reason: the changes, callbacks, executions, events and objects are used once, and a
test that has its verdict is over.

**Fairness.** Weak fairness of the steps of threads that have work: the caller (its timer included), the
listener, the server, the view, the request, the log writer (the timeout of its wait included). The scheduler of the operating system gives them that,
and no step waits for a lock. No fairness for what the environment may never do: a process that
subscribes, a connection that is opened again, a failure, a request, a change of `FORCE_READONLY`.
So `EveryCallSettles` holds although the other processes may stay deaf for ever: only the timer is needed.

### Disagreements found

1. `broadcast_late`. The docstring of `broadcast()` (`broadcast/__init__.py:98`) says that it waits "up to timeout
   seconds to get all the answers". The handler of the answer channel outlives the call until the
   listener has read the confirmation of `UNSUBSCRIBE`, and appends to the *same list* that was padded and
   returned: the caller's `[None]` becomes `[None, answer]`, with more entries than receivers, possibly
   while the caller iterates over it. `ImplementsScatterGather` shows what remains true all the same.
2. `session_factory_mixed`. `README.md:342` says that `force_master` and `force_slave` "force a route to use the master or
   the slave engine". Two threads that create sessions at the same time can swap engines.
   `AloneIsRight` shows that overlapping calls are the only cause; `MasterDrains` that the mix-ups end
   once the database is read-only for good.
3. `readonly_switch_stored`. `README.md:244` says "The current state is stored in Redis". Two requests that overlap can
   be published in one order and stored in the other: both end with status 200, the processes use
   one value and Redis, the view and every process that starts later have the other.
   `SettledUsesStored` shows that without overlaps and failures the statement is true of every process, but one that restored its value while it was behind
   the last switch and that this switch did not reach afterwards.
4. `sql_log_handler_fatal`. A comment in `_write_logs` (`sqlalchemylogger/handlers.py:115`) says "if we really cannot commit the log to
   DB, do not lock the thread and do not crash the application". The first attempt catches only `SQLAlchemyError`. An
   exception that a driver raises outside its own hierarchy while it binds parameters (`UnicodeEncodeError`, `OverflowError`)
   ends the writer thread, and the queue grows for ever. `EveryLineLeaves` shows that nothing else does that.
5. `acceptance_retry`. The docstring of the decorator `retry` (`acceptance/__init__.py:25`) says of `tries`: "number of times to try
   (not retry) before giving up". The handler of the error begins with `f"{e:s}, Retrying in {mdelay:d} seconds..."` (line 39). An
   exception takes no format such as `s`, nor a float (the default delay) `d`: a `TypeError` leaves the decorator after the first failure, in
   place of the error of the function.

## 4. What is proved

Assumptions, named in the modules: `ConstantsDistinct`, `FiniteProcs`, `FaultBound` (`Broadcast`),
`SwitchesDistinct`, `FaultBound` (`ReadonlySwitch`), `EnginesDistinct` (`SessionFactory`), `LinesAssumption`,
`ChunkAssumption`, `FaultBound` (`SqlLogHandler`), `ChangesAssumption` (`LogLevels`), `NamesDistinct` (`HealthChecks`),
`SetupAssumption` (`BroadcasterSetup`), `NoneIsNothing` (`Access`), `ProfilerAssumption` (`SqlProfiler`), `StatAssumption` (`StatsReport`),
`GatherAssumption` (`Gather`), and `HealthAssumption`, `BindAssumption`, `AccessAssumption`, `PathAssumption`, `TestAssumption` in the
modules they are named after. They say that names are
distinct (those of the checks too: two with one name would share a gauge), that there are finitely many processes (answers are counted), callbacks of the
profiler and tables of the database, that the options of a command line are sequences, that a chunk holds a line at least,
that a stack is possible, and that sizes, limits and the bounds on failures, changes, events, requests, attempts and time are natural numbers.
The number of processes, calls, requests, threads and failures is arbitrary.

| Theorem | Module | Says |
|---|---|---|
| `TypeCorrect` | `BroadcastProofs` | `Spec => []TypeOK` |
| `OrderIsShared` | `BroadcastProofs` | `Spec => []SameOrder` |
| `AnswersAreCounted` | `AnswerProofs` | `Spec => []OneAnswerEach` |
| `CompleteAnswersAreComplete` | `AnswerProofs` | `Spec => []CompleteAnswers` |
| `Implementation` | `ScatterGatherProofs` | `Spec => ImplementsScatterGather` |
| `TypeCorrect`, `LastSwitchCorrect`, `SettledCorrect` | `ReadonlyProofs` | types, `LastSwitchPrevails`, `SettledUsesStored` |
| `ReceivedMayRun`, `UsesTheBroadcaster` | `ReadonlyProofs` | a callback of a received switch is never held back; `Spec => SG!Spec` |
| `TypeCorrect`, `AloneGetsItsEngine` | `SessionFactoryProofs` | types, `AloneIsRight` |
| `TypeCorrect`, `PipeCorrect`, `RowsAreOrdered`, `DropCorrect` | `SqlLogProofs` | types, `NothingLost`, `RowsInOrder`, `DropIsLocal` |
| `NothingStoredIsForgotten` | `OperationsProofs` | `LogSpec => []RestoredOrNewer` |
| `RepairedFailuresAreCleared`, `RedisIsReported` | `OperationsProofs` | `NoStaleFailure`, `RedisDownIsReported` |
| `StatementsAreExplainedOnce`, `NoListenerIsLeft` | `OperationsProofs` | `ExplainedOnce`, `ListenerOfRepository` |
| `NoSubscriptionIsLost` | `OperationsProofs` | `SetupSpec => []SubscriptionsKept` |
| `StatementsAreObservedOnce` | `RequestsProofs` | `TimingSpec => []ObservedOnce` |
| `EnginesComeBack`, `ChecksTryTheirEngines` | `RequestsProofs` | `BindComesBack`, `CheckTriesItsEngine` |
| `LogoutsHold`, `LinksAreAccepted`, `LoneLoginsComplete` | `RequestsProofs` | `LogoutHolds`, `LinkedIsAccepted`, `LoneLoginCompletes` |
| `FailuresAreCounted` | `RequestsProofs` | `PathSpec => []FailureIsCounted` |
| `FirstErrorIsRaised`, `SuccessesAreComplete` | `RequestsProofs` | `CauseIsRaised`, `SuccessIsComplete` |
| `ScrapesAreSets`, `AllStacksAreShown`, `TheBiggestAreKept` | `RequestsProofs` | `ScrapeIsASet`, `StacksAreComplete`, `BiggestAreKept` |
| `TestsPassForTheirReason` | `RequestsProofs` | `TestSpec => []NoFalsePass` |
| `OperationsTypes`, `RequestsTypes` | `OperationsProofs`, `RequestsProofs` | `MCSpec => []OperationsTypeOK`, `MCSpec => []RequestsTypeOK` |

The invariants behind them, and why they are needed:

* **Order** (`OrderInv`). That the callbacks already run are in order says nothing of the next one. The
  invariant speaks of each process's callbacks *followed by* the requests of its inbox, relates them to the
  log, and adds that a call is published once (it leaves the states before `PUBLISH` for good).
  A lost connection only removes from the inbox, a reconnection adds nothing.
* **Answers** (`AnswerInv`). Answers are counted, so one must know that an answer exists once: the answer of a
  process to a call is at one place at most, still to be sent by a running callback, in the inbox of the
  caller, or in the list. Each is of a process that was counted and that ran the callback. With that,
  a list without `None` as long as the number of receivers names them all, a counting argument
  over finite sets.
* **Refinement** (`PublishedInv`, with the two above). A call that waits was published, so that its end is an end in
  `ScatterGather`; `OrderInv` gives the guard of `Apply`, `CompleteAnswers` that of `Complete`.
* **The last switch** (`LastInv`). What a process has received or run was published; a process that starts while no request is under way and none begins (`disturbed`
  says otherwise) has run nothing and received nothing until it has restored, so that its restore cannot undo a callback.
* **Agreement with Redis** (`OrderlyInv`). As long as nothing failed or overlapped: there is one request at a time,
  the last published switch is the one being stored or the one stored last, and every process that serves and is not `outdated` *will* use it: it listens
  for the switch that is still to be published, or has its value once its mailbox is empty. A process that starts in the middle of a switch, or from a slave that is late, is covered as long as
  the switch is still to reach it. The property speaks of the end of a switch; the invariant says what holds in its middle.
* **The switch over the broadcaster** (`MailInv`). `Apply` has the guard of `SG!Apply`, so that a mailbox that disagreed with the broadcaster's log would
  silently stop the callbacks, and the safety properties would hold for that reason. The invariant says that what a process has received is
  addressed to it and in the order of the log, all of it after what the process has run.
* **Engines** (`IInv`). While an undisturbed call is under way no other one is, so what it set is still set.
* **Rows** (`OrderInv` of `SqlLogProofs`, with `NothingLost` and `DropIsLocal`, which are inductive given the types). That the rows are in
  order says nothing about a chunk that is about to be inserted: the invariant adds that a row is of a settled line, or
  of the chunk in hand if its first commit failed, so new rows come last or repeat that chunk. That a
  chunk never exceeds its limit needs `ChunkInv`: one that may get another line is not full.
* **Overrides** (`LevelInv`). The property speaks of a process that serves; `RecentInv` says the same of every logger whose
  key was read, or of the level that was read and is still to be set. It stays true because a value that was replaced never comes back (a change is stored once, `StoredInv`), and because no
  message in a mailbox is of a change that was stored before the process started (`InboxInv`: a change is published before it is stored).
* **Gauges, verdicts** (`GaugeInv`, `VerdictInv`). A message that clears a gauge is only taken out of the mailbox by the step that clears it;
  a check is run once in a view, and names are distinct, so a verdict is never given to another check.
* **The profiler** (`ExplainedInv`, `ListenerInv`). A statement is in the set of its repository before it is explained. With Redis
  one callback runs, and its step says whether there is a repository and whether it listens.
* **Subscriptions** (`SetupInv`). `StepInv` says what a thread holds at each step and that only the thread that sets up is at a replacement. `SubsInv` splits what the property promises: a subscription is
  being made (`BeingMade`), while no other thread is at an exchange, or it was made (`Made`), and then no thread is about to put another broadcaster in place on the strength of an older
  test; a replacement under way took the broadcaster that has it.
* **Statements** (`StackInv`, `ObservedInv`). The stack of a connection has the running statements of it, each once; one that runs has its listener
  on its own connection or was observed, so that its end finds it there. A connection is given back when nothing runs on it.
* **Engines of a thread** (`BindInv`, `FactoryInv`). Outside a request the engine is the master, so what the tween keeps is the master; a binding that nobody
  else entered since keeps the engine of the request. Without a tween there is one engine only, or a factory, which sets none. What a check has set on the factory is there until the second
  step of its call, unless a call of another thread came in between.
* **Logins** (`OutInv`, `StateInv`, `FreshInv`). A response that deletes the secret exists only where a secret is what counts; a response to a request of a tab in `after` sets no cookie, because
  the browser had none to send and gave none. The session has the state of each login that no other tab overlapped, from the moment that state is written. A page on its way
  back with protected sections brings the right secret with it.
* **Counters, errors, tests** (`CountInv`, `FirstErrorInv`, `VerdictOfTest`). A status of 500 or more of an error view comes from the exception that is counted, one of the data of a view from
  `request.response`. The reporter keeps an error exactly when the attempt has a failure, and it is the first; a transaction refuses statements only after one. A test of the print server is about
  the one report it submitted.

* **A complete report** (`StatInv`). As long as an attempt has reported no error, each statement of the tables that were listed and of the queries is left or has a value in the registry, its own or that of
  a query with the same sample; a sample that is overwritten stays covered by what overwrote it. The registry is
  what is pushed, so that a push without an error pushes all of them. The transaction of the thread has no session that the abort after the push does not end.
* **Merged answers** (`AnswersInv`, `MergedInv`). A receiver answers once on each channel, with its own stacks or with the sample of that channel; the output
  is the set of what the answers merged so far gave, without duplicates. For stacks none of the merged answers is missing, so at the end
  everyone's is there.
* **The biggest** (`BiggestInv`). The list is sorted and without repetition, no object that is not in it is bigger than its first, and it is short of the limit only
  when every object is in it. An insertion keeps the order because its place separates the smaller from the bigger ones.
* **Types.** Most are inductive. That of the profiler's repositories is not: they are numbered, and each creation is of another callback, so there are at most as many as
  callbacks past that step (`PastGrows`, by a counting argument). `BroadcasterSetup` needs `SetupInv` to know that the objects it refers to were created.
  The types of the two instances follow component by component: a behaviour of the instance is a behaviour of each of its components (`ComponentsBehave`).

Every invariant and every safety property of the passing runs is the subject of a theorem.
Left to TLC: `EveryCallSettles`, `AnswerChannelsReleased`, `MasterDrains`, `SwitchSpreads` and `EveryLineLeaves`. They are liveness under
fairness, which the proof system does not support (nor `ENABLED`). The five violated properties are
refuted by TLC's counterexamples.

## 5. Assumptions and limits

* redis-py and the Redis server are modelled from how the code uses them: a command on a broken
  connection raises; a `SUBSCRIBE` command is sent before its handler is recorded; a new connection
  subscribes again to every recorded handler and forgets which were being dropped; messages of one connection
  arrive in order or not at all. Commands are not retried by the client library. *The default configuration does not meet this*: `src/pyproject.toml` pins redis 8.1.0, which
  retries a command after a connection error, and `redis_utils` passes no retry option to `Redis.from_url` unless `C2C_REDIS_OPTIONS` has one. With retries a `PUBLISH` whose reply is lost is sent
  again, the call is published twice, and each process runs the callback and answers twice: `OneAnswerEach`, `CompleteAnswers`, `SameOrder` and `ImplementsScatterGather`, with
  what is proved from them, hold for a client that does not retry (or loses no reply). This is listed as a hazard and not modelled.
* One broadcast channel. Channels share the listener thread and nothing else; the property `SameOrder`
  is about one channel.
* Time is abstracted: a timeout may expire at any moment of the wait. That answers come before it when
  all is well is not claimed.
* Random answer channels never collide; a callback does not broadcast itself (it would wait for its own
  thread until the timeout).
* A crash of a process is, for the others, a process that takes no more steps (`Broadcast` allows that
  in every safety property) or whose connection is lost (`Disconnect`); `ReadonlySwitch` has it as `Stop`.
* The lines that the log handler itself logs (they come back to it when its own logger has the handler) and its filters are left out.
* Cookies: their expiry, the signature and the hash are taken to do what they are for; the end of a session, and what other pages of the application write to it, are left out. A browser applies the cookies of a response when it arrives.
* In the modules of `MCOperations` a broadcast reaches every process that listens at that moment, in one order; a lost connection of one process is a
  fault of `Broadcast` and `ReadonlySwitch` and is modelled there (`HealthChecks` has the loss of Redis for all of them).
* Some behaviours are in the models and excepted by the properties, because the code has them and no document denies them: a subscription lost to a replacement by another thread, a
  failure recorded after the success that should clear it, an engine of another thread's call, the slave tried for the master, a response counted by `request.response`, a first error hidden by
  `--extra-gauge` without `--extra` or by a failing push, a report served to nobody, a logout undone by a late response. Each comment of a property says which.
* Views and callbacks that only read (the queries without a value) change no state and are not actions.

### Not modelled

| Part | Why |
|---|---|
| `client_info.py` | a translation of headers of one request by string splitting, without state |
| `request_tracking/`, `redis_stats.py` | a header that is copied, a timer around a call: no order or failure that a property could be about |
| simplification of SQL texts (`stats_pyramid/`, `sqlalchemylogger/_filters.py`) | rewriting of text with regular expressions |
| collectors of `/proc` and of resources (`prometheus.py`), the other debug views | each reads the state of the interpreter or the system once |
| Sentry, set-up (`pyramid.py`, `setup_process.py`, `config_utils.py`) | configuration of external libraries. The order of inclusion matters and is cited where it does |
| formatters, JSON rendering, HTML of the index page, version file | formatting |
| screenshots, XML and composer helpers of `acceptance/` | external programs; one-shot reading of files |
| developer tools (`scripts/genversion.py`, `scripts/test_print.py`, ...) | command line tools that run once |

## 6. Plan

The modules planned first are written. What follows, in this order:

1. `LogLevels` and `HealthChecks` over `ScatterGather` by `INSTANCE`, as `ReadonlySwitch` is, with lost connections and liveness: an override reaches every process that listens.
2. The nesting of parentheses in the simplification of SQL as a function, against a reference definition.
