# TLA+ models of Encore

Encore is a development platform: a daemon and CLI that build and run an app
locally, parsers and code generators for Go and TypeScript, and the runtimes an
app is linked with. These modules model its concurrent Go code: in the
**application runtime** (`runtimes/go`) how an app shuts down, how Pub/Sub
messages reach workers and are retried, and how requests are counted and traced;
in the **CLI daemon** how a running app is reloaded when its source changes; and
the **process supervisor** of a deployed container.

## 1. Inventory

| Part | State it keeps | Operations | Talks to |
|---|---|---|---|
| shutdown tracker, `appruntime/shared/shutdown/shutdown.go` | `timings`, `initiated`, `once`, `handlers`; per process a tree of contexts | `RegisterShutdownHandler`, `Shutdown`, `Mark...Completed` | called by a signal goroutine, by `App.Run`; calls every manager's `Shutdown` |
| app main, `appruntime/apisdk/app/app.go` | position in `Run` | `Run`, `Start` | tracker, API server, service manager |
| API server, `appruntime/apisdk/api/server.go` | `httpCtx`, `runningHandlers`, `httpsrv` | `Serve`, request handling, `Shutdown` | tracker |
| Pub/Sub manager, `pubsub/manager_internal.go`, `internal/utils/contexts.go`, `subscription.go` | three derived contexts, `runningHandlers`, `runningFetches` | subscription callback, `Shutdown` | tracker, providers, work pool |
| work pool, `pubsub/internal/utils/workers.go` | channels, atomic counter, `fetchCtx` | `WorkConcurrently` | provider's fetch, subscription callback |
| NSQ provider and retry policy, `pubsub/internal/nsq/topic.go`, `internal/utils/utils.go` | `err` shared by the goroutines of a subscription, deliveries in hand | `Subscribe`, `GetDelay` | go-nsq, nsqd, subscription callback |
| request tracker and trace log, `appruntime/shared/reqtrack`, `exported/trace2/log.go`, `shared/platform/streaming_trace.go` | each goroutine's operation and request, `refs`, `Log.data`, `Log.done` | `BeginOperation`, `BeginRequest`, their ends, `Log.Add`, `StreamTrace` | the platform, over HTTP |
| service manager, `appruntime/apisdk/service/service.go` | hooks, initialised services | `InitializeServices`, `Shutdown` | tracker, user code |
| database, cache, metrics managers | connections | `Shutdown` | tracker |
| file watcher, `pkg/watcher`; watch loop, `cli/daemon/apps/apps.go` | batch of events, debounced signal; subscribers | `WaitForEvents`, `Watch`, `Unwatch` | fsnotify, run manager |
| daemon run manager, `cli/daemon/run` | `Run.proc`, `exited`, process groups | `start`, `Reload`, `buildAndStart`, `ProcGroup.Start`, `Close` | builder, app processes, watcher |
| process supervisor, `pkg/supervisor` | `generation`, `retrySleep`, `healthy` | `Supervise` | the supervised process |
| object storage manager, health registry, Rust supervisor and core runtime, JavaScript bindings, parsers, code generators, Redis emulator | | | not modelled, see section 6 |

What is hard here:

* *Interleavings.* A signal races the main goroutine; three goroutines chain
  contexts; each handler has a goroutine of its own and starts more; requests
  and messages start and end throughout; a reload races the monitor of the group
  it replaces; a late check races a restart.
* *Deadlines racing completion.* Whether the exit is clean is read from which of
  two things happened to a context first; nsqd redelivers a message while its
  first handler still works on it.
* *Shared variables without a lock.* `err` of an NSQ subscription.
* *Snapshots and stale values.* Handlers and hooks are copied at some moment;
  a generation is captured before a process starts; a signal is for a batch that
  has been taken already.
* *Arithmetic* of durations and back-offs, and sentinel values.
* *Counters read by one goroutine and changed by others*, non-blocking sends and
  signals that may be lost, unbuffered sends that may block.

The hazards are listed line by line in `PROJECT.json`, with the properties that
answer them.

## 2. Modules

| Module | Models | Composes |
|---|---|---|
| `Shutdown` | the tracker, with arbitrary handlers | |
| `AppShutdown` | the app: main, API server, Pub/Sub, services, infrastructure | `Shutdown` (extends and implements it) |
| `WorkQueue` | abstract: what `WorkConcurrently` promises a provider | |
| `WorkPool` | `workInWorkPool` | implements `WorkQueue` |
| `NsqSubscription` | `Subscribe` of the NSQ provider, `GetDelay`; go-nsq and nsqd as the code uses them | |
| `ReqTrack` | one operation of the request tracker, its trace log and the streaming goroutine | |
| `LiveReload` | file watcher, watch loop, one `Run` with its process groups, its monitor | |
| `Supervisor` | `supervisedProc.Supervise` | |
| `MC...` | constants for TLC | |
| `...Proofs` | theorems, one module for each of `Shutdown`, `AppShutdown`, `WorkPool`, `NsqSubscription`, `ReqTrack`, `LiveReload`, `Supervisor` | |

Definitions whose name ends in `Mutant` are not part of the models: each is a
faulty version of the definition it precedes, and shows that some property would
notice that fault.

### Shutdown

Variables correspond to the fields of `Tracker` and `Process`: `ctx` gives each
context as not created, live, canceled or past its deadline (what `Err` returns);
`Tree` is the derivation of contexts, so that ending one ends those derived from
it. `cpc` is where each of the two callers of `Shutdown` is: the first goes
`idle -> sleep -> begin -> await`, a later one stays `blocked` in `once.Do` (the
comment on `Shutdown`, that a second call "returns immediately", is not what
`sync.Once` does, and it is as well: `CleanExit` would fail, as its mutant shows).
`gA`, `gB`, `gC` are the three goroutines of `beginShutdownProcess`, `rpc` is
`runShutdownHandlers`, `hpc` the handlers' goroutines. `exit` is the call of
`os.Exit`, after which nothing moves.

A handler is arbitrary. It may call any `Mark` method any number of times, and
return, fail or hang. Properties of `Shutdown` thus rest on nothing a handler does.

*Time.* One unit is half a second, the smallest duration in the code. A deadline
is a countdown; `Tick` takes one unit off every running timer and is not possible
while one is due. So timers fire promptly, but goroutines may be delayed for any
number of units, which is where the races are. Durations are unbounded
mathematical integers: `time.Duration` is 64 bits of nanoseconds, and overflow
would need a configuration of centuries.

Absent settings (`nil` pointers, an unset environment variable) are the constant
`Unset`. An `ENCORE_K8S_GRACE_TERMINATION_SECONDS` that is not a number panics
before anything starts and is not modelled.

### WorkQueue and WorkPool

`WorkQueue` is the provider's view: messages are handed out up to a limit, each is
finished once, possibly after the call has returned, and none is dropped before
the call gives up. `Queue` maps the pool to it: what the fetcher or a worker holds
is handed out, and the call gives up when `fetchCtx` is done. The limit is
`maxConcurrency` plus one batch (see the finding below).

In `WorkPool` there is one action for each step of the fetcher that another
goroutine could see: the loop's check of its context, the load of the counter, the
moment between deciding to wait and waiting (`full` before `select`: the lost wakeup
lives there), the cases of both `select` statements, the fetch, the return with its
deferred calls. A worker receives, adds one, processes, subtracts one, and signals
without blocking. A panic in a fetch or a handler is turned into an error by
`WorkConcurrently`, so it is one of the failing cases. Items are not told apart.
A fetch returns at most as many items as were asked for (external: the provider's
contract in the comment on `WorkFetcher`).

### AppShutdown

`EXTENDS Shutdown`: the actions of the handlers are conjunctions with
`HandlerMarks` and `HandlerReturns`, so each step of the app that touches the
tracker is one of the tracker's own actions. The handlers are `api`, `pubsub`,
`services` and `infra`; the last stands for the database, cache and metrics
managers, whose `Shutdown` methods wait for the same two contexts in the same
order. Handlers other than `api` are registered during package initialisation, with
the signal watcher already running, so a signal may come before all are.

A request or message passes through `arrived` (accepted, context not yet checked),
`admitted` (checked, not yet counted) and `running` (counted). `httpsrv.Shutdown`
is external: it stops the listener, then waits for connections to be idle or for
`ForceShutdown`; `Serve` closes the listener when it returns. Provider fetches are
external too.

`early` is a history variable: the tasks that were running when their manager's
`Shutdown` began. It appears in properties only, and holds both kinds of task, which are
different things (`TasksAssumption`).

In `AppShutdown` a unit passes only when no goroutine of the *runtime* can move
(`QuietTick`): none of them computes, so none is held up for half a second.
Without that, no statement about how long a task has left after its context is
canceled could hold. User code takes as long as it likes.

### NsqSubscription

A handler goes `unmarshal -> unmarshaled -> callback -> running -> called`, and
through `deferred` when it has not answered. A callback that runs when its context is
canceled may still succeed. The variable `err` of `Subscribe` is captured
by every handler and by the connecting goroutine. That is a data race: a test may see
the value the goroutine itself assigned, which the compiler may keep in a register,
or what is in memory by then (`Seen`). `own` is the former, `errBy` a history
variable: who assigned last. The connecting goroutine assigns and tests like the
others; it may fail to connect (`ConnectFails`), and its panic ends the app. A message is `queued`, `inflight`, `requeued` or
`finished` in nsqd; `MsgTimeout` puts it back while the first handler goes on, and
the late answer is then ignored. go-nsq itself gives up on a message after
`MaxAttempts`. `GetDelay` is `Depleted` and `Backoff`, its loop a recursive function;
delays have no duration of their own (`DelayOver`). Back-offs are counted in a unit
that divides a second (`Second` units make one), so policies with a minimum or a
maximum below a second are among those considered. `NewSubscription` refuses negative
back-offs and puts a default in place of zero, so both are positive, which is all the
assumption on `Subscriptions` says. `MaxAttempts` keeps the conversion to `uint16`, and
the count of attempts wraps around as nsqd's `uint16` does.

### ReqTrack

One operation. `op` and `req` are what a goroutine's `encoreG` points to, `refs` the
count. A goroutine that is started inherits operation and request without being
counted, as in `startEncoreG`. `decRef` is a step for the count, one for the load of
`trace` (`LoadTrace`), and then `MarkDone`, `initStream` and the wait for the stream;
between any two of them anything may happen, such as a late traced request. The log is the number of its events. `asleep` is the streaming goroutine
in `cond.Wait`; `WaitAtLeast` looks at the clock only when it is woken, so it may
sleep on. An operation may come back to life: a goroutine that outlives it may begin
a request when the count has been 0 (`late`, `fell`), and events added after the log
is done may not be sent. The platform is external: it answers at the end of the
request's body, or the request fails.

### LiveReload

The source is a number, the user's changes so far. `raw` is what fsnotify has
reported, `batch` is `Watcher.events`; a change of the user's code and the code that a
build generates are told apart, as `ignoreEvent` does. A third kind of change is
`unnoticed`: the watcher records created, written and removed files, and passes over
renames, the files of a directory that was just created, a file that `os.Stat` cannot
find, and errors of fsnotify. `due` is a history variable, the last change that came
while the callback was registered and whose event is recorded; `Converges` speaks of
that change and those before it. The watch loop takes a batch,
calls the run's callback, and stays in `reload` until that returns, so changes
meanwhile find nobody waiting. `buildAndStart` is parse, compile (either may fail, as
one step each), the start of each process of the new group in turn, the swap of
`Run.proc`, and the close of the group before. Processes may crash at any time;
`Close` and the end of the context make them exit. The exit of a process and the
return of `cmd.Wait`, which also waits for the output pipes, are one step: a process is
up until both. `Uncount` is `runningProcs--`, a
step of its own, which needs the lock that `Start` holds. The monitor loads, waits and
loads again. The callback may be registered after the run has exited and is removed
by a goroutine of its own, so a reload may begin after the end.

### Supervisor

The loop of `Supervise` and the check goroutines. Time is not counted: a check looks at
any time after its process was started. `failedAt` is a history variable, the process
started last when a failure was last recorded under the lock.

## 3. Runs

| Run | Shows | States |
|---|---|---|
| `shutdown` | safety, action and liveness properties of the tracker | 597,868 |
| `app` | the composition, and that it implements the tracker | 1,969,537 |
| `workpool` | properties of the pool, and that it implements `WorkQueue` | 6,562 |
| `nsq` | what becomes of a message, and how long it waits | 631,440 |
| `reqtrack` | traces are complete, and end | 424,128 |
| `livereload` | reloads converge, the run ends when it should, processes go with it | 1,130,537 |
| `supervisor` | restarts, back-off and health | 32,804 |
| `shutdown_k8s`, `workpool_doc`, `app_requests`, `app_connections`, `nsq_err` | five places where a comment or the documentation says something else than the code does | violation |

Deadlock is not checked where the system may stop: a pool that has returned, a run
that has exited, an operation that is over.

**shutdown.** Two handlers (one may finish while the other hangs, or be
registered late), both signals, and three configurations: one under Kubernetes
with a keep-accepting sleep whose task deadline coincides with the forced
shutdown; one with an explicit handler timeout; and the older `ShutdownTimeout`,
so short that running tasks are canceled at once, which makes a deadline lie at
the start. `CleanExit`, `ForcedExit` and `EarlyForceShutdown` say what the exit
codes and an early end of `ForceShutdown` mean; `KeepAccepting` and `K8sWindow`
relate the exit to the configured windows; `TasksEndTogether`, `ForceCloseFirst`
and `OneProcess` say what no step may do; `EventuallyExits` is liveness, with handlers
that may hang for ever. `K8sWindow` adds up the configured durations: the exit comes
then if timers fire and goroutines run on time, and later if not.

**workpool.** Three workers and batches of at most two: a batch may be smaller
than the pool, all workers may be busy, and a batch may wait for workers while
others finish. `CountExact` and `NoItemLost` are safety, `QueueSpec` is the
refinement, `NoStuckFetcher`, `ReturnsWhenDone`, `WorkersEnd` are liveness.

**app.** One request, one message and one service. One of each suffices for every
order in which the *kinds* of tasks end, which is what the tracker distinguishes;
within a kind the code only compares a count with zero. A single configuration, in
which the deadline for the tasks and the beginning of the forced phase fall
together (the narrowest case), since the timings are varied in `shutdown`.

**nsq.** Two handlers and two messages, so that a message may be in the hands of both,
or each overwrite the other's `err`; one message malformed where retries are limited.
Five policies: no retries, by `NoRetries` and by 0; a limit of two with a minimum above
the maximum, and with both below a second; retries for ever with a minimum below a
second and a limit that is not a power of two. `MaxFailures` bounds, per message, the
attempts at which the callback may fail of its own accord: two for the one, which is the
limit of the limited policies and where the back-off of the last reaches its limit, one
for the other, which is the malformed one. A message may time out before that attempt.

`LostOnlyByOverwrite` says when a message is given up and when the app panics. `UsedUp`
counts deliveries and uses neither `Depleted` nor `MaxAttempts`, so it is a statement
about both: with a limit n > 0 a message is delivered n times, with 0 it is given up at
its first failure. `BackoffExact` compares the loop of `GetDelay` with its closed form;
`Settled` is liveness.

**reqtrack.** Three goroutines: the one that begins the operation, one it starts and
one that starts from either, so that a request may end between two others, or begin
late; three events, one before, one during and one after the last read. `LiveNotDone`
and `CompleteTrace` are safety, `StreamEnds` liveness.

**livereload.** Two changes (the second may come in any step of the reload that the
first set off) and two processes per group (one may crash, or fail to start, while
the other is up). `NoSelfTrigger`, `ReloadKeepsRun`, and for liveness `Settles` and
`Converges`.

**supervisor.** Four failures and four starts before clean exits end: the back-off
reaches its limit and checks of several processes are pending at once.
`OnlyFreshChecks` is an action property, `Restarted` and `HealthyInTheEnd` liveness.
`OnlyFreshChecks` says that the check of the running process acts and that one from
before the last recorded failure does not. It leaves a gap on purpose, the checks of a
process that has ended without a recorded failure: those act, too (see the findings).

**Findings.** The first five are violations that TLC finds. For the others a property of
a passing run states what the code does, and a comment says something else.

* `shutdown_k8s`: `keepAcceptingFor` subtracts `ShutdownTimeout`, but the shutdown
  also needs `forceShutdownGrace`; with `GracefulShutdown.Total` the grace is
  contained and all is well (`K8sWindow`).
* `workpool_doc`: more than `maxConcurrency` items can be fetched and in process,
  because an item counts only once its worker has run: with a limit of two, one item is
  with a worker that has not counted it yet when two more are fetched. One batch more
  is what does hold (`QueueSpec`, and the theorem on `OutstandingBound`).
* `app_requests`: a request that was accepted but not counted runs on after
  `OutstandingRequests` was canceled.
* `app_connections`: Pub/Sub connections close before requests and service hooks end.
* `nsq_err`: a message whose handler failed is finished rather than retried when
  another goroutine stores nil in the shared `err` before it is tested. The model
  also has the app's panic in the connecting goroutine for an error of a handler.
* `EventuallyExits`: the process exits although shutdown hooks hang. That is what the
  documentation of `shutdown.Handler` says, and not what the comment on
  `RegisterShutdownHandler` does.
* `OnlyFreshChecks`: a check resets the back-off and reports the service healthy, "still
  alive", also when its process has exited with status 0, or has failed and `errSleep`
  has not yet taken the lock. In the second case the service is reported healthy all
  through the back-off.
* `LostOnlyByOverwrite`: on NSQ `MaxRetries` is the number of attempts, not of retries,
  and 0 means no retry; `RetryPolicy` documents n retries, and 100 for 0.

## 4. Fairness

*Tracker.* Weak fairness of the tracker's own steps (`TrackerStep`) and of
`Tick`: the Go scheduler runs runnable goroutines and timers fire. Each goroutine
of a process takes finitely many steps, so fairness of their disjunction is
enough. Nothing is assumed of handlers or callers.

*Pool.* Weak fairness of the fetcher's steps (its ticker among them) and of each
worker's own steps. A fetch is assumed to return only once its context is
canceled; a message handler is never assumed to return.

*NSQ.* Weak fairness of each handler and of the connecting goroutine; a callback
returns, because its context has a deadline. nsqd delivers what is queued (strong
fairness: the handlers may be busy time and again). None for `MsgTimeout`: an answer
must not depend on it.

*Request tracker.* Weak fairness of `decRef` and of the streaming goroutine with the
platform's answer. A goroutine need not finish its request, and the clock of
`WaitAtLeast` is not assumed to matter.

*Live reload.* Weak fairness of goroutines, timers, builds and of the exit of a process
that was told to; the daemon's request, and with it the context, ends once the run has
exited (`cli/daemon/run.go`). Nothing makes the user change anything or leave, nor a
process crash.

*Supervisor.* Weak fairness of the loop, the start of a process and the checks;
nothing makes a process exit.

The app's run checks safety only.

## 5. Proofs

`tlapm` checks all of it; nothing is assumed but the named `ASSUME`s on constants,
which TLC evaluates for the instances.

**ShutdownProofs**, for every set of handlers and of configurations. `CleanExit`
is not inductive: that exit 0 implies `rpc = "done"` depends on why
`ShutdownCompleted` was closed, which depends on how `ForceShutdown` or the grace
context ended, which depends on what the second goroutine or `handlersCompleted`
did. `IInv` has one conjunct per link of that chain: `OnlyWinner` (only the caller
in `once.Do` proceeds), `CreatedOnce` (nothing of the process exists before
`beginShutdownProcess`, everything after), `HandlersInv`, `EarlyInv`, `GraceInv`,
`CompletedInv`; `TasksInv` (the two task deadlines run in step, one grace apart),
`DrainInv` and `SleepInv` serve `ForceCloseFirst`, `TasksEndTogether` and
`KeepAccepting`. All safety properties of the run follow, the action properties
with lemmas on what ends a context (`EndedEffect`, `TasksEnd`, `EndedStays`).
`K8sWindow` is arithmetic over `timingsFromConfig`. `OutcomeInv` says how the task
contexts ended and so why: the tasks as a whole are `canceled` only if requests and
messages each were, and end by their deadline otherwise.

**WorkPoolProofs**, for every pool of at least two workers and every batch size:
`PoolInv` ties the counter to the cardinality of the counted workers and the batch
to the fetcher's position; `CountExact`, `OutstandingBound` and `NoItemLost` follow,
and `QueueRefinement`: every step of the pool is, under the mapping, a step of
`WorkQueue` or changes neither of its variables. That `held` falls by one when a worker
is done, and by nothing when an item passes from the fetcher to a worker, is counting
of `Holding`; that a fetch stays within the limit is `PoolInv`.

**AppShutdownProofs**, for any requests, messages and services: every step of the
app is a step of the tracker or leaves it alone (`AppStep`), so `AppSpec => Spec`
(`Refinement`) and the tracker's theorems hold of the app (`AppCleanExit`).
`InfraLast` needs `InfraInv` and that an ended context stays ended. `AppTypeOK` is
inductive as it stands once the tracker's `TypeOK` is known.

`RunsUndisturbed` needs `RequestsInv` and `MessagesInv`: a task of `early` that still
runs holds its manager in `wait`, so its kind has not been marked as completed
(`MarkedBy`: only the manager concerned marks it) and by `OutcomeInv` only deadlines can
have ended its contexts. The argument is made once for each kind of task, hence
`TasksAssumption`: no request is a message.

`CleanExitDrained` needs `StartedInv` (the api handler is registered last, so when it
was started all four were) and `ReturnedInv` (what each handler has done by the time it
returns, and that it stays done: a stopped listener is not reopened because `Run` is
taken once).

`ForceClosedInTime` is proved under `Prompt`: no unit passes while the handlers are yet
to be started, or while `Server.Shutdown`, `Manager.Shutdown` or one of their watchers
is runnable. That is the part of `~ENABLED RuntimeStep` in `QuietTick` the argument
uses; the provers treat `ENABLED` as a black box, so it appears as a hypothesis. Each
disjunct of `Overdue` is the guard of a `RuntimeStep`, and TLC checks
`ForceClosedInTime` with `QuietTick` itself. `CanceledInv` is the invariant: from the
first unit of the grace on, no handler is started any more and the contexts of the
running ones are canceled. Only time starts the grace (`GraceBegins`), because the two
task deadlines run in step (`TasksInv`).

**SupervisorProofs**, for every range of the back-off: generations and failures
correspond, `c.gen = generation <=> c.proc > failedAt` for every pending check, which
is inductive because the generation captured at the top of the loop stays current until
a failure is recorded; and the process the loop waits for was started after the last
recorded failure, so that its check, if it is up, acts.

**NsqSubscriptionProofs**, for any handlers, messages and policies:
`LostOnlyByOverwrite`, from `OwnErr` (as long as nobody else has assigned `err`, it is
what the goroutine's own call returned, the connecting goroutine's included) and
`Counted` (a message that nsqd keeps has been delivered at most `MaxAttempts` times, so
the delivery that go-nsq drops is the one after the last that `UsedUp` allows).
`BackoffClosedForm` compares the doubling loop
of `GetDelay` with `min(max, base * 2^n)` for every policy and attempt, the early exit
at the maximum and a minimum above the maximum included; `BackoffExact` and `TypeOK` (no
wait above `MaxBackoff`, or a second before an attempt 0) follow. The induction theorems of the library are out of reach
here, so `LeastNatural` (a non-empty set of naturals has a least element) takes their
place, and that powers of two double is counted on sets of subsets (`PowerDoubles`).

**ReqTrackProofs**, for any finite set of goroutines and any number of events. `RefCount`
makes the count the number of requests that goroutines have begun, plus the operation;
`FellOnce` says that once it has been 0 only late requests run, and that nothing is
marked before; `Members` that a goroutine with a request takes part in the operation
(without it a goroutine that starts could take a request over); `LogExact` that
what was sent and what is in the log is what was added. `TypeOK` (the count never below
0), `LiveNotDone` and `CompleteTrace` follow.

**LiveReloadProofs**, for any number of processes and changes. `NoSelfTrigger` needs
`ChangesUsed`: the builds so far, one about to begin, and user changes on their way
through watcher, batch and loop are together no more than the changes and the first
build. `ReloadKeepsRun` needs `GroupOrder` (closed groups are older than the one in use)
and `MonitorOrder` (the monitor tests only a group whose processes are gone).

*Only model-checked:* all liveness (`EventuallyExits`, `NoStuckFetcher`,
`ReturnsWhenDone`, `WorkersEnd`, `Settled`, `StreamEnds`, `Settles`, `Converges`,
`Restarted`, `HealthyInTheEnd`), which is out of this prover's reach; and
`ForceClosedInTime` without the hypothesis `Prompt`, which rests on `ENABLED`. Every other
property of a passing run is a theorem.

## 6. Not modelled, and the plan

Left out of the modelled parts: logging, the contents of trace events, error texts, HTTP
and message encoding, database pools and migrations, publishing, the parallel jobs
inside a build, the set of watched directories, several runs of one app. `App.Run`
failing to listen ends the program before anything of interest.

Not modelled at all: the Rust core runtime and the JavaScript bindings (a second
runtime, mostly I/O and glue), the Rust supervisor, the parsers and code generators
(sequential transformations of syntax trees: most of the repository's lines, and out of
a model checker's reach), generated protocol code, the Redis emulator, the health
registry and the object storage manager.

Next, in this order:

1. `WorkPool`: the single and the unlimited routine as further implementations of
   `WorkQueue`; the provider's retry loop with several generations of pools.
2. `AppShutdown`: the object storage handler; the setup `Once` of services with its
   retry after an error.
3. The health registry and the Rust supervisor.
