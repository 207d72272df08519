------------------------------ MODULE Shutdown ------------------------------
(***************************************************************************)
(* The graceful-shutdown tracker of the Go application runtime,            *)
(* runtimes/go/appruntime/shared/shutdown/shutdown.go.                     *)
(*                                                                         *)
(* A Tracker holds the shutdown handlers the parts of the runtime          *)
(* register.  The first call of Shutdown starts a Process: a small tree of *)
(* Go contexts, some with deadlines, and three goroutines that chain them, *)
(* while runShutdownHandlers runs every handler in a goroutine of its own. *)
(* The call ends in os.Exit.                                               *)
(*                                                                         *)
(* Handlers are arbitrary here: a running handler may mark any of the      *)
(* contexts the Process exports a Mark method for, any number of times,    *)
(* and may return, fail, panic or hang.  AppShutdown gives the handlers of *)
(* the runtime and is shown to implement this specification.               *)
(*                                                                         *)
(* Time: every deadline is a countdown.  Tick lets one unit (half a        *)
(* second) pass for all running timers, and is not possible while a timer  *)
(* is due: a Go timer fires well within a unit.  Goroutines on the other   *)
(* hand may be delayed for any number of units.                            *)
(***************************************************************************)
EXTENDS Integers, FiniteSets

CONSTANTS
    Handlers,   \* the functions passed to RegisterShutdownHandler
    Configs,    \* the runtime configurations the tracker may be created with
    Signals,    \* the signals the process may get, of SIGTERM and SIGINT
    Unset       \* the nil *time.Duration and the unset environment variable

(***************************************************************************)
(* A configuration: GracefulShutdown.Total, GracefulShutdown.Handlers, the *)
(* older ShutdownTimeout and ENCORE_K8S_GRACE_TERMINATION_SECONDS, in      *)
(* units.  Total, Handlers and the environment variable may be absent.     *)
(***************************************************************************)
Config == [total           : Int \cup {Unset},
           handlers        : Int \cup {Unset},
           shutdownTimeout : Int,
           k8sGrace        : Int \cup {Unset}]

ASSUME UnsetAssumption == Unset \notin Int
ASSUME ConfigsAssumption == Configs \subseteq Config
ASSUME SignalsAssumption == Signals \subseteq {"SIGTERM", "SIGINT"}

AtLeastZero(d) == IF d < 0 THEN 0 ELSE d

second == 2   \* time.Second in units

forceCloseTasksGrace == 1 * second
forceShutdownGrace   == 1 * second

forceShutdownAfter(c) ==
    IF c.total = Unset
      THEN IF c.shutdownTimeout <= 0 THEN 5 * second ELSE c.shutdownTimeout
      ELSE IF c.total - forceShutdownGrace <= 0
             THEN 1                                 \* 500 ms
             ELSE c.total - forceShutdownGrace

\* Mutant of cancelRunningTasksAfter: may be negative.
cancelRunningTasksAfterMutant(c) ==
    IF c.handlers = Unset
      THEN forceShutdownAfter(c) - forceCloseTasksGrace
      ELSE c.handlers

cancelRunningTasksAfter(c) ==
    AtLeastZero(IF c.handlers = Unset
                  THEN forceShutdownAfter(c) - forceCloseTasksGrace
                  ELSE c.handlers)

totalTime(c) == IF c.total = Unset THEN c.shutdownTimeout ELSE c.total

\* Mutant of keepAcceptingFor: forgets the grace that Total contains.
keepAcceptingForMutant(c) ==
    IF c.k8sGrace = Unset THEN 0 ELSE AtLeastZero(c.k8sGrace - forceShutdownAfter(c))

keepAcceptingFor(c) ==
    IF c.k8sGrace = Unset THEN 0 ELSE AtLeastZero(c.k8sGrace - totalTime(c))

timingsFromConfig(c) ==
    [keepAcceptingFor        |-> keepAcceptingFor(c),
     cancelRunningTasksAfter |-> cancelRunningTasksAfter(c),
     forceShutdownAfter      |-> forceShutdownAfter(c)]

processTimings == [keepAcceptingFor        : Nat,
                   cancelRunningTasksAfter : Nat,
                   forceShutdownAfter      : Nat]

-----------------------------------------------------------------------------
(***************************************************************************)
(* The callers of Tracker.Shutdown: the goroutine of                       *)
(* WatchForShutdownSignals and the main goroutine in App.Run.              *)
(***************************************************************************)
Callers == {"watcher", "main"}

Reasons == {"SIGTERM", "SIGINT", "error"}

ReasonsOf(c) == IF c = "watcher" THEN Signals ELSE {"error"}

(***************************************************************************)
(* The contexts of a Process.  Grace is the local `timeout' of the third   *)
(* goroutine.                                                              *)
(***************************************************************************)
Contexts == {"OutstandingTasks", "OutstandingRequests",
             "OutstandingPubSubMessages", "ForceCloseTasks", "ForceShutdown",
             "ServicesShutdownCompleted", "handlersCompleted",
             "ShutdownCompleted", "grace"}

Markable == {"OutstandingRequests", "OutstandingPubSubMessages",
             "ServicesShutdownCompleted"}

\* The contexts with a deadline, and the sleep in Shutdown.
Deadlines == {"OutstandingTasks", "ForceCloseTasks", "ForceShutdown", "grace"}
Timers    == Deadlines \cup {"keepAccepting"}

\* c and the contexts derived from it: ending c ends them all.
Tree(c) == CASE c = "OutstandingTasks" ->
                  {"OutstandingTasks", "OutstandingRequests",
                   "OutstandingPubSubMessages", "ForceCloseTasks"}
             [] c = "handlersCompleted" -> {"handlersCompleted", "grace"}
             [] OTHER -> {c}

VARIABLES
    timings,     \* t.timings
    initiated,   \* t.initiated is closed
    winner,      \* the caller inside once.Do and its reason, if any
    cpc,         \* where each caller of Shutdown is
    registered,  \* t.handlers
    ctx,         \* each context: not created, live, or ended and how
    left,        \* units left on each timer
    cause,       \* context.Cause of ShutdownCompleted
    gA, gB, gC,  \* the goroutines of beginShutdownProcess
    rpc,         \* the goroutine of runShutdownHandlers
    hpc,         \* each handler's goroutine
    exit         \* how the process exited

vars == <<timings, initiated, winner, cpc, registered, ctx, left, cause,
          gA, gB, gC, rpc, hpc, exit>>

NoWinner == [caller |-> "none", reason |-> "none"]

HandlerStates == {"idle", "running", "ok", "failed"}

\* Every variable keeps to the values the code gives it.
TypeOK ==
    /\ timings \in processTimings
    /\ initiated \in BOOLEAN
    /\ winner \in [caller : Callers, reason : Reasons] \cup {NoWinner}
    /\ cpc \in [Callers -> {"idle", "sleep", "begin", "await", "blocked"}]
    /\ registered \in SUBSET Handlers
    /\ ctx \in [Contexts -> {"none", "live", "canceled", "deadline"}]
    /\ left \in [Timers -> Nat]
    /\ cause \in {"none", "clean", "timeout"}
    /\ gA \in {"none", "requests", "pubsub", "done"}
    /\ gB \in {"none", "tasks", "handlers", "done"}
    /\ gC \in {"none", "force", "grace", "done"}
    /\ rpc \in {"none", "snapshot", "wait", "done"}
    /\ hpc \in [Handlers -> HandlerStates]
    /\ exit \in {"none", "exit0", "exit1"}

Done(c) == ctx[c] \in {"canceled", "deadline"}

\* ctx after c is ended the way how says, by cancel or by its deadline.
Ended(c, how) ==
    IF ctx[c] = "live"
      THEN [x \in Contexts |->
              IF x \in Tree(c) /\ ctx[x] = "live" THEN how ELSE ctx[x]]
      ELSE ctx

Cancel(c) == ctx' = Ended(c, "canceled")

NewTracker ==
    /\ timings \in {timingsFromConfig(c) : c \in Configs}
    /\ initiated = FALSE
    /\ winner = NoWinner
    /\ cpc = [c \in Callers |-> "idle"]

Init ==
    /\ NewTracker
    /\ registered = {}
    /\ ctx = [c \in Contexts |-> "none"]
    /\ left = [t \in Timers |-> 0]
    /\ cause = "none"
    /\ gA = "none" /\ gB = "none" /\ gC = "none"
    /\ rpc = "none"
    /\ hpc = [h \in Handlers |-> "idle"]
    /\ exit = "none"

-----------------------------------------------------------------------------
RegisterShutdownHandler(h) ==
    /\ h \notin registered
    /\ registered' = registered \cup {h}
    /\ UNCHANGED <<timings, initiated, winner, cpc, ctx, left, cause,
                   gA, gB, gC, rpc, hpc, exit>>

(***************************************************************************)
(* The first caller enters once.Do and closes t.initiated.  On SIGTERM it  *)
(* sleeps for keepAcceptingFor, if that is configured, before it begins.   *)
(***************************************************************************)
KeepsAccepting(reason) == reason = "SIGTERM" /\ timings.keepAcceptingFor > 0

ShutdownFirst(c, reason) ==
    /\ cpc[c] = "idle"
    /\ winner = NoWinner
    /\ winner' = [caller |-> c, reason |-> reason]
    /\ initiated' = TRUE
    /\ IF KeepsAccepting(reason)
         THEN /\ cpc' = [cpc EXCEPT ![c] = "sleep"]
              /\ left' = [left EXCEPT !["keepAccepting"]
                                        = timings.keepAcceptingFor]
         ELSE /\ cpc' = [cpc EXCEPT ![c] = "begin"]
              /\ UNCHANGED left
    /\ UNCHANGED <<timings, registered, ctx, cause, gA, gB, gC, rpc, hpc, exit>>

\* Mutants of ShutdownAgain.  A later call returns at once, as its doc comment
\* says (shutdown.go:232), so that App.Run and main return:
ShutdownAgainReturnsMutant(c) ==
    /\ cpc[c] = "idle"
    /\ winner # NoWinner
    /\ cpc' = [cpc EXCEPT ![c] = "blocked"]
    /\ exit' = IF c = "main" THEN "exit0" ELSE exit
    /\ UNCHANGED <<timings, initiated, winner, registered, ctx, left, cause,
                   gA, gB, gC, rpc, hpc>>

\* a later call, once the first is past its sleep, begins a process of its own:
ShutdownAgainBeginsMutant(c) ==
    /\ cpc[c] = "idle"
    /\ winner # NoWinner
    /\ cpc[winner.caller] # "sleep"
    /\ cpc' = [cpc EXCEPT ![c] = "begin"]
    /\ UNCHANGED <<timings, initiated, winner, registered, ctx, left, cause,
                   gA, gB, gC, rpc, hpc, exit>>

\* A later caller blocks in once.Do until the first one returns.
ShutdownAgain(c) ==
    /\ cpc[c] = "idle"
    /\ winner # NoWinner
    /\ cpc' = [cpc EXCEPT ![c] = "blocked"]
    /\ UNCHANGED <<timings, initiated, winner, registered, ctx, left, cause,
                   gA, gB, gC, rpc, hpc, exit>>

\* Mutant of StopSleeping: the sleep is cut short.
StopSleepingMutant(c) ==
    /\ cpc[c] = "sleep"
    /\ cpc' = [cpc EXCEPT ![c] = "begin"]
    /\ UNCHANGED <<timings, initiated, winner, registered, ctx, left, cause,
                   gA, gB, gC, rpc, hpc, exit>>

StopSleeping(c) ==
    /\ cpc[c] = "sleep"
    /\ left["keepAccepting"] = 0
    /\ cpc' = [cpc EXCEPT ![c] = "begin"]
    /\ UNCHANGED <<timings, initiated, winner, registered, ctx, left, cause,
                   gA, gB, gC, rpc, hpc, exit>>

(***************************************************************************)
(* beginShutdownProcess creates the contexts and starts the goroutines;    *)
(* Shutdown then starts runShutdownHandlers and waits in exitOnCompletion. *)
(* A context whose deadline is now is ended when it is created.            *)
(***************************************************************************)
\* Mutant of DeadlineOf: the grace is added to the wrong deadline.
DeadlineOfMutant(t) ==
    CASE t = "OutstandingTasks" -> timings.cancelRunningTasksAfter
      [] t = "ForceCloseTasks" ->
           timings.cancelRunningTasksAfter + forceCloseTasksGrace
      [] t = "ForceShutdown"   -> timings.forceShutdownAfter
      [] OTHER                 -> left[t]

DeadlineOf(t) ==
    CASE t = "OutstandingTasks" ->
           timings.cancelRunningTasksAfter + forceCloseTasksGrace
      [] t = "ForceCloseTasks" -> timings.cancelRunningTasksAfter
      [] t = "ForceShutdown"   -> timings.forceShutdownAfter
      [] OTHER                 -> left[t]

Created(c) ==
    CASE c = "grace" -> "none"
      [] c \in Deadlines \ {"grace"} /\ DeadlineOf(c) = 0 -> "deadline"
      [] OTHER -> "live"

beginShutdownProcess(c) ==
    /\ cpc[c] = "begin"
    /\ cpc' = [cpc EXCEPT ![c] = "await"]
    /\ ctx' = [x \in Contexts |-> Created(x)]
    /\ left' = [t \in Timers |-> DeadlineOf(t)]
    /\ gA' = "requests" /\ gB' = "tasks" /\ gC' = "force"
    /\ rpc' = "snapshot"
    /\ UNCHANGED <<timings, initiated, winner, registered, cause, hpc, exit>>

-----------------------------------------------------------------------------
\* Mutant of AwaitRequests: does not wait for the requests.
AwaitRequestsMutant ==
    /\ gA = "requests"
    /\ gA' = "pubsub"
    /\ UNCHANGED <<timings, initiated, winner, cpc, registered, ctx, left,
                   cause, gB, gC, rpc, hpc, exit>>

\* First goroutine: once both kinds of tasks are done, so are all tasks.
AwaitRequests ==
    /\ gA = "requests"
    /\ Done("OutstandingRequests")
    /\ gA' = "pubsub"
    /\ UNCHANGED <<timings, initiated, winner, cpc, registered, ctx, left,
                   cause, gB, gC, rpc, hpc, exit>>

AwaitPubSubMessages ==
    /\ gA = "pubsub"
    /\ Done("OutstandingPubSubMessages")
    /\ gA' = "done"
    /\ Cancel("OutstandingTasks")
    /\ UNCHANGED <<timings, initiated, winner, cpc, registered, left, cause,
                   gB, gC, rpc, hpc, exit>>

\* Mutant of AwaitTasks: does not wait for the tasks.
AwaitTasksMutant ==
    /\ gB = "tasks"
    /\ gB' = "handlers"
    /\ UNCHANGED <<timings, initiated, winner, cpc, registered, ctx, left,
                   cause, gA, gC, rpc, hpc, exit>>

\* Second goroutine: end ForceShutdown early once tasks and handlers are done.
AwaitTasks ==
    /\ gB = "tasks"
    /\ Done("OutstandingTasks")
    /\ gB' = "handlers"
    /\ UNCHANGED <<timings, initiated, winner, cpc, registered, ctx, left,
                   cause, gA, gC, rpc, hpc, exit>>

AwaitHandlers ==
    /\ gB = "handlers"
    /\ Done("handlersCompleted")
    /\ gB' = "done"
    /\ Cancel("ForceShutdown")
    /\ UNCHANGED <<timings, initiated, winner, cpc, registered, left, cause,
                   gA, gC, rpc, hpc, exit>>

(***************************************************************************)
(* Third goroutine: a ForceShutdown that was canceled is a clean shutdown; *)
(* one that reached its deadline gives the handlers another grace period.  *)
(***************************************************************************)
MarkShutdownCompleted(why) ==
    /\ gC' = "done"
    /\ cause' = why
    /\ Cancel("ShutdownCompleted")

ForceShutdownCanceled ==
    /\ gC = "force"
    /\ ctx["ForceShutdown"] = "canceled"
    /\ MarkShutdownCompleted("clean")
    /\ UNCHANGED <<timings, initiated, winner, cpc, registered, left,
                   gA, gB, rpc, hpc, exit>>

\* Mutant of ForceShutdownReached: gives no further grace.
ForceShutdownReachedMutant ==
    /\ gC = "force"
    /\ ctx["ForceShutdown"] = "deadline"
    /\ MarkShutdownCompleted("timeout")
    /\ UNCHANGED <<timings, initiated, winner, cpc, registered, left,
                   gA, gB, rpc, hpc, exit>>

ForceShutdownReached ==
    /\ gC = "force"
    /\ ctx["ForceShutdown"] = "deadline"
    /\ gC' = "grace"
    /\ ctx' = [ctx EXCEPT !["grace"] = ctx["handlersCompleted"]]
    /\ left' = [left EXCEPT !["grace"] = forceShutdownGrace]
    /\ UNCHANGED <<timings, initiated, winner, cpc, registered, cause,
                   gA, gB, rpc, hpc, exit>>

\* Mutant of GraceOver: waits for the handlers and not for the timeout.
GraceOverMutant ==
    /\ gC = "grace"
    /\ Done("handlersCompleted")
    /\ MarkShutdownCompleted("clean")
    /\ UNCHANGED <<timings, initiated, winner, cpc, registered, left,
                   gA, gB, rpc, hpc, exit>>

GraceOver ==
    /\ gC = "grace"
    /\ Done("grace")
    /\ MarkShutdownCompleted(IF ctx["grace"] = "canceled"
                               THEN "clean" ELSE "timeout")
    /\ UNCHANGED <<timings, initiated, winner, cpc, registered, left,
                   gA, gB, rpc, hpc, exit>>

-----------------------------------------------------------------------------
(***************************************************************************)
(* runShutdownHandlers takes the handlers registered so far, runs each in  *)
(* its goroutine and waits for all of them.                                *)
(***************************************************************************)
StartHandlers ==
    /\ rpc = "snapshot"
    /\ rpc' = "wait"
    /\ hpc' = [h \in Handlers |-> IF h \in registered THEN "running" ELSE hpc[h]]
    /\ UNCHANGED <<timings, initiated, winner, cpc, registered, ctx, left,
                   cause, gA, gB, gC, exit>>

HandlersReturned ==
    /\ rpc = "wait"
    /\ \A h \in Handlers : hpc[h] # "running"
    /\ rpc' = "done"
    /\ Cancel("handlersCompleted")
    /\ UNCHANGED <<timings, initiated, winner, cpc, registered, left, cause,
                   gA, gB, gC, hpc, exit>>

\* MarkOutstandingRequestsCompleted and its siblings, called by a handler.
HandlerMarks(h, c) ==
    /\ hpc[h] = "running"
    /\ Cancel(c)
    /\ UNCHANGED <<timings, initiated, winner, cpc, registered, left, cause,
                   gA, gB, gC, rpc, hpc, exit>>

\* A handler returns nil, or it returns an error or panics.
HandlerReturns(h, result) ==
    /\ hpc[h] = "running"
    /\ hpc' = [hpc EXCEPT ![h] = result]
    /\ UNCHANGED <<timings, initiated, winner, cpc, registered, ctx, left,
                   cause, gA, gB, gC, rpc, exit>>

exitOnCompletion(c) ==
    /\ cpc[c] = "await"
    /\ Done("ShutdownCompleted")
    /\ exit' = IF cause = "clean" THEN "exit0" ELSE "exit1"
    /\ UNCHANGED <<timings, initiated, winner, cpc, registered, ctx, left,
                   cause, gA, gB, gC, rpc, hpc>>

-----------------------------------------------------------------------------
\* Time.
Running(t) == IF t = "keepAccepting"
                THEN \E c \in Callers : cpc[c] = "sleep"
                ELSE ctx[t] = "live"

DeadlineExceeded(t) ==
    /\ ctx[t] = "live"
    /\ left[t] = 0
    /\ ctx' = Ended(t, "deadline")
    /\ UNCHANGED <<timings, initiated, winner, cpc, registered, left, cause,
                   gA, gB, gC, rpc, hpc, exit>>

Tick ==
    /\ \E t \in Timers : Running(t)
    /\ \A t \in Timers : Running(t) => left[t] > 0
    /\ left' = [t \in Timers |-> IF Running(t) THEN left[t] - 1 ELSE left[t]]
    /\ UNCHANGED <<timings, initiated, winner, cpc, registered, ctx, cause,
                   gA, gB, gC, rpc, hpc, exit>>

-----------------------------------------------------------------------------
\* The steps of the tracker's own goroutines and of its timers.
TrackerStep ==
    \/ \E c \in Callers : \/ StopSleeping(c)
                          \/ beginShutdownProcess(c)
                          \/ exitOnCompletion(c)
    \/ AwaitRequests \/ AwaitPubSubMessages
    \/ AwaitTasks \/ AwaitHandlers
    \/ ForceShutdownCanceled \/ ForceShutdownReached \/ GraceOver
    \/ StartHandlers \/ HandlersReturned
    \/ \E t \in Deadlines : DeadlineExceeded(t)

\* The steps of the runtime around it, and of the handlers.
EnvStep ==
    \/ \E h \in Handlers : RegisterShutdownHandler(h)
    \/ \E c \in Callers : \/ \E r \in ReasonsOf(c) : ShutdownFirst(c, r)
                          \/ ShutdownAgain(c)
    \/ \E h \in Handlers : \/ \E c \in Markable : HandlerMarks(h, c)
                           \/ \E r \in {"ok", "failed"} : HandlerReturns(h, r)

\* After os.Exit nothing moves.
Exited == exit # "none" /\ UNCHANGED vars

Next ==
    \/ exit = "none" /\ (TrackerStep \/ Tick \/ EnvStep)
    \/ Exited

(***************************************************************************)
(* The Go scheduler runs every runnable goroutine and fires every timer.   *)
(* Each of them takes a bounded number of steps, so it is enough that some *)
(* step is taken while any is possible.  Nothing is assumed of handlers.   *)
(***************************************************************************)
Alive(A) == exit = "none" /\ A

Fairness == WF_vars(Alive(TrackerStep)) /\ WF_vars(Alive(Tick))

Spec == Init /\ [][Next]_vars
FairSpec == Spec /\ Fairness
-----------------------------------------------------------------------------
(***************************************************************************)
(* Properties.                                                             *)
(***************************************************************************)

\* Exit code 0 promises that every shutdown handler that was started has
\* returned (runtimes/go/shutdown/shutdown.go:36), whichever of the three
\* goroutines and the two deadlines came first.
CleanExit == exit = "exit0" => /\ rpc = "done"
                               /\ \A h \in Handlers : hpc[h] # "running"

\* Exit code 1 is only for a shutdown that used up its whole window: the
\* ForceShutdown deadline was reached, and after it the whole grace period
\* passed without the handlers completing.
ForcedExit == exit = "exit1" => /\ ctx["ForceShutdown"] = "deadline"
                                /\ ctx["grace"] = "deadline"
                                /\ left["ForceShutdown"] = 0
                                /\ left["grace"] = 0

\* ForceShutdown is canceled ahead of its deadline only when all tasks are
\* over and all handlers have returned, so no handler sees the forced phase
\* while it could still have worked on.
EarlyForceShutdown == ctx["ForceShutdown"] = "canceled" =>
                        /\ Done("OutstandingTasks")
                        /\ rpc = "done"

\* On SIGTERM under Kubernetes no context exists and no handler runs (so the
\* server keeps accepting) until the whole of keepAcceptingFor has passed.
KeepAccepting == (KeepsAccepting(winner.reason) /\ ctx["OutstandingTasks"] # "none")
                    => left["keepAccepting"] = 0

\* The time from SIGTERM to a forced exit when timers fire and goroutines run on
\* time, which is the least it can be.
ForcedExitAfter == timings.keepAcceptingFor + timings.forceShutdownAfter
                     + forceShutdownGrace

\* With GracefulShutdown.Total set (to more than the fixed grace it contains),
\* even a shutdown that is forced to exit has kept accepting and, as far as the
\* configured durations go (see ForcedExitAfter), exited within the pod's grace
\* period, so the kubelet does not kill the app midway.
K8sWindow == (exit = "exit1" /\ winner.reason = "SIGTERM") =>
    \A c \in Configs :
       (/\ timings = timingsFromConfig(c)
        /\ Unset \notin {c.k8sGrace, c.total}
        /\ c.total > forceShutdownGrace
        /\ c.k8sGrace >= c.total) => ForcedExitAfter <= c.k8sGrace

\* OutstandingTasks is canceled, rather than timed out, only once both
\* OutstandingRequests and OutstandingPubSubMessages are over.
TasksEndTogether ==
    [][(ctx["OutstandingTasks"] = "live" /\ ctx'["OutstandingTasks"] = "canceled")
         => Done("OutstandingRequests") /\ Done("OutstandingPubSubMessages")]_vars

\* Tasks are given up on only after their contexts were canceled and
\* forceCloseTasksGrace passed: when OutstandingTasks reaches its deadline,
\* ForceCloseTasks had reached its own in an earlier step.
ForceCloseFirst ==
    [][(ctx["OutstandingTasks"] = "live" /\ ctx'["OutstandingTasks"] = "deadline")
         => ctx["ForceCloseTasks"] = "deadline"]_vars

\* There is one shutdown process however many callers race: no context that
\* ended is ever replaced, no handler is ever started a second time.
OneProcess ==
    [][/\ \A c \in Contexts : Done(c) => ctx'[c] = ctx[c]
       /\ \A h \in Handlers : hpc[h] \in {"ok", "failed"} => hpc'[h] = hpc[h]]_vars

\* Once shutdown is initiated the process exits, even if every handler hangs
\* and none marks its tasks completed: Encore waits for handlers "until the
\* ForceShutdown deadline is reached" (runtimes/go/shutdown/shutdown.go:85-88).
\* The comment on RegisterShutdownHandler (shutdown.go:180-182), that the process
\* "will not exit until all shutdown hooks have returned", is not what the code
\* does.
EventuallyExits == initiated ~> exit # "none"

(***************************************************************************)
(* What a comment says and the code does not do.                           *)
(***************************************************************************)

\* Traffic is kept "for almost all of that duration - minus what the Encore
\* runtime needs to perform a graceful shutdown" (shutdown.go:141-142).
ForcedExitInGracePeriod == (exit = "exit1" /\ winner.reason = "SIGTERM") =>
    \A c \in Configs :
       (/\ timings = timingsFromConfig(c)
        /\ c.k8sGrace # Unset
        /\ c.k8sGrace >= forceShutdownAfter(c) + forceShutdownGrace)
          => ForcedExitAfter <= c.k8sGrace
=============================================================================
