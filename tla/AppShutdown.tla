---------------------------- MODULE AppShutdown ----------------------------
(***************************************************************************)
(* The Go application runtime shutting down: the tracker of Shutdown with  *)
(* the handlers the runtime registers on it.                               *)
(*                                                                         *)
(*   api       Server.Shutdown, apisdk/api/server.go                       *)
(*   pubsub    Manager.Shutdown, pubsub/manager_internal.go                *)
(*   services  Manager.Shutdown, apisdk/service/service.go                 *)
(*   infra     Manager.Shutdown, storage/sqldb/manager_internal.go; the    *)
(*             cache and the metrics managers wait for the same contexts   *)
(*             before they close their connections                         *)
(*                                                                         *)
(* Around them are the main goroutine of App.Run, API requests, Pub/Sub    *)
(* messages and services that initialise and shut down.  User code (request *)
(* and message handlers, service setup and shutdown hooks) may hang.       *)
(***************************************************************************)
EXTENDS Shutdown

CONSTANTS Requests,  \* API requests
          Messages,  \* Pub/Sub messages
          Services   \* the services whose struct has a Shutdown method

ASSUME HandlersAssumption == Handlers = {"api", "pubsub", "services", "infra"}
ASSUME TasksAssumption == Requests \cap Messages = {}  \* a task is of one kind

VARIABLES
    mpc,        \* the main goroutine: package initialisation, then App.Run
    listening,  \* the HTTP server accepts connections
    req,        \* each API request
    httpCtx,    \* the server's base context is canceled
    httpWatch,  \* the goroutine that waits for ForceCloseTasks
    apc,        \* Server.Shutdown
    srv,        \* the goroutine inside httpsrv.Shutdown
    msg,        \* each Pub/Sub message
    psCtx,      \* which of the Pub/Sub contexts are canceled
    psWatch,    \* the goroutine that waits for ForceCloseTasks
    ppc,        \* Manager.Shutdown of pubsub
    svc,        \* each service's initialisation
    hook,       \* each service's shutdown hook
    spc,        \* Manager.Shutdown of services
    ipc,        \* Manager.Shutdown of sqldb
    early       \* history: tasks running when the drain of their kind began

apiVars == <<listening, req, httpCtx, httpWatch, apc, srv>>
psVars  == <<msg, psCtx, psWatch, ppc>>
svcVars == <<svc, hook, spc>>
appVars == <<mpc, apiVars, psVars, svcVars, ipc, early>>
allVars == <<vars, appVars>>

TaskStates == {"none", "fetching", "arrived", "admitted", "running", "done", "rejected"}

\* Every variable keeps to the values the code gives it.
AppTypeOK ==
    /\ TypeOK
    /\ mpc \in {"init", "run"}
    /\ listening \in BOOLEAN
    /\ req \in [Requests -> TaskStates \ {"fetching"}]
    /\ httpCtx \in BOOLEAN
    /\ httpWatch \in {"none", "waiting", "done"}
    /\ apc \in {"start", "wait", "result"}
    /\ srv \in {"none", "close", "drain", "ok", "failed"}
    /\ msg \in [Messages -> TaskStates]
    /\ psCtx \in {{}, {"Fetch"}, {"Fetch", "Handler"},
                  {"Fetch", "Handler", "Connection"}}
    /\ psWatch \in {"none", "waiting", "done"}
    /\ ppc \in {"start", "wait", "close", "closed"}
    /\ svc \in [Services -> {"init", "ready", "failed"}]
    /\ hook \in [Services -> {"none", "registered", "running", "done"}]
    /\ spc \in {"start", "wait", "marked"}
    /\ ipc \in {"services", "tasks", "close", "closed"}
    /\ early \in SUBSET (Requests \cup Messages)

AppInit ==
    /\ Init
    /\ mpc = "init"
    /\ listening = FALSE
    /\ req = [r \in Requests |-> "none"]
    /\ httpCtx = FALSE
    /\ httpWatch = "none"
    /\ apc = "start"
    /\ srv = "none"
    /\ msg = [m \in Messages |-> "none"]
    /\ psCtx = {}
    /\ psWatch = "none"
    /\ ppc = "start"
    /\ svc = [s \in Services |-> "init"]
    /\ hook = [s \in Services |-> "none"]
    /\ spc = "start"
    /\ ipc = "services"
    /\ early = {}

RunningRequests == {r \in Requests : req[r] = "running"}
RunningMessages == {m \in Messages : msg[m] = "running"}

-----------------------------------------------------------------------------
(***************************************************************************)
(* The main goroutine.  The singletons register their handlers while the   *)
(* packages are initialised, in the order of the app's import graph, and   *)
(* the watcher already runs; App.Run registers the api handler and starts  *)
(* serving.  It calls Shutdown when a service fails to initialise or, all  *)
(* being ready, when Serve returns, which closes the listener.             *)
(***************************************************************************)
PackageInit(h) ==
    /\ mpc = "init"
    /\ h # "api"
    /\ RegisterShutdownHandler(h)
    /\ UNCHANGED appVars

Run ==
    /\ mpc = "init"
    /\ registered = Handlers \ {"api"}
    /\ RegisterShutdownHandler("api")
    /\ mpc' = "run"
    /\ listening' = TRUE
    /\ UNCHANGED <<req, httpCtx, httpWatch, apc, srv, psVars, svcVars, ipc, early>>

MainShutdown ==
    /\ mpc = "run"
    /\ \/ /\ \E s \in Services : svc[s] = "failed"
          /\ UNCHANGED listening
       \/ /\ \A s \in Services : svc[s] = "ready"
          /\ listening' = FALSE
    /\ ShutdownFirst("main", "error") \/ ShutdownAgain("main")
    /\ UNCHANGED <<mpc, req, httpCtx, httpWatch, apc, srv, psVars, svcVars, ipc, early>>

Signal ==
    /\ \/ \E r \in ReasonsOf("watcher") : ShutdownFirst("watcher", r)
       \/ ShutdownAgain("watcher")
    /\ UNCHANGED appVars

-----------------------------------------------------------------------------
(***************************************************************************)
(* API requests: activeHandlersWrapper checks httpCtx, counts the request  *)
(* in runningHandlers and serves it.                                       *)
(***************************************************************************)
RequestArrives(r) ==
    /\ listening
    /\ req[r] = "none"
    /\ req' = [req EXCEPT ![r] = "arrived"]
    /\ UNCHANGED <<vars, mpc, listening, httpCtx, httpWatch, apc, srv,
                   psVars, svcVars, ipc, early>>

AdmitRequest(r) ==
    /\ req[r] = "arrived"
    /\ req' = [req EXCEPT ![r] = IF httpCtx THEN "rejected" ELSE "admitted"]
    /\ UNCHANGED <<vars, mpc, listening, httpCtx, httpWatch, apc, srv,
                   psVars, svcVars, ipc, early>>

CountRequest(r) ==
    /\ req[r] = "admitted"
    /\ req' = [req EXCEPT ![r] = "running"]
    /\ UNCHANGED <<vars, mpc, listening, httpCtx, httpWatch, apc, srv,
                   psVars, svcVars, ipc, early>>

RequestDone(r) ==
    /\ req[r] = "running"
    /\ req' = [req EXCEPT ![r] = "done"]
    /\ UNCHANGED <<vars, mpc, listening, httpCtx, httpWatch, apc, srv,
                   psVars, svcVars, ipc, early>>

\* Server.Shutdown starts two goroutines and waits for runningHandlers.
ApiShutdown ==
    /\ hpc["api"] = "running"
    /\ apc = "start"
    /\ apc' = "wait"
    /\ httpWatch' = "waiting"
    /\ srv' = "close"
    /\ early' = early \cup RunningRequests
    /\ UNCHANGED <<vars, mpc, listening, req, httpCtx, psVars, svcVars, ipc>>

\* Mutants of ApiHandlersDone: it does not wait for runningHandlers,
ApiHandlersDoneEarlyMutant ==
    /\ apc = "wait"
    /\ apc' = "result"
    /\ HandlerMarks("api", "OutstandingRequests")
    /\ UNCHANGED <<mpc, listening, req, httpCtx, httpWatch, srv,
                   psVars, svcVars, ipc, early>>

\* or it marks all tasks, the messages too, as completed.
ApiHandlersDoneAllMutant ==
    /\ apc = "wait"
    /\ RunningRequests = {}
    /\ apc' = "result"
    /\ HandlerMarks("api", "OutstandingTasks")
    /\ UNCHANGED <<mpc, listening, req, httpCtx, httpWatch, srv,
                   psVars, svcVars, ipc, early>>

ApiHandlersDone ==
    /\ apc = "wait"
    /\ RunningRequests = {}
    /\ apc' = "result"
    /\ HandlerMarks("api", "OutstandingRequests")
    /\ UNCHANGED <<mpc, listening, req, httpCtx, httpWatch, srv,
                   psVars, svcVars, ipc, early>>

\* Mutant of ApiReturn: does not wait for the result of httpsrv.Shutdown.
ApiReturnMutant ==
    /\ apc = "result"
    /\ HandlerReturns("api", "ok")
    /\ UNCHANGED appVars

ApiReturn ==
    /\ apc = "result"
    /\ srv \in {"ok", "failed"}
    /\ HandlerReturns("api", srv)
    /\ UNCHANGED appVars

\* Mutant of HttpWatch: does not cancel the base context.
HttpWatchMutant ==
    /\ httpWatch = "waiting"
    /\ Done("ForceCloseTasks")
    /\ httpWatch' = "done"
    /\ UNCHANGED <<vars, mpc, listening, req, httpCtx, apc, srv, psVars, svcVars,
                   ipc, early>>

HttpWatch ==
    /\ httpWatch = "waiting"
    /\ Done("ForceCloseTasks")
    /\ httpWatch' = "done"
    /\ httpCtx' = TRUE
    /\ UNCHANGED <<vars, mpc, listening, req, apc, srv, psVars, svcVars, ipc, early>>

\* net/http: stop listening, then wait for the connections to become idle or
\* for the context, here ForceShutdown, to end.
HttpClose ==
    /\ srv = "close"
    /\ srv' = "drain"
    /\ listening' = FALSE
    /\ UNCHANGED <<vars, mpc, req, httpCtx, httpWatch, apc, psVars, svcVars, ipc, early>>

Idle == \A r \in Requests : req[r] \in {"none", "done", "rejected"}

HttpDrain ==
    /\ srv = "drain"
    /\ \/ Idle /\ srv' = "ok"
       \/ Done("ForceShutdown") /\ srv' = "failed"
    /\ UNCHANGED <<vars, mpc, listening, req, httpCtx, httpWatch, apc,
                   psVars, svcVars, ipc, early>>

-----------------------------------------------------------------------------
(***************************************************************************)
(* Pub/Sub messages: a subscription, created while the packages of the app *)
(* are initialised, fetches until the Fetch context ends; its callback     *)
(* checks the Handler context, counts the message in runningHandlers and   *)
(* handles it.                                                             *)
(***************************************************************************)

\* Mutant of Derived: Handler and Fetch are not derived from Connection.
DerivedMutant(c) == CASE c = "Connection" -> {"Connection"}
                      [] c = "Handler"    -> {"Handler", "Fetch"}
                      [] c = "Fetch"      -> {"Fetch"}

\* c and the contexts derived from it: canceling c cancels them all.
Derived(c) == CASE c = "Connection" -> {"Connection", "Handler", "Fetch"}
                [] c = "Handler"    -> {"Handler", "Fetch"}
                [] c = "Fetch"      -> {"Fetch"}

BeginFetch(m) ==
    /\ "pubsub" \in registered
    /\ msg[m] = "none"
    /\ "Fetch" \notin psCtx
    /\ msg' = [msg EXCEPT ![m] = "fetching"]
    /\ UNCHANGED <<vars, mpc, apiVars, psCtx, psWatch, ppc, svcVars, ipc, early>>

FetchReturns(m) ==
    /\ msg[m] = "fetching"
    /\ \/ msg' = [msg EXCEPT ![m] = "arrived"]
       \/ "Fetch" \in psCtx /\ msg' = [msg EXCEPT ![m] = "rejected"]
    /\ UNCHANGED <<vars, mpc, apiVars, psCtx, psWatch, ppc, svcVars, ipc, early>>

AdmitMessage(m) ==
    /\ msg[m] = "arrived"
    /\ msg' = [msg EXCEPT ![m] = IF "Handler" \in psCtx THEN "rejected" ELSE "admitted"]
    /\ UNCHANGED <<vars, mpc, apiVars, psCtx, psWatch, ppc, svcVars, ipc, early>>

CountMessage(m) ==
    /\ msg[m] = "admitted"
    /\ msg' = [msg EXCEPT ![m] = "running"]
    /\ UNCHANGED <<vars, mpc, apiVars, psCtx, psWatch, ppc, svcVars, ipc, early>>

MessageDone(m) ==
    /\ msg[m] = "running"
    /\ msg' = [msg EXCEPT ![m] = "done"]
    /\ UNCHANGED <<vars, mpc, apiVars, psCtx, psWatch, ppc, svcVars, ipc, early>>

\* Manager.Shutdown stops fetching and waits: runningFetches, which nothing
\* ever adds to, does not make it wait for fetches under way.
PubSubShutdown ==
    /\ hpc["pubsub"] = "running"
    /\ ppc = "start"
    /\ ppc' = "wait"
    /\ psWatch' = "waiting"
    /\ psCtx' = psCtx \cup Derived("Fetch")
    /\ early' = early \cup RunningMessages
    /\ UNCHANGED <<vars, mpc, apiVars, msg, svcVars, ipc>>

PubSubHandlersDone ==
    /\ ppc = "wait"
    /\ RunningMessages = {}
    /\ ppc' = "close"
    /\ HandlerMarks("pubsub", "OutstandingPubSubMessages")
    /\ UNCHANGED <<mpc, apiVars, msg, psCtx, psWatch, svcVars, ipc, early>>

CloseConnections ==
    /\ ppc = "close"
    /\ ppc' = "closed"
    /\ psCtx' = psCtx \cup Derived("Connection")
    /\ HandlerReturns("pubsub", "ok")
    /\ UNCHANGED <<mpc, apiVars, msg, psWatch, svcVars, ipc, early>>

PubSubWatch ==
    /\ psWatch = "waiting"
    /\ Done("ForceCloseTasks")
    /\ psWatch' = "done"
    /\ psCtx' = psCtx \cup Derived("Handler")
    /\ UNCHANGED <<vars, mpc, apiVars, msg, ppc, svcVars, ipc, early>>

-----------------------------------------------------------------------------
(***************************************************************************)
(* Services: setup registers the service's shutdown hook with the service  *)
(* manager, whose handler runs the hooks registered by then.  A service is *)
(* set up by InitializeServices or, earlier, by a message handler's call.  *)
(***************************************************************************)
InitService(s) ==
    /\ mpc = "run" \/ RunningMessages # {}
    /\ svc[s] = "init"
    /\ \/ /\ svc' = [svc EXCEPT ![s] = "ready"]
          /\ hook' = [hook EXCEPT ![s] = "registered"]
       \/ /\ svc' = [svc EXCEPT ![s] = "failed"]
          /\ UNCHANGED hook
    /\ UNCHANGED <<vars, mpc, apiVars, psVars, spc, ipc, early>>

ServicesShutdown ==
    /\ hpc["services"] = "running"
    /\ spc = "start"
    /\ spc' = "wait"
    /\ hook' = [s \in Services |->
                  IF hook[s] = "registered" THEN "running" ELSE hook[s]]
    /\ UNCHANGED <<vars, mpc, apiVars, psVars, svc, ipc, early>>

\* A hook returns, with an error or not, or panics: it is logged only.
HookReturns(s) ==
    /\ hook[s] = "running"
    /\ hook' = [hook EXCEPT ![s] = "done"]
    /\ UNCHANGED <<vars, mpc, apiVars, psVars, svc, spc, ipc, early>>

HooksReturned ==
    /\ spc = "wait"
    /\ \A s \in Services : hook[s] # "running"
    /\ spc' = "marked"
    /\ HandlerMarks("services", "ServicesShutdownCompleted")
    /\ UNCHANGED <<mpc, apiVars, psVars, svc, hook, ipc, early>>

ServicesReturn ==
    /\ spc = "marked"
    /\ HandlerReturns("services", "ok")
    /\ UNCHANGED appVars

-----------------------------------------------------------------------------
\* Mutant of AwaitServices: does not wait for the services.
AwaitServicesMutant ==
    /\ hpc["infra"] = "running"
    /\ ipc = "services"
    /\ ipc' = "tasks"
    /\ UNCHANGED <<vars, mpc, apiVars, psVars, svcVars, early>>

\* Infrastructure: wait for the services and the tasks, then close.
AwaitServices ==
    /\ hpc["infra"] = "running"
    /\ ipc = "services"
    /\ Done("ServicesShutdownCompleted")
    /\ ipc' = "tasks"
    /\ UNCHANGED <<vars, mpc, apiVars, psVars, svcVars, early>>

AwaitOutstandingTasks ==
    /\ ipc = "tasks"
    /\ Done("OutstandingTasks")
    /\ ipc' = "close"
    /\ UNCHANGED <<vars, mpc, apiVars, psVars, svcVars, early>>

CloseDatabases ==
    /\ ipc = "close"
    /\ ipc' = "closed"
    /\ HandlerReturns("infra", "ok")
    /\ UNCHANGED <<mpc, apiVars, psVars, svcVars, early>>

-----------------------------------------------------------------------------
UserStep ==
    \/ \E r \in Requests : RequestArrives(r) \/ RequestDone(r)
    \/ \E m \in Messages : BeginFetch(m) \/ FetchReturns(m) \/ MessageDone(m)
    \/ \E s \in Services : InitService(s) \/ HookReturns(s)

ApiStep      == ApiShutdown \/ ApiHandlersDone \/ ApiReturn
HttpStep     == HttpClose \/ HttpDrain
PubSubStep   == PubSubShutdown \/ PubSubHandlersDone \/ CloseConnections
ServicesStep == ServicesShutdown \/ HooksReturned \/ ServicesReturn
InfraStep    == AwaitServices \/ AwaitOutstandingTasks \/ CloseDatabases

\* The runtime's own goroutines, and the timers.
RuntimeStep ==
    \/ TrackerStep /\ UNCHANGED appVars
    \/ ApiStep \/ HttpStep \/ HttpWatch
    \/ PubSubStep \/ PubSubWatch
    \/ ServicesStep \/ InfraStep

(***************************************************************************)
(* Half a second passes only when no goroutine of the runtime can move:    *)
(* none of them computes, so a runnable one is not held up for that long.  *)
(* (Shutdown alone is checked without this, goroutines delayed at will.)   *)
(* User code takes as long as it likes.                                    *)
(***************************************************************************)
QuietTick == ~ENABLED RuntimeStep /\ Tick /\ UNCHANGED appVars

AppNext ==
    \/ /\ exit = "none"
       /\ \/ RuntimeStep
          \/ QuietTick
          \/ \E h \in Handlers : PackageInit(h)
          \/ Run \/ MainShutdown \/ Signal
          \/ UserStep
          \/ \E r \in Requests : AdmitRequest(r) \/ CountRequest(r)
          \/ \E m \in Messages : AdmitMessage(m) \/ CountMessage(m)
    \/ Exited /\ UNCHANGED appVars

AppSpec == AppInit /\ [][AppNext]_allVars

-----------------------------------------------------------------------------
(***************************************************************************)
(* Properties.                                                             *)
(***************************************************************************)
Unfinished == (RunningRequests \cup RunningMessages) \cap early

\* A request or message that was running when its manager began to drain runs
\* to its end undisturbed: until the deadline for tasks is reached its context
\* is not canceled, no database is closed under it and the tasks do not count
\* as done.
RunsUndisturbed ==
    /\ Unfinished # {} => /\ ctx["OutstandingTasks"] # "canceled"
                          /\ ipc = "closed" => ctx["OutstandingTasks"] = "deadline"
    /\ (httpCtx /\ Unfinished \cap RunningRequests # {})
          => ctx["ForceCloseTasks"] = "deadline"
    /\ ("Handler" \in psCtx /\ Unfinished \cap RunningMessages # {})
          => ctx["ForceCloseTasks"] = "deadline"

\* Databases are closed only after every service hook that was started has
\* returned and the tasks are over: no hook loses its database.
InfraLast == ipc \in {"close", "closed"} =>
                /\ \A s \in Services : hook[s] # "running"
                /\ spc = "marked"
                /\ Done("OutstandingTasks")

\* Exit code 0 of an app that got as far as serving: the server stopped
\* listening, Pub/Sub and database connections are closed, the service hooks
\* have returned.
CleanExitDrained == (exit = "exit0" /\ hpc["api"] # "idle") =>
    /\ ~listening
    /\ "Connection" \in psCtx
    /\ ipc = "closed"
    /\ \A s \in Services : hook[s] # "running"

\* Before tasks are given up on, the base contexts of the requests and of the
\* message handlers have been canceled, to give them forceCloseTasksGrace to
\* stop: the watchers did not wait for something else, or die.
ForceClosedInTime ==
    [][(ctx["OutstandingTasks"] = "live" /\ ctx'["OutstandingTasks"] = "deadline") =>
          /\ hpc["api"] = "running" => httpCtx
          /\ hpc["pubsub"] = "running" => "Handler" \in psCtx]_allVars

\* The runtime's handlers keep to what the tracker expects of handlers: the
\* app is an implementation of the tracker's specification.
TrackerSpec == Spec

(***************************************************************************)
(* What the documentation of encore.dev/shutdown says and the code does    *)
(* not do.                                                                 *)
(***************************************************************************)

\* "OutstandingRequests is canceled when the service is no longer processing
\* any incoming API calls." (runtimes/go/shutdown/shutdown.go:39)
NoRequestAfterCompletion ==
    ctx["OutstandingRequests"] = "canceled" => RunningRequests = {}

\* "When all active tasks and [Handler.Shutdown] calls have completed, Encore
\* begins shutting down infrastructure resources.  Encore automatically closes
\* all open database connections, cache connections, Pub/Sub connections"
\* (runtimes/go/shutdown/shutdown.go:26-28)
ConnectionsClosedLast ==
    ("Connection" \in psCtx /\ ctx["OutstandingTasks"] = "live") =>
       /\ RunningRequests \cap early = {}
       /\ \A s \in Services : hook[s] # "running"
=============================================================================
