------------------------- MODULE AppShutdownProofs -------------------------
(***************************************************************************)
(* Proofs about the composition, for any number of requests, messages and  *)
(* services: the app implements the tracker's specification, so what is    *)
(* proved of the tracker holds of the app; databases are closed last; work *)
(* under way is left alone until its deadline; exit code 0 means closed.   *)
(***************************************************************************)
EXTENDS AppShutdown, ShutdownProofs

\* A step of the app is a step of the tracker or leaves the tracker alone.
LEMMA AppStep == [AppNext]_allVars => [Next]_vars
<1> SUFFICES ASSUME [AppNext]_allVars PROVE [Next]_vars
  OBVIOUS
<1> USE HandlersAssumption
<1>1. CASE UNCHANGED allVars
  BY <1>1 DEF allVars
<1>2. CASE Exited /\ UNCHANGED appVars
  BY <1>2 DEF Exited
<1>3. ASSUME exit = "none", TrackerStep \/ Tick
      PROVE  Next
  BY <1>3 DEF Next
<1>4. ASSUME exit = "none", EnvStep
      PROVE  Next
  BY <1>4 DEF Next
<1>5. QuietTick => Tick
  BY DEF QuietTick
<1>6. ASSUME NEW h \in Handlers, PackageInit(h) \/ Run
      PROVE  EnvStep
  BY <1>6 DEF PackageInit, Run, EnvStep
<1>7. MainShutdown \/ Signal => EnvStep
  BY DEF MainShutdown, Signal, EnvStep, Callers, ReasonsOf
<1>8. UserStep => UNCHANGED vars
  BY DEF UserStep, RequestArrives, RequestDone, BeginFetch, FetchReturns, MessageDone,
         InitService, HookReturns
<1>9. ASSUME \/ \E r \in Requests : AdmitRequest(r) \/ CountRequest(r)
             \/ \E m \in Messages : AdmitMessage(m) \/ CountMessage(m)
      PROVE  UNCHANGED vars
  BY <1>9 DEF AdmitRequest, CountRequest, AdmitMessage, CountMessage
<1>10. ApiStep => EnvStep \/ UNCHANGED vars
  <2>1. ApiShutdown => UNCHANGED vars
    BY DEF ApiShutdown
  <2>2. ApiHandlersDone => EnvStep
    BY DEF ApiHandlersDone, EnvStep, Markable
  <2>3. ApiReturn => EnvStep
    BY DEF ApiReturn, EnvStep
  <2> QED
    BY <2>1, <2>2, <2>3 DEF ApiStep
<1>11. HttpStep \/ HttpWatch \/ PubSubWatch => UNCHANGED vars
  BY DEF HttpStep, HttpClose, HttpDrain, HttpWatch, PubSubWatch
<1>12. PubSubStep => EnvStep \/ UNCHANGED vars
  BY DEF PubSubStep, PubSubShutdown, PubSubHandlersDone, CloseConnections, EnvStep, Markable
<1>13. ServicesStep => EnvStep \/ UNCHANGED vars
  BY DEF ServicesStep, ServicesShutdown, HooksReturned, ServicesReturn, EnvStep, Markable
<1>14. InfraStep => EnvStep \/ UNCHANGED vars
  BY DEF InfraStep, AwaitServices, AwaitOutstandingTasks, CloseDatabases, EnvStep
<1>15. RuntimeStep => TrackerStep \/ EnvStep \/ UNCHANGED vars
  BY <1>10, <1>11, <1>12, <1>13, <1>14 DEF RuntimeStep
<1> QED
  BY <1>1, <1>2, <1>3, <1>4, <1>5, <1>6, <1>7, <1>8, <1>9, <1>15 DEF AppNext

\* The app implements the tracker's specification: the handlers of the runtime
\* do only what the tracker lets handlers do.
THEOREM Refinement == AppSpec => TrackerSpec
<1>1. AppInit => Init
  BY DEF AppInit
<1> QED
  BY <1>1, AppStep, PTL DEF AppSpec, TrackerSpec, Spec

\* So the app exits with code 0 only when its handlers have returned.
THEOREM AppCleanExit == AppSpec => []CleanExit
BY Refinement, CleanExitTheorem, PTL DEF TrackerSpec

-----------------------------------------------------------------------------
\* Databases are closed last: what the infra handler has waited for stays so.
InfraInv ==
    /\ ipc # "services" => Done("ServicesShutdownCompleted")
    /\ ipc \in {"close", "closed"} => Done("OutstandingTasks")
    /\ Done("ServicesShutdownCompleted") => spc = "marked"
    /\ spc = "marked" => \A s \in Services : hook[s] # "running"
    /\ ipc \in {"services", "tasks", "close", "closed"}
    /\ hook \in [Services -> {"none", "registered", "running", "done"}]

\* A step of the tracker itself does not complete the services' shutdown.
LEMMA TrackerLeavesServices ==
    ASSUME IInv, TrackerStep \/ Tick, Done("ServicesShutdownCompleted")'
    PROVE  Done("ServicesShutdownCompleted")
<1> TypeOK /\ CreatedOnce /\ OnlyWinner
  BY DEF IInv
<1>1. ASSUME NEW c \in Contexts \ {"ServicesShutdownCompleted"},
             NEW how \in {"canceled", "deadline"}, ctx' = Ended(c, how)
      PROVE  ctx'["ServicesShutdownCompleted"] = ctx["ServicesShutdownCompleted"]
  BY <1>1, EndedEffect DEF Tree, Contexts
<1>2. ASSUME NEW c \in Callers PROVE ~beginShutdownProcess(c)
  BY <1>2 DEF beginShutdownProcess, Created, Deadlines, Contexts, Done
<1>3. CASE HandlersReturned \/ AwaitHandlers \/ AwaitPubSubMessages
             \/ ForceShutdownCanceled \/ GraceOver
  BY <1>1, <1>3 DEF HandlersReturned, AwaitHandlers, AwaitPubSubMessages, GraceOver,
     ForceShutdownCanceled, MarkShutdownCompleted, Cancel, Contexts, Done
<1>4. CASE ForceShutdownReached
  BY <1>4 DEF ForceShutdownReached, TypeOK, Contexts, Done
<1>5. ASSUME NEW t \in Deadlines, DeadlineExceeded(t)
      PROVE  Done("ServicesShutdownCompleted")
  BY <1>1, <1>5 DEF DeadlineExceeded, Deadlines, Contexts, Done
<1>6. CASE ctx' = ctx
  BY <1>6 DEF Done
<1> QED
  BY <1>2, <1>3, <1>4, <1>5, <1>6 DEF TrackerStep, Tick, StopSleeping, exitOnCompletion,
     AwaitRequests, AwaitTasks, StartHandlers

\* Every step of the app keeps what the infra handler has waited for.
LEMMA NextInfraInv ==
    ASSUME IInv, InfraInv, [AppNext]_allVars
    PROVE  InfraInv'
<1> USE HandlersAssumption
<1>0. ASSUME NEW x \in Contexts, Done(x) PROVE Done(x)'
  BY <1>0, AppStep, EndedStays DEF Done
<1>1. ASSUME UNCHANGED <<svcVars, ipc>>,
             Done("ServicesShutdownCompleted")' => Done("ServicesShutdownCompleted")
      PROVE  InfraInv'
  BY <1>0, <1>1 DEF InfraInv, svcVars, Contexts
<1>2. ASSUME UNCHANGED ctx PROVE UNCHANGED Done("ServicesShutdownCompleted")
  BY <1>2 DEF Done
<1>3. CASE (TrackerStep \/ Tick) /\ UNCHANGED appVars
  BY <1>1, <1>3, TrackerLeavesServices DEF appVars
<1>4. QuietTick => Tick /\ UNCHANGED appVars
  BY DEF QuietTick
<1>5. ASSUME NEW h \in Handlers, PackageInit(h) \/ Run \/ MainShutdown \/ Signal
      PROVE  InfraInv'
  BY <1>1, <1>2, <1>5 DEF PackageInit, Run, MainShutdown, Signal, appVars,
     RegisterShutdownHandler, ShutdownFirst, ShutdownAgain
<1>6. ASSUME NEW r \in Requests,
             \/ RequestArrives(r) \/ AdmitRequest(r)
             \/ CountRequest(r) \/ RequestDone(r)
      PROVE  InfraInv'
  BY <1>1, <1>2, <1>6 DEF RequestArrives, AdmitRequest, CountRequest, RequestDone, vars
<1>7. ASSUME NEW m \in Messages,
             \/ BeginFetch(m) \/ FetchReturns(m) \/ AdmitMessage(m)
             \/ CountMessage(m) \/ MessageDone(m)
      PROVE  InfraInv'
  BY <1>1, <1>2, <1>7 DEF BeginFetch, FetchReturns, AdmitMessage, CountMessage,
     MessageDone, vars
<1>8. ASSUME NEW h \in Handlers,
             NEW c \in {"OutstandingRequests", "OutstandingPubSubMessages"},
             HandlerMarks(h, c), UNCHANGED <<svcVars, ipc>>
      PROVE  InfraInv'
  <2>1. ctx'["ServicesShutdownCompleted"] = ctx["ServicesShutdownCompleted"]
    BY <1>8, EndedEffect DEF HandlerMarks, Cancel, Tree, Contexts, IInv
  <2> QED
    BY <1>1, <1>8, <2>1 DEF Done
<1>9. CASE ApiStep \/ HttpStep \/ HttpWatch
  BY <1>1, <1>2, <1>8, <1>9 DEF ApiStep, ApiShutdown, ApiHandlersDone, ApiReturn, HttpStep,
     HttpClose, HttpDrain, HttpWatch, HandlerReturns, vars, appVars
<1>10. CASE PubSubStep \/ PubSubWatch
  BY <1>1, <1>2, <1>8, <1>10 DEF PubSubStep, PubSubShutdown, PubSubHandlersDone,
     CloseConnections, PubSubWatch, HandlerReturns, vars
<1>11. ASSUME NEW s \in Services, InitService(s) \/ HookReturns(s)
       PROVE  InfraInv'
  <2>1. /\ hook' \in [Services -> {"none", "registered", "running", "done"}]
        /\ \A x \in Services : hook[x] # "running" => hook'[x] # "running"
    BY <1>11 DEF InitService, HookReturns, InfraInv
  <2> QED
    BY <1>2, <1>11, <2>1 DEF InitService, HookReturns, InfraInv, vars, Done
<1>12. CASE ServicesShutdown
  BY <1>0, <1>2, <1>12 DEF ServicesShutdown, InfraInv, vars, Contexts
<1>13. CASE HooksReturned
  BY <1>0, <1>13 DEF HooksReturned, InfraInv, Contexts
<1>14. CASE ServicesReturn
  BY <1>1, <1>2, <1>14 DEF ServicesReturn, HandlerReturns, appVars
<1>15. CASE InfraStep
  BY <1>0, <1>2, <1>15 DEF InfraStep, AwaitServices, AwaitOutstandingTasks, CloseDatabases,
     HandlerReturns, InfraInv, vars, svcVars, Contexts
<1>16. CASE UNCHANGED allVars
  BY <1>1, <1>2, <1>16 DEF allVars, appVars, vars
<1>17. CASE Exited /\ UNCHANGED appVars
  BY <1>1, <1>2, <1>17 DEF Exited, appVars, vars
<1>18. CASE RuntimeStep
  BY <1>3, <1>9, <1>10, <1>12, <1>13, <1>14, <1>15, <1>18 DEF RuntimeStep, ServicesStep
<1>19. CASE UserStep
  BY <1>6, <1>7, <1>11, <1>19 DEF UserStep
<1> QED
  BY <1>3, <1>4, <1>5, <1>6, <1>7, <1>16, <1>17, <1>18, <1>19 DEF AppNext

\* No service hook that was started loses its database, and no task does before
\* the tasks count as over.
THEOREM InfraLastTheorem == AppSpec => []InfraLast
<1>1. AppInit => InfraInv
  BY DEF AppInit, Init, InfraInv, Done, Contexts
<1>2. IInv /\ InfraInv /\ [AppNext]_allVars => InfraInv'
  BY NextInfraInv
<1>3. AppSpec => []IInv
  BY Refinement, Invariance, PTL DEF TrackerSpec
<1>4. InfraInv => InfraLast
  BY DEF InfraInv, InfraLast
<1> QED
  BY <1>1, <1>2, <1>3, <1>4, PTL DEF AppSpec
-----------------------------------------------------------------------------
Switches == listening \in BOOLEAN /\ httpCtx \in BOOLEAN

\* The types of the handlers' variables and of the work they wait for.
AppTypes ==
    /\ Switches
    /\ mpc \in {"init", "run"}
    /\ req \in [Requests -> TaskStates \ {"fetching"}]
    /\ httpWatch \in {"none", "waiting", "done"}
    /\ apc \in {"start", "wait", "result"}
    /\ srv \in {"none", "close", "drain", "ok", "failed"}
    /\ msg \in [Messages -> TaskStates]
    /\ psCtx \in {{}, {"Fetch"}, {"Fetch", "Handler"}, {"Fetch", "Handler", "Connection"}}
    /\ psWatch \in {"none", "waiting", "done"}
    /\ ppc \in {"start", "wait", "close", "closed"}
    /\ svc \in [Services -> {"init", "ready", "failed"}]
    /\ hook \in [Services -> {"none", "registered", "running", "done"}]
    /\ spc \in {"start", "wait", "marked"}
    /\ ipc \in {"services", "tasks", "close", "closed"}
    /\ early \in SUBSET (Requests \cup Messages)

\* Every step of the app keeps the types; canceling a Pub/Sub context cancels
\* those derived from it, so the canceled ones are always one of four sets.
LEMMA NextAppTypes ==
    ASSUME AppTypes, [AppNext]_allVars
    PROVE  AppTypes'
<1> USE DEF AppTypes
<1>0. ASSUME UNCHANGED <<listening, httpCtx>> PROVE Switches'
  BY <1>0 DEF Switches
<1>1. CASE UNCHANGED appVars
  BY <1>0, <1>1 DEF appVars, apiVars, psVars, svcVars
<1>2. CASE Run \/ MainShutdown
  <2>1. Switches'
    BY <1>2, Zenon DEF Run, MainShutdown, Switches
  <2> QED
    BY <1>2, <2>1 DEF Run, MainShutdown, psVars, svcVars
<1>3. ASSUME NEW r \in Requests,
             \/ RequestArrives(r) \/ AdmitRequest(r)
             \/ CountRequest(r) \/ RequestDone(r)
      PROVE  AppTypes'
  <2>1. \E t \in TaskStates \ {"fetching"} : req' = [req EXCEPT ![r] = t]
    BY <1>3 DEF RequestArrives, AdmitRequest, CountRequest, RequestDone, TaskStates
  <2>2. req' \in [Requests -> TaskStates \ {"fetching"}]
    BY <2>1
  <2> QED
    BY <1>0, <1>3, <2>2 DEF RequestArrives, AdmitRequest, CountRequest, RequestDone,
       psVars, svcVars
<1>4. ASSUME NEW m \in Messages,
             \/ BeginFetch(m) \/ FetchReturns(m) \/ AdmitMessage(m)
             \/ CountMessage(m) \/ MessageDone(m)
      PROVE  AppTypes'
  <2>1. \E t \in TaskStates : msg' = [msg EXCEPT ![m] = t]
    BY <1>4 DEF BeginFetch, FetchReturns, AdmitMessage, CountMessage, MessageDone, TaskStates
  <2>2. msg' \in [Messages -> TaskStates]
    BY <2>1
  <2> QED
    BY <1>0, <1>4, <2>2 DEF BeginFetch, FetchReturns, AdmitMessage, CountMessage, MessageDone,
       apiVars, svcVars
<1>5. ASSUME NEW s \in Services, InitService(s) \/ HookReturns(s)
      PROVE  AppTypes'
  BY <1>0, <1>5 DEF InitService, HookReturns, apiVars, psVars
<1>6. CASE ApiShutdown \/ ApiHandlersDone
  BY <1>0, <1>6 DEF ApiShutdown, ApiHandlersDone, RunningRequests, psVars, svcVars
<1>7. CASE HttpStep \/ HttpWatch
  <2>1. Switches'
    BY <1>7, Zenon DEF HttpStep, HttpClose, HttpDrain, HttpWatch, Switches
  <2> QED
    BY <1>7, <2>1 DEF HttpStep, HttpClose, HttpDrain, HttpWatch, psVars, svcVars
<1>8. CASE PubSubShutdown \/ PubSubHandlersDone
  BY <1>0, <1>8 DEF PubSubShutdown, PubSubHandlersDone, RunningMessages, Derived, apiVars, svcVars
<1>9. CASE CloseConnections \/ PubSubWatch
  BY <1>0, <1>9 DEF CloseConnections, PubSubWatch, Derived, apiVars, svcVars
<1>10. CASE ServicesShutdown \/ HooksReturned \/ InfraStep
  BY <1>0, <1>10 DEF ServicesShutdown, HooksReturned, InfraStep, AwaitServices,
     AwaitOutstandingTasks, CloseDatabases, apiVars, psVars, svcVars
<1> QED
  BY <1>1, <1>2, <1>3, <1>4, <1>5, <1>6, <1>7, <1>8, <1>9, <1>10
  DEF AppNext, RuntimeStep, UserStep, ApiStep, PubSubStep, ServicesStep, ApiReturn,
      ServicesReturn, PackageInit, Signal, QuietTick, allVars

\* At the start of the program the variables of the app have their types.
LEMMA InitAppTypes == AppInit => AppTypes
<1>1. AppInit => Switches
  BY Zenon DEF AppInit, Switches
<1> QED
  BY <1>1 DEF AppInit, AppTypes, TaskStates

\* Every variable of the app keeps its type, for any number of requests,
\* messages and services.
THEOREM AppTyping == AppSpec => []AppTypeOK
<1>1. AppInit => AppTypes
  BY InitAppTypes
<1>2. AppTypes /\ [AppNext]_allVars => AppTypes'
  BY NextAppTypes
<1>3. TypeOK /\ AppTypes => AppTypeOK
  BY Zenon DEF AppTypes, AppTypeOK, Switches
<1> QED
  BY <1>1, <1>2, <1>3, Refinement, Typing, PTL DEF AppSpec, TrackerSpec

-----------------------------------------------------------------------------
(***************************************************************************)
(* A task that was running when its manager began to drain holds up the    *)
(* manager: until it is done the manager does not mark its kind of tasks   *)
(* completed, so that only a deadline can end the contexts it relies on.   *)
(***************************************************************************)
RequestsInv ==
    /\ \A r \in Requests \cap early : \/ req[r] = "done"
                                      \/ req[r] = "running" /\ apc = "wait"
    /\ ctx["OutstandingRequests"] = "canceled" => apc = "result"
    /\ httpCtx => Done("ForceCloseTasks")

MessagesInv ==
    /\ \A m \in Messages \cap early : \/ msg[m] = "done"
                                      \/ msg[m] = "running" /\ ppc = "wait"
    /\ ctx["OutstandingPubSubMessages"] = "canceled" => ppc \in {"close", "closed"}
    /\ "Handler" \in psCtx => ppc = "closed" \/ Done("ForceCloseTasks")

\* The tracker itself does not mark a kind of tasks completed: when its first
\* goroutine cancels all tasks, both kinds are over.
LEMMA TrackerMarksNothing ==
    ASSUME IInv, TrackerStep \/ Tick,
           NEW x \in {"OutstandingRequests", "OutstandingPubSubMessages"},
           ctx'[x] = "canceled"
    PROVE  ctx[x] = "canceled"
<1> TypeOK /\ CreatedOnce /\ OnlyWinner /\ DrainInv
  BY DEF IInv
<1>1. ASSUME NEW c \in Contexts \ {"OutstandingTasks", x},
             NEW how \in {"canceled", "deadline"}, ctx' = Ended(c, how)
      PROVE  ctx'[x] = ctx[x]
  BY <1>1, EndedEffect DEF Tree, Contexts
<1>2. ASSUME NEW c \in Callers PROVE ~beginShutdownProcess(c)
  BY <1>2 DEF beginShutdownProcess, Created, Deadlines, Contexts
<1>3. CASE HandlersReturned \/ AwaitHandlers \/ ForceShutdownCanceled \/ GraceOver
  BY <1>1, <1>3 DEF HandlersReturned, AwaitHandlers, ForceShutdownCanceled, GraceOver,
     MarkShutdownCompleted, Cancel, Contexts
<1>4. CASE AwaitPubSubMessages
  BY <1>4, EndedEffect DEF AwaitPubSubMessages, DrainInv, Cancel, Contexts, Done
<1>5. CASE ForceShutdownReached
  BY <1>5 DEF ForceShutdownReached, TypeOK, Contexts
<1>6. ASSUME NEW t \in Deadlines, DeadlineExceeded(t) PROVE ctx[x] = "canceled"
  BY <1>6, EndedEffect DEF DeadlineExceeded, Deadlines, Contexts
<1> QED
  BY <1>2, <1>3, <1>4, <1>5, <1>6 DEF TrackerStep, Tick, StopSleeping, exitOnCompletion,
     AwaitRequests, AwaitTasks, StartHandlers

\* Of the app's steps one marks the requests completed, and one the messages.
LEMMA MarkedBy ==
    ASSUME IInv, [AppNext]_allVars
    PROVE  /\ (ctx'["OutstandingRequests"] = "canceled" /\ ~ApiHandlersDone)
                 => ctx["OutstandingRequests"] = "canceled"
           /\ (ctx'["OutstandingPubSubMessages"] = "canceled" /\ ~PubSubHandlersDone)
                 => ctx["OutstandingPubSubMessages"] = "canceled"
<1> DEFINE Marked == {"OutstandingRequests", "OutstandingPubSubMessages"}
<1> TypeOK
  BY DEF IInv
<1> SUFFICES ASSUME NEW x \in Marked, ctx'[x] = "canceled",
                    ~(x = "OutstandingRequests" /\ ApiHandlersDone),
                    ~(x = "OutstandingPubSubMessages" /\ PubSubHandlersDone)
             PROVE  ctx[x] = "canceled"
  OBVIOUS
<1>1. ASSUME NEW h, NEW c \in Markable \ {x}, HandlerMarks(h, c)
      PROVE  ctx[x] = "canceled"
  BY <1>1, EndedEffect DEF HandlerMarks, Cancel, Tree, Markable, Contexts
<1>2. CASE UNCHANGED ctx
  BY <1>2
<1>3. CASE TrackerStep \/ Tick
  BY <1>3, TrackerMarksNothing
<1>4. CASE ApiHandlersDone \/ PubSubHandlersDone \/ HooksReturned
  BY <1>1, <1>4 DEF ApiHandlersDone, PubSubHandlersDone, HooksReturned, Markable
<1>5. CASE \/ \E h \in Handlers : PackageInit(h)
           \/ Run \/ MainShutdown \/ Signal
  BY <1>2, <1>5 DEF PackageInit, Run, MainShutdown, Signal, RegisterShutdownHandler,
     ShutdownFirst, ShutdownAgain
<1>6. CASE ApiReturn \/ CloseConnections \/ ServicesReturn \/ CloseDatabases
  BY <1>2, <1>6 DEF ApiReturn, CloseConnections, ServicesReturn, CloseDatabases, HandlerReturns
<1>7. CASE UNCHANGED vars
  BY <1>2, <1>7 DEF vars
<1>8. CASE \/ UserStep
           \/ \E r \in Requests : AdmitRequest(r) \/ CountRequest(r)
           \/ \E m \in Messages : AdmitMessage(m) \/ CountMessage(m)
  BY <1>7, <1>8 DEF UserStep, RequestArrives, RequestDone, BeginFetch, FetchReturns,
     MessageDone, InitService, HookReturns, AdmitRequest, CountRequest, AdmitMessage,
     CountMessage
<1>9. CASE ApiShutdown \/ HttpStep \/ HttpWatch \/ PubSubShutdown \/ PubSubWatch
  BY <1>7, <1>9 DEF ApiShutdown, HttpStep, HttpClose, HttpDrain, HttpWatch,
     PubSubShutdown, PubSubWatch
<1>10. CASE ServicesShutdown \/ AwaitServices \/ AwaitOutstandingTasks
  BY <1>7, <1>10 DEF ServicesShutdown, AwaitServices, AwaitOutstandingTasks
<1> QED
  BY <1>3, <1>4, <1>5, <1>6, <1>7, <1>8, <1>9, <1>10
  DEF AppNext, RuntimeStep, QuietTick, ApiStep, PubSubStep, ServicesStep, InfraStep,
      Exited, allVars

\* Every step of the app keeps what holds of early requests.
LEMMA NextRequestsInv ==
    ASSUME IInv, AppTypes, RequestsInv, [AppNext]_allVars
    PROVE  RequestsInv'
<1>1. Done("ForceCloseTasks") => Done("ForceCloseTasks")'
  BY AppStep, EndedStays DEF Done, Contexts
<1>2. CASE ApiHandlersDone
  <2>1. \A r \in Requests : req[r] # "running"
    BY <1>2 DEF ApiHandlersDone, RunningRequests
  <2> QED
    BY <1>1, <1>2, <2>1 DEF ApiHandlersDone, RequestsInv
<1>3. SUFFICES ASSUME ~ApiHandlersDone,
                      ctx'["OutstandingRequests"] = "canceled"
                         => ctx["OutstandingRequests"] = "canceled"
               PROVE  RequestsInv'
  BY <1>2, MarkedBy
<1>4. ASSUME UNCHANGED <<req, httpCtx, apc>>, Requests \cap early' = Requests \cap early
      PROVE  RequestsInv'
  BY <1>1, <1>3, <1>4 DEF RequestsInv
<1>5. CASE UNCHANGED appVars
  BY <1>4, <1>5 DEF appVars, apiVars
<1>6. CASE Run \/ MainShutdown
  BY <1>4, <1>6 DEF Run, MainShutdown
<1>7. ASSUME NEW r \in Requests,
             \/ RequestArrives(r) \/ AdmitRequest(r)
             \/ CountRequest(r) \/ RequestDone(r)
      PROVE  RequestsInv'
  <2>1. /\ UNCHANGED <<httpCtx, apc, early>>
        /\ r \in early => req'[r] \in {req[r], "done"}
        /\ \A q \in Requests \ {r} : req'[q] = req[q]
    BY <1>7 DEF RequestArrives, AdmitRequest, CountRequest, RequestDone, RequestsInv, AppTypes
  <2> QED
    BY <1>1, <1>3, <2>1 DEF RequestsInv
<1>8. ASSUME NEW m \in Messages,
             \/ BeginFetch(m) \/ FetchReturns(m) \/ AdmitMessage(m)
             \/ CountMessage(m) \/ MessageDone(m)
      PROVE  RequestsInv'
  BY <1>4, <1>8 DEF BeginFetch, FetchReturns, AdmitMessage, CountMessage, MessageDone, apiVars
<1>9. ASSUME NEW s \in Services, InitService(s) \/ HookReturns(s)
      PROVE  RequestsInv'
  BY <1>4, <1>9 DEF InitService, HookReturns, apiVars
<1>10. CASE ApiShutdown
  BY <1>1, <1>3, <1>10 DEF ApiShutdown, RequestsInv, RunningRequests
<1>11. CASE HttpStep
  BY <1>4, <1>11 DEF HttpStep, HttpClose, HttpDrain
<1>12. CASE HttpWatch
  BY <1>1, <1>3, <1>12 DEF HttpWatch, RequestsInv
<1>13. CASE PubSubShutdown
  <2>1. Requests \cap early' = Requests \cap early
    BY <1>13, TasksAssumption DEF PubSubShutdown, RunningMessages
  <2> QED
    BY <1>4, <1>13, <2>1 DEF PubSubShutdown, apiVars
<1>14. CASE PubSubHandlersDone \/ CloseConnections \/ PubSubWatch
  BY <1>4, <1>14 DEF PubSubHandlersDone, CloseConnections, PubSubWatch, apiVars
<1>15. CASE ServicesShutdown \/ HooksReturned \/ InfraStep
  BY <1>4, <1>15 DEF ServicesShutdown, HooksReturned, InfraStep, AwaitServices,
     AwaitOutstandingTasks, CloseDatabases, apiVars
<1> QED
  BY <1>3, <1>5, <1>6, <1>7, <1>8, <1>9, <1>10, <1>11, <1>12, <1>13, <1>14, <1>15
  DEF AppNext, RuntimeStep, UserStep, ApiStep, PubSubStep, ServicesStep, ApiReturn,
      ServicesReturn, PackageInit, Signal, QuietTick, allVars

\* And what holds of early messages.
LEMMA NextMessagesInv ==
    ASSUME IInv, AppTypes, MessagesInv, [AppNext]_allVars
    PROVE  MessagesInv'
<1>1. Done("ForceCloseTasks") => Done("ForceCloseTasks")'
  BY AppStep, EndedStays DEF Done, Contexts
<1>2. CASE PubSubHandlersDone
  <2>1. \A m \in Messages : msg[m] # "running"
    BY <1>2 DEF PubSubHandlersDone, RunningMessages
  <2> QED
    BY <1>1, <1>2, <2>1 DEF PubSubHandlersDone, MessagesInv
<1>3. SUFFICES ASSUME ~PubSubHandlersDone,
                      ctx'["OutstandingPubSubMessages"] = "canceled"
                         => ctx["OutstandingPubSubMessages"] = "canceled"
               PROVE  MessagesInv'
  BY <1>2, MarkedBy
<1>4. ASSUME UNCHANGED <<msg, psCtx, ppc>>, Messages \cap early' = Messages \cap early
      PROVE  MessagesInv'
  BY <1>1, <1>3, <1>4 DEF MessagesInv
<1>5. CASE UNCHANGED appVars
  BY <1>4, <1>5 DEF appVars, psVars
<1>6. CASE Run \/ MainShutdown
  BY <1>4, <1>6 DEF Run, MainShutdown, psVars
<1>7. ASSUME NEW r \in Requests,
             \/ RequestArrives(r) \/ AdmitRequest(r)
             \/ CountRequest(r) \/ RequestDone(r)
      PROVE  MessagesInv'
  BY <1>4, <1>7 DEF RequestArrives, AdmitRequest, CountRequest, RequestDone, psVars
<1>8. ASSUME NEW m \in Messages,
             \/ BeginFetch(m) \/ FetchReturns(m) \/ AdmitMessage(m)
             \/ CountMessage(m) \/ MessageDone(m)
      PROVE  MessagesInv'
  <2>1. /\ UNCHANGED <<psCtx, ppc, early>>
        /\ m \in early => msg'[m] \in {msg[m], "done"}
        /\ \A n \in Messages \ {m} : msg'[n] = msg[n]
    BY <1>8 DEF BeginFetch, FetchReturns, AdmitMessage, CountMessage, MessageDone,
       MessagesInv, AppTypes
  <2> QED
    BY <1>1, <1>3, <2>1 DEF MessagesInv
<1>9. ASSUME NEW s \in Services, InitService(s) \/ HookReturns(s)
      PROVE  MessagesInv'
  BY <1>4, <1>9 DEF InitService, HookReturns, psVars
<1>10. CASE ApiShutdown
  <2>1. Messages \cap early' = Messages \cap early
    BY <1>10, TasksAssumption DEF ApiShutdown, RunningRequests
  <2> QED
    BY <1>4, <1>10, <2>1 DEF ApiShutdown, psVars
<1>11. CASE ApiHandlersDone \/ HttpStep \/ HttpWatch
  BY <1>4, <1>11 DEF ApiHandlersDone, HttpStep, HttpClose, HttpDrain, HttpWatch, psVars
<1>12. CASE PubSubShutdown
  BY <1>1, <1>3, <1>12 DEF PubSubShutdown, MessagesInv, RunningMessages, Derived
<1>13. CASE CloseConnections
  BY <1>1, <1>3, <1>13 DEF CloseConnections, MessagesInv
<1>14. CASE PubSubWatch
  BY <1>1, <1>3, <1>14 DEF PubSubWatch, MessagesInv
<1>15. CASE ServicesShutdown \/ HooksReturned \/ InfraStep
  BY <1>4, <1>15 DEF ServicesShutdown, HooksReturned, InfraStep, AwaitServices,
     AwaitOutstandingTasks, CloseDatabases, psVars
<1> QED
  BY <1>3, <1>5, <1>6, <1>7, <1>8, <1>9, <1>10, <1>11, <1>12, <1>13, <1>14, <1>15
  DEF AppNext, RuntimeStep, UserStep, ApiStep, PubSubStep, ServicesStep, ApiReturn,
      ServicesReturn, PackageInit, Signal, QuietTick, allVars

\* A request or message that was running when its manager began to drain is
\* left alone until the deadline for tasks: the tasks do not count as done, its
\* context is not canceled and no database is closed under it.
THEOREM RunsUndisturbedTheorem == AppSpec => []RunsUndisturbed
<1>1. AppInit => AppTypes /\ InfraInv /\ OutcomeInv /\ RequestsInv /\ MessagesInv
  <2> SUFFICES ASSUME AppInit
               PROVE  InfraInv /\ OutcomeInv /\ RequestsInv /\ MessagesInv
    BY InitAppTypes
  <2>1. InfraInv
    BY DEF AppInit, Init, InfraInv, Done, Contexts
  <2> QED
    BY <2>1 DEF AppInit, Init, OutcomeInv, RequestsInv, MessagesInv, Contexts
<1>2. IInv /\ OutcomeInv /\ [AppNext]_allVars => OutcomeInv'
  BY AppStep, NextOutcomeInv
<1>3. IInv /\ InfraInv /\ [AppNext]_allVars => InfraInv'
  BY NextInfraInv
<1>4. AppTypes /\ [AppNext]_allVars => AppTypes'
  BY NextAppTypes
<1>5. /\ IInv /\ AppTypes /\ RequestsInv /\ [AppNext]_allVars => RequestsInv'
      /\ IInv /\ AppTypes /\ MessagesInv /\ [AppNext]_allVars => MessagesInv'
  BY NextRequestsInv, NextMessagesInv
<1>6. ASSUME OutcomeInv, InfraInv, RequestsInv, MessagesInv
      PROVE  RunsUndisturbed
  <2>1. ASSUME NEW t \in Unfinished
        PROVE  /\ ctx["OutstandingTasks"] # "canceled"
               /\ Done("OutstandingTasks") => ctx["OutstandingTasks"] = "deadline"
               /\ Done("ForceCloseTasks") => ctx["ForceCloseTasks"] = "deadline"
    <3>1. \/ t \in RunningRequests /\ apc = "wait"
          \/ t \in RunningMessages /\ ppc = "wait"
      BY <2>1, <1>6 DEF Unfinished, RunningRequests, RunningMessages, RequestsInv, MessagesInv
    <3>2. ctx["OutstandingTasks"] # "canceled"
      BY <1>6, <3>1 DEF OutcomeInv, RequestsInv, MessagesInv
    <3> QED
      BY <1>6, <3>2 DEF OutcomeInv, Done
  <2>2. ASSUME Unfinished \cap RunningMessages # {}
        PROVE  ppc = "wait"
    BY <1>6, <2>2 DEF Unfinished, RunningMessages, MessagesInv
  <2>3. ipc = "closed" => Done("OutstandingTasks")
    BY <1>6 DEF InfraInv
  <2> QED
    BY <1>6, <2>1, <2>2, <2>3 DEF RunsUndisturbed, RequestsInv, MessagesInv
<1> QED
  BY <1>1, <1>2, <1>3, <1>4, <1>5, <1>6, Refinement, Invariance, PTL DEF AppSpec, TrackerSpec

-----------------------------------------------------------------------------
(***************************************************************************)
(* App.Run registers the api handler last, so a shutdown that runs it runs *)
(* all four, and each returns only when it has closed what it is to close. *)
(***************************************************************************)
Returned == {"ok", "failed"}

StartedInv ==
    /\ "api" \in registered => registered = Handlers /\ mpc = "run"
    /\ \A h \in Handlers : hpc[h] # "idle" => h \in registered
    /\ hpc["api"] # "idle" => \A h \in Handlers : hpc[h] # "idle"

ReturnedInv ==
    /\ hpc["api"] \in Returned => srv \in {"ok", "failed"}
    /\ srv # "none" => hpc["api"] # "idle"
    /\ srv \in {"drain", "ok", "failed"} => ~listening
    /\ hpc["pubsub"] \in Returned => "Connection" \in psCtx
    /\ hpc["infra"] \in Returned => ipc = "closed"

\* Handlers are started by the tracker, all at once, and each returns by a step
\* of its own; nothing else moves them.
LEMMA HandlerMoves ==
    ASSUME [AppNext]_allVars
    PROVE  \/ UNCHANGED hpc
           \/ StartHandlers /\ UNCHANGED appVars
           \/ ApiReturn \/ CloseConnections \/ ServicesReturn \/ CloseDatabases
<1>1. TrackerStep \/ Tick => UNCHANGED hpc \/ StartHandlers
  BY DEF TrackerStep, Tick, StopSleeping, beginShutdownProcess, exitOnCompletion,
     AwaitRequests, AwaitPubSubMessages, AwaitTasks, AwaitHandlers, ForceShutdownCanceled,
     ForceShutdownReached, GraceOver, HandlersReturned, DeadlineExceeded
<1>2. ASSUME \/ \E h \in Handlers : PackageInit(h)
             \/ Run \/ MainShutdown \/ Signal
      PROVE  UNCHANGED hpc
  BY <1>2 DEF PackageInit, Run, MainShutdown, Signal, RegisterShutdownHandler,
     ShutdownFirst, ShutdownAgain
<1>3. ApiHandlersDone \/ PubSubHandlersDone \/ HooksReturned => UNCHANGED hpc
  BY DEF ApiHandlersDone, PubSubHandlersDone, HooksReturned, HandlerMarks
<1>4. ASSUME \/ UserStep
             \/ \E r \in Requests : AdmitRequest(r) \/ CountRequest(r)
             \/ \E m \in Messages : AdmitMessage(m) \/ CountMessage(m)
      PROVE  UNCHANGED hpc
  BY <1>4 DEF UserStep, RequestArrives, RequestDone, BeginFetch, FetchReturns,
     MessageDone, InitService, HookReturns, AdmitRequest, CountRequest, AdmitMessage,
     CountMessage, vars
<1>5. ApiShutdown \/ HttpStep \/ HttpWatch \/ PubSubShutdown \/ PubSubWatch => UNCHANGED hpc
  BY DEF ApiShutdown, HttpStep, HttpClose, HttpDrain, HttpWatch,
     PubSubShutdown, PubSubWatch, vars
<1>6. ServicesShutdown \/ AwaitServices \/ AwaitOutstandingTasks => UNCHANGED hpc
  BY DEF ServicesShutdown, AwaitServices, AwaitOutstandingTasks, vars
<1> QED
  BY <1>1, <1>2, <1>3, <1>4, <1>5, <1>6
  DEF AppNext, RuntimeStep, QuietTick, ApiStep, PubSubStep, ServicesStep, InfraStep,
      Exited, allVars, vars

\* A step that registers a handler is PackageInit or Run, and Run is the only
\* one that the main goroutine leaves its initialisation by.
LEMMA RegistrationMoves ==
    ASSUME [AppNext]_allVars
    PROVE  \/ UNCHANGED <<registered, mpc>>
           \/ Run
           \/ \E h \in Handlers : PackageInit(h)
<1>1. TrackerStep \/ Tick => UNCHANGED registered
  BY DEF TrackerStep, Tick, StopSleeping, beginShutdownProcess, exitOnCompletion,
     AwaitRequests, AwaitPubSubMessages, AwaitTasks, AwaitHandlers, ForceShutdownCanceled,
     ForceShutdownReached, GraceOver, StartHandlers, HandlersReturned, DeadlineExceeded
<1>2. MainShutdown \/ Signal => UNCHANGED <<registered, mpc>>
  BY DEF MainShutdown, Signal, ShutdownFirst, ShutdownAgain, appVars
<1>3. ApiStep \/ HttpStep \/ HttpWatch => UNCHANGED <<registered, mpc>>
  BY DEF ApiStep, ApiShutdown, ApiHandlersDone, ApiReturn, HttpStep, HttpClose, HttpDrain,
     HttpWatch, HandlerMarks, HandlerReturns, vars, appVars
<1>4. PubSubStep \/ PubSubWatch => UNCHANGED <<registered, mpc>>
  BY DEF PubSubStep, PubSubShutdown, PubSubHandlersDone, CloseConnections, PubSubWatch,
     HandlerMarks, HandlerReturns, vars
<1>5. ServicesStep \/ InfraStep => UNCHANGED <<registered, mpc>>
  BY DEF ServicesStep, ServicesShutdown, HooksReturned, ServicesReturn, InfraStep,
     AwaitServices, AwaitOutstandingTasks, CloseDatabases, HandlerMarks, HandlerReturns,
     vars, appVars
<1>6. ASSUME \/ UserStep
             \/ \E r \in Requests : AdmitRequest(r) \/ CountRequest(r)
             \/ \E m \in Messages : AdmitMessage(m) \/ CountMessage(m)
      PROVE  UNCHANGED <<registered, mpc>>
  BY <1>6 DEF UserStep, RequestArrives, RequestDone, BeginFetch, FetchReturns,
     MessageDone, InitService, HookReturns, AdmitRequest, CountRequest, AdmitMessage,
     CountMessage, vars
<1> QED
  BY <1>1, <1>2, <1>3, <1>4, <1>5, <1>6
  DEF AppNext, RuntimeStep, QuietTick, Exited, allVars, vars, appVars

\* Every step keeps it that the api handler is registered and started last.
LEMMA NextStartedInv ==
    ASSUME IInv, StartedInv, [AppNext]_allVars
    PROVE  StartedInv'
<1> USE HandlersAssumption
<1> TypeOK /\ HandlersInv
  BY DEF IInv
<1>1. CASE UNCHANGED <<hpc, registered, mpc>>
  BY <1>1 DEF StartedInv
<1>2. CASE StartHandlers /\ UNCHANGED appVars
  BY <1>2 DEF StartHandlers, appVars, StartedInv, HandlersInv
<1>3. ASSUME NEW h \in Handlers, NEW r \in Returned,
             HandlerReturns(h, r), UNCHANGED mpc
      PROVE  StartedInv'
  BY <1>3 DEF HandlerReturns, Returned, StartedInv, TypeOK
<1>4. CASE ApiReturn \/ CloseConnections \/ ServicesReturn \/ CloseDatabases
  BY <1>3, <1>4 DEF ApiReturn, CloseConnections, ServicesReturn, CloseDatabases,
     Returned, appVars
<1>5. CASE Run
  BY <1>5 DEF Run, RegisterShutdownHandler, StartedInv, TypeOK
<1>6. ASSUME NEW h \in Handlers, PackageInit(h)
      PROVE  StartedInv'
  BY <1>6 DEF PackageInit, RegisterShutdownHandler, appVars, StartedInv, TypeOK
<1> QED
  BY <1>1, <1>2, <1>4, <1>5, <1>6, HandlerMoves, RegistrationMoves

\* Every step keeps what a handler that has returned has closed.
LEMMA NextReturnedInv ==
    ASSUME IInv, StartedInv, ReturnedInv, [AppNext]_allVars
    PROVE  ReturnedInv'
<1> USE HandlersAssumption
<1> TypeOK /\ HandlersInv
  BY DEF IInv
<1>1. CASE StartHandlers /\ UNCHANGED appVars
  BY <1>1 DEF StartHandlers, appVars, apiVars, psVars, ReturnedInv, HandlersInv, Returned
<1>2. CASE ApiReturn
  BY <1>2 DEF ApiReturn, HandlerReturns, appVars, apiVars, psVars, ReturnedInv, Returned, TypeOK
<1>3. CASE CloseConnections
  BY <1>3 DEF CloseConnections, HandlerReturns, Derived, apiVars, ReturnedInv, Returned, TypeOK
<1>4. CASE ServicesReturn
  BY <1>4 DEF ServicesReturn, HandlerReturns, appVars, apiVars, psVars, ReturnedInv, TypeOK
<1>5. CASE CloseDatabases
  BY <1>5 DEF CloseDatabases, HandlerReturns, apiVars, psVars, ReturnedInv, TypeOK
<1>6. SUFFICES ASSUME UNCHANGED hpc PROVE ReturnedInv'
  BY <1>1, <1>2, <1>3, <1>4, <1>5, HandlerMoves
<1>7. ASSUME UNCHANGED <<srv, listening, psCtx, ipc>> PROVE ReturnedInv'
  BY <1>6, <1>7 DEF ReturnedInv
<1>8. CASE UNCHANGED appVars
  BY <1>7, <1>8 DEF appVars, apiVars, psVars
<1>9. CASE Run
  <2>1. srv = "none"
    BY <1>9 DEF Run, StartedInv, ReturnedInv
  <2> QED
    BY <1>6, <1>9, <2>1 DEF Run, psVars, ReturnedInv
<1>10. CASE MainShutdown
  BY <1>6, <1>10 DEF MainShutdown, psVars, ReturnedInv
<1>11. ASSUME NEW r \in Requests,
              \/ RequestArrives(r) \/ AdmitRequest(r)
              \/ CountRequest(r) \/ RequestDone(r)
       PROVE  ReturnedInv'
  BY <1>7, <1>11 DEF RequestArrives, AdmitRequest, CountRequest, RequestDone, psVars
<1>12. ASSUME NEW m \in Messages,
              \/ BeginFetch(m) \/ FetchReturns(m) \/ AdmitMessage(m)
              \/ CountMessage(m) \/ MessageDone(m)
       PROVE  ReturnedInv'
  BY <1>7, <1>12 DEF BeginFetch, FetchReturns, AdmitMessage, CountMessage, MessageDone, apiVars
<1>13. ASSUME NEW s \in Services, InitService(s) \/ HookReturns(s)
       PROVE  ReturnedInv'
  BY <1>7, <1>13 DEF InitService, HookReturns, apiVars, psVars
<1>14. CASE ApiShutdown
  BY <1>6, <1>14 DEF ApiShutdown, psVars, ReturnedInv, Returned
<1>15. CASE ApiHandlersDone \/ HttpWatch
  BY <1>7, <1>15 DEF ApiHandlersDone, HttpWatch, psVars
<1>16. CASE HttpStep
  BY <1>6, <1>16 DEF HttpStep, HttpClose, HttpDrain, psVars, ReturnedInv
<1>17. CASE PubSubShutdown \/ PubSubHandlersDone \/ PubSubWatch
  BY <1>6, <1>17 DEF PubSubShutdown, PubSubHandlersDone, PubSubWatch, apiVars, ReturnedInv
<1>18. CASE ServicesShutdown \/ HooksReturned
  BY <1>7, <1>18 DEF ServicesShutdown, HooksReturned, apiVars, psVars
<1>19. CASE AwaitServices \/ AwaitOutstandingTasks
  BY <1>6, <1>19 DEF AwaitServices, AwaitOutstandingTasks, apiVars, psVars, ReturnedInv
<1> QED
  BY <1>2, <1>3, <1>4, <1>5, <1>8, <1>9, <1>10, <1>11, <1>12, <1>13, <1>14, <1>15,
     <1>16, <1>17, <1>18, <1>19
  DEF AppNext, RuntimeStep, UserStep, ApiStep, PubSubStep, ServicesStep, InfraStep,
      PackageInit, Signal, QuietTick, allVars

\* Exit code 0 of an app that got as far as serving means that it no longer
\* listens, that its Pub/Sub and database connections are closed, whichever
\* handler came first, and that the service hooks have returned.
THEOREM CleanExitDrainedTheorem == AppSpec => []CleanExitDrained
<1>1. AppInit => InfraInv /\ StartedInv /\ ReturnedInv
  <2> SUFFICES ASSUME AppInit PROVE InfraInv /\ StartedInv /\ ReturnedInv
    OBVIOUS
  <2>1. InfraInv
    BY DEF AppInit, Init, InfraInv, Done, Contexts
  <2> QED
    BY <2>1, HandlersAssumption DEF AppInit, Init, StartedInv, ReturnedInv, Returned
<1>2. IInv /\ InfraInv /\ [AppNext]_allVars => InfraInv'
  BY NextInfraInv
<1>3. IInv /\ StartedInv /\ [AppNext]_allVars => StartedInv'
  BY NextStartedInv
<1>4. IInv /\ StartedInv /\ ReturnedInv /\ [AppNext]_allVars => ReturnedInv'
  BY NextReturnedInv
<1>5. ASSUME IInv, CleanExit, InfraInv, StartedInv, ReturnedInv
      PROVE  CleanExitDrained
  <2> SUFFICES ASSUME exit = "exit0", hpc["api"] # "idle"
               PROVE  /\ ~listening /\ "Connection" \in psCtx
                      /\ ipc = "closed" /\ \A s \in Services : hook[s] # "running"
    BY DEF CleanExitDrained
  <2>1. \A h \in Handlers : hpc[h] \in Returned
    BY <1>5 DEF CleanExit, StartedInv, Returned, IInv, TypeOK, HandlerStates
  <2> QED
    BY <1>5, <2>1, HandlersAssumption DEF ReturnedInv, InfraInv, Returned
<1> QED
  BY <1>1, <1>2, <1>3, <1>4, <1>5, Refinement, Invariance, AppCleanExit, PTL DEF AppSpec, TrackerSpec

-----------------------------------------------------------------------------
(***************************************************************************)
(* The base contexts are canceled before tasks are given up on.  This      *)
(* needs time to pass only when the goroutines concerned are not runnable, *)
(* which is what QuietTick provides; as the provers cannot look into its   *)
(* ENABLED, what is used of it is stated apart.                            *)
(***************************************************************************)
\* The handlers are still to be started, or Server.Shutdown, Manager.Shutdown
\* or a goroutine of theirs that waits for ForceCloseTasks can go on.
Overdue ==
    \/ rpc = "snapshot"
    \/ hpc["api"] = "running" /\ apc = "start"
    \/ hpc["pubsub"] = "running" /\ ppc = "start"
    \/ httpWatch = "waiting" /\ Done("ForceCloseTasks")
    \/ psWatch = "waiting" /\ Done("ForceCloseTasks")

Prompt == [][Tick => ~Overdue]_allVars

\* A watcher is started with its handler's drain and ends by canceling.
WatchInv ==
    /\ apc # "start" => httpWatch \in {"waiting", "done"}
    /\ httpWatch = "done" => httpCtx
    /\ ppc # "start" => psWatch \in {"waiting", "done"}
    /\ psWatch = "done" => "Handler" \in psCtx

\* Once the grace of the tasks has begun to run, the base contexts are canceled.
GraceUsed == ctx["OutstandingTasks"] = "live"
               /\ left["OutstandingTasks"] < forceCloseTasksGrace

CanceledInv ==
    GraceUsed => /\ rpc # "snapshot"
                 /\ ctx["ForceCloseTasks"] = "deadline" =>
                      /\ hpc["api"] = "running" => httpCtx
                      /\ hpc["pubsub"] = "running" => "Handler" \in psCtx

\* Only time makes the grace of the tasks begin to run.
LEMMA GraceBegins ==
    ASSUME IInv, [Next]_vars, ~Tick, GraceUsed'
    PROVE  /\ GraceUsed
           /\ rpc' = "snapshot" => rpc = "snapshot"
           /\ ctx'["ForceCloseTasks"] = "deadline" => ctx["ForceCloseTasks"] = "deadline"
<1> DEFINE Goal == /\ GraceUsed
                   /\ rpc' = "snapshot" => rpc = "snapshot"
                   /\ ctx'["ForceCloseTasks"] = "deadline"
                        => ctx["ForceCloseTasks"] = "deadline"
           tasks == {"OutstandingTasks", "ForceCloseTasks"}
<1> TypeOK /\ TasksInv
  BY DEF IInv
<1>1. ASSUME UNCHANGED rpc \/ rpc' # "snapshot",
             \A x \in tasks : ctx'[x] = ctx[x],
             left'["OutstandingTasks"] = left["OutstandingTasks"]
      PROVE  Goal
  BY <1>1 DEF GraceUsed
<1>2. ASSUME NEW c \in Callers PROVE ~beginShutdownProcess(c)
  <2> SUFFICES ASSUME beginShutdownProcess(c) PROVE FALSE
    OBVIOUS
  <2>1. left'["OutstandingTasks"] = timings.cancelRunningTasksAfter + forceCloseTasksGrace
    BY DEF beginShutdownProcess, DeadlineOf, Timers, Deadlines
  <2>2. timings.cancelRunningTasksAfter \in Nat
    BY DEF TypeOK, processTimings
  <2> QED
    BY <2>1, <2>2 DEF GraceUsed, forceCloseTasksGrace, second
<1>3. ASSUME NEW c \in Contexts \ tasks, NEW how \in {"canceled", "deadline"},
             ctx' = Ended(c, how)
      PROVE  \A x \in tasks : ctx'[x] = ctx[x]
  BY <1>3, EndedEffect DEF Tree, Contexts
<1>4. ASSUME HandlersReturned \/ AwaitHandlers \/ ForceShutdownCanceled \/ GraceOver
      PROVE  Goal
  BY <1>1, <1>3, <1>4 DEF HandlersReturned, AwaitHandlers, ForceShutdownCanceled, GraceOver,
     MarkShutdownCompleted, Cancel, Contexts
<1>5. ASSUME AwaitPubSubMessages PROVE Goal
  <2>1. ctx["OutstandingTasks"] = "live" => ctx'["OutstandingTasks"] = "canceled"
    BY <1>5 DEF AwaitPubSubMessages, Cancel, Ended, Tree, Contexts
  <2>2. ctx["OutstandingTasks"] # "live" => ctx' = ctx
    BY <1>5 DEF AwaitPubSubMessages, Cancel, Ended
  <2> QED
    BY <2>1, <2>2 DEF GraceUsed
<1>6. ASSUME ForceShutdownReached PROVE Goal
  BY <1>1, <1>6 DEF ForceShutdownReached, TypeOK, Contexts, Timers, Deadlines
<1>7. ASSUME NEW h \in Handlers, NEW c \in Markable, HandlerMarks(h, c)
      PROVE  Goal
  BY <1>1, <1>3, <1>7 DEF HandlerMarks, Markable, Cancel, Contexts
<1>8. ASSUME NEW t \in Deadlines, DeadlineExceeded(t)
      PROVE  Goal
  <2>1. CASE t \notin tasks
    BY <1>1, <1>3, <1>8, <2>1 DEF DeadlineExceeded, Deadlines, Contexts
  <2>2. t # "OutstandingTasks"
    BY <1>8 DEF DeadlineExceeded, Ended, Tree, Contexts, GraceUsed
  <2>3. t # "ForceCloseTasks"
    <3> SUFFICES ASSUME t = "ForceCloseTasks" PROVE FALSE
      OBVIOUS
    <3>1. ctx["OutstandingTasks"] = "live" /\ ctx["ForceCloseTasks"] = "live"
      BY <1>8 DEF DeadlineExceeded, Ended, Tree, Contexts, GraceUsed
    <3> QED
      BY <1>8, <3>1 DEF DeadlineExceeded, TasksInv, GraceUsed, forceCloseTasksGrace, second
  <2> QED
    BY <2>1, <2>2, <2>3
<1>9. ASSUME NEW c \in Callers, NEW r, ShutdownFirst(c, r)
      PROVE  Goal
  BY <1>1, <1>9 DEF ShutdownFirst, TypeOK, Timers, Deadlines
<1>10. ASSUME UNCHANGED <<ctx, left>>, UNCHANGED rpc \/ rpc' # "snapshot" PROVE Goal
  BY <1>1, <1>10
<1>11. ASSUME AwaitRequests \/ AwaitTasks \/ StartHandlers PROVE Goal
  BY <1>10, <1>11 DEF AwaitRequests, AwaitTasks, StartHandlers
<1>12. ASSUME NEW c \in Callers, StopSleeping(c) \/ exitOnCompletion(c) \/ ShutdownAgain(c)
       PROVE  Goal
  BY <1>10, <1>12 DEF StopSleeping, exitOnCompletion, ShutdownAgain
<1>13. ASSUME NEW h \in Handlers,
              \/ RegisterShutdownHandler(h)
              \/ \E r \in {"ok", "failed"} : HandlerReturns(h, r)
       PROVE  Goal
  BY <1>10, <1>13 DEF RegisterShutdownHandler, HandlerReturns
<1>14. ASSUME UNCHANGED vars PROVE Goal
  BY <1>10, <1>14 DEF vars
<1> HIDE DEF Goal
<1>15. ASSUME TrackerStep PROVE Goal
  BY <1>2, <1>4, <1>5, <1>6, <1>8, <1>11, <1>12, <1>15 DEF TrackerStep
<1>16. ASSUME EnvStep PROVE Goal
  BY <1>7, <1>9, <1>12, <1>13, <1>16 DEF EnvStep
<1>17. Goal
  BY <1>14, <1>15, <1>16 DEF Next, Exited
<1> QED
  BY <1>17 DEF Goal

\* The watchers keep to that, and a canceled context stays canceled.
LEMMA NextWatchInv ==
    ASSUME WatchInv, [AppNext]_allVars
    PROVE  /\ WatchInv'
           /\ httpCtx => httpCtx'
           /\ "Handler" \in psCtx => "Handler" \in psCtx'
<1> DEFINE Goal == /\ WatchInv'
                   /\ httpCtx => httpCtx'
                   /\ "Handler" \in psCtx => "Handler" \in psCtx'
<1>1. ASSUME UNCHANGED <<httpCtx, httpWatch, apc, psVars>> PROVE Goal
  BY <1>1 DEF WatchInv, psVars
<1>2. ASSUME UNCHANGED <<apiVars, psCtx, psWatch, ppc>> PROVE Goal
  BY <1>2 DEF WatchInv, apiVars
<1>3. ASSUME ApiStep \/ HttpWatch PROVE Goal
  BY <1>3 DEF ApiStep, ApiShutdown, ApiHandlersDone, ApiReturn, HttpWatch, WatchInv,
     appVars, apiVars, psVars
<1>4. ASSUME PubSubStep \/ PubSubWatch PROVE Goal
  BY <1>4 DEF PubSubStep, PubSubShutdown, PubSubHandlersDone, CloseConnections, PubSubWatch,
     Derived, WatchInv, apiVars
<1>5. ASSUME UNCHANGED appVars PROVE Goal
  BY <1>1, <1>5 DEF appVars, apiVars
<1>6. ASSUME HttpStep \/ ServicesStep \/ InfraStep PROVE Goal
  BY <1>1, <1>5, <1>6 DEF HttpStep, HttpClose, HttpDrain, ServicesStep, ServicesShutdown,
     HooksReturned, ServicesReturn, InfraStep, AwaitServices, AwaitOutstandingTasks,
     CloseDatabases, apiVars
<1>7. ASSUME \E h \in Handlers : PackageInit(h) \/ Run \/ MainShutdown \/ Signal PROVE Goal
  BY <1>1, <1>5, <1>7 DEF PackageInit, Run, MainShutdown, Signal
<1>8. ASSUME \E r \in Requests : \/ RequestArrives(r) \/ AdmitRequest(r)
                                 \/ CountRequest(r) \/ RequestDone(r)
      PROVE  Goal
  BY <1>1, <1>8 DEF RequestArrives, AdmitRequest, CountRequest, RequestDone
<1>9. ASSUME \E m \in Messages : \/ BeginFetch(m) \/ FetchReturns(m) \/ AdmitMessage(m)
                                 \/ CountMessage(m) \/ MessageDone(m)
      PROVE  Goal
  BY <1>2, <1>9 DEF BeginFetch, FetchReturns, AdmitMessage, CountMessage, MessageDone
<1>10. ASSUME \E s \in Services : InitService(s) \/ HookReturns(s) PROVE Goal
  BY <1>1, <1>10 DEF InitService, HookReturns, apiVars
<1> HIDE DEF Goal
<1>11. ASSUME RuntimeStep PROVE Goal
  BY <1>3, <1>4, <1>5, <1>6, <1>11 DEF RuntimeStep
<1>12. ASSUME UserStep PROVE Goal
  BY <1>8, <1>9, <1>10, <1>12 DEF UserStep
<1>13. QuietTick => UNCHANGED appVars
  BY DEF QuietTick
<1>14. Handlers # {}
  BY HandlersAssumption
<1>15. Goal
  BY <1>5, <1>7, <1>8, <1>9, <1>11, <1>12, <1>13, <1>14 DEF AppNext, allVars
<1> QED
  BY <1>15 DEF Goal

\* Time does not pass the start of the grace before the contexts are canceled,
\* and no handler is started later.
LEMMA NextCanceledInv ==
    ASSUME IInv, WatchInv, CanceledInv, [AppNext]_allVars, Tick => ~Overdue
    PROVE  CanceledInv'
<1> SUFFICES ASSUME GraceUsed'
             PROVE  /\ rpc' # "snapshot"
                    /\ ctx'["ForceCloseTasks"] = "deadline" =>
                         /\ hpc'["api"] = "running" => httpCtx'
                         /\ hpc'["pubsub"] = "running" => "Handler" \in psCtx'
  BY DEF CanceledInv
<1> USE HandlersAssumption
<1> TypeOK
  BY DEF IInv
<1>1. /\ httpCtx => httpCtx'
      /\ "Handler" \in psCtx => "Handler" \in psCtx'
  BY NextWatchInv
<1>2. CASE Tick
  <2>1. ~Overdue /\ UNCHANGED <<ctx, rpc, hpc>>
    BY <1>2 DEF Tick
  <2>2. ctx["ForceCloseTasks"] = "deadline" =>
           /\ hpc["api"] = "running" => httpCtx
           /\ hpc["pubsub"] = "running" => "Handler" \in psCtx
    BY <2>1 DEF Overdue, WatchInv, Done
  <2> QED
    BY <1>1, <2>1, <2>2 DEF Overdue
<1>3. CASE ~Tick
  <2>1. /\ GraceUsed
        /\ rpc' = "snapshot" => rpc = "snapshot"
        /\ ctx'["ForceCloseTasks"] = "deadline" => ctx["ForceCloseTasks"] = "deadline"
    BY <1>3, AppStep, GraceBegins
  <2>2. rpc # "snapshot"
    BY <2>1 DEF CanceledInv
  <2>3. ~StartHandlers
    BY <2>2 DEF StartHandlers
  <2>4. \A h \in Handlers : hpc'[h] = "running" => hpc[h] = "running"
    BY <2>3, HandlerMoves DEF ApiReturn, CloseConnections, ServicesReturn, CloseDatabases,
       HandlerReturns, TypeOK
  <2> QED
    BY <1>1, <2>1, <2>2, <2>4 DEF CanceledInv
<1> QED
  BY <1>2, <1>3

\* Before tasks are given up on, the base contexts of requests and of message
\* handlers have been canceled, provided time does not pass while the handlers
\* or their watchers are overdue.
THEOREM ForceClosedInTimeTheorem == AppSpec /\ Prompt => ForceClosedInTime
<1> DEFINE A == (ctx["OutstandingTasks"] = "live" /\ ctx'["OutstandingTasks"] = "deadline") =>
                   /\ hpc["api"] = "running" => httpCtx
                   /\ hpc["pubsub"] = "running" => "Handler" \in psCtx
           Inv == WatchInv /\ CanceledInv
<1>1. AppInit => Inv
  BY DEF AppInit, Init, WatchInv, CanceledInv, GraceUsed, Contexts
<1>2. IInv /\ Inv /\ [AppNext]_allVars /\ [Tick => ~Overdue]_allVars => Inv'
  <2> SUFFICES ASSUME IInv, Inv, [AppNext]_allVars, [Tick => ~Overdue]_allVars PROVE Inv'
    OBVIOUS
  <2>1. Tick => ~Overdue
    <3>1. Tick => left' # left
      <4> SUFFICES ASSUME Tick PROVE left' # left
        OBVIOUS
      <4>1. PICK t \in Timers : Running(t)
        BY DEF Tick
      <4>2. left[t] \in Nat /\ left'[t] = left[t] - 1
        BY <4>1 DEF Tick, IInv, TypeOK
      <4> QED
        BY <4>2
    <3> QED
      BY <3>1 DEF allVars, vars
  <2> QED
    BY <2>1, NextWatchInv, NextCanceledInv
<1>3. IInv /\ Inv /\ [AppNext]_allVars => [A]_allVars
  <2> SUFFICES ASSUME IInv, CanceledInv, AppNext, ctx["OutstandingTasks"] = "live",
                      ctx'["OutstandingTasks"] = "deadline"
               PROVE  /\ hpc["api"] = "running" => httpCtx
                      /\ hpc["pubsub"] = "running" => "Handler" \in psCtx
    OBVIOUS
  <2>1. Next
    BY AppStep DEF vars
  <2>2. ~AwaitPubSubMessages
    BY DEF AwaitPubSubMessages, Cancel, Ended, Tree, Contexts
  <2>3. DeadlineExceeded("OutstandingTasks")
    BY <2>1, <2>2, TasksEnd
  <2>4. left["OutstandingTasks"] = 0 /\ left["ForceCloseTasks"] \in Nat
    BY <2>3 DEF DeadlineExceeded, IInv, TypeOK, Timers, Deadlines
  <2>5. ctx["ForceCloseTasks"] = "deadline" /\ GraceUsed
    BY <2>4 DEF IInv, TasksInv, GraceUsed, forceCloseTasksGrace, second
  <2> QED
    BY <2>5 DEF CanceledInv
<1>4. AppSpec => []IInv
  BY Refinement, Invariance, PTL DEF TrackerSpec
<1> QED
  BY <1>1, <1>2, <1>3, <1>4, PTL DEF AppSpec, Prompt, ForceClosedInTime

=============================================================================
