--------------------------- MODULE ShutdownProofs ---------------------------
(***************************************************************************)
(* Proofs about the shutdown tracker, for every set of handlers, whatever  *)
(* they do, and every configuration.                                       *)
(***************************************************************************)
EXTENDS Shutdown, TLAPS

-----------------------------------------------------------------------------
(***************************************************************************)
(* The inductive invariant.                                                *)
(***************************************************************************)
Begun == \E c \in Callers : cpc[c] = "await"

\* Only the caller inside once.Do gets past its entry.
OnlyWinner ==
    /\ \A c \in Callers : cpc[c] \in {"sleep", "begin", "await"} => c = winner.caller
    /\ winner = NoWinner => \A c \in Callers : cpc[c] = "idle"

\* Before beginShutdownProcess nothing of the Process exists, after it all does.
CreatedOnce ==
    /\ ~Begun => /\ \A x \in Contexts : ctx[x] = "none"
                 /\ gA = "none" /\ gB = "none" /\ gC = "none"
                 /\ rpc = "none" /\ cause = "none" /\ exit = "none"
    /\ Begun => /\ \A x \in Contexts \ {"grace"} : ctx[x] # "none"
                /\ gA # "none" /\ gB # "none" /\ gC # "none" /\ rpc # "none"

\* handlersCompleted is canceled exactly when all handlers have returned.
HandlersInv ==
    /\ rpc \in {"none", "snapshot"} => \A h \in Handlers : hpc[h] = "idle"
    /\ rpc = "done" => \A h \in Handlers : hpc[h] # "running"
    /\ ctx["handlersCompleted"] # "deadline"
    /\ ctx["handlersCompleted"] = "canceled" => rpc = "done"

\* The second goroutine cancels ForceShutdown, and nothing else does.
EarlyInv ==
    /\ gB \in {"handlers", "done"} => Done("OutstandingTasks")
    /\ gB = "done" => rpc = "done"
    /\ ctx["ForceShutdown"] = "canceled" => gB = "done"
    /\ ctx["ForceShutdown"] = "deadline" => left["ForceShutdown"] = 0

\* The third goroutine and its grace period.
GraceInv ==
    /\ gC \in {"none", "force"} => ctx["grace"] = "none"
    /\ ctx["grace"] # "none" => ctx["ForceShutdown"] = "deadline"
    /\ ctx["grace"] = "canceled" => rpc = "done"
    /\ ctx["grace"] = "deadline" => left["grace"] = 0

\* Why ShutdownCompleted was closed, and how the process exits.
CompletedInv ==
    /\ cause = "none" => ctx["ShutdownCompleted"] \in {"none", "live"}
    /\ ctx["ShutdownCompleted"] # "deadline"
    /\ cause = "clean" => rpc = "done"
    /\ cause = "timeout" => ctx["grace"] = "deadline"
    /\ exit = "exit0" => cause = "clean"
    /\ exit = "exit1" => cause = "timeout"

\* The deadline of ForceCloseTasks comes forceCloseTasksGrace before that of
\* OutstandingTasks, and until then only the two together are canceled.
TasksInv ==
    /\ (ctx["OutstandingTasks"] = "live" /\ ctx["ForceCloseTasks"] = "live") =>
          left["OutstandingTasks"] = left["ForceCloseTasks"] + forceCloseTasksGrace
    /\ ctx["OutstandingTasks"] = "live" =>
          ctx["ForceCloseTasks"] \in {"live", "deadline"}

\* The first goroutine has seen the requests end.
DrainInv == gA \in {"pubsub", "done"} => Done("OutstandingRequests")

\* The winner leaves its sleep when the time is up.
SleepInv ==
    (/\ KeepsAccepting(winner.reason)
     /\ \E c \in Callers : cpc[c] \in {"begin", "await"}) => left["keepAccepting"] = 0

IInv == /\ TypeOK
        /\ OnlyWinner /\ CreatedOnce /\ HandlersInv /\ EarlyInv /\ GraceInv
        /\ CompletedInv /\ TasksInv /\ DrainInv /\ SleepInv

-----------------------------------------------------------------------------
\* The timings computed from any configuration are durations: no deadline of a
\* shutdown process lies before its start.
LEMMA TimingsType ==
    ASSUME NEW c \in Configs
    PROVE  timingsFromConfig(c) \in processTimings
<1> c \in Config
  BY ConfigsAssumption
<1> forceShutdownAfter(c) \in Nat
  BY UnsetAssumption DEF Config, forceShutdownAfter, forceShutdownGrace, second
<1> cancelRunningTasksAfter(c) \in Nat
  BY UnsetAssumption DEF Config, cancelRunningTasksAfter, AtLeastZero,
                         forceCloseTasksGrace, second
<1> keepAcceptingFor(c) \in Nat
  BY UnsetAssumption DEF Config, keepAcceptingFor, AtLeastZero, totalTime
<1> QED
  BY DEF timingsFromConfig, processTimings

\* Ending c changes only live contexts derived from c, and only to how.
LEMMA EndedEffect ==
    ASSUME TypeOK, NEW c \in Contexts, NEW how \in {"canceled", "deadline"},
           NEW x \in Contexts
    PROVE  /\ Ended(c, how)[x] \in {ctx[x], how}
           /\ Ended(c, how)[x] # ctx[x] => ctx[x] = "live" /\ x \in Tree(c)
BY DEF TypeOK, Ended

\* A tracker that was just created (NewTracker) satisfies the invariant.
LEMMA InitIInv == Init => IInv
<1> SUFFICES ASSUME Init PROVE IInv
  OBVIOUS
<1>1. TypeOK
  BY TimingsType DEF Init, NewTracker, TypeOK, HandlerStates
<1>2. ~Begun
  BY DEF Init, NewTracker, Begun
<1> QED
  BY <1>1, <1>2 DEF Init, NewTracker, IInv, OnlyWinner, CreatedOnce, HandlersInv,
     EarlyInv, GraceInv, CompletedInv, TasksInv, DrainInv, SleepInv, Contexts, Callers

-----------------------------------------------------------------------------
\* Every step of a caller, a goroutine, a timer or a handler keeps the invariant.
LEMMA NextIInv == IInv /\ [Next]_vars => IInv'
<1> SUFFICES ASSUME IInv, [Next]_vars PROVE IInv'
  OBVIOUS
<1> USE DEF IInv
<1> TypeOK
  OBVIOUS
<1>1. ASSUME NEW h \in Handlers, RegisterShutdownHandler(h)
      PROVE  IInv'
  BY <1>1 DEF RegisterShutdownHandler, TypeOK, Begun, OnlyWinner, CreatedOnce,
     HandlersInv, EarlyInv, GraceInv, CompletedInv, TasksInv, DrainInv, SleepInv,
     Done, KeepsAccepting
<1>2. ASSUME NEW c \in Callers, NEW r \in ReasonsOf(c), ShutdownFirst(c, r)
      PROVE  IInv'
  BY <1>2, SignalsAssumption DEF ShutdownFirst, TypeOK, Begun, OnlyWinner, CreatedOnce,
     HandlersInv, EarlyInv, GraceInv, CompletedInv, TasksInv, DrainInv, SleepInv,
     Done, KeepsAccepting, Callers, Reasons,
     ReasonsOf, NoWinner, Timers, Deadlines, processTimings
<1>3. ASSUME NEW c \in Callers, ShutdownAgain(c)
      PROVE  IInv'
  BY <1>3 DEF ShutdownAgain, TypeOK, Begun, OnlyWinner, CreatedOnce,
     HandlersInv, EarlyInv, GraceInv, CompletedInv, TasksInv, DrainInv, SleepInv,
     Done, KeepsAccepting
<1>4. ASSUME NEW c \in Callers, StopSleeping(c)
      PROVE  IInv'
  BY <1>4 DEF StopSleeping, TypeOK, Begun, OnlyWinner, CreatedOnce,
     HandlersInv, EarlyInv, GraceInv, CompletedInv, TasksInv, DrainInv, SleepInv,
     Done, KeepsAccepting
<1>5. ASSUME NEW c \in Callers, beginShutdownProcess(c)
      PROVE  IInv'
  BY <1>5 DEF beginShutdownProcess, TypeOK, Begun, OnlyWinner, CreatedOnce,
     HandlersInv, EarlyInv, GraceInv, CompletedInv, TasksInv, DrainInv, SleepInv,
     Done, KeepsAccepting, Created, DeadlineOf, Timers,
     Deadlines, Contexts, processTimings, forceCloseTasksGrace, second
<1>6. ASSUME NEW c \in Callers, exitOnCompletion(c)
      PROVE  IInv'
  BY <1>6 DEF exitOnCompletion, TypeOK, Begun, OnlyWinner, CreatedOnce,
     HandlersInv, EarlyInv, GraceInv, CompletedInv, TasksInv, DrainInv, SleepInv,
     Done, KeepsAccepting
<1>7. CASE AwaitRequests
  BY <1>7 DEF AwaitRequests, TypeOK, Begun, OnlyWinner, CreatedOnce,
     HandlersInv, EarlyInv, GraceInv, CompletedInv, TasksInv, DrainInv, SleepInv,
     Done, KeepsAccepting
<1>8. CASE AwaitPubSubMessages
  BY <1>8 DEF AwaitPubSubMessages, TypeOK, Begun, OnlyWinner, CreatedOnce,
     HandlersInv, EarlyInv, GraceInv, CompletedInv, TasksInv, DrainInv, SleepInv,
     Done, KeepsAccepting, Cancel, Ended, Tree, Contexts
<1>9. CASE AwaitTasks
  BY <1>9 DEF AwaitTasks, TypeOK, Begun, OnlyWinner, CreatedOnce,
     HandlersInv, EarlyInv, GraceInv, CompletedInv, TasksInv, DrainInv, SleepInv,
     Done, KeepsAccepting
<1>10. CASE AwaitHandlers
  BY <1>10 DEF AwaitHandlers, TypeOK, Begun, OnlyWinner, CreatedOnce,
     HandlersInv, EarlyInv, GraceInv, CompletedInv, TasksInv, DrainInv, SleepInv,
     Done, KeepsAccepting, Cancel, Ended, Tree, Contexts
<1>11. CASE ForceShutdownCanceled
  BY <1>11 DEF ForceShutdownCanceled, MarkShutdownCompleted, TypeOK, Begun, OnlyWinner, CreatedOnce,
     HandlersInv, EarlyInv, GraceInv, CompletedInv, TasksInv, DrainInv, SleepInv,
     Done, KeepsAccepting, Cancel, Ended, Tree, Contexts
<1>12. CASE ForceShutdownReached
  BY <1>12 DEF ForceShutdownReached, TypeOK, Begun, OnlyWinner, CreatedOnce,
     HandlersInv, EarlyInv, GraceInv, CompletedInv, TasksInv, DrainInv, SleepInv,
     Done, KeepsAccepting, Contexts, Timers, Deadlines,
     forceShutdownGrace, second
<1>13. CASE exit = "none" /\ GraceOver
  <2> USE <1>13 DEF GraceOver, MarkShutdownCompleted
  <2>1. /\ ctx' \in [Contexts -> {"none", "live", "canceled", "deadline"}]
        /\ \A x \in Contexts \ {"ShutdownCompleted"} : ctx'[x] = ctx[x]
        /\ ctx'["ShutdownCompleted"] \in {ctx["ShutdownCompleted"], "canceled"}
    BY DEF TypeOK, Cancel, Ended, Tree, Contexts
  <2>2. /\ cause' \in {"clean", "timeout"}
        /\ cause' = "clean" => ctx["grace"] = "canceled"
        /\ cause' = "timeout" => ctx["grace"] = "deadline"
    BY DEF Done
  <2>3. TypeOK'
    BY <2>1, <2>2 DEF TypeOK
  <2>4. OnlyWinner' /\ CreatedOnce' /\ SleepInv'
    BY <2>1, <2>2 DEF OnlyWinner, CreatedOnce, SleepInv, Begun, KeepsAccepting, Contexts
  <2>5. HandlersInv' /\ EarlyInv' /\ GraceInv' /\ TasksInv' /\ DrainInv'
    BY <2>1 DEF HandlersInv, EarlyInv, GraceInv, TasksInv, DrainInv, Done, Contexts
  <2>6. CompletedInv'
    BY <2>1, <2>2 DEF CompletedInv, GraceInv, CreatedOnce, Contexts, TypeOK
  <2> QED
    BY <2>3, <2>4, <2>5, <2>6
<1>14. CASE StartHandlers
  BY <1>14 DEF StartHandlers, TypeOK, HandlerStates, Begun, OnlyWinner, CreatedOnce,
     HandlersInv, EarlyInv, GraceInv, CompletedInv, TasksInv, DrainInv, SleepInv,
     Done, KeepsAccepting
<1>15. CASE HandlersReturned
  BY <1>15 DEF HandlersReturned, TypeOK, Begun, OnlyWinner, CreatedOnce,
     HandlersInv, EarlyInv, GraceInv, CompletedInv, TasksInv, DrainInv, SleepInv,
     Done, KeepsAccepting, Cancel, Ended, Tree, Contexts
<1>16. ASSUME NEW h \in Handlers, NEW c \in Markable, HandlerMarks(h, c)
       PROVE  IInv'
  BY <1>16 DEF HandlerMarks, Markable, TypeOK, Begun, OnlyWinner, CreatedOnce,
     HandlersInv, EarlyInv, GraceInv, CompletedInv, TasksInv, DrainInv, SleepInv,
     Done, KeepsAccepting, Cancel, Ended, Tree, Contexts
<1>17. ASSUME NEW h \in Handlers, NEW r \in {"ok", "failed"}, HandlerReturns(h, r)
       PROVE  IInv'
  BY <1>17 DEF HandlerReturns, TypeOK, HandlerStates, Begun, OnlyWinner, CreatedOnce,
     HandlersInv, EarlyInv, GraceInv, CompletedInv, TasksInv, DrainInv, SleepInv,
     Done, KeepsAccepting
<1>18. ASSUME NEW t \in Deadlines, DeadlineExceeded(t)
       PROVE  IInv'
  BY <1>18 DEF DeadlineExceeded, Deadlines, TypeOK, Begun, OnlyWinner, CreatedOnce,
     HandlersInv, EarlyInv, GraceInv, CompletedInv, TasksInv, DrainInv, SleepInv,
     Done, KeepsAccepting, Ended, Tree, Contexts,
     forceCloseTasksGrace, second
<1>19. CASE Tick
  <2> USE <1>19 DEF Tick
  <2>1. /\ left' \in [Timers -> Nat]
        /\ \A t \in Timers : ~Running(t) => left'[t] = left[t]
        /\ \A t \in Timers : Running(t) => left'[t] = left[t] - 1
    BY DEF TypeOK
  <2>2. TypeOK'
    BY <2>1 DEF TypeOK
  <2>3. OnlyWinner' /\ CreatedOnce' /\ HandlersInv' /\ CompletedInv' /\ DrainInv'
    BY DEF OnlyWinner, CreatedOnce, HandlersInv, CompletedInv, DrainInv, Done, Begun
  <2>4. EarlyInv' /\ GraceInv'
    BY <2>1 DEF EarlyInv, GraceInv, Done, Running, Timers, Deadlines
  <2>5. TasksInv'
    BY <2>1 DEF TasksInv, Running, Timers, Deadlines, forceCloseTasksGrace, second, TypeOK
  <2>6. SleepInv'
    BY <2>1 DEF SleepInv, OnlyWinner, KeepsAccepting, Running, Timers, Callers
  <2> QED
    BY <2>2, <2>3, <2>4, <2>5, <2>6
<1>20. CASE UNCHANGED vars
  BY <1>20 DEF vars, TypeOK, Begun, OnlyWinner, CreatedOnce,
     HandlersInv, EarlyInv, GraceInv, CompletedInv, TasksInv, DrainInv, SleepInv,
     Done, KeepsAccepting
<1> QED
  BY <1>1, <1>2, <1>3, <1>4, <1>5, <1>6, <1>7, <1>8, <1>9, <1>10, <1>11, <1>12,
     <1>13, <1>14, <1>15, <1>16, <1>17, <1>18, <1>19, <1>20
  DEF Next, TrackerStep, EnvStep, Exited

-----------------------------------------------------------------------------
\* The invariant holds throughout: the tracker's goroutines, deadlines and
\* racing callers keep to it whatever the handlers do.
THEOREM Invariance == Spec => []IInv
<1>1. Init => IInv
  BY InitIInv
<1>2. IInv /\ [Next]_vars => IInv'
  BY NextIInv
<1> QED
  BY <1>1, <1>2, PTL DEF Spec

\* Every variable of the tracker keeps its type, for any configuration: no
\* timer runs below zero.
THEOREM Typing == Spec => []TypeOK
<1>1. IInv => TypeOK
  BY DEF IInv
<1> QED
  BY <1>1, Invariance, PTL

\* Exit code 0 means that every handler that was started has returned.
THEOREM CleanExitTheorem == Spec => []CleanExit
<1>1. IInv => CleanExit
  BY DEF IInv, CleanExit, CompletedInv, HandlersInv
<1> QED
  BY <1>1, Invariance, PTL

\* Exit code 1 means that the whole window and the whole grace were used up.
THEOREM ForcedExitTheorem == Spec => []ForcedExit
<1>1. IInv => ForcedExit
  BY DEF IInv, ForcedExit, CompletedInv, GraceInv, EarlyInv
<1> QED
  BY <1>1, Invariance, PTL

\* ForceShutdown is canceled early only when tasks and handlers are done.
THEOREM EarlyForceShutdownTheorem == Spec => []EarlyForceShutdown
<1>1. IInv => EarlyForceShutdown
  BY DEF IInv, EarlyForceShutdown, EarlyInv
<1> QED
  BY <1>1, Invariance, PTL

\* On SIGTERM no shutdown process begins before keepAcceptingFor has passed.
THEOREM KeepAcceptingTheorem == Spec => []KeepAccepting
<1>1. IInv => KeepAccepting
  BY DEF IInv, KeepAccepting, SleepInv, CreatedOnce, Begun, Contexts
<1> QED
  BY <1>1, Invariance, PTL

\* With Total configured, a forced exit comes within the pod's grace period,
\* for every configuration.
THEOREM K8sWindowTheorem == Spec => []K8sWindow
<1>1. K8sWindow
  <2> SUFFICES ASSUME NEW c \in Configs,
                      timings = timingsFromConfig(c),
                      Unset \notin {c.k8sGrace, c.total},
                      c.total > forceShutdownGrace,
                      c.k8sGrace >= c.total
               PROVE  ForcedExitAfter <= c.k8sGrace
    BY DEF K8sWindow
  <2>1. c.k8sGrace \in Int /\ c.total \in Int
    BY ConfigsAssumption DEF Config
  <2>2. forceShutdownAfter(c) = c.total - forceShutdownGrace
    BY <2>1 DEF forceShutdownAfter, forceShutdownGrace, second
  <2>3. keepAcceptingFor(c) = c.k8sGrace - c.total
    BY <2>1 DEF keepAcceptingFor, AtLeastZero, totalTime
  <2> QED
    BY <2>1, <2>2, <2>3 DEF ForcedExitAfter, timingsFromConfig, forceShutdownGrace, second
<1> QED
  BY <1>1, PTL

\* Only two steps end OutstandingTasks: the first goroutine, and its deadline.
LEMMA TasksEnd ==
    ASSUME IInv, Next, ctx["OutstandingTasks"] = "live",
           ctx'["OutstandingTasks"] # "live"
    PROVE  AwaitPubSubMessages \/ DeadlineExceeded("OutstandingTasks")
<1> TypeOK /\ CreatedOnce /\ OnlyWinner
  BY DEF IInv
<1>1. ASSUME NEW c \in Contexts, NEW how \in {"canceled", "deadline"},
             ctx' = Ended(c, how)
      PROVE  c = "OutstandingTasks"
  BY <1>1, EndedEffect DEF Tree, Contexts
<1>2. ctx' # ctx
  OBVIOUS
<1>3. ASSUME NEW c \in Callers PROVE ~beginShutdownProcess(c)
  BY <1>3 DEF beginShutdownProcess, CreatedOnce, OnlyWinner, Begun, Contexts
<1>4. ~HandlersReturned /\ ~AwaitHandlers /\ ~ForceShutdownCanceled /\ ~GraceOver
  BY <1>1 DEF HandlersReturned, AwaitHandlers, ForceShutdownCanceled, GraceOver,
              MarkShutdownCompleted, Cancel, Contexts
<1>5. ~ForceShutdownReached
  BY DEF ForceShutdownReached, TypeOK, Contexts
<1>6. ASSUME NEW h \in Handlers, NEW c \in Markable PROVE ~HandlerMarks(h, c)
  BY <1>1 DEF HandlerMarks, Cancel, Markable, Contexts
<1>7. ASSUME NEW t \in Deadlines, DeadlineExceeded(t) PROVE t = "OutstandingTasks"
  BY <1>1, <1>7 DEF DeadlineExceeded, Deadlines, Contexts
<1> QED
  BY <1>2, <1>3, <1>4, <1>5, <1>6, <1>7
  DEF Next, TrackerStep, EnvStep, Exited, Tick, StopSleeping, exitOnCompletion,
      AwaitRequests, AwaitTasks, StartHandlers, RegisterShutdownHandler,
      ShutdownFirst, ShutdownAgain, HandlerReturns, vars

-----------------------------------------------------------------------------
(***************************************************************************)
(* How the contexts of the tasks ended, and so why: they are derived from  *)
(* OutstandingTasks, whose deadline ends them all with it.                 *)
(***************************************************************************)
OutcomeInv ==
    /\ ctx["OutstandingTasks"] = "canceled" =>
          /\ ctx["OutstandingRequests"] = "canceled"
          /\ ctx["OutstandingPubSubMessages"] = "canceled"
    /\ ctx["OutstandingRequests"] = "deadline" => ctx["OutstandingTasks"] = "deadline"
    /\ ctx["OutstandingPubSubMessages"] = "deadline" => ctx["OutstandingTasks"] = "deadline"
    /\ ctx["ForceCloseTasks"] = "canceled" => ctx["OutstandingTasks"] = "canceled"

\* The tasks are canceled as a whole only when each kind was marked completed.
LEMMA NextOutcomeInv ==
    ASSUME IInv, OutcomeInv, [Next]_vars
    PROVE  OutcomeInv'
<1> TypeOK /\ CreatedOnce /\ OnlyWinner /\ DrainInv
  BY DEF IInv
<1> DEFINE tasks == {"OutstandingTasks", "OutstandingRequests",
                     "OutstandingPubSubMessages", "ForceCloseTasks"}
<1>1. ASSUME \A x \in tasks : ctx'[x] = ctx[x]
      PROVE  OutcomeInv'
  BY <1>1 DEF OutcomeInv
<1>2. ASSUME NEW c \in Contexts \ tasks, NEW how \in {"canceled", "deadline"},
             ctx' = Ended(c, how)
      PROVE  OutcomeInv'
  BY <1>1, <1>2, EndedEffect DEF Tree, Contexts
<1>3. ASSUME NEW c \in Callers, beginShutdownProcess(c)
      PROVE  OutcomeInv'
  BY <1>3 DEF beginShutdownProcess, OutcomeInv, Created, Deadlines, Contexts
<1>4. CASE AwaitPubSubMessages
  BY <1>4 DEF AwaitPubSubMessages, OutcomeInv, DrainInv, Done, Cancel, Ended, Tree,
     Contexts, TypeOK
<1>5. CASE AwaitHandlers \/ HandlersReturned \/ ForceShutdownCanceled \/ GraceOver
  BY <1>2, <1>5 DEF AwaitHandlers, HandlersReturned, ForceShutdownCanceled, GraceOver,
     MarkShutdownCompleted, Cancel, Contexts
<1>6. CASE ForceShutdownReached
  BY <1>1, <1>6 DEF ForceShutdownReached, TypeOK, Contexts
<1>7. ASSUME NEW h \in Handlers, NEW c \in Markable, HandlerMarks(h, c)
      PROVE  OutcomeInv'
  BY <1>7 DEF HandlerMarks, Markable, OutcomeInv, Cancel, Ended, Tree, Contexts, TypeOK
<1>8. ASSUME NEW t \in Deadlines, DeadlineExceeded(t)
      PROVE  OutcomeInv'
  <2>1. CASE t \notin tasks
    BY <1>2, <1>8, <2>1 DEF DeadlineExceeded, Deadlines, Contexts
  <2>2. CASE t = "OutstandingTasks"
    BY <1>8, <2>2 DEF DeadlineExceeded, OutcomeInv, Ended, Tree, Contexts, TypeOK
  <2>3. CASE t = "ForceCloseTasks"
    BY <1>8, <2>3 DEF DeadlineExceeded, OutcomeInv, Ended, Tree, Contexts, TypeOK
  <2> QED
    BY <2>1, <2>2, <2>3 DEF Deadlines
<1>9. CASE ctx' = ctx
  BY <1>1, <1>9
<1> QED
  BY <1>3, <1>4, <1>5, <1>6, <1>7, <1>8, <1>9
  DEF Next, TrackerStep, EnvStep, Exited, Tick, StopSleeping, exitOnCompletion,
      AwaitRequests, AwaitTasks, StartHandlers, RegisterShutdownHandler,
      ShutdownFirst, ShutdownAgain, HandlerReturns, vars

\* All tasks count as completed (rather than timed out) only when requests and
\* messages were each marked completed, and task contexts are canceled ahead
\* of their deadline for no other reason.
THEOREM OutcomeTheorem == Spec => []OutcomeInv
<1>1. Init => OutcomeInv
  BY DEF Init, OutcomeInv, Contexts
<1>2. IInv /\ OutcomeInv /\ [Next]_vars => OutcomeInv'
  BY NextOutcomeInv
<1> QED
  BY <1>1, <1>2, Invariance, PTL DEF Spec

\* OutstandingTasks is canceled only when requests and messages both are done.
THEOREM TasksEndTogetherTheorem == Spec => TasksEndTogether
<1> DEFINE A == (ctx["OutstandingTasks"] = "live" /\ ctx'["OutstandingTasks"] = "canceled")
                   => Done("OutstandingRequests") /\ Done("OutstandingPubSubMessages")
<1>1. IInv /\ [Next]_vars => [A]_vars
  <2> SUFFICES ASSUME IInv, Next, ctx["OutstandingTasks"] = "live",
                      ctx'["OutstandingTasks"] = "canceled"
               PROVE  Done("OutstandingRequests") /\ Done("OutstandingPubSubMessages")
    OBVIOUS
  <2>1. ~DeadlineExceeded("OutstandingTasks")
    BY DEF DeadlineExceeded, Ended, Tree, Contexts
  <2>2. AwaitPubSubMessages
    BY <2>1, TasksEnd
  <2> QED
    BY <2>2 DEF AwaitPubSubMessages, IInv, DrainInv, Done
<1> QED
  BY <1>1, Invariance, PTL DEF Spec, TasksEndTogether

\* When OutstandingTasks reaches its deadline, ForceCloseTasks already has.
THEOREM ForceCloseFirstTheorem == Spec => ForceCloseFirst
<1> DEFINE A == (ctx["OutstandingTasks"] = "live" /\ ctx'["OutstandingTasks"] = "deadline")
                   => ctx["ForceCloseTasks"] = "deadline"
<1>1. IInv /\ [Next]_vars => [A]_vars
  <2> SUFFICES ASSUME IInv, Next, ctx["OutstandingTasks"] = "live",
                      ctx'["OutstandingTasks"] = "deadline"
               PROVE  ctx["ForceCloseTasks"] = "deadline"
    OBVIOUS
  <2>1. ~AwaitPubSubMessages
    BY DEF AwaitPubSubMessages, Cancel, Ended, Tree, Contexts
  <2>2. DeadlineExceeded("OutstandingTasks")
    BY <2>1, TasksEnd
  <2>3. left["OutstandingTasks"] = 0 /\ left["ForceCloseTasks"] \in Nat
    BY <2>2 DEF DeadlineExceeded, IInv, TypeOK, Timers, Deadlines
  <2> QED
    BY <2>3 DEF IInv, TasksInv, forceCloseTasksGrace, second
<1> QED
  BY <1>1, Invariance, PTL DEF Spec, ForceCloseFirst

\* An ended context stays as it is.
LEMMA EndedStays ==
    ASSUME IInv, [Next]_vars, NEW x \in Contexts, Done(x)
    PROVE  ctx'[x] = ctx[x]
<1> TypeOK /\ CreatedOnce /\ OnlyWinner /\ GraceInv
  BY DEF IInv
<1>1. ASSUME NEW c \in Contexts, NEW how \in {"canceled", "deadline"},
             ctx' = Ended(c, how)
      PROVE  ctx'[x] = ctx[x]
  BY <1>1, EndedEffect DEF Done
<1>2. ASSUME NEW c \in Callers PROVE ~beginShutdownProcess(c)
  BY <1>2 DEF beginShutdownProcess, CreatedOnce, OnlyWinner, Begun, Done
<1>3. CASE HandlersReturned \/ AwaitHandlers \/ AwaitPubSubMessages
             \/ ForceShutdownCanceled \/ GraceOver
  BY <1>3, <1>1 DEF HandlersReturned, AwaitHandlers, AwaitPubSubMessages, GraceOver,
              ForceShutdownCanceled, MarkShutdownCompleted, Cancel, Contexts
<1>4. CASE ForceShutdownReached
  BY <1>4 DEF ForceShutdownReached, GraceInv, Done, TypeOK
<1>5. ASSUME NEW h \in Handlers, NEW c \in Markable, HandlerMarks(h, c)
      PROVE  ctx'[x] = ctx[x]
  BY <1>5, <1>1 DEF HandlerMarks, Cancel, Markable, Contexts
<1>6. ASSUME NEW t \in Deadlines, DeadlineExceeded(t)
      PROVE  ctx'[x] = ctx[x]
  BY <1>6, <1>1 DEF DeadlineExceeded, Deadlines, Contexts
<1> QED
  BY <1>2, <1>3, <1>4, <1>5, <1>6
  DEF Next, TrackerStep, EnvStep, Exited, Tick, StopSleeping, exitOnCompletion,
      AwaitRequests, AwaitTasks, StartHandlers, RegisterShutdownHandler,
      ShutdownFirst, ShutdownAgain, HandlerReturns, vars

\* No ended context is replaced and no handler runs twice: racing callers of
\* Shutdown start one process.
THEOREM OneProcessTheorem == Spec => OneProcess
<1> DEFINE A == /\ \A c \in Contexts : Done(c) => ctx'[c] = ctx[c]
                /\ \A h \in Handlers : hpc[h] \in {"ok", "failed"} => hpc'[h] = hpc[h]
<1>1. IInv /\ [Next]_vars => [A]_vars
  <2> SUFFICES ASSUME IInv, Next PROVE A
    OBVIOUS
  <2>1. \A c \in Contexts : Done(c) => ctx'[c] = ctx[c]
    BY EndedStays
  <2>2. CASE hpc' = hpc
    BY <2>1, <2>2
  <2>3. CASE StartHandlers
    BY <2>1, <2>3 DEF StartHandlers, IInv, HandlersInv
  <2>4. ASSUME NEW h \in Handlers, NEW r \in {"ok", "failed"}, HandlerReturns(h, r)
        PROVE  A
    BY <2>1, <2>4 DEF HandlerReturns, IInv, TypeOK
  <2> QED
    BY <2>2, <2>3, <2>4
    DEF Next, TrackerStep, EnvStep, Exited, Tick, StopSleeping, exitOnCompletion,
        AwaitRequests, AwaitTasks, AwaitPubSubMessages, AwaitHandlers,
        ForceShutdownCanceled, ForceShutdownReached, GraceOver, HandlersReturned,
        beginShutdownProcess, DeadlineExceeded, RegisterShutdownHandler,
        ShutdownFirst, ShutdownAgain, HandlerMarks, vars
<1> QED
  BY <1>1, Invariance, PTL DEF Spec, OneProcess
=============================================================================
