-------------------------- MODULE LiveReloadProofs --------------------------
(***************************************************************************)
(* Proofs about live reload, for every number of processes and of changes. *)
(***************************************************************************)
EXTENDS LiveReload, TLAPS

One(b) == IF b THEN 1 ELSE 0

(***************************************************************************)
(* The inductive invariant.  Every build uses up a change: what is built,  *)
(* about to be built or on its way to the callback is no more than what    *)
(* was changed, and the first build.                                       *)
(***************************************************************************)
ChangesUsed ==
    new + One(build = "begin") + One("code" \in raw) + One("code" \in batch)
        + One("code" \in events) <= source + 1

\* The closed groups are older than the current one, and the group under
\* construction is younger.
GroupOrder ==
    /\ \A g \in closing : g < proc
    /\ build \in {"compile", "start", "ready"} => proc < new
    /\ build \in {"close", "closing"} => old \in 1 .. proc - 1

\* The monitor tests only after the group's last process has gone.
MonitorOrder ==
    /\ mon \in {"wait", "test"} => p \in Groups
    /\ mon = "test" => \A q \in Procs : state[p][q] \notin {"up", "exited"}
    /\ mon \in {"load", "wait", "test"} => proc \in Groups
    /\ subscribed # "no" => mon # "off"
    /\ mon = "off" => ~exited
    /\ loop = "reload" => mon # "off"
    /\ mon = "off" /\ build = "done" => proc \in Groups
    /\ mon = "off" /\ build # "done" => proc = 0
    /\ p <= proc

LiveInv == TypeOK /\ ChangesUsed /\ GroupOrder /\ MonitorOrder

USE ProcsAssumption, ChangesAssumption

\* The parts of the type invariant.
Booleans == signal \in BOOLEAN /\ exited \in BOOLEAN

Events ==
    /\ raw \subseteq Files /\ batch \subseteq Recorded /\ events \subseteq Recorded
    /\ loop \in {"check", "wait", "woken", "callback", "reload"}

Numbers ==
    /\ source \in 0 .. MaxChanges /\ due \in 0 .. MaxChanges /\ seen \in 0 .. MaxChanges
    /\ new \in 0 .. MaxChanges + 1
    /\ proc \in 0 .. new /\ old \in 0 .. new /\ p \in 0 .. new

Places ==
    /\ ctx \in {"open", "canceled"}
    /\ build \in {"idle", "begin", "compile", "start", "ready", "close", "closing", "done", "failed"}
    /\ state \in [Groups -> [Procs -> {"new", "up", "exited", "gone"}]]
    /\ closing \subseteq Groups
    /\ mon \in {"off", "load", "wait", "test", "end"}
    /\ subscribed \in {"no", "yes", "over"}

\* They make up the type invariant.
LEMMA TypeOKParts == TypeOK <=> Booleans /\ Events /\ Numbers /\ Places
BY DEF TypeOK, Booleans, Events, Numbers, Places

\* The first build of the first run.
LEMMA InitLiveInv == Init => LiveInv
<1> SUFFICES ASSUME Init PROVE LiveInv
  OBVIOUS
<1>1. Booleans /\ Events
  BY DEF Init, Booleans, Events
<1>2. Numbers /\ Places
  BY DEF Init, Numbers, Places
<1>3. ChangesUsed
  BY DEF Init, ChangesUsed, One
<1>4. GroupOrder /\ MonitorOrder
  BY DEF Init, GroupOrder, MonitorOrder
<1> QED
  BY <1>1, <1>2, <1>3, <1>4, TypeOKParts DEF LiveInv

\* Every step keeps every variable in its range.
LEMMA NextTypeOK == LiveInv /\ [Next]_vars => TypeOK'
<1> SUFFICES ASSUME LiveInv, [Next]_vars PROVE (Booleans /\ Events /\ Numbers /\ Places)'
  BY TypeOKParts DEF TypeOK, Booleans, Events, Numbers, Places
<1>0. Booleans /\ Events /\ Numbers /\ Places
  BY TypeOKParts DEF LiveInv
<1> USE <1>0 DEF watcherVars, runVars
<1>1. CASE Edit
  <2>1. Events'
    BY <1>1 DEF Edit, Files, Recorded, Events
  <2>2. Booleans' /\ Numbers' /\ Places'
    BY <1>1 DEF Edit, Booleans, Numbers, Places
  <2> QED
    BY <2>1, <2>2
<1>2. CASE Signal
  BY <1>2 DEF Signal, Booleans, Events, Numbers, Places
<1>3. CASE Cancel
  BY <1>3 DEF Cancel, Booleans, Events, Numbers, Places
<1>4. CASE Unwatch
  BY <1>4 DEF Unwatch, Booleans, Events, Numbers, Places
<1>5. ASSUME NEW f \in Files, ListenForChangeEvents(f)
      PROVE  (Booleans /\ Events /\ Numbers /\ Places)'
  BY <1>5 DEF ListenForChangeEvents, Booleans, Events, Numbers, Places
<1>6. CASE WaitForEvents \/ Woken
  BY <1>6 DEF WaitForEvents, Woken, TakeBatch, Booleans, Events, Numbers, Places
<1>7. CASE Notify \/ ReloadReturns
  BY <1>7 DEF Notify, ReloadReturns, Booleans, Events, Numbers, Places
<1>8. CASE Parse
  <2>1. ctx = "open" => new + 1 <= source + 1
    BY <1>8 DEF Parse, LiveInv, ChangesUsed, One, Numbers
  <2>2. Numbers'
    BY <1>8, <2>1 DEF Parse, Numbers
  <2>3. Booleans' /\ Events' /\ Places'
    BY <1>8 DEF Parse, Files, Recorded, Booleans, Events, Places
  <2> QED
    BY <2>2, <2>3
<1>9. CASE Compile
  BY <1>9 DEF Compile, Booleans, Events, Numbers, Places
<1>10. CASE CloseOld
  <2>1. old \in Groups
    BY <1>10 DEF CloseOld, LiveInv, GroupOrder, Groups, Numbers
  <2> QED
    BY <1>10, <2>1 DEF CloseOld, Booleans, Events, Numbers, Places
<1>11. CASE Closed
  BY <1>11 DEF Closed, Booleans, Events, Numbers, Places
<1>12. CASE Swap
  BY <1>12 DEF Swap, AfterSwap, Booleans, Events, Numbers, Places
<1>13. ASSUME NEW q \in Procs, StartProc(q)
       PROVE  (Booleans /\ Events /\ Numbers /\ Places)'
  BY <1>13 DEF StartProc, Booleans, Events, Numbers, Places
<1>14. CASE RunStep
  <2>1. Booleans'
    BY <1>14 DEF RunStep, Started, StartFails, Watch, watcherVars, Booleans
  <2>2. (Events /\ Numbers /\ Places)'
    BY <1>14 DEF RunStep, Started, StartFails, Watch, watcherVars, Events, Numbers, Places
  <2> QED
    BY <2>1, <2>2
<1>15. CASE MonitorStep
  <2>1. Booleans'
    BY <1>15 DEF MonitorStep, MonitorLoad, MonitorDone, MonitorTest, Booleans
  <2>2. Events' /\ Numbers' /\ Places'
    BY <1>15 DEF MonitorStep, MonitorLoad, MonitorDone, MonitorTest, Events, Numbers, Places
  <2> QED
    BY <2>1, <2>2
<1>16. ASSUME NEW g \in Groups, NEW q \in Procs, ProcStep(g, q) \/ Crash(g, q)
       PROVE  (Booleans /\ Events /\ Numbers /\ Places)'
  BY <1>16 DEF ProcStep, StopProc, Crash, Uncount, Exits, Booleans, Events, Numbers, Places
<1>17. CASE UNCHANGED vars
  BY <1>17 DEF vars, Booleans, Events, Numbers, Places
<1> QED
  BY <1>1, <1>2, <1>3, <1>4, <1>5, <1>6, <1>7, <1>8, <1>9, <1>10, <1>11, <1>12, <1>13, <1>14,
     <1>15, <1>16, <1>17 DEF Next, BuildStep, WatchStep

\* A build needs a change, and each change is used once.
LEMMA NextChangesUsed == LiveInv /\ [Next]_vars => ChangesUsed'
<1> SUFFICES ASSUME LiveInv, [Next]_vars PROVE ChangesUsed'
  OBVIOUS
<1> USE DEF LiveInv, TypeOK, ChangesUsed, One, watcherVars, runVars
<1>1. CASE Edit
  BY <1>1 DEF Edit
<1>2. CASE Signal \/ Cancel \/ Unwatch
  BY <1>2 DEF Signal, Cancel, Unwatch
<1>3. ASSUME NEW f \in Files, ListenForChangeEvents(f) PROVE ChangesUsed'
  BY <1>3 DEF ListenForChangeEvents
<1>4. CASE WaitForEvents \/ Woken
  BY <1>4 DEF WaitForEvents, Woken, TakeBatch
<1>5. CASE Notify
  <2>1. subscribed = "yes" /\ ~IgnoreEvents(events) => "code" \in events
    BY DEF IgnoreEvents, Recorded
  <2> QED
    BY <1>5, <2>1 DEF Notify
<1>6. CASE ReloadReturns
  BY <1>6 DEF ReloadReturns
<1>7. CASE Parse
  BY <1>7 DEF Parse
<1>8. CASE Compile \/ CloseOld \/ Closed \/ Swap
  BY <1>8 DEF Compile, CloseOld, Closed, Swap, AfterSwap
<1>9. ASSUME NEW q \in Procs, StartProc(q) PROVE ChangesUsed'
  BY <1>9 DEF StartProc
<1>10. CASE RunStep
  BY <1>10 DEF RunStep, Started, StartFails, Watch
<1>11. CASE MonitorStep
  BY <1>11 DEF MonitorStep, MonitorLoad, MonitorDone, MonitorTest
<1>12. ASSUME NEW g \in Groups, NEW q \in Procs, ProcStep(g, q) \/ Crash(g, q) PROVE ChangesUsed'
  BY <1>12 DEF ProcStep, StopProc, Crash, Uncount, Exits
<1>13. CASE UNCHANGED vars
  BY <1>13 DEF vars
<1> QED
  BY <1>1, <1>2, <1>3, <1>4, <1>5, <1>6, <1>7, <1>8, <1>9, <1>10, <1>11, <1>12, <1>13
  DEF Next, BuildStep, WatchStep

\* Groups are closed in the order in which they were built.
LEMMA NextGroupOrder == LiveInv /\ [Next]_vars => GroupOrder'
<1> SUFFICES ASSUME LiveInv, [Next]_vars PROVE GroupOrder'
  OBVIOUS
<1>0. Numbers /\ closing \subseteq Groups
  BY TypeOKParts DEF LiveInv, Places
<1> USE <1>0 DEF LiveInv, GroupOrder, watcherVars, runVars
<1>1. CASE Edit \/ Signal \/ Cancel \/ Unwatch
  BY <1>1 DEF Edit, Signal, Cancel, Unwatch
<1>2. ASSUME NEW f \in Files, ListenForChangeEvents(f) PROVE GroupOrder'
  BY <1>2 DEF ListenForChangeEvents
<1>3. CASE WatchStep
  BY <1>3 DEF WatchStep, WaitForEvents, Woken, Notify, ReloadReturns
<1>4. CASE Parse
  BY <1>4 DEF Parse, Numbers
<1>5. CASE Compile \/ CloseOld \/ Closed
  BY <1>5 DEF Compile, CloseOld, Closed, Numbers
<1>6. CASE Swap
  BY <1>6 DEF Swap, AfterSwap, Numbers, Groups
<1>7. ASSUME NEW q \in Procs, StartProc(q) PROVE GroupOrder'
  BY <1>7 DEF StartProc
<1>8. CASE RunStep
  BY <1>8 DEF RunStep, Started, StartFails, Watch
<1>9. CASE MonitorStep
  BY <1>9 DEF MonitorStep, MonitorLoad, MonitorDone, MonitorTest
<1>10. ASSUME NEW g \in Groups, NEW q \in Procs, ProcStep(g, q) \/ Crash(g, q) PROVE GroupOrder'
  BY <1>10 DEF ProcStep, StopProc, Crash, Uncount, Exits
<1>11. CASE UNCHANGED vars
  BY <1>11 DEF vars
<1> QED
  BY <1>1, <1>2, <1>3, <1>4, <1>5, <1>6, <1>7, <1>8, <1>9, <1>10, <1>11 DEF Next, BuildStep

\* A process that has gone stays so, and the monitor looks at groups that exist.
LEMMA NextMonitorOrder == LiveInv /\ [Next]_vars => MonitorOrder'
<1> SUFFICES ASSUME LiveInv, [Next]_vars PROVE MonitorOrder'
  OBVIOUS
<1>0. Numbers /\ Places
  BY TypeOKParts DEF LiveInv
<1> USE <1>0 DEF LiveInv, MonitorOrder, watcherVars, runVars
<1>1. CASE Edit \/ Signal \/ Cancel \/ Unwatch
  BY <1>1 DEF Edit, Signal, Cancel, Unwatch
<1>2. ASSUME NEW f \in Files, ListenForChangeEvents(f) PROVE MonitorOrder'
  BY <1>2 DEF ListenForChangeEvents
<1>3. CASE WatchStep
  BY <1>3 DEF WatchStep, WaitForEvents, Woken, TakeBatch, Notify, ReloadReturns
<1>4. CASE Parse
  BY <1>4 DEF Parse
<1>5. CASE Compile \/ CloseOld
  BY <1>5 DEF Compile, CloseOld
<1>6. CASE Closed
  BY <1>6 DEF Closed, GroupOrder, Numbers, Groups
<1>7. CASE Swap
  BY <1>7 DEF Swap, AfterSwap, GroupOrder, Numbers, Groups
<1>8. ASSUME NEW q \in Procs, StartProc(q) PROVE MonitorOrder'
  <2>1. new \in Groups /\ proc < new
    BY <1>8 DEF StartProc, GroupOrder, Numbers, Groups
  <2>2. ASSUME mon = "test" PROVE p \in Groups /\ p \in 0 .. proc
    BY <2>2 DEF Numbers
  <2> QED
    BY <1>8, <2>1, <2>2 DEF StartProc, Numbers, Places
<1>9. CASE RunStep
  BY <1>9 DEF RunStep, Started, StartFails, Watch
<1>10. CASE MonitorStep
  <2>1. CASE MonitorLoad
    BY <2>1 DEF MonitorLoad, Numbers
  <2>2. CASE MonitorDone
    BY <2>2 DEF MonitorDone, runningProcs
  <2>3. CASE MonitorTest
    BY <2>3 DEF MonitorTest, Numbers
  <2> QED
    BY <1>10, <2>1, <2>2, <2>3 DEF MonitorStep
<1>11. ASSUME NEW g \in Groups, NEW q \in Procs, ProcStep(g, q) \/ Crash(g, q) PROVE MonitorOrder'
  BY <1>11 DEF ProcStep, StopProc, Crash, Uncount, Exits, Places
<1>12. CASE UNCHANGED vars
  BY <1>12 DEF vars
<1> QED
  BY <1>1, <1>2, <1>3, <1>4, <1>5, <1>6, <1>7, <1>8, <1>9, <1>10, <1>11, <1>12 DEF Next, BuildStep

\* The invariant of the specification.
THEOREM LiveInvariance == Spec => []LiveInv
<1>1. LiveInv /\ [Next]_vars => LiveInv'
  BY NextTypeOK, NextChangesUsed, NextGroupOrder, NextMonitorOrder DEF LiveInv
<1> QED
  BY <1>1, InitLiveInv, PTL DEF Spec

\* Every variable of the watcher and the run keeps to its values, and only groups
\* that have been built are closed.
THEOREM LiveTyping == Spec => []TypeOK
<1>1. LiveInv => TypeOK
  BY DEF LiveInv
<1> QED
  BY <1>1, LiveInvariance, PTL

\* The code that Encore generates never sets off a build.
THEOREM NoSelfTriggerTheorem == Spec => []NoSelfTrigger
<1>1. LiveInv => NoSelfTrigger
  BY DEF LiveInv, TypeOK, ChangesUsed, One, NoSelfTrigger
<1> QED
  BY <1>1, LiveInvariance, PTL

\* A reload that replaces a group never ends the run.
THEOREM ReloadKeepsRunTheorem == Spec => ReloadKeepsRun
<1> DEFINE Ends == exited' /\ ~exited /\ proc # 0
           Allowed == Ends => ~Up(proc) /\ proc \notin closing
<1>1. LiveInv /\ [Next]_vars => [Allowed]_vars
  <2> SUFFICES ASSUME LiveInv, Next, Ends PROVE ~Up(proc) /\ proc \notin closing
    OBVIOUS
  <2>1. CASE MonitorTest
    <3>1. proc = p
      BY <2>1 DEF MonitorTest, StillActive
    <3>2. ~Up(proc)
      BY <2>1, <3>1 DEF MonitorTest, LiveInv, MonitorOrder, Up
    <3>3. proc \notin closing
      BY DEF LiveInv, GroupOrder, TypeOK
    <3> QED
      BY <3>2, <3>3
  <2>2. CASE StartFails
    BY <2>2 DEF StartFails, LiveInv, MonitorOrder
  <2>3. CASE ~MonitorTest /\ ~StartFails
    <3>1. UNCHANGED exited
      BY <2>3 DEF Next, Edit, Signal, Cancel, Unwatch, ListenForChangeEvents, WatchStep, WaitForEvents,
                  Woken, Notify, ReloadReturns, BuildStep, Parse, Compile, Swap, CloseOld, Closed,
                  StartProc, RunStep, Started, Watch, MonitorStep, MonitorLoad, MonitorDone,
                  ProcStep, StopProc, Crash, Uncount, Exits
    <3> QED
      BY <3>1
  <2> QED
    BY <2>1, <2>2, <2>3
<1> QED
  BY <1>1, LiveInvariance, PTL DEF Spec, ReloadKeepsRun
=============================================================================
