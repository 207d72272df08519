----------------------------- MODULE LiveReload -----------------------------
(***************************************************************************)
(* Live reload of `encore run': the file watcher (pkg/watcher), the watch  *)
(* loop of an app (cli/daemon/apps), and a Run with its process groups     *)
(* (cli/daemon/run).  The source is the number of times the user has       *)
(* changed it; a group is numbered by its build.                           *)
(***************************************************************************)
EXTENDS Integers

CONSTANTS NumProcs,     \* the processes of a group
          MaxChanges    \* bound: how often the user changes the source

ASSUME ProcsAssumption == NumProcs \in Nat \ {0}
ASSUME ChangesAssumption == MaxChanges \in Nat

Procs == 1 .. NumProcs
Groups == 1 .. MaxChanges + 1

\* What changes on disk: the user's code, the code Encore generates from it, and
\* code of the user's whose change the watcher passes over: it is renamed, it
\* came with a directory that was created or is not watched, os.Stat fails, or
\* fsnotify has an error in place of the event.
Recorded == {"code", "gen"}
Files == Recorded \cup {"unnoticed"}

VARIABLES
    source,      \* the version of the source
    raw,         \* the files for which fsnotify has an event or an error
    batch,       \* Watcher.events: the files changed since the last batch
    signal,      \* is the debounced Signal to come?
    loop,        \* where the watch loop is
    events,      \* the batch it has taken, until the callback has it
    subscribed,  \* is the Run's callback registered: "no", "yes", or no longer: "over"
    due,         \* history: the last change that it should hear of
    ctx,         \* the Run's context: "open" or "canceled"
    build,       \* where buildAndStart is
    new,         \* the number of the latest build
    seen,        \* history: the source that build parsed
    proc,        \* Run.proc, or 0
    old,         \* the group that it replaced and that is being closed, or 0
    state,       \* the state of each process of each group
    closing,     \* the groups that were closed
    mon,         \* where the monitor is
    p,           \* the group it waits for
    exited       \* is Run.exited closed?

watcherVars == <<raw, batch, signal, loop, events>>
runVars == <<subscribed, due, ctx, build, new, seen, proc, old, closing>>
vars == <<source, watcherVars, runVars, state, mon, p, exited>>

\* Every variable keeps to the values the code gives it; only groups that have
\* been built are closed.
TypeOK ==
    /\ source \in 0 .. MaxChanges
    /\ raw \subseteq Files /\ batch \subseteq Recorded /\ events \subseteq Recorded
    /\ signal \in BOOLEAN
    /\ loop \in {"check", "wait", "woken", "callback", "reload"}
    /\ subscribed \in {"no", "yes", "over"} /\ due \in 0 .. MaxChanges
    /\ ctx \in {"open", "canceled"}
    /\ build \in {"idle", "begin", "compile", "start", "ready", "close", "closing", "done", "failed"}
    /\ new \in 0 .. MaxChanges + 1 /\ seen \in 0 .. MaxChanges
    /\ proc \in 0 .. new /\ old \in 0 .. new
    /\ state \in [Groups -> [Procs -> {"new", "up", "exited", "gone"}]]
    /\ closing \subseteq Groups
    /\ mon \in {"off", "load", "wait", "test", "end"} /\ p \in 0 .. new
    /\ exited \in BOOLEAN

Init ==
    /\ source = 0
    /\ raw = {} /\ batch = {} /\ events = {}
    /\ signal = FALSE
    /\ loop = "check"
    /\ subscribed = "no" /\ due = 0
    /\ ctx = "open"
    /\ build = "begin" /\ new = 0 /\ seen = 0
    /\ proc = 0 /\ old = 0
    /\ state = [g \in Groups |-> [q \in Procs |-> "new"]]
    /\ closing = {}
    /\ mon = "off" /\ p = 0
    /\ exited = FALSE

-----------------------------------------------------------------------------
(***************************************************************************)
(* The file watcher.                                                       *)
(***************************************************************************)
\* The user changes the code of the running app.  The app's directory may not
\* be watched before the first run of the app subscribes.
Edit ==
    /\ source < MaxChanges /\ ~exited
    /\ source' = source + 1
    /\ \/ \E f \in {"code", "unnoticed"} :
             /\ raw' = raw \cup {f}
             /\ due' = IF f = "code" /\ subscribed = "yes" THEN source' ELSE due
       \/ subscribed = "no" /\ UNCHANGED <<raw, due>>
    /\ UNCHANGED <<batch, signal, loop, events, subscribed, ctx, build, new, seen, proc, old,
                   closing, state, mon, p, exited>>

\* listenForChangeEvents: an event enters the batch, and the debounced Signal
\* starts anew, or it is passed over.
ListenForChangeEvents(f) ==
    /\ f \in raw
    /\ raw' = raw \ {f}
    /\ batch' = batch \cup ({f} \cap Recorded)
    /\ signal' = (signal \/ f \in Recorded)
    /\ UNCHANGED <<source, loop, events, runVars, state, mon, p, exited>>

Signal ==
    /\ signal
    /\ signal' = FALSE
    /\ loop' = IF loop = "wait" THEN "woken" ELSE loop
    /\ UNCHANGED <<source, raw, batch, events, runVars, state, mon, p, exited>>

TakeBatch ==
    /\ events' = batch
    /\ batch' = {}
    /\ loop' = "callback"

\* Mutant of MustWait: the batch at hand is not looked at.
MustWaitMutant == TRUE

MustWait == batch = {}

\* WaitForEvents, up to Wait,
WaitForEvents ==
    /\ loop = "check"
    /\ IF MustWait THEN loop' = "wait" /\ UNCHANGED <<batch, events>> ELSE TakeBatch
    /\ UNCHANGED <<source, raw, signal, runVars, state, mon, p, exited>>

\* and after it: a Signal for a batch already taken yields an empty one.
Woken ==
    /\ loop = "woken"
    /\ TakeBatch
    /\ UNCHANGED <<source, raw, signal, runVars, state, mon, p, exited>>

\* Mutant of IgnoreEvents: generated code counts.
IgnoreEventsMutant(evs) == evs = {}

IgnoreEvents(evs) == \A f \in evs : f = "gen"

\* The loop calls the Run's callback, which reloads.
Notify ==
    /\ loop = "callback"
    /\ IF subscribed = "yes" /\ ~IgnoreEvents(events)
       THEN loop' = "reload" /\ build' = "begin"
       ELSE loop' = "check" /\ UNCHANGED build
    /\ events' = {}
    /\ UNCHANGED <<source, raw, batch, signal, subscribed, due, ctx, new, seen, proc, old,
                   closing, state, mon, p, exited>>

\* Reload returns.
ReloadReturns ==
    /\ loop = "reload" /\ build \in {"done", "failed"}
    /\ build' = "idle"
    /\ loop' = "check"
    /\ UNCHANGED <<source, raw, batch, signal, events, subscribed, due, ctx, new, seen, proc,
                   old, closing, state, mon, p, exited>>

-----------------------------------------------------------------------------
(***************************************************************************)
(* buildAndStart.                                                          *)
(***************************************************************************)
\* The code is parsed, unless the context is done; code is generated.
Parse ==
    /\ build = "begin"
    /\ IF ctx = "open"
       THEN /\ build' = "compile"
            /\ new' = new + 1
            /\ seen' = source
            /\ raw' = raw \cup {"gen"}
       ELSE build' = "failed" /\ UNCHANGED <<new, seen, raw>>
    /\ UNCHANGED <<source, batch, signal, loop, events, subscribed, due, ctx, proc, old, closing,
                   state, mon, p, exited>>

\* The app compiles, or does not.
Compile ==
    /\ build = "compile"
    /\ build' \in {"start", "failed"}
    /\ UNCHANGED <<source, watcherVars, subscribed, due, ctx, new, seen, proc, old, closing,
                   state, mon, p, exited>>

\* ProcGroup.Start, one process at a time: those that have started stay up when
\* a later one does not.  A command whose context is done does not start.
StartProc(q) ==
    /\ build = "start"
    /\ state[new][q] = "new" /\ \A r \in 1 .. q - 1 : state[new][r] # "new"
    /\ \/ /\ ctx = "open"
          /\ state' = [state EXCEPT ![new][q] = "up"]
          /\ build' = IF q = NumProcs THEN "ready" ELSE "start"
       \/ build' = "failed" /\ UNCHANGED state
    /\ UNCHANGED <<source, watcherVars, subscribed, due, ctx, new, seen, proc, old, closing,
                   mon, p, exited>>

\* Mutant of AfterSwap: a first group is not told apart.
AfterSwapMutant == "close"

AfterSwap == IF proc = 0 THEN "done" ELSE "close"

\* The new group is ready, or has not become so in time, and takes over.
Swap ==
    /\ build = "ready"
    /\ old' = proc
    /\ proc' = new
    /\ build' = AfterSwap
    /\ UNCHANGED <<source, watcherVars, subscribed, due, ctx, new, seen, closing, state, mon, p,
                   exited>>

\* The group before it is closed,
CloseOld ==
    /\ build = "close"
    /\ closing' = closing \cup {old}
    /\ build' = "closing"
    /\ UNCHANGED <<source, watcherVars, subscribed, due, ctx, new, seen, proc, old, state, mon, p,
                   exited>>

\* which returns when its processes have exited.
Closed ==
    /\ build = "closing"
    /\ \A q \in Procs : state[old][q] # "up"
    /\ build' = "done"
    /\ old' = 0
    /\ UNCHANGED <<source, watcherVars, subscribed, due, ctx, new, seen, proc, closing, state,
                   mon, p, exited>>

-----------------------------------------------------------------------------
(***************************************************************************)
(* Processes.                                                              *)
(***************************************************************************)
\* Mutant of Stopped: the commands are not bound to the context.
StoppedMutant(g) == g \in closing

\* Must the group's processes exit?  Close interrupts and, in the end, kills
\* them; the end of the context kills them.
Stopped(g) == g \in closing \/ ctx = "canceled"

\* The process ends and cmd.Wait returns: one step, for nothing in the daemon
\* tells the two apart.  Wait returns only when the output pipes are closed as
\* well, so a process is "up" until its children have let go of them.
Exits(g, q) ==
    /\ state[g][q] = "up"
    /\ state' = [state EXCEPT ![g][q] = "exited"]
    /\ UNCHANGED <<source, watcherVars, runVars, mon, p, exited>>

StopProc(g, q) == Stopped(g) /\ Exits(g, q)
Crash(g, q) == ~Stopped(g) /\ Exits(g, q)

\* runningProcs--, under the lock that Start holds.
Uncount(g, q) ==
    /\ state[g][q] = "exited"
    /\ ~(build = "start" /\ g = new)
    /\ state' = [state EXCEPT ![g][q] = "gone"]
    /\ UNCHANGED <<source, watcherVars, runVars, mon, p, exited>>

runningProcs(g) == {q \in Procs : state[g][q] \in {"up", "exited"}}

-----------------------------------------------------------------------------
(***************************************************************************)
(* The Run: mgr.Start, the monitor and the daemon's request.               *)
(***************************************************************************)
\* start succeeds and the monitor goes to work,
Started ==
    /\ mon = "off" /\ build = "done"
    /\ mon' = "load"
    /\ build' = "idle"
    /\ UNCHANGED <<source, watcherVars, subscribed, due, ctx, new, seen, proc, old, closing,
                   state, p, exited>>

\* or fails.
StartFails ==
    /\ mon = "off" /\ build = "failed"
    /\ mon' = "end"
    /\ build' = "idle"
    /\ exited' = TRUE
    /\ UNCHANGED <<source, watcherVars, subscribed, due, ctx, new, seen, proc, old, closing,
                   state, p>>

\* Manager.watch, the last step of a mgr.Start that succeeds, and its goroutine.
Watch ==
    /\ mon # "off" /\ proc # 0 /\ subscribed = "no"
    /\ subscribed' = "yes"
    /\ UNCHANGED <<source, watcherVars, due, ctx, build, new, seen, proc, old, closing, state,
                   mon, p, exited>>

Unwatch ==
    /\ exited /\ subscribed = "yes"
    /\ subscribed' = "over"
    /\ UNCHANGED <<source, watcherVars, due, ctx, build, new, seen, proc, old, closing, state,
                   mon, p, exited>>

MonitorLoad ==
    /\ mon = "load"
    /\ p' = proc
    /\ mon' = "wait"
    /\ UNCHANGED <<source, watcherVars, runVars, state, exited>>

MonitorDone ==
    /\ mon = "wait" /\ runningProcs(p) = {}
    /\ mon' = "test"
    /\ UNCHANGED <<source, watcherVars, runVars, state, p, exited>>

\* Mutant of StillActive: the second load is dropped.
StillActiveMutant == TRUE

StillActive == proc = p

MonitorTest ==
    /\ mon = "test"
    /\ IF StillActive THEN mon' = "end" /\ exited' = TRUE
                      ELSE mon' = "load" /\ UNCHANGED exited
    /\ p' = 0
    /\ UNCHANGED <<source, watcherVars, runVars, state>>

\* The client goes away, or the daemon's request returns after the run's end.
Cancel ==
    /\ ctx = "open"
    /\ ctx' = "canceled"
    /\ UNCHANGED <<source, watcherVars, subscribed, due, build, new, seen, proc, old, closing,
                   state, mon, p, exited>>

-----------------------------------------------------------------------------
WatchStep == WaitForEvents \/ Woken \/ Notify \/ ReloadReturns
BuildStep == \/ Parse \/ Compile \/ Swap \/ CloseOld \/ Closed
             \/ \E q \in Procs : StartProc(q)
RunStep == Started \/ StartFails \/ Watch
MonitorStep == MonitorLoad \/ MonitorDone \/ MonitorTest
ProcStep(g, q) == StopProc(g, q) \/ Uncount(g, q)

Next ==
    \/ Edit \/ Signal \/ Cancel \/ Unwatch
    \/ \E f \in Files : ListenForChangeEvents(f)
    \/ WatchStep \/ BuildStep \/ RunStep \/ MonitorStep
    \/ \E g \in Groups, q \in Procs : ProcStep(g, q) \/ Crash(g, q)

(***************************************************************************)
(* Goroutines and timers run; builds end; the daemon's request returns     *)
(* once the run has exited.  Nothing makes the user change the code or     *)
(* leave, nor a process crash.                                             *)
(***************************************************************************)
Fairness ==
    /\ \A f \in Files : WF_vars(ListenForChangeEvents(f))
    /\ WF_vars(Signal) /\ WF_vars(WatchStep) /\ WF_vars(BuildStep)
    /\ WF_vars(RunStep) /\ WF_vars(MonitorStep) /\ WF_vars(Unwatch)
    /\ WF_vars(exited /\ Cancel)
    /\ \A g \in Groups, q \in Procs : WF_vars(ProcStep(g, q))

Spec == Init /\ [][Next]_vars
FairSpec == Spec /\ Fairness

-----------------------------------------------------------------------------
(***************************************************************************)
(* Properties.                                                             *)
(***************************************************************************)
Up(g) == \E q \in Procs : state[g][q] = "up"

\* A reload does not end the run: it ends when the group in use has no process
\* left, and that group was not closed to make way for another.
ReloadKeepsRun ==
    [][(exited' /\ ~exited /\ proc # 0) => ~Up(proc) /\ proc \notin closing]_vars

\* Each build is the first or has a change of the user's behind it: the code
\* that a build generates does not set off the next.
NoSelfTrigger == new <= source + 1

\* In the end the current group runs and the closed ones do not, or the run has
\* exited and no process of any group is left.
Settles ==
    <>[](IF exited THEN \A g \in Groups : ~Up(g)
                   ELSE proc # 0 /\ Up(proc) /\ \A g \in closing : ~Up(g))

\* A change made while the run watches the code, and whose event the watcher
\* records, is not missed: a build in the end has seen it, also when it came in
\* the middle of a reload.  Nothing is claimed of a change whose event the
\* watcher passes over, nor of one made between the first parse and the
\* subscription: either may go unseen until the next.
Converges == <>[](exited \/ seen >= due)
=============================================================================
