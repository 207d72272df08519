----------------------------- MODULE Supervisor -----------------------------
(***************************************************************************)
(* supervisedProc.Supervise of pkg/supervisor/supervisor.go: a loop that   *)
(* starts a process, waits for it and, when it fails, sleeps for a time    *)
(* that doubles; and the goroutines, one for every start, that look at     *)
(* `generation' a second later to reset that time and report the process   *)
(* healthy.                                                                *)
(*                                                                         *)
(* Time is not counted: a process lives as long as it likes and a          *)
(* goroutine may be scheduled late, so a check and an exit come in either  *)
(* order.  Processes are numbered by their start.                          *)
(***************************************************************************)
EXTENDS Integers

CONSTANTS minSleep, maxSleep, \* the bounds of the back-off
          MaxFailures,        \* bound: failures of the process in a run
          MaxStarts           \* bound: processes after which none exits cleanly

ASSUME SleepAssumption == /\ minSleep \in Nat /\ maxSleep \in Nat
                          /\ 0 < minSleep /\ minSleep <= maxSleep
ASSUME BoundsAssumption == MaxFailures \in Nat /\ MaxStarts \in Nat

VARIABLES
    pc,         \* where the loop is
    generation, retrySleep,
    currGen,    \* the loop's local, captured by the check goroutine
    healthy,    \* what Healthy reports
    proc,       \* the process started last
    status,     \* "up", or how that process exited
    checks,     \* the check goroutines that have not looked yet
    toSleep,    \* errSleep's local: the time of the last back-off
    failedAt    \* history: the process started last when errSleep last locked mu

vars == <<pc, generation, retrySleep, currGen, healthy, proc, status, checks, toSleep, failedAt>>

LoopStates == {"loop", "start", "wait", "errSleep", "backoff", "sleep"}

\* Every variable keeps to the values the code gives it.
TypeOK ==
    /\ pc \in LoopStates
    /\ generation \in Nat \ {0} /\ currGen \in Nat
    /\ retrySleep \in minSleep .. maxSleep
    /\ toSleep \in 0 .. maxSleep
    /\ healthy \in BOOLEAN
    /\ proc \in Nat /\ failedAt \in 0 .. proc
    /\ status \in {"up", "ok", "error"}
    /\ checks \subseteq [proc : 1 .. proc, gen : 1 .. generation]

Init ==
    /\ pc = "loop"
    /\ generation = 1 /\ currGen = 0
    /\ retrySleep = minSleep /\ toSleep = 0
    /\ healthy = FALSE
    /\ proc = 0 /\ status = "ok" /\ failedAt = 0
    /\ checks = {}

Alive == status = "up"

-----------------------------------------------------------------------------
ReadGeneration ==
    /\ pc = "loop"
    /\ pc' = "start"
    /\ currGen' = generation
    /\ UNCHANGED <<generation, retrySleep, healthy, proc, status, checks, toSleep, failedAt>>

StartFails ==
    /\ pc = "start"
    /\ generation <= MaxFailures
    /\ pc' = "errSleep"
    /\ UNCHANGED <<generation, retrySleep, currGen, healthy, proc, status, checks, toSleep, failedAt>>

\* Mutant of StartCheck: only the first process is checked on.
StartCheckMutant == IF proc = 0 THEN {[proc |-> 1, gen |-> currGen]} ELSE checks

\* The check goroutine of the process that is about to be started.
StartCheck == checks \cup {[proc |-> proc + 1, gen |-> currGen]}

Start ==
    /\ pc = "start"
    /\ pc' = "wait"
    /\ proc' = proc + 1
    /\ status' = "up"
    /\ checks' = StartCheck
    /\ UNCHANGED <<generation, retrySleep, currGen, healthy, toSleep, failedAt>>

\* The process exits, with status 0 or with an error.
Exit(how) ==
    /\ pc = "wait" /\ Alive
    /\ IF how = "ok" THEN proc < MaxStarts ELSE generation <= MaxFailures
    /\ status' = how
    /\ UNCHANGED <<pc, generation, retrySleep, currGen, healthy, proc, checks, toSleep, failedAt>>

\* Mutant of AfterWait: a process that exited cleanly is left alone.
AfterWaitMutant == IF status = "ok" THEN "wait" ELSE "errSleep"

\* A process that exited cleanly is started again at once.
AfterWait == IF status = "ok" THEN "loop" ELSE "errSleep"

WaitReturns ==
    /\ pc = "wait" /\ ~Alive
    /\ pc' = AfterWait
    /\ UNCHANGED <<generation, retrySleep, currGen, healthy, proc, status, checks, toSleep, failedAt>>

\* errSleep stores false before it locks mu.
MarkUnhealthy ==
    /\ pc = "errSleep"
    /\ pc' = "backoff"
    /\ healthy' = FALSE
    /\ UNCHANGED <<generation, retrySleep, currGen, proc, status, checks, toSleep, failedAt>>

\* Mutant of Doubled: the cap is missing.
DoubledMutant(t) == 2 * t

Doubled(t) == IF 2 * t > maxSleep THEN maxSleep ELSE 2 * t

\* Mutant of NextGeneration: a failure keeps the generation.
NextGenerationMutant == generation

NextGeneration == generation + 1

BackOff ==
    /\ pc = "backoff"
    /\ pc' = "sleep"
    /\ generation' = NextGeneration
    /\ toSleep' = retrySleep
    /\ retrySleep' = Doubled(retrySleep)
    /\ failedAt' = proc
    /\ UNCHANGED <<currGen, healthy, proc, status, checks>>

Wake ==
    /\ pc = "sleep"
    /\ pc' = "loop"
    /\ UNCHANGED <<generation, retrySleep, currGen, healthy, proc, status, checks, toSleep, failedAt>>

\* A check goroutine, one second after its start, under mu.
Check(c) ==
    /\ checks' = checks \ {c}
    /\ retrySleep' = IF c.gen = generation THEN minSleep ELSE retrySleep
    /\ healthy' = (healthy \/ c.gen = generation)
    /\ UNCHANGED <<pc, generation, currGen, proc, status, toSleep, failedAt>>

-----------------------------------------------------------------------------
\* What Supervise does by itself, but for cmd.Start.
LoopStep == ReadGeneration \/ WaitReturns \/ MarkUnhealthy \/ BackOff \/ Wake

StartStep == Start \/ StartFails

Next ==
    \/ LoopStep
    \/ StartStep
    \/ \E how \in {"ok", "error"} : Exit(how)
    \/ \E c \in checks : Check(c)

(***************************************************************************)
(* The loop, the start of a process and the check goroutines are scheduled *)
(* fairly; nothing makes a process exit.                                   *)
(***************************************************************************)
Fairness ==
    /\ WF_vars(LoopStep)
    /\ WF_vars(StartStep)
    /\ WF_vars(\E c \in checks : Check(c))

Spec == Init /\ [][Next]_vars
FairSpec == Spec /\ Fairness

-----------------------------------------------------------------------------
(***************************************************************************)
(* Properties.                                                             *)
(***************************************************************************)
\* The check of the process that is running resets the back-off and reports
\* healthy, and one whose process was started before the last recorded failure
\* does neither, however late it looks and however many processes were started
\* since.  Between the two the code does what its comments exclude ("reset the
\* retry sleep if it's still alive"): the generation does not change when a
\* process exits cleanly, nor between a failure and errSleep's lock, and a check
\* of such a process still resets and reports.  Nothing is claimed of those.
OnlyFreshChecks ==
    [][\A c \in checks \ checks' :
         /\ c.proc = proc /\ Alive => retrySleep' = minSleep /\ healthy'
         /\ c.proc <= failedAt => retrySleep' = retrySleep /\ healthy' = healthy]_vars

\* "starting it and restarting it if it exits": a process that ended, however
\* it did, is followed by another.
Restarted == ~Alive ~> Alive

\* A process that stays up is reported healthy in the end, and stays so: the
\* late checks of its predecessors cannot undo or pre-empt its own.
HealthyInTheEnd == <>[]Alive => <>[]healthy
=============================================================================
