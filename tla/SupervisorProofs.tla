-------------------------- MODULE SupervisorProofs --------------------------
(***************************************************************************)
(* Proofs about the process supervisor, for every range of the back-off    *)
(* and without a bound on the failures that matters.                       *)
(***************************************************************************)
EXTENDS Supervisor, TLAPS

(***************************************************************************)
(* The inductive invariant: from the top of the loop to the back-off the   *)
(* captured generation is the current one, so that equal generations mean  *)
(* that no failure lies between the start of a process and now; and the    *)
(* process the loop waits for was started after the last failure.          *)
(***************************************************************************)
SupervisorInv ==
    /\ TypeOK
    /\ pc \in {"start", "wait", "errSleep", "backoff"} => currGen = generation
    /\ \A c \in checks : c.gen = generation <=> c.proc > failedAt
    /\ Alive => pc = "wait"
    /\ pc = "wait" => failedAt < proc

\* Doubling keeps the sleep within its bounds.
LEMMA DoubledRange ==
    ASSUME NEW t \in minSleep .. maxSleep
    PROVE  Doubled(t) \in minSleep .. maxSleep
BY SleepAssumption DEF Doubled

\* Before the first start nothing was checked and nothing failed.
LEMMA InitSupervisorInv == Init => SupervisorInv
<1> SUFFICES ASSUME Init PROVE SupervisorInv
  OBVIOUS
<1>1. minSleep \in minSleep .. maxSleep /\ 0 \in 0 .. maxSleep
  BY SleepAssumption
<1>2. healthy \in BOOLEAN
  BY DEF Init
<1>3. checks \subseteq [proc : 1 .. proc, gen : 1 .. generation]
  BY DEF Init
<1>4. \A c \in checks : c.gen = generation <=> c.proc > failedAt
  BY DEF Init
<1>5. pc \in LoopStates /\ status \in {"up", "ok", "error"} /\ pc = "loop"
  BY DEF Init, LoopStates
<1>6. /\ generation \in Nat \ {0} /\ currGen \in Nat /\ proc \in Nat
      /\ failedAt \in 0 .. proc /\ retrySleep = minSleep /\ toSleep = 0
  BY DEF Init
<1>7. ~Alive
  BY DEF Init, Alive
<1> QED
  BY <1>1, <1>2, <1>3, <1>4, <1>5, <1>6, <1>7 DEF SupervisorInv, TypeOK

\* Every step of the loop, the process or a check goroutine keeps the invariant.
LEMMA NextSupervisorInv == SupervisorInv /\ [Next]_vars => SupervisorInv'
<1> SUFFICES ASSUME SupervisorInv, [Next]_vars PROVE SupervisorInv'
  OBVIOUS
<1> USE SleepAssumption DEF SupervisorInv, Alive
<1>1. CASE ReadGeneration
  BY <1>1 DEF ReadGeneration, TypeOK, LoopStates
<1>2. CASE WaitReturns
  BY <1>2 DEF WaitReturns, AfterWait, TypeOK, LoopStates
<1>3. CASE MarkUnhealthy
  BY <1>3 DEF MarkUnhealthy, TypeOK, LoopStates
<1>4. CASE BackOff
  <2>1. retrySleep' \in minSleep .. maxSleep /\ toSleep' \in 0 .. maxSleep
    BY <1>4, DoubledRange DEF BackOff, TypeOK
  <2>2. generation' = generation + 1 /\ failedAt' = proc /\ UNCHANGED <<checks, proc>>
    BY <1>4 DEF BackOff, NextGeneration
  <2>3. ASSUME NEW c \in checks
        PROVE  /\ c \in [proc : 1 .. proc, gen : 1 .. generation']
               /\ c.gen # generation' /\ ~(c.proc > proc)
    <3>1. c \in [proc : 1 .. proc, gen : 1 .. generation]
      BY <2>3 DEF TypeOK
    <3> QED
      BY <3>1, <2>2 DEF TypeOK
  <2>4. checks' \subseteq [proc : 1 .. proc', gen : 1 .. generation']
    BY <2>2, <2>3
  <2>5. \A c \in checks' : c.gen = generation' <=> c.proc > failedAt'
    BY <2>2, <2>3
  <2>6. /\ generation' \in Nat \ {0} /\ currGen' \in Nat /\ healthy' \in BOOLEAN
        /\ proc' \in Nat /\ failedAt' \in 0 .. proc' /\ pc' = "sleep"
        /\ status' \in {"up", "ok", "error"} /\ status' # "up"
    BY <1>4, <2>2 DEF BackOff, TypeOK
  <2> QED
    BY <2>1, <2>4, <2>5, <2>6 DEF TypeOK, LoopStates
<1>5. CASE Wake
  BY <1>5 DEF Wake, TypeOK, LoopStates
<1>6. CASE StartFails
  BY <1>6 DEF StartFails, TypeOK, LoopStates
<1>7. CASE Start
  <2> DEFINE new == [proc |-> proc + 1, gen |-> currGen]
  <2>1. /\ checks' = checks \cup {new} /\ proc' = proc + 1
        /\ UNCHANGED <<generation, failedAt>>
    BY <1>7 DEF Start, StartCheck
  <2>2. currGen = generation /\ currGen \in 1 .. generation
    BY <1>7 DEF Start, TypeOK
  <2>3. new \in [proc : 1 .. proc', gen : 1 .. generation']
    BY <2>1, <2>2 DEF TypeOK
  <2>4. ASSUME NEW c \in checks
        PROVE  c \in [proc : 1 .. proc', gen : 1 .. generation']
    <3>1. c \in [proc : 1 .. proc, gen : 1 .. generation]
      BY <2>4 DEF TypeOK
    <3> QED
      BY <3>1, <2>1 DEF TypeOK
  <2>5. new.gen = generation' /\ new.proc > failedAt'
    BY <2>1, <2>2 DEF TypeOK
  <2>6. \A c \in checks' : c.gen = generation' <=> c.proc > failedAt'
    BY <2>1, <2>5
  <2>7. checks' \subseteq [proc : 1 .. proc', gen : 1 .. generation']
    BY <2>1, <2>3, <2>4
  <2> QED
    BY <1>7, <2>1, <2>2, <2>6, <2>7 DEF Start, TypeOK, LoopStates
<1>8. ASSUME NEW how \in {"ok", "error"}, Exit(how)
      PROVE  SupervisorInv'
  BY <1>8 DEF Exit, TypeOK, LoopStates
<1>9. ASSUME NEW c \in checks, Check(c)
      PROVE  SupervisorInv'
  <2>1. retrySleep' \in minSleep .. maxSleep /\ healthy' \in BOOLEAN
    BY <1>9 DEF Check, TypeOK
  <2> QED
    BY <1>9, <2>1 DEF Check, TypeOK, LoopStates
<1>10. CASE UNCHANGED vars
  BY <1>10 DEF vars, TypeOK
<1> QED
  BY <1>1, <1>2, <1>3, <1>4, <1>5, <1>6, <1>7, <1>8, <1>9, <1>10
  DEF Next, LoopStep, StartStep

\* The invariant holds however exits, failures and late checks interleave.
THEOREM SupervisorInvariance == Spec => []SupervisorInv
<1> QED
  BY InitSupervisorInv, NextSupervisorInv, PTL DEF Spec

\* Every variable keeps its type; the back-off stays between its bounds.
THEOREM SupervisorTyping == Spec => []TypeOK
<1>1. SupervisorInv => TypeOK
  BY DEF SupervisorInv
<1> QED
  BY <1>1, SupervisorInvariance, PTL

\* The check of the running process acts, and one of a process started before
\* the last failure does not.
THEOREM OnlyFreshChecksTheorem == Spec => OnlyFreshChecks
<1> DEFINE Rule(c) ==
             /\ c.proc = proc /\ Alive => retrySleep' = minSleep /\ healthy'
             /\ c.proc <= failedAt => retrySleep' = retrySleep /\ healthy' = healthy
           A == \A c \in checks \ checks' : Rule(c)
<1>1. SupervisorInv /\ [Next]_vars => [A]_vars
  <2> SUFFICES ASSUME SupervisorInv, Next, NEW c \in checks, c \notin checks'
               PROVE  Rule(c)
    OBVIOUS
  <2>1. Check(c)
    BY DEF Next, LoopStep, StartStep, ReadGeneration, WaitReturns, MarkUnhealthy,
       BackOff, Wake, StartFails, Start, StartCheck, Exit, Check
  <2>2. c.gen = generation <=> c.proc > failedAt
    BY DEF SupervisorInv
  <2>3. healthy \in BOOLEAN
    BY DEF SupervisorInv, TypeOK
  <2>4. c.gen = generation => retrySleep' = minSleep /\ healthy'
    BY <2>1 DEF Check
  <2>5. c.gen # generation => retrySleep' = retrySleep /\ healthy' = healthy
    BY <2>1, <2>3 DEF Check
  <2>6. Alive => failedAt < proc
    BY DEF SupervisorInv
  <2>7. c.proc = proc /\ Alive => c.gen = generation
    BY <2>2, <2>6 DEF SupervisorInv, TypeOK
  <2>8. c.proc <= failedAt => c.gen # generation
    <3>1. c.proc \in Nat /\ failedAt \in Nat
      BY DEF SupervisorInv, TypeOK
    <3> QED
      BY <2>2, <3>1
  <2> QED
    BY <2>4, <2>5, <2>7, <2>8
<1> QED
  BY <1>1, SupervisorInvariance, PTL DEF Spec, OnlyFreshChecks
=============================================================================
