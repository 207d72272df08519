--------------------------- MODULE WorkPoolProofs ---------------------------
(***************************************************************************)
(* Proofs about the work pool, for every number of workers and batch size. *)
(***************************************************************************)
EXTENDS WorkPool, FiniteSetTheorems, TLAPS

(***************************************************************************)
(* The inductive invariant: the counter is the number of counted workers,  *)
(* the fetcher holds a batch only while it passes one on, and it returns   *)
(* only when its context is done.                                          *)
(***************************************************************************)
PoolInv ==
    /\ TypeOK
    /\ workItemsBeingProcessed = Cardinality(Counted)
    /\ fpc = "fetch" => toFetch >= 1
    /\ toFetch <= Capped(maxConcurrency)
    /\ batch <= Capped(maxConcurrency)
    /\ fpc = "pass" => batch >= 1
    /\ fpc # "pass" => batch = 0
    /\ closed => fpc = "returned"
    /\ fpc \in {"return", "returned"} => FetchDone

\* A set of workers is finite and has at most maxConcurrency members.
LEMMA WorkerSets ==
    ASSUME NEW S \in SUBSET Workers
    PROVE  IsFiniteSet(S) /\ Cardinality(S) \in 0 .. maxConcurrency
BY WorkersAssumption, ConcurrencyAssumption, FS_Subset, FS_CardinalityType

\* The batch limit keeps a fetch between nothing and the number of workers,
\* and asks for something whenever a worker is free.
LEMMA CappedRange ==
    ASSUME NEW n \in 0 .. maxConcurrency
    PROVE  /\ Capped(n) \in 0 .. maxConcurrency
           /\ Capped(n) <= Capped(maxConcurrency)
           /\ n > 0 => Capped(n) > 0
BY ConcurrencyAssumption, BatchAssumption DEF Capped

\* A pool whose workers were just started satisfies the invariant.
LEMMA InitPoolInv == Init => PoolInv
<1> SUFFICES ASSUME Init PROVE PoolInv
  OBVIOUS
<1>1. Counted = {}
  BY DEF Init, Counted
<1>2. Cardinality(Counted) = 0
  BY <1>1, FS_EmptySet
<1>3. 0 \in 0 .. maxConcurrency /\ maxConcurrency \in 0 .. maxConcurrency
  BY ConcurrencyAssumption
<1>4. 0 <= Capped(maxConcurrency)
  BY <1>3, CappedRange
<1> QED
  BY <1>2, <1>3, <1>4 DEF Init, PoolInv, TypeOK, FetcherStates, WorkerStates, FetchDone

\* Every step of the fetcher, a fetch, a worker or a handler keeps the invariant.
LEMMA NextPoolInv == PoolInv /\ [Next]_vars => PoolInv'
<1> SUFFICES ASSUME PoolInv, [Next]_vars PROVE PoolInv'
  OBVIOUS
<1> USE ConcurrencyAssumption DEF PoolInv, FetchDone
<1> Capped(maxConcurrency) \in 0 .. maxConcurrency
  BY CappedRange
<1>1. Cardinality(Counted) \in 0 .. maxConcurrency
  BY WorkerSets DEF Counted
<1>2. ASSUME UNCHANGED Counted, UNCHANGED workItemsBeingProcessed
      PROVE  workItemsBeingProcessed' = Cardinality(Counted)'
  BY <1>2
<1>3. CASE CheckContext \/ EnterSelect \/ SelectCanceled \/ SpuriousWakeup \/ StopSleeping
  BY <1>3, <1>2 DEF CheckContext, EnterSelect, SelectCanceled, SpuriousWakeup,
     StopSleeping, Counted, TypeOK, FetcherStates
<1>4. CASE LoadCount
  <2>1. toFetch' \in 0 .. maxConcurrency /\ toFetch' <= Capped(maxConcurrency)
    BY <1>4, <1>1, CappedRange DEF LoadCount
  <2>2. fpc' = "fetch" => toFetch' >= 1
    BY <1>4, <2>1 DEF LoadCount
  <2> QED
    BY <1>4, <1>2, <2>1, <2>2 DEF LoadCount, Counted, TypeOK, FetcherStates
<1>5. ASSUME NEW n \in 0 .. toFetch, FetchReturns(n)
      PROVE  PoolInv'
  BY <1>5, <1>2 DEF FetchReturns, Counted, TypeOK, FetcherStates
<1>6. ASSUME NEW err \in Errors, FetchFails(err)
      PROVE  PoolInv'
  BY <1>6, <1>2 DEF FetchFails, CancelFetch, Errors, Counted, TypeOK, FetcherStates
<1>7. ASSUME NEW w \in Workers, PassWork(w)
      PROVE  PoolInv'
  <2>1. Counted' = Counted
    BY <1>7 DEF PassWork, Counted, TypeOK
  <2> QED
    BY <1>7, <1>2, <2>1 DEF PassWork, TypeOK, FetcherStates, WorkerStates
<1>8. CASE PassCanceled
  BY <1>8, <1>2 DEF PassCanceled, Counted, TypeOK, FetcherStates
<1>9. CASE Return
  BY <1>9, <1>2 DEF Return, CancelFetch, Counted, TypeOK, FetcherStates
<1>10. CASE StopFetchingNewEvents
  BY <1>10, <1>2 DEF StopFetchingNewEvents, CancelFetch, Counted, TypeOK
<1>11. ASSUME NEW w \in Workers, BeginItem(w)
       PROVE  PoolInv'
  <2>1. Counted' = Counted \cup {w} /\ w \notin Counted
    BY <1>11 DEF BeginItem, Counted, TypeOK
  <2>2. Cardinality(Counted') = Cardinality(Counted) + 1
    BY <2>1, WorkerSets, FS_AddElement DEF Counted
  <2>3. Cardinality(Counted') \in 0 .. maxConcurrency
    BY WorkerSets DEF Counted
  <2> QED
    BY <1>11, <2>2, <2>3 DEF BeginItem, TypeOK, WorkerStates
<1>12. ASSUME NEW w \in Workers,
              ProcessOK(w) \/ (\E err \in Errors : ProcessFails(w, err))
       PROVE  PoolInv'
  <2>1. Counted' = Counted
    BY <1>12 DEF ProcessOK, ProcessFails, Counted, TypeOK
  <2> QED
    BY <1>12, <1>2, <2>1 DEF ProcessOK, ProcessFails, CancelFetch, Errors, TypeOK, WorkerStates
<1>13. ASSUME NEW w \in Workers, EndItem(w)
       PROVE  PoolInv'
  <2>1. Counted' = Counted \ {w} /\ w \in Counted
    BY <1>13 DEF EndItem, Counted, TypeOK
  <2>2. Cardinality(Counted') = Cardinality(Counted) - 1
    BY <2>1, WorkerSets, FS_RemoveElement DEF Counted
  <2>3. Cardinality(Counted') \in 0 .. maxConcurrency
    BY WorkerSets DEF Counted
  <2> QED
    BY <1>13, <2>2, <2>3 DEF EndItem, TypeOK, WorkerStates
<1>14. ASSUME NEW w \in Workers, SignalDone(w) \/ WorkerExit(w)
       PROVE  PoolInv'
  <2>1. Counted' = Counted
    BY <1>14 DEF SignalDone, WorkerExit, Counted, TypeOK
  <2> QED
    BY <1>14, <1>2, <2>1 DEF SignalDone, WorkerExit, TypeOK, FetcherStates, WorkerStates
<1>15. CASE UNCHANGED vars
  BY <1>15, <1>2 DEF vars, Counted, TypeOK
<1> QED
  BY <1>3, <1>4, <1>5, <1>6, <1>7, <1>8, <1>9, <1>10, <1>11, <1>12, <1>13, <1>14, <1>15
  DEF Next, FetcherStep, FetchStep, WorkerStep, HandlerStep

\* The invariant holds however fetcher, workers and cancelation interleave.
THEOREM PoolInvariance == Spec => []PoolInv
<1> QED
  BY InitPoolInv, NextPoolInv, PTL DEF Spec

\* Every variable keeps its type; in particular the counter never leaves
\* 0 .. maxConcurrency.
THEOREM PoolTyping == Spec => []TypeOK
<1>1. PoolInv => TypeOK
  BY DEF PoolInv
<1> QED
  BY <1>1, PoolInvariance, PTL

\* The counter is exact, and a fetch asks for at least one item and for no more
\* than there are workers.
THEOREM CountExactTheorem == Spec => []CountExact
<1>1. PoolInv => CountExact
  BY ConcurrencyAssumption DEF PoolInv, TypeOK, CountExact
<1> QED
  BY <1>1, PoolInvariance, PTL

\* Besides the items the workers hold, at most one batch is fetched ahead.
THEOREM OutstandingBoundTheorem == Spec => []OutstandingBound
<1>1. PoolInv => OutstandingBound
  <2> SUFFICES ASSUME PoolInv PROVE OutstandingBound
    OBVIOUS
  <2>1. Cardinality(Holding) \in 0 .. maxConcurrency
    BY WorkerSets DEF Holding
  <2>2. Capped(maxConcurrency) \in 0 .. maxConcurrency
    BY ConcurrencyAssumption, CappedRange
  <2> QED
    BY <2>1, <2>2, ConcurrencyAssumption DEF PoolInv, TypeOK, OutstandingBound
<1> QED
  BY <1>1, PoolInvariance, PTL

\* Items are dropped only by a canceled pool, and no worker leaves with one.
THEOREM NoItemLostTheorem == Spec => NoItemLost
<1> DEFINE A == /\ batch' < batch => \/ FetchDone
                                     \/ \E w \in Workers : wpc[w] = "recv" /\ wpc'[w] = "got"
                /\ \A w \in Workers : (wpc'[w] = "exit" /\ wpc[w] # "exit")
                                        => closed /\ batch = 0 /\ w \notin Holding
<1>1. PoolInv /\ [Next]_vars => [A]_vars
  <2> SUFFICES ASSUME PoolInv, Next PROVE A
    OBVIOUS
  <2>1. batch' < batch => \/ FetchDone
                          \/ \E w \in Workers : wpc[w] = "recv" /\ wpc'[w] = "got"
    <3> SUFFICES ASSUME batch' < batch PROVE \/ FetchDone
                          \/ \E w \in Workers : wpc[w] = "recv" /\ wpc'[w] = "got"
      OBVIOUS
    <3>1. \A n \in 0 .. toFetch : ~FetchReturns(n)
      BY DEF FetchReturns, PoolInv, TypeOK
    <3>2. batch' # batch
      BY DEF PoolInv, TypeOK
    <3>3. PassCanceled \/ \E w \in Workers : PassWork(w)
      BY <3>1, <3>2 DEF Next, FetcherStep, FetchStep, WorkerStep, HandlerStep,
         CheckContext, LoadCount, EnterSelect, SelectCanceled, SpuriousWakeup,
         StopSleeping, FetchFails, Return, StopFetchingNewEvents, BeginItem,
         ProcessOK, ProcessFails, EndItem, SignalDone, WorkerExit
    <3> QED
      BY <3>3 DEF PassCanceled, PassWork, PoolInv, TypeOK
  <2>2. ASSUME NEW w \in Workers, wpc'[w] = "exit", wpc[w] # "exit"
        PROVE  closed /\ batch = 0 /\ w \notin Holding
    <3>1. WorkerExit(w)
      BY <2>2 DEF PoolInv, TypeOK, Next, FetcherStep, FetchStep, WorkerStep, HandlerStep,
         CheckContext, LoadCount, EnterSelect, SelectCanceled, SpuriousWakeup,
         StopSleeping, FetchReturns, FetchFails, PassWork, PassCanceled, Return,
         StopFetchingNewEvents, BeginItem, ProcessOK, ProcessFails, EndItem,
         SignalDone, WorkerExit
    <3> QED
      BY <3>1 DEF WorkerExit, Holding, PoolInv
  <2> QED
    BY <2>1, <2>2
<1> QED
  BY <1>1, PoolInvariance, PTL DEF Spec, NoItemLost

\* A worker takes exactly the item the fetcher gives up, a finished item is
\* given back once, and no other step of a worker changes what is held.
LEMMA HoldingSteps ==
    ASSUME PoolInv, NEW w \in Workers
    PROVE  /\ PassWork(w) => Cardinality(Holding)' = Cardinality(Holding) + 1
           /\ EndItem(w) => Cardinality(Holding)' = Cardinality(Holding) - 1
           /\ BeginItem(w) \/ HandlerStep(w) \/ SignalDone(w) \/ WorkerExit(w)
                => Cardinality(Holding)' = Cardinality(Holding)
<1> USE DEF PoolInv, TypeOK
<1>1. IsFiniteSet(Holding)
  BY WorkerSets DEF Holding
<1>2. ASSUME PassWork(w) PROVE Cardinality(Holding)' = Cardinality(Holding) + 1
  <2>1. Holding' = Holding \cup {w} /\ w \notin Holding
    BY <1>2 DEF PassWork, Holding
  <2> QED
    BY <1>1, <2>1, FS_AddElement
<1>3. ASSUME EndItem(w) PROVE Cardinality(Holding)' = Cardinality(Holding) - 1
  <2>1. Holding' = Holding \ {w} /\ w \in Holding
    BY <1>3 DEF EndItem, Holding
  <2> QED
    BY <1>1, <2>1, FS_RemoveElement
<1>4. ASSUME BeginItem(w) \/ HandlerStep(w) \/ SignalDone(w) \/ WorkerExit(w)
      PROVE  Holding' = Holding
  BY <1>4 DEF BeginItem, HandlerStep, ProcessOK, ProcessFails, SignalDone, WorkerExit, Holding
<1> QED
  BY <1>2, <1>3, <1>4

\* The pool implements the queue of WorkQueue.tla: messages are neither lost
\* nor doubled between fetch and worker, and dropped only when it gives up.
THEOREM QueueRefinement == Spec => QueueSpec
<1> DEFINE h  == batch + Cardinality(Holding)
           ph == IF fpc = "returned" THEN "closed" ELSE IF FetchDone THEN "closing" ELSE "open"
           L  == maxConcurrency + Capped(maxConcurrency)
<1>1. Init => Queue!Init
  <2> SUFFICES ASSUME Init PROVE h = 0 /\ ph = "open"
    BY DEF Queue!Init
  <2>1. Holding = {}
    BY DEF Init, Holding
  <2>2. Cardinality(Holding) = 0
    BY <2>1, FS_EmptySet
  <2> QED
    BY <2>2 DEF Init, FetchDone
<1>2. PoolInv /\ [Next]_vars => [Queue!Next]_<<h, ph>>
  <2> SUFFICES ASSUME PoolInv, [Next]_vars
               PROVE  Queue!Next \/ (h' = h /\ ph' = ph)
    OBVIOUS
  <2> USE ConcurrencyAssumption DEF PoolInv, FetchDone
  <2>1. /\ Cardinality(Holding) \in 0 .. maxConcurrency
        /\ Capped(maxConcurrency) \in 0 .. maxConcurrency
        /\ batch \in Int /\ toFetch \in Int
        /\ UNCHANGED wpc => Cardinality(Holding)' = Cardinality(Holding)
    BY WorkerSets, CappedRange DEF Holding, TypeOK
  <2>2. CASE CheckContext \/ LoadCount \/ EnterSelect \/ SelectCanceled
              \/ SpuriousWakeup \/ StopSleeping
    BY <2>1, <2>2 DEF CheckContext, LoadCount, EnterSelect, SelectCanceled,
       SpuriousWakeup, StopSleeping
  <2>3. ASSUME NEW n \in 0 .. toFetch, FetchReturns(n)
        PROVE  Queue!Next \/ (h' = h /\ ph' = ph)
    <3>1. h = Cardinality(Holding) /\ h' = h + n /\ ph' = ph /\ ph # "closed"
      BY <2>1, <2>3 DEF FetchReturns
    <3>2. n \in 0 .. L /\ h + n <= L
      BY <2>1, <2>3, <3>1
    <3>3. CASE n > 0
      BY <3>1, <3>2, <3>3 DEF Queue!Next, Queue!Take
    <3> QED
      BY <2>1, <3>1, <3>2, <3>3
  <2>4. ASSUME h' = h, fpc # "returned", fpc' # "returned",
               \E err \in Errors : CancelFetch(err)
        PROVE  Queue!Next \/ (h' = h /\ ph' = ph)
    BY <2>4 DEF CancelFetch, Errors, Queue!Next, Queue!GiveUp
  <2>5. ASSUME NEW err \in Errors, FetchFails(err)
        PROVE  Queue!Next \/ (h' = h /\ ph' = ph)
    BY <2>1, <2>4, <2>5 DEF FetchFails
  <2>6. ASSUME NEW w \in Workers, PassWork(w)
        PROVE  h' = h /\ ph' = ph
    <3>1. Cardinality(Holding)' = Cardinality(Holding) + 1
      BY <2>6, HoldingSteps
    <3>2. batch' = batch - 1 /\ UNCHANGED cause /\ fpc # "returned" /\ fpc' # "returned"
      BY <2>6 DEF PassWork
    <3> QED
      BY <2>1, <3>1, <3>2
  <2>7. CASE PassCanceled
    <3>1. /\ batch \in 1 .. L /\ batch <= h /\ h' = h - batch
          /\ ph = "closing" /\ ph' = ph
      BY <2>1, <2>7 DEF PassCanceled
    <3> QED
      BY <3>1 DEF Queue!Next, Queue!Drop
  <2>8. CASE Return
    <3>1. h' = h /\ ph = "closing" /\ ph' = "closed"
      BY <2>1, <2>8 DEF Return
    <3> QED
      BY <3>1 DEF Queue!Next, Queue!Close
  <2>9. CASE StopFetchingNewEvents
    BY <2>1, <2>4, <2>9 DEF StopFetchingNewEvents, Errors
  <2>10. ASSUME NEW w \in Workers, EndItem(w)
         PROVE  Queue!Next
    <3>1. h' = h - 1 /\ h' >= 0 /\ ph' = ph
      <4>1. Cardinality(Holding)' \in 0 .. maxConcurrency
        BY WorkerSets DEF Holding
      <4>2. Cardinality(Holding)' = Cardinality(Holding) - 1
        BY <2>10, HoldingSteps
      <4>3. UNCHANGED <<batch, fpc, cause>> /\ batch >= 0
        BY <2>10 DEF EndItem, TypeOK
      <4> QED
        BY <2>1, <4>1, <4>2, <4>3
    <3> QED
      BY <2>1, <3>1 DEF Queue!Next, Queue!Finish
  <2>11. ASSUME NEW w \in Workers, ProcessOK(w) \/ BeginItem(w) \/ SignalDone(w) \/ WorkerExit(w)
         PROVE  h' = h /\ ph' = ph
    BY <2>11, HoldingSteps DEF ProcessOK, BeginItem, SignalDone, WorkerExit, HandlerStep
  <2>12. ASSUME NEW w \in Workers, NEW err \in Errors, ProcessFails(w, err)
         PROVE  Queue!Next \/ (h' = h /\ ph' = ph)
    <3>1. h' = h /\ fpc' = fpc
      BY <2>12, HoldingSteps DEF ProcessFails, HandlerStep
    <3>2. CASE fpc # "returned"
      BY <2>4, <2>12, <3>1, <3>2 DEF ProcessFails
    <3>3. CASE fpc = "returned"
      BY <3>1, <3>3
    <3> QED
      BY <3>2, <3>3
  <2>13. CASE UNCHANGED vars
    BY <2>1, <2>13 DEF vars
  <2> QED
    BY <2>2, <2>3, <2>5, <2>6, <2>7, <2>8, <2>9, <2>10, <2>11, <2>12, <2>13
    DEF Next, FetcherStep, FetchStep, WorkerStep, HandlerStep
<1> QED
  BY <1>1, <1>2, PoolInvariance, PTL DEF Spec, QueueSpec, Queue!Spec
=============================================================================
