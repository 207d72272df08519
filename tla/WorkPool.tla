------------------------------ MODULE WorkPool ------------------------------
(***************************************************************************)
(* workInWorkPool of runtimes/go/pubsub/internal/utils/workers.go: one     *)
(* fetcher hands the messages it fetches to maxConcurrency workers over an *)
(* unbuffered channel, and asks the provider for no more messages than     *)
(* there are workers not counted as busy.                                  *)
(*                                                                         *)
(* Items are not told apart: batch counts the fetched items the fetcher    *)
(* still holds, and a worker holds an item exactly while it is not in      *)
(* "recv" or "exit".                                                       *)
(***************************************************************************)
EXTENDS Integers, FiniteSets

CONSTANTS Workers,        \* the worker goroutines
          maxConcurrency, \* how many there are
          maxBatchSize    \* most items per fetch; not positive: no limit

ASSUME WorkersAssumption == IsFiniteSet(Workers) /\ Cardinality(Workers) = maxConcurrency
ASSUME ConcurrencyAssumption == maxConcurrency \in Nat /\ maxConcurrency > 1
ASSUME BatchAssumption == maxBatchSize \in Int

VARIABLES
    fpc,       \* where the fetcher is
    toFetch,   \* the fetcher's local of that name
    batch,     \* items fetched and not yet passed to a worker
    wpc,       \* where each worker is
    workItemsBeingProcessed,
    cause,     \* context.Cause of fetchCtx
    closed,    \* workChan is closed
    result     \* what workInWorkPool returned

vars == <<fpc, toFetch, batch, wpc, workItemsBeingProcessed, cause, closed, result>>

FetcherStates == {"check", "load", "full", "select", "debounce", "fetch",
                  "idle", "pass", "return", "returned"}

WorkerStates == {"recv", "got", "process", "done", "signal", "exit"}

\* Every variable keeps to the values the code gives it.
TypeOK ==
    /\ fpc \in FetcherStates
    /\ toFetch \in 0 .. maxConcurrency
    /\ batch \in 0 .. maxConcurrency
    /\ wpc \in [Workers -> WorkerStates]
    /\ workItemsBeingProcessed \in 0 .. maxConcurrency
    /\ cause \in {"none", "canceled", "error"}
    /\ closed \in BOOLEAN
    /\ result \in {"none", "nil", "error"}

Init ==
    /\ fpc = "check"
    /\ toFetch = 0
    /\ batch = 0
    /\ wpc = [w \in Workers |-> "recv"]
    /\ workItemsBeingProcessed = 0
    /\ cause = "none"
    /\ closed = FALSE
    /\ result = "none"

\* cancelFetch, or the cancelation of its parent: the first one stays.
CancelFetch(why) == cause' = IF cause = "none" THEN why ELSE cause

FetchDone == cause # "none"

\* The errors a fetch or a handler returns, by what errors.Is makes of them:
\* a handler stopped by its context returns context.Canceled.
Errors == {"canceled", "error"}

-----------------------------------------------------------------------------
\* The fetch loop.
CheckContext ==
    /\ fpc = "check"
    /\ fpc' = IF FetchDone THEN "return" ELSE "load"
    /\ UNCHANGED <<toFetch, batch, wpc, workItemsBeingProcessed, cause, closed, result>>

Capped(n) == IF maxBatchSize > 0 /\ n > maxBatchSize THEN maxBatchSize ELSE n

LoadCount ==
    /\ fpc = "load"
    /\ toFetch' = Capped(maxConcurrency - workItemsBeingProcessed)
    /\ fpc' = IF toFetch' = 0 THEN "full" ELSE "fetch"
    /\ UNCHANGED <<batch, wpc, workItemsBeingProcessed, cause, closed, result>>

\* The fetcher decided to wait and only now is ready to receive on workDone.
EnterSelect ==
    /\ fpc = "full"
    /\ fpc' = "select"
    /\ UNCHANGED <<toFetch, batch, wpc, workItemsBeingProcessed, cause, closed, result>>

SelectCanceled ==
    /\ fpc = "select"
    /\ FetchDone
    /\ fpc' = "return"
    /\ UNCHANGED <<toFetch, batch, wpc, workItemsBeingProcessed, cause, closed, result>>

\* Mutant of SpuriousWakeup: no ticker.
SpuriousWakeupMutant == FALSE

SpuriousWakeup ==
    /\ fpc = "select"
    /\ fpc' = "check"
    /\ UNCHANGED <<toFetch, batch, wpc, workItemsBeingProcessed, cause, closed, result>>

\* The sleeps of workFetchDebounce and noWorkDebounce.
StopSleeping ==
    /\ fpc \in {"debounce", "idle"}
    /\ fpc' = "check"
    /\ UNCHANGED <<toFetch, batch, wpc, workItemsBeingProcessed, cause, closed, result>>

FetchReturns(n) ==
    /\ fpc = "fetch"
    /\ batch' = n
    /\ fpc' = IF n = 0 THEN "idle" ELSE "pass"
    /\ UNCHANGED <<toFetch, wpc, workItemsBeingProcessed, cause, closed, result>>

\* Mutant of FetchFails: the error is returned without cancelFetch(err).
FetchFailsMutant(err) ==
    /\ fpc = "fetch"
    /\ fpc' = "return"
    /\ UNCHANGED <<toFetch, batch, wpc, workItemsBeingProcessed, cause, closed, result>>

FetchFails(err) ==
    /\ fpc = "fetch"
    /\ CancelFetch(err)
    /\ fpc' = "return"
    /\ UNCHANGED <<toFetch, batch, wpc, workItemsBeingProcessed, closed, result>>

\* workChan <- w meets a worker that is ready to receive.
PassWork(w) ==
    /\ fpc = "pass"
    /\ wpc[w] = "recv"
    /\ wpc' = [wpc EXCEPT ![w] = "got"]
    /\ batch' = batch - 1
    /\ fpc' = IF batch = 1 THEN "check" ELSE "pass"
    /\ UNCHANGED <<toFetch, workItemsBeingProcessed, cause, closed, result>>

\* Mutants of PassCanceled: a default case in place of the done one,
PassCanceledDefaultMutant ==
    /\ fpc = "pass"
    /\ batch' = 0
    /\ fpc' = "check"
    /\ UNCHANGED <<toFetch, wpc, workItemsBeingProcessed, cause, closed, result>>

\* and a plain send.
PassCanceledMissingMutant == FALSE

\* The rest of the batch is dropped.
PassCanceled ==
    /\ fpc = "pass"
    /\ FetchDone
    /\ batch' = 0
    /\ fpc' = "return"
    /\ UNCHANGED <<toFetch, wpc, workItemsBeingProcessed, cause, closed, result>>

\* Mutant of Return: workChan is never closed.
ReturnMutant ==
    /\ fpc = "return"
    /\ fpc' = "returned"
    /\ result' = IF cause = "error" THEN "error" ELSE "nil"
    /\ CancelFetch("canceled")
    /\ UNCHANGED <<toFetch, batch, wpc, workItemsBeingProcessed, closed>>

\* Take the cause, then run the deferred close(workChan) and cancelFetch(nil).
Return ==
    /\ fpc = "return"
    /\ fpc' = "returned"
    /\ result' = IF cause = "error" THEN "error" ELSE "nil"
    /\ closed' = TRUE
    /\ CancelFetch("canceled")
    /\ UNCHANGED <<toFetch, batch, wpc, workItemsBeingProcessed>>

\* The parent context, ctxs.Fetch, is canceled: the manager shuts down.
StopFetchingNewEvents ==
    /\ ~FetchDone
    /\ CancelFetch("canceled")
    /\ UNCHANGED <<fpc, toFetch, batch, wpc, workItemsBeingProcessed, closed, result>>

-----------------------------------------------------------------------------
\* A worker: processWorkItem and the range loop around it.
BeginItem(w) ==
    /\ wpc[w] = "got"
    /\ wpc' = [wpc EXCEPT ![w] = "process"]
    /\ workItemsBeingProcessed' = workItemsBeingProcessed + 1
    /\ UNCHANGED <<fpc, toFetch, batch, cause, closed, result>>

ProcessOK(w) ==
    /\ wpc[w] = "process"
    /\ wpc' = [wpc EXCEPT ![w] = "done"]
    /\ UNCHANGED <<fpc, toFetch, batch, workItemsBeingProcessed, cause, closed, result>>

\* Mutant of ProcessFails: the error path decrements, and so does the defer.
ProcessFailsMutant(w, err) ==
    /\ wpc[w] = "process"
    /\ wpc' = [wpc EXCEPT ![w] = "done"]
    /\ CancelFetch(err)
    /\ workItemsBeingProcessed' = workItemsBeingProcessed - 1
    /\ UNCHANGED <<fpc, toFetch, batch, closed, result>>

ProcessFails(w, err) ==
    /\ wpc[w] = "process"
    /\ wpc' = [wpc EXCEPT ![w] = "done"]
    /\ CancelFetch(err)
    /\ UNCHANGED <<fpc, toFetch, batch, workItemsBeingProcessed, closed, result>>

\* Mutant of EndItem: decrements twice.
EndItemMutant(w) ==
    /\ wpc[w] = "done"
    /\ wpc' = [wpc EXCEPT ![w] = "signal"]
    /\ workItemsBeingProcessed' = workItemsBeingProcessed - 2
    /\ UNCHANGED <<fpc, toFetch, batch, cause, closed, result>>

EndItem(w) ==
    /\ wpc[w] = "done"
    /\ wpc' = [wpc EXCEPT ![w] = "signal"]
    /\ workItemsBeingProcessed' = workItemsBeingProcessed - 1
    /\ UNCHANGED <<fpc, toFetch, batch, cause, closed, result>>

\* The non-blocking send on workDone: it is lost unless the fetcher is waiting.
SignalDone(w) ==
    /\ wpc[w] = "signal"
    /\ wpc' = [wpc EXCEPT ![w] = "recv"]
    /\ fpc' = IF fpc = "select" THEN "debounce" ELSE fpc
    /\ UNCHANGED <<toFetch, batch, workItemsBeingProcessed, cause, closed, result>>

WorkerExit(w) ==
    /\ wpc[w] = "recv"
    /\ closed
    /\ wpc' = [wpc EXCEPT ![w] = "exit"]
    /\ UNCHANGED <<fpc, toFetch, batch, workItemsBeingProcessed, cause, closed, result>>

-----------------------------------------------------------------------------
FetcherStep ==
    \/ CheckContext \/ LoadCount \/ EnterSelect \/ SelectCanceled
    \/ SpuriousWakeup \/ StopSleeping
    \/ \E w \in Workers : PassWork(w)
    \/ PassCanceled \/ Return

FetchStep ==
    \/ \E n \in 0 .. toFetch : FetchReturns(n)
    \/ \E err \in Errors : FetchFails(err)

WorkerStep(w) == BeginItem(w) \/ EndItem(w) \/ SignalDone(w) \/ WorkerExit(w)

HandlerStep(w) == ProcessOK(w) \/ \E err \in Errors : ProcessFails(w, err)

Next ==
    \/ FetcherStep
    \/ FetchStep
    \/ StopFetchingNewEvents
    \/ \E w \in Workers : WorkerStep(w) \/ HandlerStep(w)

(***************************************************************************)
(* The goroutines' own steps are fair, the ticker of spuriousWakeup among  *)
(* them.  A fetch returns once its context is canceled, but may otherwise  *)
(* wait for messages for ever, and a message handler may never return.     *)
(***************************************************************************)
Fairness ==
    /\ WF_vars(FetcherStep)
    /\ WF_vars(FetchDone /\ FetchStep)
    /\ \A w \in Workers : WF_vars(WorkerStep(w))

Spec == Init /\ [][Next]_vars
FairSpec == Spec /\ Fairness

-----------------------------------------------------------------------------
(***************************************************************************)
(* Properties.                                                             *)
(***************************************************************************)
Counted == {w \in Workers : wpc[w] \in {"process", "done"}}
Holding == {w \in Workers : wpc[w] \in {"got", "process", "done"}}

\* The atomic counter is exactly the number of workers between its Add(1) and
\* its Add(-1), so the fetcher never asks the provider for fewer than one item
\* or for more than there are workers.
CountExact == /\ workItemsBeingProcessed = Cardinality(Counted)
              /\ fpc = "fetch" => toFetch \in 1 .. maxConcurrency

\* What the pool does guarantee: besides the items the workers hold, at most
\* one batch is fetched ahead of them.
OutstandingBound ==
    batch + Cardinality(Holding) <= maxConcurrency + Capped(maxConcurrency)

\* The promise to the provider, in terms of the pool: a message is held by the
\* fetcher or by a worker, and the call gives up when fetchCtx is done.
Queue == INSTANCE WorkQueue WITH
    Limit <- maxConcurrency + Capped(maxConcurrency),
    held  <- batch + Cardinality(Holding),
    phase <- IF fpc = "returned" THEN "closed" ELSE IF FetchDone THEN "closing" ELSE "open"

\* The pool implements the queue: no step of fetcher or workers loses, doubles
\* or takes back a message on its way from the fetch to a worker, and the pool
\* returns only once it has given up.
QueueSpec == Queue!Spec

\* Messages are only dropped unprocessed by a pool whose context is done, and
\* every worker is idle or gone before its channel is found closed: no worker
\* leaves with an item in hand.
NoItemLost ==
    [][/\ batch' < batch => \/ FetchDone
                            \/ \E w \in Workers : wpc[w] = "recv" /\ wpc'[w] = "got"
       /\ \A w \in Workers : (wpc'[w] = "exit" /\ wpc[w] # "exit")
                               => closed /\ batch = 0 /\ w \notin Holding]_vars

\* The lost wakeup: a fetcher that waits for a busy pool starts another fetch
\* once a worker is idle, even if that worker's signal found nobody waiting.
NoStuckFetcher ==
    (fpc = "select" /\ \E w \in Workers : wpc[w] = "recv")
       ~> fpc \in {"fetch", "return", "returned"}

\* "This function will block until an error is returned from either the fetcher
\* or the worker functions or until the context is cancelled" and then returns,
\* however many handlers still run.
ReturnsWhenDone == FetchDone ~> fpc = "returned"

\* A pool that returned leaves no goroutine behind but those still inside a
\* handler: every other worker ends.
WorkersEnd == \A w \in Workers :
    (fpc = "returned" /\ wpc[w] \notin {"got", "process"}) ~> wpc[w] = "exit"

\* "guarantees that at most maxConcurrency items have been fetched and are being
\* processed at any given time" (workers.go:32-33)
AtMostMaxConcurrency == batch + Cardinality(Holding) <= maxConcurrency
=============================================================================
