----------------------------- MODULE WorkQueue ------------------------------
(***************************************************************************)
(* What WorkConcurrently (runtimes/go/pubsub/internal/utils/workers.go)    *)
(* promises a Pub/Sub provider, whatever its concurrency: the provider     *)
(* counts the messages it handed out and that were not given back, and     *)
(* sees the call begin, give up and return.                                *)
(***************************************************************************)
EXTENDS Integers

CONSTANT Limit   \* most messages handed out at any time

VARIABLES held,  \* messages handed out and neither processed nor dropped
          phase  \* "open", then "closing", then "closed": the call returned

Init == held = 0 /\ phase = "open"

\* A fetch hands out messages, also one that was under way when the call gave up.
Take(n) == /\ phase # "closed"
           /\ held + n <= Limit
           /\ held' = held + n
           /\ UNCHANGED phase

\* A message is processed, possibly after the call has returned.
Finish == held > 0 /\ held' = held - 1 /\ UNCHANGED phase

\* Messages are dropped unprocessed only by a call that gives up.
Drop(n) == phase = "closing" /\ n <= held /\ held' = held - n /\ UNCHANGED phase

\* An error or the cancelation of the context.
GiveUp == phase = "open" /\ phase' = "closing" /\ UNCHANGED held

Close == phase = "closing" /\ phase' = "closed" /\ UNCHANGED held

Next == \/ \E n \in 1 .. Limit : Take(n) \/ Drop(n)
        \/ Finish \/ GiveUp \/ Close

Spec == Init /\ [][Next]_<<held, phase>>
=============================================================================
