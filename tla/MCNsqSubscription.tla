------------------------- MODULE MCNsqSubscription --------------------------
(***************************************************************************)
(* Two handlers and two messages, one of them malformed where the retries  *)
(* are limited: to none (NoRetries, and 0), to two (with a minimum above   *)
(* the maximum, and with both below a second), or not at all.  The unit of *)
(* time is half a second.                                                  *)
(***************************************************************************)
EXTENDS NsqSubscription

CONSTANT bad   \* the malformed message

Subscription(n, min, max, malformed) ==
    [MaxRetries |-> n, MinBackoff |-> min, MaxBackoff |-> max, Malformed |-> malformed]

MCSubscriptions == {Subscription(NoRetries, 2, 10, {bad}),
                    Subscription(0, 2, 10, {bad}),
                    Subscription(2, 6, 4, {bad}),
                    Subscription(2, 1, 1, {bad}),
                    Subscription(InfiniteRetries, 1, 7, {})}

\* The malformed message, if it is one, is also the one that fails less often.
MCFailures == [m \in Messages |-> IF m = bad THEN 1 ELSE 2]

\* A policy that leaves room for a retry.
MCRetrying == {Subscription(2, 2, 10, {})}
=============================================================================
