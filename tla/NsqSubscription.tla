-------------------------- MODULE NsqSubscription ---------------------------
(***************************************************************************)
(* A Pub/Sub subscription on NSQ (runtimes/go/pubsub/internal/nsq): the    *)
(* handler goroutines of topic.Subscribe, the goroutine that connects, the *)
(* retry policy (GetDelay of internal/utils) and, as far as the code uses  *)
(* them, the go-nsq consumer and nsqd.                                     *)
(*                                                                         *)
(* Subscribe declares one variable `err', and every handler and the        *)
(* connecting goroutine assign and test that variable without a lock; an   *)
(* assignment and its test are separate steps, and the test may see the    *)
(* value just assigned (a compiler may keep it in a register) or load the  *)
(* variable again.  Durations are counted in a unit that divides a second, *)
(* so that a policy may have waits shorter than a second.                  *)
(***************************************************************************)
EXTENDS Integers

CONSTANTS Handlers,     \* the maxConcurrency handler goroutines
          Messages,     \* the messages published to the topic
          Subscriptions,\* the subscriptions considered
          Second,       \* time.Second, in the unit of the durations
          MaxFailures   \* bound: a callback fails at most at a message's first
                        \* MaxFailures attempts, and it times out before the last

NoRetries == -2
InfiniteRetries == -1
maxVal == 65535
none == "none"

\* A retry policy with NewSubscription's defaults filled in, and the messages
\* whose body json.Unmarshal rejects.
ASSUME SubscriptionAssumption ==
    Subscriptions \subseteq [MaxRetries : {NoRetries, InfiniteRetries} \cup Nat,
                             MinBackoff : Nat \ {0}, MaxBackoff : Nat \ {0},
                             Malformed : SUBSET Messages]
ASSUME HandlersAssumption == "connect" \notin Handlers /\ none \notin Messages
ASSUME BoundAssumption == MaxFailures \in [Messages -> Nat]
ASSUME SecondAssumption == Second \in Nat \ {0}

VARIABLES
    sub,       \* the subscription
    err,       \* Subscribe's variable: is it nil?
    errBy,     \* history: who assigned err last
    connect,   \* where the connecting goroutine is
    ctx,       \* "open", "fetch": Fetch is done, "handler": Handler is done, too
    pc,        \* where each handler is
    msg,       \* the message it handles, or none
    attempt,   \* m.Attempts of that delivery
    own,       \* what its own call returned, until it is tested, or the connecting
               \* goroutine's
    state,     \* where nsqd keeps each message
    attempts,  \* how often nsqd has delivered it, a uint16
    delay      \* how long a requeued message has to wait

vars == <<sub, err, errBy, connect, ctx, pc, msg, attempt, own, state, attempts, delay>>

Assigners == Handlers \cup {"connect"}
HandlerStates == {"idle", "unmarshal", "unmarshaled", "callback", "running", "called",
                  "deferred"}

\* A second is waited for even where MaxBackoff is shorter, but only before an
\* attempt 0, that is, once the uint16 has wrapped around.
LongestWait == IF sub.MaxBackoff < Second THEN Second ELSE sub.MaxBackoff

\* Every variable keeps to the values the code gives it.
TypeOK ==
    /\ sub \in Subscriptions
    /\ err \in {"nil", "error"} /\ errBy \in Assigners
    /\ connect \in {"sleep", "connecting", "assigned", "done", "panic"}
    /\ ctx \in {"open", "fetch", "handler"}
    /\ pc \in [Handlers -> HandlerStates]
    /\ msg \in [Handlers -> Messages \cup {none}]
    /\ attempt \in [Handlers -> 0 .. maxVal]
    /\ own \in [Assigners -> {"nil", "error"}]
    /\ state \in [Messages -> {"queued", "inflight", "requeued", "finished"}]
    /\ attempts \in [Messages -> 0 .. maxVal]
    /\ delay \in [Messages -> 0 .. LongestWait]

Init ==
    /\ sub \in Subscriptions
    /\ err = "nil" /\ errBy = "connect"
    /\ connect = "sleep"
    /\ ctx = "open"
    /\ pc = [h \in Handlers |-> "idle"]
    /\ msg = [h \in Handlers |-> none]
    /\ attempt = [h \in Handlers |-> 0]
    /\ own = [g \in Assigners |-> "nil"]
    /\ state = [m \in Messages |-> "queued"]
    /\ attempts = [m \in Messages |-> 0]
    /\ delay = [m \in Messages |-> 0]

-----------------------------------------------------------------------------
\* getConsumerConfig: after how many attempts go-nsq gives up on a message.
MaxAttempts ==
    CASE sub.MaxRetries = 0 -> 100
      [] sub.MaxRetries = InfiniteRetries -> maxVal
      [] sub.MaxRetries > maxVal -> maxVal
      [] OTHER -> (65536 + sub.MaxRetries) % 65536   \* uint16(NoRetries) is 65534

\* GetDelay's first result, negated.
Depleted(a) ==
    \/ sub.MaxRetries = NoRetries
    \/ a > sub.MaxRetries /\ sub.MaxRetries # InfiniteRetries

\* The wait before the first doubling: at least a second.
Base == IF sub.MinBackoff < Second THEN Second ELSE sub.MinBackoff

\* Mutant of Backoff: no limit.
BackoffUncappedMutant(a) == Base * 2 ^ a

\* Mutant of Backoff: the loop runs once more.
BackoffMutant(a) ==
    LET b[i \in 0 .. a + 1] ==
          IF i = 0 THEN Base
          ELSE IF 2 * b[i - 1] > sub.MaxBackoff THEN sub.MaxBackoff ELSE 2 * b[i - 1]
    IN  IF sub.MaxBackoff < sub.MinBackoff THEN sub.MaxBackoff ELSE b[a + 1]

\* GetDelay's second result for a message that is retried.
Backoff(a) ==
    LET b[i \in 0 .. a] ==
          IF i = 0 THEN Base
          ELSE IF 2 * b[i - 1] > sub.MaxBackoff THEN sub.MaxBackoff ELSE 2 * b[i - 1]
    IN  IF sub.MaxBackoff < sub.MinBackoff THEN sub.MaxBackoff ELSE b[a]

-----------------------------------------------------------------------------
Running == connect # "panic"

\* The count of a message's next delivery.
NextAttempt(m) == (attempts[m] + 1) % 65536

\* go-nsq, once connected, hands a message to a handler, or gives up on it.
Deliver(h, m) ==
    /\ Running /\ connect # "sleep" /\ own["connect"] = "nil" /\ ctx = "open"
    /\ pc[h] = "idle" /\ state[m] = "queued"
    /\ attempts' = [attempts EXCEPT ![m] = NextAttempt(m)]
    /\ IF NextAttempt(m) > MaxAttempts
       THEN /\ state' = [state EXCEPT ![m] = "finished"]
            /\ UNCHANGED <<pc, msg, attempt>>
       ELSE /\ state' = [state EXCEPT ![m] = "inflight"]
            /\ pc' = [pc EXCEPT ![h] = "unmarshal"]
            /\ msg' = [msg EXCEPT ![h] = m]
            /\ attempt' = [attempt EXCEPT ![h] = NextAttempt(m)]
    /\ UNCHANGED <<sub, err, errBy, connect, ctx, own, delay>>

\* An assignment to err by the goroutine g of what its call returned.
Assign(g, e) ==
    /\ err' = e /\ errBy' = g
    /\ own' = [own EXCEPT ![g] = e]

Unmarshal(h) ==
    /\ Running /\ pc[h] = "unmarshal"
    /\ Assign(h, IF msg[h] \in sub.Malformed THEN "error" ELSE "nil")
    /\ pc' = [pc EXCEPT ![h] = "unmarshaled"]
    /\ UNCHANGED <<sub, connect, ctx, msg, attempt, state, attempts, delay>>

\* What a test of err by g may see: a data race.
Seen(g) == {own[g], err}

TestUnmarshal(h) ==
    /\ Running /\ pc[h] = "unmarshaled"
    /\ \E e \in Seen(h) :
          pc' = [pc EXCEPT ![h] = IF e = "nil" THEN "callback" ELSE "deferred"]
    /\ own' = [own EXCEPT ![h] = "nil"]
    /\ UNCHANGED <<sub, err, errBy, connect, ctx, msg, attempt, state, attempts, delay>>

\* The subscription's callback refuses a message once its context is done,
Callback(h) ==
    /\ Running /\ pc[h] = "callback"
    /\ IF ctx = "handler"
       THEN Assign(h, "error") /\ pc' = [pc EXCEPT ![h] = "called"]
       ELSE pc' = [pc EXCEPT ![h] = "running"] /\ UNCHANGED <<err, errBy, own>>
    /\ UNCHANGED <<sub, connect, ctx, msg, attempt, state, attempts, delay>>

\* and otherwise returns what the app's handler returns, which may fail of its
\* own accord or because its context is done.
CallbackReturns(h, e) ==
    /\ Running /\ pc[h] = "running"
    /\ e = "nil" \/ attempt[h] <= MaxFailures[msg[h]] \/ ctx = "handler"
    /\ Assign(h, e)
    /\ pc' = [pc EXCEPT ![h] = "called"]
    /\ UNCHANGED <<sub, connect, ctx, msg, attempt, state, attempts, delay>>

\* The handler returns.
Return(h) ==
    /\ pc' = [pc EXCEPT ![h] = "idle"]
    /\ msg' = [msg EXCEPT ![h] = none]
    /\ attempt' = [attempt EXCEPT ![h] = 0]

\* m.Finish and m.Requeue, by the handler that holds a delivery of m: nsqd
\* accepts them as long as m is in flight.
Answer(m, to) == [state EXCEPT ![m] = IF @ = "inflight" THEN to ELSE @]

\* Mutant of CallFailed: the test is dropped.
CallFailedMutant(e) == FALSE

\* `if err != nil', after the callback.
CallFailed(e) == e # "nil"

TestCallback(h) ==
    /\ Running /\ pc[h] = "called"
    /\ \E e \in Seen(h) :
          IF CallFailed(e)
          THEN /\ pc' = [pc EXCEPT ![h] = "deferred"]
               /\ UNCHANGED <<msg, attempt, state>>
          ELSE /\ Return(h)
               /\ state' = Answer(msg[h], "finished")
    /\ own' = [own EXCEPT ![h] = "nil"]
    /\ UNCHANGED <<sub, err, errBy, connect, ctx, attempts, delay>>

\* Mutant of RespondTo: a message that is to be retried gets no answer.
RespondToMutant(h) == IF Depleted(attempt[h]) THEN Answer(msg[h], "finished") ELSE state

RespondTo(h) == Answer(msg[h], IF Depleted(attempt[h]) THEN "finished" ELSE "requeued")

\* The deferred function, for a message that has had no answer.
Deferred(h) ==
    /\ Running /\ pc[h] = "deferred"
    /\ Return(h)
    /\ state' = RespondTo(h)
    /\ delay' = [delay EXCEPT ![msg[h]] = IF state[msg[h]] = "inflight" /\ ~Depleted(attempt[h])
                                          THEN Backoff(attempt[h]) ELSE @]
    /\ UNCHANGED <<sub, err, errBy, connect, ctx, own, attempts>>

-----------------------------------------------------------------------------
\* nsqd: the delay of a requeued message is over,
DelayOver(m) ==
    /\ state[m] = "requeued"
    /\ state' = [state EXCEPT ![m] = "queued"]
    /\ delay' = [delay EXCEPT ![m] = 0]
    /\ UNCHANGED <<sub, err, errBy, connect, ctx, pc, msg, attempt, own, attempts>>

\* or MsgTimeout has passed without an answer, while the handler goes on.
MsgTimeout(m) ==
    /\ state[m] = "inflight" /\ attempts[m] < MaxFailures[m]
    /\ state' = [state EXCEPT ![m] = "queued"]
    /\ UNCHANGED <<sub, err, errBy, connect, ctx, pc, msg, attempt, own, attempts, delay>>

\* ConnectToNSQD: it fails before it has subscribed,
ConnectFails ==
    /\ connect = "sleep"
    /\ connect' = "assigned"
    /\ Assign("connect", "error")
    /\ UNCHANGED <<sub, ctx, pc, msg, attempt, state, attempts, delay>>

\* or connects, and messages arrive before it has returned.
Connect ==
    /\ connect = "sleep"
    /\ connect' = "connecting"
    /\ UNCHANGED <<sub, err, errBy, ctx, pc, msg, attempt, own, state, attempts, delay>>

Connected ==
    /\ connect = "connecting"
    /\ connect' = "assigned"
    /\ Assign("connect", "nil")
    /\ UNCHANGED <<sub, ctx, pc, msg, attempt, state, attempts, delay>>

TestConnected ==
    /\ connect = "assigned"
    /\ \E e \in Seen("connect") : connect' = IF e = "nil" THEN "done" ELSE "panic"
    /\ UNCHANGED <<sub, err, errBy, ctx, pc, msg, attempt, own, state, attempts, delay>>

\* The manager shuts down: Fetch is canceled, which stops the consumer, and
\* later, if need be, Handler.
Stop ==
    /\ Running /\ ctx # "handler"
    /\ ctx' = IF ctx = "open" THEN "fetch" ELSE "handler"
    /\ UNCHANGED <<sub, err, errBy, connect, pc, msg, attempt, own, state, attempts, delay>>

-----------------------------------------------------------------------------
HandlerStep(h) ==
    \/ Unmarshal(h) \/ TestUnmarshal(h) \/ Callback(h) \/ TestCallback(h) \/ Deferred(h)
    \/ \E e \in {"nil", "error"} : CallbackReturns(h, e)

ConnectStep == ConnectFails \/ Connect \/ Connected \/ TestConnected

Next ==
    \/ \E h \in Handlers : HandlerStep(h) \/ \E m \in Messages : Deliver(h, m)
    \/ \E m \in Messages : DelayOver(m) \/ MsgTimeout(m)
    \/ ConnectStep
    \/ Stop

(***************************************************************************)
(* Handlers and the connecting goroutine are scheduled; a callback returns *)
(* because its context has a deadline; nsqd delivers what is queued.  No   *)
(* fairness for MsgTimeout: an answer must not depend on it.               *)
(***************************************************************************)
Fairness ==
    /\ WF_vars(ConnectStep)
    /\ \A h \in Handlers : WF_vars(HandlerStep(h))
    /\ \A m \in Messages : /\ WF_vars(DelayOver(m))
                           /\ SF_vars(\E h \in Handlers : Deliver(h, m))

Spec == Init /\ [][Next]_vars
FairSpec == Spec /\ Fairness

-----------------------------------------------------------------------------
(***************************************************************************)
(* Properties.                                                             *)
(***************************************************************************)
\* nsqd is told to forget m by a handler whose own calls succeeded,
Succeeded(m) == \E h \in Handlers : pc[h] = "called" /\ msg[h] = m /\ own[h] = "nil"
\* by one that tested an err that another goroutine had set to nil,
Overwritten(m) == \E h \in Handlers : /\ pc[h] = "called" /\ msg[h] = m
                                      /\ errBy # h /\ err = "nil"
\* or because its retries are used up.  With a limit n that fits a uint16, that
\* is after n deliveries, n - 1 of them retries; a larger limit is none.  With
\* the limit 0, as with NoRetries, it is at the first failure, or after so many
\* deliveries of which none was answered in time.
UsedUp(m) ==
    LET n == sub.MaxRetries
        After(k) == state[m] = "queued" /\ attempts[m] = k
        Failed == \E h \in Handlers : pc[h] = "deferred" /\ msg[h] = m
    IN  \/ n \in 1 .. maxVal - 1 /\ After(n)
        \/ n = 0 /\ (Failed \/ After(100))
        \/ n = NoRetries /\ (Failed \/ After(65534))

\* nsqd forgets a message only when it was processed, when its retries are used
\* up (see UsedUp: MaxRetries n > 0 means n deliveries, 0 no retry at all, where
\* pubsub/internal/types/public.go:24-25 promises n retries and 100), or when the
\* shared err was overwritten with nil between a handler's assignment and its
\* test.  The program panics in the connecting goroutine only when it could not
\* connect or, again, when a handler's error was taken for its own.
LostOnlyByOverwrite ==
    [][/\ \A m \in Messages : (state'[m] = "finished" /\ state[m] # "finished")
                                => Succeeded(m) \/ UsedUp(m) \/ Overwritten(m)
       /\ (connect' = "panic" /\ Running)
            => own["connect"] = "error" \/ (errBy # "connect" /\ err = "error")]_vars

\* "If a subscription function returns an error, the event being processed
\* will be retried, based on the retry policy" (docs/go/primitives/pubsub.md)
FailedIsRetried ==
    [][\A m \in Messages : (state'[m] = "finished" /\ state[m] # "finished")
                             => Succeeded(m) \/ UsedUp(m)]_vars

\* What GetDelay's loop should come to: the minimum, but at least a second,
\* doubled once per attempt and cut off at the maximum.
Wait(a) == IF Base * 2 ^ a > sub.MaxBackoff THEN sub.MaxBackoff ELSE Base * 2 ^ a

\* The loop of GetDelay against its closed form, for every message put back to
\* be retried; a policy whose minimum exceeds its maximum waits the maximum, and
\* the wait before an attempt 0 (the uint16 has wrapped around) is not cut off.
BackoffExact ==
    [][\A m \in Messages : (state'[m] = "requeued" /\ state[m] # "requeued") =>
         \E h \in Handlers :
            /\ pc[h] = "deferred" /\ msg[h] = m
            /\ delay'[m] = CASE sub.MinBackoff > sub.MaxBackoff -> sub.MaxBackoff
                              [] sub.MinBackoff <= sub.MaxBackoff /\ attempt[h] = 0 -> Base
                              [] OTHER -> Wait(attempt[h])]_vars

\* Every delivery is answered, so that a message is retried and in the end
\* processed or dropped, unless the subscription is stopped or the app panics.
Settled == <>(ctx # "open" \/ ~Running \/ \A m \in Messages : state[m] = "finished")
=============================================================================
