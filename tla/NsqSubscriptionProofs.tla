----------------------- MODULE NsqSubscriptionProofs ------------------------
(***************************************************************************)
(* Proofs about a subscription on NSQ, for every number of handlers and    *)
(* messages, every retry policy and without a bound on the failures that   *)
(* matters.                                                                *)
(***************************************************************************)
EXTENDS NsqSubscription, FiniteSetTheorems, TLAPS

(***************************************************************************)
(* The inductive invariant: as long as nobody else has assigned err, it    *)
(* holds what the goroutine's own call returned; and no message that nsqd  *)
(* still keeps has been delivered more often than MaxAttempts allows.      *)
(***************************************************************************)
OwnErr ==
    /\ \A h \in Handlers :
         pc[h] \in {"unmarshaled", "called"} /\ errBy = h => own[h] = err
    /\ connect = "assigned" /\ errBy = "connect" => own["connect"] = err

Counted ==
    /\ \A m \in Messages : state[m] # "finished" => attempts[m] <= MaxAttempts
    /\ \A h \in Handlers : attempt[h] <= MaxAttempts

Shape ==
    /\ sub \in Subscriptions
    /\ pc \in [Handlers -> HandlerStates]
    /\ own \in [Assigners -> {"nil", "error"}]
    /\ attempt \in [Handlers -> 0 .. maxVal]
    /\ attempts \in [Messages -> 0 .. maxVal]
    /\ DOMAIN state = Messages

NsqInv == Shape /\ OwnErr /\ Counted

\* The largest uint16.
LEMMA MaxValIs == maxVal \in Nat /\ 65534 < maxVal /\ maxVal < 65536
BY DEF maxVal

\* getConsumerConfig, case by case.
LEMMA MaxAttemptsIs ==
    ASSUME sub \in Subscriptions
    PROVE  /\ sub.MaxRetries \in {NoRetries, InfiniteRetries} \cup Nat
           /\ MaxAttempts \in 0 .. maxVal
           /\ sub.MaxRetries = 0 => MaxAttempts = 100
           /\ sub.MaxRetries = NoRetries => MaxAttempts = 65534
           /\ sub.MaxRetries = InfiniteRetries \/ sub.MaxRetries > maxVal => MaxAttempts = maxVal
           /\ sub.MaxRetries \in 1 .. maxVal => MaxAttempts = sub.MaxRetries
<1>1. sub.MaxRetries \in {-2, -1} \cup Nat
  BY SubscriptionAssumption DEF NoRetries, InfiniteRetries
<1>2. ASSUME NEW k \in Int, -2 <= k, k <= 65535
      PROVE  (65536 + k) % 65536 = IF k < 0 THEN k + 65536 ELSE k
  BY <1>2
<1>3. MaxAttempts = CASE sub.MaxRetries = 0 -> 100
                      [] sub.MaxRetries = -1 -> maxVal
                      [] sub.MaxRetries > maxVal -> maxVal
                      [] OTHER -> (65536 + sub.MaxRetries) % 65536
  BY DEF MaxAttempts, InfiniteRetries
<1> QED
  BY <1>1, <1>2, <1>3, MaxValIs DEF NoRetries, InfiniteRetries

\* Nothing is assigned and nothing delivered before the goroutines run.
LEMMA InitNsqInv == Init => NsqInv
<1> SUFFICES ASSUME Init PROVE NsqInv
  OBVIOUS
<1>1. MaxAttempts \in 0 .. maxVal /\ 0 \in 0 .. maxVal
  BY MaxAttemptsIs, MaxValIs DEF Init
<1>2. \A k \in 0 .. maxVal : 0 <= k
  BY MaxValIs
<1> QED
  BY <1>1, <1>2, HandlersAssumption
     DEF Init, NsqInv, Shape, OwnErr, Counted, HandlerStates, Assigners

\* Where the limit and the counts stay, no message gets beyond it.
LEMMA CountsKept ==
    ASSUME NsqInv, UNCHANGED sub, attempt' = attempt \/ \E h \in Handlers :
                     attempt' = [attempt EXCEPT ![h] = 0],
           UNCHANGED attempts, \A m \in Messages : state[m] = "finished" => state'[m] = "finished"
    PROVE  Counted' /\ attempt' \in [Handlers -> 0 .. maxVal]
<1>1. MaxAttempts \in 0 .. maxVal /\ MaxAttempts' = MaxAttempts
  BY MaxAttemptsIs DEF NsqInv, Shape, MaxAttempts
<1>2. 0 \in 0 .. maxVal /\ \A k \in 0 .. maxVal : 0 <= k
  BY MaxValIs
<1> QED
  BY <1>1, <1>2 DEF NsqInv, Shape, Counted

\* Every step of a handler, of the connecting goroutine, of the consumer or of
\* nsqd keeps the invariant.
LEMMA NextNsqInv == NsqInv /\ [Next]_vars => NsqInv'
<1> SUFFICES ASSUME NsqInv, [Next]_vars PROVE NsqInv'
  OBVIOUS
<1> USE HandlersAssumption DEF NsqInv, Shape, HandlerStates, Assigners
<1>1. ASSUME NEW h \in Handlers, NEW m \in Messages, Deliver(h, m) PROVE NsqInv'
  <2>1. NextAttempt(m) \in 0 .. maxVal
    BY MaxValIs DEF NextAttempt
  <2>2. MaxAttempts' = MaxAttempts /\ MaxAttempts \in 0 .. maxVal
    BY <1>1, MaxAttemptsIs DEF Deliver, MaxAttempts
  <2>3. Shape'
    BY <1>1, <2>1 DEF Deliver
  <2>4. OwnErr'
    BY <1>1 DEF Deliver, OwnErr
  <2>5. ASSUME NEW n \in Messages, state'[n] # "finished" PROVE attempts'[n] <= MaxAttempts
    BY <1>1, <2>1, <2>2, <2>5, MaxValIs DEF Deliver, Counted
  <2>6. ASSUME NEW g \in Handlers PROVE attempt'[g] <= MaxAttempts
    BY <1>1, <2>1, <2>2, MaxValIs DEF Deliver, Counted
  <2> QED
    BY <2>2, <2>3, <2>4, <2>5, <2>6 DEF Counted
<1>2. ASSUME NEW h \in Handlers, Unmarshal(h) PROVE NsqInv'
  BY <1>2, CountsKept DEF Unmarshal, Assign, OwnErr
<1>3. ASSUME NEW h \in Handlers, TestUnmarshal(h) PROVE NsqInv'
  BY <1>3, CountsKept DEF TestUnmarshal, OwnErr
<1>4. ASSUME NEW h \in Handlers, Callback(h) PROVE NsqInv'
  BY <1>4, CountsKept DEF Callback, Assign, OwnErr
<1>5. ASSUME NEW h \in Handlers, NEW e \in {"nil", "error"}, CallbackReturns(h, e) PROVE NsqInv'
  BY <1>5, CountsKept DEF CallbackReturns, Assign, OwnErr
<1>6. ASSUME NEW h \in Handlers, TestCallback(h) PROVE NsqInv'
  <2>1. Counted' /\ attempt' \in [Handlers -> 0 .. maxVal]
    BY <1>6, CountsKept DEF TestCallback, Return, Answer
  <2> QED
    BY <1>6, <2>1 DEF TestCallback, Return, Answer, OwnErr
<1>7. ASSUME NEW h \in Handlers, Deferred(h) PROVE NsqInv'
  <2>1. Counted' /\ attempt' \in [Handlers -> 0 .. maxVal]
    BY <1>7, CountsKept DEF Deferred, Return, RespondTo, Answer
  <2> QED
    BY <1>7, <2>1 DEF Deferred, Return, RespondTo, Answer, OwnErr
<1>8. ASSUME NEW m \in Messages, DelayOver(m) \/ MsgTimeout(m) PROVE NsqInv'
  <2>1. Counted'
    BY <1>8, CountsKept DEF DelayOver, MsgTimeout
  <2> QED
    BY <1>8, <2>1 DEF DelayOver, MsgTimeout, OwnErr
<1>9. CASE ConnectStep
  BY <1>9, CountsKept DEF ConnectStep, ConnectFails, Connect, Connected, TestConnected, Assign,
     OwnErr
<1>10. CASE Stop
  BY <1>10, CountsKept DEF Stop, OwnErr
<1>11. CASE UNCHANGED vars
  BY <1>11, CountsKept DEF vars, OwnErr
<1> QED
  BY <1>1, <1>2, <1>3, <1>4, <1>5, <1>6, <1>7, <1>8, <1>9, <1>10, <1>11 DEF Next, HandlerStep

\* The invariant of the specification.
THEOREM NsqInvariance == Spec => []NsqInv
BY InitNsqInv, NextNsqInv, PTL DEF Spec

-----------------------------------------------------------------------------
(***************************************************************************)
(* Arithmetic the provers do not know: powers of two, by counting subsets, *)
(* and least elements, to reason by induction.                             *)
(***************************************************************************)
\* A set of n elements has 2^n subsets.
LEMMA Subsets ==
    ASSUME NEW n \in Nat
    PROVE  IsFiniteSet(SUBSET (1 .. n)) /\ Cardinality(SUBSET (1 .. n)) = 2 ^ n
<1>1. IsFiniteSet(1 .. n) /\ Cardinality(1 .. n) = n
  BY FS_Interval
<1>2. /\ IsFiniteSet(SUBSET (1 .. n))
      /\ Cardinality(SUBSET (1 .. n)) = 2 ^ Cardinality(1 .. n)
  BY <1>1, FS_SUBSET, Zenon
<1> QED
  BY <1>1, <1>2, Zenon

\* One element more doubles the subsets: those with it match those without.
LEMMA PowerDoubles ==
    ASSUME NEW n \in Nat
    PROVE  2 ^ n \in Nat /\ 2 ^ (n + 1) = 2 * 2 ^ n
<1> DEFINE A == SUBSET (1 .. n)
           C == SUBSET (1 .. n + 1)
           B == C \ A
           f == [X \in A |-> X \cup {n + 1}]
<1>1. /\ IsFiniteSet(A) /\ Cardinality(A) = 2 ^ n
      /\ IsFiniteSet(C) /\ Cardinality(C) = 2 ^ (n + 1)
  BY Subsets
<1>2. n + 1 \notin 1 .. n /\ 1 .. n \subseteq 1 .. n + 1 /\ (1 .. n + 1) \ {n + 1} = 1 .. n
  OBVIOUS
<1>3. f \in Bijection(A, B)
  <2>1. ASSUME NEW X \in A PROVE f[X] \in B
    BY <1>2
  <2>2. ASSUME NEW X \in A, NEW Y \in A, f[X] = f[Y] PROVE X = Y
    BY <2>2
  <2>3. ASSUME NEW Z \in B PROVE \E X \in A : f[X] = Z
    <3>1. n + 1 \in Z
      BY <1>2
    <3>2. Z \ {n + 1} \in A /\ f[Z \ {n + 1}] = Z
      BY <3>1
    <3> QED
      BY <3>2
  <2>4. f \in [A -> B] /\ DOMAIN f = A
    BY <2>1
  <2> HIDE DEF f, A, B, C
  <2> QED
    BY <2>1, <2>2, <2>3, <2>4 DEF Bijection, Injection, Surjection, IsInjective
<1>4. A \cup B = C /\ A \cap B = {}
  <2>1. A \subseteq C
    BY <1>2
  <2> HIDE DEF A, C
  <2> QED
    BY <2>1
<1> HIDE DEF f, A, B, C
<1>5. IsFiniteSet(B) /\ Cardinality(B) = Cardinality(A)
  BY <1>1, <1>3, FS_Bijection DEF ExistsBijection
<1>6. Cardinality(A) \in Nat
  BY <1>1, FS_CardinalityType
<1>7. Cardinality(A \cup B) = Cardinality(A) + Cardinality(B) - Cardinality(A \cap B)
  BY <1>1, <1>5, FS_Union
<1>8. Cardinality(A \cap B) = 0 /\ Cardinality(A \cup B) = Cardinality(C)
  BY <1>4, FS_EmptySet, Zenon
<1> QED
  BY <1>1, <1>5, <1>6, <1>7, <1>8

Less == {p \in Nat \X Nat : p[1] < p[2]}

\* A set of natural numbers that is not empty has a least element.
LEMMA LeastNatural ==
    ASSUME NEW T \in SUBSET Nat, T # {}
    PROVE  \E x \in T : \A y \in T : x <= y
<1>1. IsWellFoundedOn(Less, Nat)
  BY NatLessThanWellFounded, Zenon DEF OpToRel, Less
<1>2. PICK x \in T : \A y \in T : <<y, x>> \notin Less
  BY <1>1, WFMin, Zenon
<1>3. \A y \in T : ~(y < x)
  BY <1>2 DEF Less
<1> QED
  BY <1>3

-----------------------------------------------------------------------------
\* What the loop's test leaves of a wait of w.
Capped(w) == IF w > sub.MaxBackoff THEN sub.MaxBackoff ELSE w

\* f is what the loop computes, for every number of doublings up to a.
Doublings(f, a) == f = [i \in 0 .. a |-> IF i = 0 THEN Base ELSE Capped(2 * f[i - 1])]

\* The wait after i doublings in one formula.
Closed(i) == IF i = 0 THEN Base ELSE Capped(Base * 2 ^ i)

\* One round of the loop: doubling a wait that was cut off changes nothing.
LEMMA ClosedStep ==
    ASSUME sub \in Subscriptions, NEW i \in Nat
    PROVE  Closed(i) \in Nat /\ Closed(i + 1) = Capped(2 * Closed(i))
<1>1. sub.MaxBackoff \in Nat \ {0} /\ Base \in Nat
  BY SubscriptionAssumption, SecondAssumption DEF Base
<1> DEFINE w == Base * 2 ^ i
<1>2. w \in Nat /\ Base * 2 ^ (i + 1) = 2 * w
  <2>1. 2 ^ i \in Nat /\ 2 ^ (i + 1) = 2 * 2 ^ i
    BY PowerDoubles
  <2>2. ASSUME NEW b \in Nat, NEW p \in Nat PROVE b * p \in Nat /\ b * (2 * p) = 2 * (b * p)
    OBVIOUS
  <2> QED
    BY <1>1, <2>1, <2>2
<1>3. i = 0 => w = Base
  <2>1. 2 ^ 0 = 1
    OBVIOUS
  <2> QED
    BY <1>1, <2>1
<1>4. /\ Closed(i) = IF i = 0 THEN Base ELSE Capped(w)
      /\ Closed(i + 1) = Capped(2 * w)
  BY <1>2 DEF Closed
<1> HIDE DEF w
<1> QED
  BY <1>1, <1>2, <1>3, <1>4 DEF Capped

\* The loop computes the closed form: it has a value, and by induction on the
\* number of doublings no other.
LEMMA LoopComputes ==
    ASSUME sub \in Subscriptions, NEW a \in Nat
    PROVE  /\ \E f : Doublings(f, a)
           /\ \A f : Doublings(f, a) => f[a] = Closed(a)
<1>1. Closed(0) = Base
  BY DEF Closed
<1>2. ASSUME NEW i \in 1 .. a PROVE Closed(i) = Capped(2 * Closed(i - 1))
  <2>1. i - 1 \in Nat /\ (i - 1) + 1 = i
    OBVIOUS
  <2>2. Closed((i - 1) + 1) = Capped(2 * Closed(i - 1))
    BY <2>1, ClosedStep
  <2> QED
    BY <2>1, <2>2
<1>3. \E f : Doublings(f, a)
  <2> DEFINE g == [i \in 0 .. a |-> Closed(i)]
  <2>1. ASSUME NEW i \in 0 .. a
        PROVE  g[i] = IF i = 0 THEN Base ELSE Capped(2 * g[i - 1])
    <3>1. CASE i = 0
      BY <1>1, <3>1
    <3>2. CASE i \in 1 .. a
      <4>1. g[i] = Closed(i) /\ g[i - 1] = Closed(i - 1)
        BY <3>2
      <4> QED
        BY <1>2, <3>2, <4>1
    <3> QED
      BY <3>1, <3>2
  <2>2. DOMAIN g = 0 .. a
    OBVIOUS
  <2>3. Doublings(g, a)
    <3>1. g = [i \in 0 .. a |-> g[i]]
      OBVIOUS
    <3> HIDE DEF g
    <3> QED
      BY <2>1, <3>1 DEF Doublings
  <2> QED
    BY <2>3
<1>4. ASSUME NEW f, Doublings(f, a) PROVE f[a] = Closed(a)
  <2>1. /\ f[0] = Base
        /\ \A i \in 1 .. a : f[i] = Capped(2 * f[i - 1])
    BY <1>4 DEF Doublings
  <2> DEFINE Wrong == {i \in 0 .. a : f[i] # Closed(i)}
  <2>2. Wrong = {}
    <3> SUFFICES ASSUME Wrong # {} PROVE FALSE
      OBVIOUS
    <3>1. Wrong \in SUBSET Nat
      OBVIOUS
    <3>2. PICK x \in Wrong : \A y \in Wrong : x <= y
      <4> HIDE DEF Wrong
      <4> QED
        BY <3>1, LeastNatural
    <3>3. x # 0
      BY <1>1, <2>1, <3>2
    <3>4. x \in 1 .. a /\ x - 1 \in 0 .. a /\ x - 1 \notin Wrong
      BY <3>2, <3>3
    <3>5. f[x - 1] = Closed(x - 1) /\ f[x] # Closed(x)
      BY <3>2, <3>4
    <3> QED
      BY <1>2, <2>1, <3>4, <3>5
  <2> QED
    BY <2>2
<1> QED
  BY <1>3, <1>4

\* GetDelay's loop (internal/utils/utils.go) against its closed form, for every
\* retry policy and every attempt: the minimum, but at least a second, doubled
\* once per attempt and cut off at the maximum; the maximum if the policy's
\* minimum exceeds it; and no cut-off where nothing is doubled.
THEOREM BackoffClosedForm ==
    ASSUME sub \in Subscriptions, NEW a \in Nat
    PROVE  Backoff(a) = CASE sub.MinBackoff > sub.MaxBackoff -> sub.MaxBackoff
                          [] sub.MinBackoff <= sub.MaxBackoff /\ a = 0 -> Base
                          [] OTHER -> Wait(a)
<1>1. sub.MinBackoff \in Nat /\ sub.MaxBackoff \in Nat
  BY SubscriptionAssumption
<1>2. CASE sub.MinBackoff > sub.MaxBackoff
  BY <1>1, <1>2 DEF Backoff
<1>3. CASE sub.MinBackoff <= sub.MaxBackoff
  <2> DEFINE f == CHOOSE g : Doublings(g, a)
  <2>1. Doublings(f, a)
    BY LoopComputes, Zenon
  <2>2. Backoff(a) = f[a]
    <3>1. ~(sub.MaxBackoff < sub.MinBackoff)
      BY <1>1, <1>3
    <3> QED
      BY <3>1, Zenon DEF Backoff, Doublings, Capped
  <2> HIDE DEF f
  <2>3. Backoff(a) = Closed(a)
    BY <2>1, <2>2, LoopComputes
  <2> QED
    BY <1>1, <1>3, <2>3 DEF Closed, Capped, Wait
<1> QED
  BY <1>1, <1>2, <1>3

\* The wait is within the policy's maximum, or a second.
LEMMA BackoffInRange ==
    ASSUME sub \in Subscriptions, NEW a \in Nat
    PROVE  Backoff(a) \in 0 .. LongestWait
<1>1. /\ sub.MinBackoff \in Nat /\ sub.MaxBackoff \in Nat /\ Second \in Nat
      /\ Base \in Nat /\ (sub.MinBackoff <= sub.MaxBackoff => Base <= LongestWait)
  BY SubscriptionAssumption, SecondAssumption DEF Base, LongestWait
<1>2. Base * 2 ^ a \in Nat
  <2>1. 2 ^ a \in Nat
    BY PowerDoubles
  <2>2. ASSUME NEW b \in Nat, NEW p \in Nat PROVE b * p \in Nat
    OBVIOUS
  <2> QED
    BY <1>1, <2>1, <2>2
<1> DEFINE w == Base * 2 ^ a
<1>3. Backoff(a) = CASE sub.MinBackoff > sub.MaxBackoff -> sub.MaxBackoff
                     [] sub.MinBackoff <= sub.MaxBackoff /\ a = 0 -> Base
                     [] OTHER -> IF w > sub.MaxBackoff THEN sub.MaxBackoff ELSE w
  BY BackoffClosedForm DEF Wait
<1>4. w \in Nat
  BY <1>2
<1> HIDE DEF Base, w
<1> QED
  BY <1>1, <1>3, <1>4 DEF LongestWait

-----------------------------------------------------------------------------
\* Every step of a handler, of the connecting goroutine, of the consumer or of
\* nsqd keeps the types.
LEMMA NextTypeOK == TypeOK /\ [Next]_vars => TypeOK'
<1> SUFFICES ASSUME TypeOK, [Next]_vars PROVE TypeOK'
  OBVIOUS
<1> USE DEF TypeOK, HandlerStates
<1>0. ASSUME UNCHANGED sub PROVE LongestWait' = LongestWait
  BY <1>0 DEF LongestWait
<1>1. ASSUME NEW h \in Handlers, NEW m \in Messages, Deliver(h, m) PROVE TypeOK'
  <2>1. NextAttempt(m) \in 0 .. maxVal
    BY MaxValIs DEF NextAttempt
  <2> QED
    BY <1>0, <1>1, <2>1 DEF Deliver
<1>2. ASSUME NEW h \in Assigners, NEW e \in {"nil", "error"}, Assign(h, e)
      PROVE  /\ err' \in {"nil", "error"} /\ errBy' \in Assigners
             /\ own' \in [Assigners -> {"nil", "error"}]
  BY <1>2 DEF Assign
<1> USE DEF Assigners
<1>3. ASSUME NEW h \in Handlers, Unmarshal(h) PROVE TypeOK'
  <2>1. Assign(h, "nil") \/ Assign(h, "error")
    BY <1>3 DEF Unmarshal
  <2> QED
    BY <1>0, <1>2, <1>3, <2>1 DEF Unmarshal
<1>4. ASSUME NEW h \in Handlers, TestUnmarshal(h) PROVE TypeOK'
  BY <1>0, <1>4 DEF TestUnmarshal
<1>5. ASSUME NEW h \in Handlers, Callback(h) PROVE TypeOK'
  <2>1. CASE ctx = "handler"
    BY <1>0, <1>2, <1>5, <2>1 DEF Callback
  <2>2. CASE ctx # "handler"
    BY <1>0, <1>5, <2>2 DEF Callback
  <2> QED
    BY <2>1, <2>2
<1>14. ASSUME NEW h \in Handlers, NEW e \in {"nil", "error"}, CallbackReturns(h, e)
       PROVE  TypeOK'
  BY <1>0, <1>2, <1>14 DEF CallbackReturns
<1>6. ASSUME NEW h \in Handlers, Return(h)
      PROVE  /\ pc' \in [Handlers -> HandlerStates]
             /\ msg' \in [Handlers -> Messages \cup {none}]
             /\ attempt' \in [Handlers -> 0 .. maxVal]
  BY <1>6, MaxValIs DEF Return
<1>7. ASSUME NEW m, NEW to \in {"finished", "requeued"}
      PROVE  Answer(m, to) \in [Messages -> {"queued", "inflight", "requeued", "finished"}]
  BY <1>7 DEF Answer
<1>8. ASSUME NEW h \in Handlers, TestCallback(h) PROVE TypeOK'
  BY <1>0, <1>6, <1>7, <1>8 DEF TestCallback
<1>9. ASSUME NEW h \in Handlers, Deferred(h) PROVE TypeOK'
  <2>1. state' \in [Messages -> {"queued", "inflight", "requeued", "finished"}]
    BY <1>7, <1>9 DEF Deferred, RespondTo
  <2>2. Backoff(attempt[h]) \in 0 .. LongestWait
    BY BackoffInRange, MaxValIs
  <2>3. delay' \in [Messages -> 0 .. LongestWait]
    BY <1>9, <2>2 DEF Deferred
  <2> QED
    BY <1>0, <1>6, <1>9, <2>1, <2>3 DEF Deferred
<1>10. ASSUME NEW m \in Messages, DelayOver(m) \/ MsgTimeout(m) PROVE TypeOK'
  <2>1. 0 \in 0 .. LongestWait
    BY SubscriptionAssumption, SecondAssumption DEF LongestWait
  <2> QED
    BY <1>0, <1>10, <2>1 DEF DelayOver, MsgTimeout
<1>11. CASE ConnectStep
  <2>1. CASE ConnectFails \/ Connected
    BY <1>0, <1>2, <2>1 DEF ConnectFails, Connected
  <2>2. CASE Connect \/ TestConnected
    BY <1>0, <2>2 DEF Connect, TestConnected
  <2> QED
    BY <1>11, <2>1, <2>2 DEF ConnectStep
<1>12. CASE Stop
  BY <1>0, <1>12 DEF Stop
<1>13. CASE UNCHANGED vars
  BY <1>0, <1>13 DEF vars
<1> QED
  BY <1>1, <1>3, <1>4, <1>5, <1>8, <1>9, <1>10, <1>11, <1>12, <1>13, <1>14
     DEF Next, HandlerStep

\* Every variable keeps its type: no message ever waits longer for its retry
\* than the policy's MaxBackoff, or a second, whatever the policy.
THEOREM NsqTyping == Spec => []TypeOK
<1>1. Init => TypeOK
  <2> SUFFICES ASSUME Init PROVE TypeOK
    OBVIOUS
  <2>1. 0 \in 0 .. LongestWait /\ 0 \in 0 .. maxVal
    BY SubscriptionAssumption, SecondAssumption, MaxValIs DEF Init, LongestWait
  <2> QED
    BY <2>1 DEF Init, TypeOK, HandlerStates, Assigners
<1> QED
  BY <1>1, NextTypeOK, PTL DEF Spec

\* A message that is put back to be retried waits for exactly the minimum
\* doubled once per attempt, within the maximum: the wait nsqd is given is the
\* closed form for the attempt of the handler that failed.
THEOREM BackoffExactTheorem == Spec => BackoffExact
<1> DEFINE WaitOf(h) == CASE sub.MinBackoff > sub.MaxBackoff -> sub.MaxBackoff
                          [] sub.MinBackoff <= sub.MaxBackoff /\ attempt[h] = 0 -> Base
                          [] OTHER -> Wait(attempt[h])
           Requeued(m) == state'[m] = "requeued" /\ state[m] # "requeued"
           ByHandler(m) == \E h \in Handlers : /\ pc[h] = "deferred" /\ msg[h] = m
                                               /\ delay'[m] = WaitOf(h)
<1>1. ASSUME TypeOK, Next, NEW m \in Messages, Requeued(m)
      PROVE  ByHandler(m)
  <2> USE <1>1 DEF TypeOK
  <2>1. ASSUME NEW h \in Handlers, Deferred(h) PROVE ByHandler(m)
    <3>1. /\ msg[h] = m /\ pc[h] = "deferred" /\ state[m] = "inflight"
          /\ ~Depleted(attempt[h])
      BY <2>1 DEF Deferred, RespondTo, Answer
    <3>2. delay'[m] = Backoff(attempt[h])
      BY <2>1, <3>1 DEF Deferred
    <3>3. Backoff(attempt[h]) = WaitOf(h)
      BY BackoffClosedForm, MaxValIs
    <3> QED
      BY <3>1, <3>2, <3>3
  <2>2. ASSUME NEW h \in Handlers
        PROVE  ~TestCallback(h) /\ \A n \in Messages : ~Deliver(h, n)
    BY DEF TestCallback, Answer, Deliver
  <2>3. ASSUME NEW n \in Messages PROVE ~DelayOver(n) /\ ~MsgTimeout(n)
    BY DEF DelayOver, MsgTimeout
  <2>4. state' # state
    OBVIOUS
  <2> QED
    BY <2>1, <2>2, <2>3, <2>4 DEF Next, HandlerStep, Unmarshal, TestUnmarshal, Callback,
       CallbackReturns, ConnectStep, ConnectFails, Connect, Connected, TestConnected, Stop
<1>2. TypeOK /\ [Next]_vars => [\A m \in Messages : Requeued(m) => ByHandler(m)]_vars
  BY <1>1
<1> QED
  BY <1>2, NsqTyping, PTL DEF Spec, BackoffExact

-----------------------------------------------------------------------------
\* go-nsq gives up on a message exactly when its deliveries are used up.
LEMMA GiveUp ==
    ASSUME NsqInv, NEW m \in Messages, state[m] = "queued", NextAttempt(m) > MaxAttempts
    PROVE  UsedUp(m)
<1>1. attempts[m] \in 0 .. maxVal /\ attempts[m] <= MaxAttempts /\ MaxAttempts \in 0 .. maxVal
  BY MaxAttemptsIs DEF NsqInv, Shape, Counted
<1>2. attempts[m] = MaxAttempts /\ MaxAttempts < 65535
  BY <1>1, MaxValIs DEF NextAttempt
<1> QED
  BY <1>2, MaxAttemptsIs, MaxValIs DEF UsedUp, NsqInv, Shape, NoRetries, InfiniteRetries

\* A handler finds the retries depleted only where the policy allows none.
LEMMA NoneAllowed ==
    ASSUME NsqInv, NEW h \in Handlers, Depleted(attempt[h])
    PROVE  sub.MaxRetries \in {0, NoRetries}
<1>1. attempt[h] \in 0 .. maxVal /\ attempt[h] <= MaxAttempts
  BY DEF NsqInv, Shape, Counted
<1> QED
  BY <1>1, MaxAttemptsIs, MaxValIs DEF Depleted, NsqInv, Shape, NoRetries, InfiniteRetries

\* What the property says of one message and of the program.
Lost(m) == state'[m] = "finished" /\ state[m] # "finished"
Panics == connect' = "panic" /\ Running

\* A message goes unprocessed before its retries are used up, and the program
\* panics although it has connected, only after another goroutine has assigned
\* the err of nsq/topic.go's Subscribe.
THEOREM LostOnlyByOverwriteTheorem == Spec => LostOnlyByOverwrite
<1> DEFINE Excused(m) == Succeeded(m) \/ UsedUp(m) \/ Overwritten(m)
           Allowed == /\ \A m \in Messages : Lost(m) => Excused(m)
                      /\ Panics => \/ own["connect"] = "error"
                                   \/ errBy # "connect" /\ err = "error"
<1>1. NsqInv /\ TypeOK /\ [Next]_vars => [Allowed]_vars
  <2> SUFFICES ASSUME NsqInv, TypeOK, Next PROVE Allowed
    OBVIOUS
  <2> USE DEF NsqInv, Shape
  <2>1. ASSUME NEW h \in Handlers, NEW m \in Messages, Deliver(h, m) PROVE Allowed
    <3>1. ~Panics
      BY <2>1 DEF Deliver, Panics, Running
    <3>2. ASSUME NEW n \in Messages, Lost(n) PROVE UsedUp(n)
      <4>1. n = m /\ state[m] = "queued" /\ NextAttempt(m) > MaxAttempts
        BY <2>1, <3>2 DEF Deliver, Lost
      <4> QED
        BY <4>1, GiveUp
    <3> QED
      BY <3>1, <3>2
  <2>2. ASSUME NEW h \in Handlers, TestCallback(h) PROVE Allowed
    <3>1. ~Panics
      BY <2>2 DEF TestCallback, Panics, Running
    <3>2. ASSUME NEW n \in Messages, Lost(n) PROVE Excused(n)
      <4>1. PICK e \in Seen(h) : ~CallFailed(e) /\ state' = Answer(msg[h], "finished")
        BY <2>2, <3>2 DEF TestCallback, Lost
      <4>2. msg[h] = n /\ e = "nil" /\ pc[h] = "called"
        BY <2>2, <3>2, <4>1 DEF TestCallback, Lost, Answer, CallFailed
      <4>3. own[h] = "nil" \/ (errBy # h /\ err = "nil")
        BY <4>1, <4>2 DEF OwnErr, Seen
      <4> QED
        BY <4>2, <4>3 DEF Succeeded, Overwritten
    <3> QED
      BY <3>1, <3>2
  <2>3. ASSUME NEW h \in Handlers, Deferred(h) PROVE Allowed
    <3>1. ~Panics
      BY <2>3 DEF Deferred, Panics, Running
    <3>2. ASSUME NEW n \in Messages, Lost(n) PROVE UsedUp(n)
      <4>1. msg[h] = n /\ pc[h] = "deferred" /\ Depleted(attempt[h])
        BY <2>3, <3>2 DEF Deferred, RespondTo, Answer, Lost
      <4>2. sub.MaxRetries \in {0, NoRetries}
        BY <4>1, NoneAllowed
      <4> QED
        BY <4>1, <4>2 DEF UsedUp
    <3> QED
      BY <3>1, <3>2
  <2>4. CASE TestConnected
    <3>1. ~\E m \in Messages : Lost(m)
      BY <2>4 DEF TestConnected, Lost
    <3>2. Panics => own["connect"] = "error" \/ (errBy # "connect" /\ err = "error")
      BY <2>4 DEF TestConnected, Panics, Seen, OwnErr, TypeOK, Assigners
    <3> QED
      BY <3>1, <3>2
  <2>5. CASE ConnectFails \/ Connect \/ Connected \/ Stop
    BY <2>5 DEF ConnectFails, Connect, Connected, Stop, Panics, Running, Lost
  <2>6. ASSUME NEW m \in Messages, DelayOver(m) \/ MsgTimeout(m) PROVE Allowed
    BY <2>6 DEF DelayOver, MsgTimeout, Panics, Running, Lost
  <2>7. ASSUME NEW h \in Handlers, Unmarshal(h) \/ TestUnmarshal(h) \/ Callback(h)
        PROVE  Allowed
    BY <2>7 DEF Unmarshal, TestUnmarshal, Callback, Panics, Running, Lost
  <2>8. ASSUME NEW h \in Handlers, NEW e \in {"nil", "error"}, CallbackReturns(h, e)
        PROVE  Allowed
    BY <2>8 DEF CallbackReturns, Panics, Running, Lost
  <2> HIDE DEF Allowed
  <2> QED
    BY <2>1, <2>2, <2>3, <2>4, <2>5, <2>6, <2>7, <2>8 DEF Next, HandlerStep, ConnectStep
<1>2. [Allowed]_vars =>
        [/\ \A m \in Messages : (state'[m] = "finished" /\ state[m] # "finished")
                                => Succeeded(m) \/ UsedUp(m) \/ Overwritten(m)
         /\ (connect' = "panic" /\ Running)
              => own["connect"] = "error" \/ (errBy # "connect" /\ err = "error")]_vars
  BY DEF Lost, Panics
<1> QED
  BY <1>1, <1>2, NsqInvariance, NsqTyping, PTL DEF Spec, LostOnlyByOverwrite
=============================================================================
