--------------------------- MODULE ReqTrackProofs ---------------------------
(***************************************************************************)
(* Proofs about the request tracker, for every number of goroutines and of *)
(* events.                                                                 *)
(***************************************************************************)
EXTENDS ReqTrack, FiniteSetTheorems, TLAPS

USE GoroutinesAssumption, EventsAssumption

\* The goroutines with a request of their own, and the operation's reference.
Own == {g \in Goroutines : req[g] = "own"}
OwnerRef == IF op[Root] = "owner" THEN 1 ELSE 0

(***************************************************************************)
(* The inductive invariant: the count is exact,                            *)
(***************************************************************************)
RefCount == refs = Cardinality(Own) + OwnerRef

\* once it has been 0 only late requests run, and only then is anything marked,
FellOnce ==
    /\ fell => op[Root] # "owner" /\ \A g \in Goroutines : req[g] = "own" => late[g]
    /\ done => fell
    /\ \A g \in Goroutines : pc[g] \in {"load", "mark"} => fell

\* a request belongs to a part in the operation,
Members == \A g \in Goroutines : g # Root /\ req[g] = "own" => op[g] # "none"

\* and no event is lost between the log and the stream.
LogExact ==
    /\ sent + data = added
    /\ doneAt <= added
    /\ stream = "get" => done
    /\ stream \in {"send", "sent"} => done /\ doneAt <= sent

\* The type invariant in parts, without the count.
GTypes ==
    /\ op \in [Goroutines -> {"none", "member", "owner"}]
    /\ req \in [Goroutines -> {"nil", "inherited", "own"}]
    /\ late \in [Goroutines -> BOOLEAN]
    /\ pc \in [Goroutines -> {"run", "load", "mark", "init", "wait"}]
    /\ traced \in [Goroutines -> BOOLEAN]
    /\ block \in [Goroutines -> BOOLEAN]
    /\ testing \in BOOLEAN /\ fell \in BOOLEAN /\ trace \in BOOLEAN

LogFlags == done \in BOOLEAN /\ asleep \in BOOLEAN

LogTypes ==
    /\ data \in Nat /\ added \in 0 .. MaxEvents /\ doneAt \in Nat /\ sent \in Nat
    /\ stream \in {"off", "first", "get", "read", "send", "sent", "failed"}
    /\ LogFlags

TrackInv == GTypes /\ LogTypes /\ RefCount /\ FellOnce /\ Members /\ LogExact

\* A count of finite sets.
LEMMA OwnFinite == IsFiniteSet(Own) /\ Cardinality(Own) \in Nat
<1>1. IsFiniteSet(Own)
  BY FS_Subset DEF Own
<1> QED
  BY <1>1, FS_CardinalityType

\* Without references there is no request and no operation.
LEMMA NoRefs ==
    ASSUME RefCount, refs = 0
    PROVE  Own = {} /\ op[Root] # "owner"
<1>1. Cardinality(Own) = 0 /\ OwnerRef = 0
  BY OwnFinite DEF RefCount, OwnerRef
<1> QED
  BY <1>1, OwnFinite, FS_EmptySet DEF OwnerRef

\* Before the operation nothing is counted.
LEMMA InitTrackInv == Init => TrackInv
<1> SUFFICES ASSUME Init PROVE TrackInv
  OBVIOUS
<1>1. Own = {}
  BY DEF Init, Own
<1>2. RefCount
  BY <1>1, FS_EmptySet DEF Init, RefCount, OwnerRef
<1>3. GTypes
  BY DEF Init, GTypes
<1>4. LogTypes
  <2>1. LogFlags
    BY DEF Init, LogFlags
  <2> QED
    BY <2>1 DEF Init, LogTypes
<1>5. FellOnce /\ Members /\ LogExact
  BY DEF Init, FellOnce, Members, LogExact
<1> QED
  BY <1>2, <1>3, <1>4, <1>5 DEF TrackInv

\* An operation starts with its own reference.
LEMMA BeginOperationInv == TrackInv /\ BeginOperation => TrackInv'
<1> SUFFICES ASSUME TrackInv, BeginOperation PROVE TrackInv'
  OBVIOUS
<1> USE DEF TrackInv
<1>1. Own = {} /\ Own' = Own
  BY NoRefs DEF BeginOperation, NotBegun, Own
<1>2. RefCount'
  BY <1>1, FS_EmptySet DEF BeginOperation, RefCount, OwnerRef, GTypes
<1>3. GTypes' /\ LogTypes' /\ LogExact'
  BY DEF BeginOperation, GTypes, LogTypes, LogExact, streamVars, LogFlags
<1>4. FellOnce' /\ Members'
  BY DEF BeginOperation, FellOnce, NotBegun, Members, GTypes
<1> QED
  BY <1>2, <1>3, <1>4

\* A request is counted when it begins.
LEMMA BeginRequestInv ==
    ASSUME TrackInv, NEW g \in Goroutines, NEW tr \in BOOLEAN, BeginRequest(g, tr)
    PROVE  TrackInv'
<1> USE DEF TrackInv
<1>1. g \notin Own /\ Own' = Own \cup {g}
  BY DEF BeginRequest, Own, GTypes
<1>2. Cardinality(Own') = Cardinality(Own) + 1
  BY <1>1, OwnFinite, FS_AddElement
<1>3. RefCount'
  <2>1. CASE op[g] # "none" /\ refs' = IncRef /\ UNCHANGED op
    BY <2>1, <1>2, OwnFinite DEF RefCount, OwnerRef, IncRef
  <2>2. CASE g = Root /\ NotBegun /\ refs' = 1 /\ op' = [op EXCEPT ![g] = "member"]
    <3>1. Cardinality(Own) = 0
      BY <2>2, NoRefs, FS_EmptySet DEF NotBegun
    <3> QED
      BY <2>2, <3>1, <1>2 DEF RefCount, OwnerRef, GTypes
  <2> QED
    BY <2>1, <2>2 DEF BeginRequest
<1>4. GTypes'
  <2>1. trace' \in BOOLEAN
    BY DEF BeginRequest, GTypes
  <2>2. op' \in [Goroutines -> {"none", "member", "owner"}] /\ late' \in [Goroutines -> BOOLEAN]
    BY DEF BeginRequest, GTypes
  <2> QED
    BY <2>1, <2>2 DEF BeginRequest, GTypes
<1>5. LogTypes' /\ LogExact'
  BY DEF BeginRequest, LogTypes, LogExact, streamVars, LogFlags
<1>6. FellOnce'
  BY DEF BeginRequest, FellOnce, NotBegun, GTypes
<1>7. Members'
  BY DEF BeginRequest, Members, GTypes
<1> QED
  BY <1>3, <1>4, <1>5, <1>6, <1>7

\* A reference given up, by a request or by the operation: the last one marks.
LEMMA FinishRequestInv ==
    ASSUME TrackInv, NEW g \in Goroutines, NEW b \in BOOLEAN, FinishRequest(g, b)
    PROVE  TrackInv'
<1> USE DEF TrackInv
<1>1. g \in Own /\ Own' = Own \ {g}
  BY DEF FinishRequest, Own, GTypes
<1>2. Cardinality(Own') = Cardinality(Own) - 1
  BY <1>1, OwnFinite, FS_RemoveElement
<1>3. RefCount'
  BY <1>2, OwnFinite DEF FinishRequest, DecRef, RefCount, OwnerRef
<1>4. GTypes'
  <2>1. fell' \in BOOLEAN
    BY DEF FinishRequest, DecRef, GTypes
  <2>2. pc' \in [Goroutines -> {"run", "load", "mark", "init", "wait"}] /\ block' \in [Goroutines -> BOOLEAN]
    BY DEF FinishRequest, DecRef, GTypes
  <2> QED
    BY <2>1, <2>2 DEF FinishRequest, GTypes
<1>5. LogTypes' /\ LogExact'
  BY DEF FinishRequest, LogTypes, LogExact, streamVars, LogFlags
<1>6. refs = 1 => Own' = {} /\ op[Root] # "owner"
  <2> SUFFICES ASSUME refs = 1 PROVE Own' = {} /\ op[Root] # "owner"
    OBVIOUS
  <2>1. refs' = 0 /\ UNCHANGED op
    BY DEF FinishRequest, DecRef
  <2>2. IsFiniteSet(Own')
    BY <1>1, OwnFinite, FS_RemoveElement
  <2>3. Cardinality(Own') \in Nat
    BY <2>2, FS_CardinalityType
  <2>4. Cardinality(Own') = 0 /\ OwnerRef = 0
    BY <1>2, <2>3, OwnFinite DEF RefCount, OwnerRef
  <2> QED
    BY <2>2, <2>4, FS_EmptySet DEF OwnerRef
<1>7. FellOnce'
  <2>1. ASSUME fell', NEW h \in Goroutines, req'[h] = "own" PROVE late'[h]
    <3>1. h \in Own' /\ h # g
      BY <2>1 DEF FinishRequest, Own, GTypes
    <3>2. fell
      BY <2>1, <3>1, <1>6 DEF FinishRequest, DecRef
    <3>3. req[h] = "own" /\ late'[h] = late[h]
      BY <2>1, <3>1 DEF FinishRequest, GTypes
    <3> QED
      BY <3>2, <3>3 DEF FellOnce
  <2>2. fell' => op'[Root] # "owner"
    BY <1>6 DEF FinishRequest, DecRef, FellOnce
  <2>3. done' => fell'
    BY DEF FinishRequest, DecRef, FellOnce
  <2>4. \A h \in Goroutines : pc'[h] \in {"load", "mark"} => fell'
    BY DEF FinishRequest, DecRef, FellOnce, LastRef, GTypes
  <2> QED
    BY <2>1, <2>2, <2>3, <2>4 DEF FellOnce
<1>8. Members'
  BY DEF FinishRequest, Members, GTypes
<1> QED
  BY <1>3, <1>4, <1>5, <1>7, <1>8

\* The operation gives up its reference.
LEMMA FinishOperationInv == TrackInv /\ FinishOperation => TrackInv'
<1> SUFFICES ASSUME TrackInv, FinishOperation PROVE TrackInv'
  OBVIOUS
<1> USE DEF TrackInv
<1>1. Own' = Own /\ OwnerRef = 1 /\ OwnerRef' = 0
  BY DEF FinishOperation, Own, OwnerRef, GTypes
<1>2. RefCount'
  BY <1>1, OwnFinite DEF FinishOperation, DecRef, RefCount
<1>3. GTypes'
  <2>1. fell' \in BOOLEAN
    BY DEF FinishOperation, DecRef, GTypes
  <2>2. pc' \in [Goroutines -> {"run", "load", "mark", "init", "wait"}] /\ block' \in [Goroutines -> BOOLEAN]
    BY DEF FinishOperation, DecRef, GTypes
  <2> QED
    BY <2>1, <2>2 DEF FinishOperation, GTypes
<1>4. LogTypes' /\ LogExact'
  BY DEF FinishOperation, LogTypes, LogExact, streamVars, LogFlags
<1>5. refs = 1 => Own = {}
  BY <1>1, OwnFinite, FS_EmptySet DEF RefCount
<1>6. FellOnce'
  <2>1. ASSUME fell', NEW h \in Goroutines, req'[h] = "own" PROVE late'[h]
    <3>1. h \in Own
      BY <2>1 DEF FinishOperation, Own
    <3>2. fell
      BY <2>1, <3>1, <1>5 DEF FinishOperation, DecRef
    <3> QED
      BY <2>1, <3>2 DEF FinishOperation, FellOnce
  <2>2. op'[Root] # "owner"
    BY DEF FinishOperation, GTypes
  <2>3. done' => fell'
    BY DEF FinishOperation, DecRef, FellOnce
  <2>4. \A h \in Goroutines : pc'[h] \in {"load", "mark"} => fell'
    BY DEF FinishOperation, DecRef, FellOnce, LastRef, GTypes
  <2> QED
    BY <2>1, <2>2, <2>3, <2>4 DEF FellOnce
<1>7. Members'
  BY DEF FinishOperation, Members, GTypes
<1> QED
  BY <1>2, <1>3, <1>4, <1>6, <1>7

\* Steps that leave the count and the requests alone.
LEMMA LogStepsInv ==
    ASSUME TrackInv, UNCHANGED <<op, late, opVars>>, {g \in Goroutines : req'[g] = "own"} = Own,
           GTypes', LogTypes', LogExact',
           done' => fell, \A g \in Goroutines : pc'[g] \in {"load", "mark"} => fell
    PROVE  TrackInv'
<1>1. Own' = Own /\ OwnerRef' = OwnerRef
  BY DEF Own, OwnerRef
<1>2. RefCount'
  BY <1>1 DEF TrackInv, RefCount, opVars
<1>3. FellOnce'
  <2>1. ASSUME NEW g \in Goroutines, req'[g] = "own" PROVE req[g] = "own"
    BY <2>1 DEF Own
  <2> QED
    BY <2>1 DEF TrackInv, FellOnce, opVars
<1>4. Members'
  <2>1. ASSUME NEW g \in Goroutines, req'[g] = "own" PROVE req[g] = "own"
    BY <2>1 DEF Own
  <2> QED
    BY <2>1 DEF TrackInv, Members
<1> QED
  BY <1>2, <1>3, <1>4 DEF TrackInv

\* Every step of a goroutine or of the stream keeps the invariant.
LEMMA NextTrackInv == TrackInv /\ [Next]_vars => TrackInv'
<1> SUFFICES ASSUME TrackInv, [Next]_vars PROVE TrackInv'
  OBVIOUS
<1>0. GTypes /\ LogTypes /\ FellOnce /\ Members /\ LogExact
  BY DEF TrackInv
<1>1. ASSUME NEW g \in Goroutines, NEW h \in Goroutines, Spawn(g, h) PROVE TrackInv'
  <2>1. GTypes' /\ Own' = Own
    <3>1. /\ op' \in [Goroutines -> {"none", "member", "owner"}]
          /\ req' \in [Goroutines -> {"nil", "inherited", "own"}]
      BY <1>0, <1>1 DEF Spawn, GTypes
    <3>2. traced' \in [Goroutines -> BOOLEAN]
      BY <1>0, <1>1 DEF Spawn, GTypes
    <3>3. req[h] # "own"
      BY <1>0, <1>1 DEF Spawn, Members
    <3> QED
      BY <1>0, <1>1, <3>1, <3>2, <3>3 DEF Spawn, GTypes, Own, opVars
  <2>2. OwnerRef' = OwnerRef
    BY <1>0, <1>1 DEF Spawn, GTypes, OwnerRef
  <2>3. RefCount'
    BY <1>1, <2>1, <2>2 DEF Spawn, TrackInv, RefCount, opVars
  <2>4. LogTypes' /\ LogExact'
    BY <1>0, <1>1 DEF Spawn, LogTypes, LogExact, streamVars, LogFlags
  <2>5. FellOnce' /\ Members'
    BY <1>0, <1>1 DEF Spawn, GTypes, FellOnce, Members, opVars
  <2> QED
    BY <2>1, <2>3, <2>4, <2>5 DEF TrackInv
<1>2. ASSUME NEW g \in Goroutines, Add(g) PROVE TrackInv'
  <2>0. LogFlags'
    BY <1>0, <1>2 DEF Add, LogTypes, LogFlags
  <2>1. LogTypes' /\ LogExact'
    BY <1>0, <1>2, <2>0 DEF Add, InitStream, LogTypes, LogExact
  <2>2. GTypes' /\ UNCHANGED <<op, late, opVars, req, done, pc>>
    BY <1>0, <1>2 DEF Add, GTypes, gVars, opVars
  <2> QED
    BY <1>0, <2>1, <2>2, LogStepsInv DEF FellOnce, Own
<1>3. ASSUME NEW g \in Goroutines, MarkDone(g) PROVE TrackInv'
  <2>0. LogFlags'
    BY <1>0, <1>3 DEF MarkDone, Wake, LogTypes, LogFlags
  <2>1. LogTypes' /\ LogExact'
    BY <1>0, <1>3, <2>0 DEF MarkDone, LogTypes, LogExact
  <2>2. GTypes' /\ UNCHANGED <<op, late, opVars, req>>
    BY <1>0, <1>3 DEF MarkDone, GTypes, opVars
  <2>3. fell
    BY <1>0, <1>3 DEF MarkDone, FellOnce
  <2> QED
    BY <1>0, <2>1, <2>2, <2>3, LogStepsInv DEF Own
<1>4. ASSUME NEW g \in Goroutines, MarkInit(g) PROVE TrackInv'
  <2>1. LogTypes' /\ LogExact'
    BY <1>0, <1>4 DEF MarkInit, InitStream, LogTypes, LogExact, LogFlags
  <2>2. GTypes' /\ UNCHANGED <<op, late, opVars, req, done>>
    BY <1>0, <1>4 DEF MarkInit, GTypes, opVars
  <2>3. \A h \in Goroutines : pc'[h] \in {"load", "mark"} => fell
    BY <1>0, <1>4 DEF MarkInit, FellOnce, GTypes
  <2> QED
    BY <1>0, <2>1, <2>2, <2>3, LogStepsInv DEF FellOnce, Own
<1>5. ASSUME NEW g \in Goroutines, WaitForStreamSent(g) PROVE TrackInv'
  <2>1. LogTypes' /\ LogExact'
    BY <1>0, <1>5 DEF WaitForStreamSent, LogTypes, LogExact, streamVars, LogFlags
  <2>2. GTypes' /\ UNCHANGED <<op, late, opVars, req, done>>
    BY <1>0, <1>5 DEF WaitForStreamSent, GTypes, opVars
  <2>3. \A h \in Goroutines : pc'[h] \in {"load", "mark"} => fell
    BY <1>0, <1>5 DEF WaitForStreamSent, FellOnce, GTypes
  <2> QED
    BY <1>0, <2>1, <2>2, <2>3, LogStepsInv DEF FellOnce, Own
<1>6. CASE StreamStep \/ SendFails
  <2>0. LogFlags'
    BY <1>0, <1>6 DEF StreamStep, SendFails, FirstWait, GetAndClear, WaitAndClear, Send, LogTypes,
                      LogFlags
  <2>1. LogTypes'
    BY <1>0, <1>6, <2>0 DEF StreamStep, SendFails, FirstWait, GetAndClear, WaitAndClear, Clear, Send,
                            LogTypes
  <2>2. LogExact'
    BY <1>0, <1>6 DEF StreamStep, SendFails, FirstWait, GetAndClear, WaitAndClear, Complete, Clear,
                      Send, LogTypes, LogExact
  <2>3. GTypes' /\ UNCHANGED <<op, late, opVars, req, done, pc>>
    BY <1>0, <1>6 DEF StreamStep, SendFails, FirstWait, GetAndClear, WaitAndClear, Send, GTypes,
                      gVars, opVars
  <2> QED
    BY <1>0, <2>1, <2>2, <2>3, LogStepsInv DEF FellOnce, Own
<1>7. ASSUME NEW g \in Goroutines, LoadTrace(g) PROVE TrackInv'
  <2>1. LogTypes' /\ LogExact'
    BY <1>0, <1>7 DEF LoadTrace, LogTypes, LogExact, streamVars, LogFlags
  <2>2. GTypes' /\ UNCHANGED <<op, late, opVars, req, done>>
    <3>1. block' \in [Goroutines -> BOOLEAN]
      BY <1>0, <1>7 DEF LoadTrace, GTypes
    <3> QED
      BY <1>0, <1>7, <3>1 DEF LoadTrace, GTypes, opVars
  <2>3. \A h \in Goroutines : pc'[h] \in {"load", "mark"} => fell
    BY <1>0, <1>7 DEF LoadTrace, FellOnce, GTypes
  <2> QED
    BY <1>0, <2>1, <2>2, <2>3, LogStepsInv DEF FellOnce, Own
<1>8. CASE UNCHANGED vars
  <2>1. GTypes' /\ LogTypes' /\ LogExact'
    BY <1>0, <1>8 DEF vars, gVars, opVars, streamVars, GTypes, LogTypes, LogExact, LogFlags
  <2> QED
    BY <1>0, <1>8, <2>1, LogStepsInv DEF FellOnce, Own, vars, gVars
<1> QED
  BY <1>1, <1>2, <1>3, <1>4, <1>5, <1>6, <1>7, <1>8, BeginOperationInv, BeginRequestInv,
     FinishRequestInv, FinishOperationInv DEF Next, DecRefStep

\* The invariant of the specification.
THEOREM TrackInvariance == Spec => []TrackInv
BY InitTrackInv, NextTrackInv, PTL DEF Spec

\* Every variable of the tracker keeps to its values; the count of references
\* never falls below 0.
THEOREM TrackTyping == Spec => []TypeOK
<1>1. TrackInv => TypeOK
  <2> SUFFICES ASSUME TrackInv PROVE TypeOK
    OBVIOUS
  <2>1. refs \in Nat
    BY OwnFinite DEF TrackInv, RefCount, OwnerRef
  <2>2. data \in 0 .. MaxEvents /\ doneAt \in 0 .. MaxEvents /\ sent \in 0 .. MaxEvents
    BY DEF TrackInv, LogTypes, LogExact
  <2> QED
    BY <2>1, <2>2 DEF TrackInv, GTypes, LogTypes, LogFlags, TypeOK
<1> QED
  BY <1>1, TrackInvariance, PTL

\* decRef marks the trace done only after the operation and every request that
\* was counted in time have ended.
THEOREM LiveNotDoneTheorem == Spec => []LiveNotDone
<1>1. TrackInv => LiveNotDone
  BY DEF TrackInv, FellOnce, LiveNotDone
<1> QED
  BY <1>1, TrackInvariance, PTL

\* What StreamTrace sends has every event that was added before the log was done.
THEOREM CompleteTraceTheorem == Spec => []CompleteTrace
<1>1. TrackInv => CompleteTrace
  BY DEF TrackInv, LogTypes, LogExact, CompleteTrace
<1> QED
  BY <1>1, TrackInvariance, PTL
=============================================================================
