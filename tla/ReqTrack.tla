------------------------------ MODULE ReqTrack ------------------------------
(***************************************************************************)
(* The request tracker of the Go runtime (appruntime/shared/reqtrack), for *)
(* one operation: the goroutines that take part in it, its reference       *)
(* count, its trace log (exported/trace2) and the goroutine that streams   *)
(* the log to the platform (shared/platform).  Events of the log are       *)
(* counted.  A goroutine does not begin a request inside one of its own:   *)
(* a call of another endpoint runs in a goroutine of its own.              *)
(***************************************************************************)
EXTENDS Integers, FiniteSets

CONSTANTS Goroutines,   \* goroutines that may take part in the operation
          Root,         \* the one that begins it
          MaxEvents     \* bound: the events added to the log

ASSUME GoroutinesAssumption == IsFiniteSet(Goroutines) /\ Root \in Goroutines
ASSUME EventsAssumption == MaxEvents \in Nat

VARIABLES
    testing,   \* static.Testing: the trace is sent when it is done
    op,        \* each goroutine's part: "none", "member", or "owner" by BeginOperation
    req,       \* its request: none, its parent's, or one it has begun
    traced,    \* is that request traced?
    late,      \* history: was it begun after refs had been 0?
    pc,        \* "run", or where it is in decRef
    block,     \* decRef's blockOnTraceSend
    refs,      \* the operation's reference count
    fell,      \* history: has refs been 0?
    trace,     \* has the operation a trace?
    done,      \* Log.done
    data,      \* the number of events in Log.data
    added,     \* history: the number of events ever added
    doneAt,    \* history: their number when the log was marked done
    stream,    \* where the streaming goroutine is
    asleep,    \* does it wait for the log's condition variable?
    sent       \* the number of events it has passed on

gVars == <<op, req, traced, late, pc, block>>
opVars == <<refs, fell, trace>>
streamVars == <<stream, asleep, sent>>
vars == <<testing, gVars, opVars, done, data, added, doneAt, streamVars>>

\* Every variable keeps to the values the code gives it; the count never falls
\* below 0.
TypeOK ==
    /\ testing \in BOOLEAN
    /\ op \in [Goroutines -> {"none", "member", "owner"}]
    /\ req \in [Goroutines -> {"nil", "inherited", "own"}]
    /\ traced \in [Goroutines -> BOOLEAN] /\ late \in [Goroutines -> BOOLEAN]
    /\ pc \in [Goroutines -> {"run", "load", "mark", "init", "wait"}]
    /\ block \in [Goroutines -> BOOLEAN]
    /\ refs \in Nat /\ fell \in BOOLEAN /\ trace \in BOOLEAN /\ done \in BOOLEAN
    /\ data \in 0 .. MaxEvents /\ added \in 0 .. MaxEvents /\ doneAt \in 0 .. MaxEvents
    /\ stream \in {"off", "first", "get", "read", "send", "sent", "failed"}
    /\ asleep \in BOOLEAN
    /\ sent \in 0 .. MaxEvents

Init ==
    /\ testing \in BOOLEAN
    /\ op = [g \in Goroutines |-> "none"]
    /\ req = [g \in Goroutines |-> "nil"]
    /\ traced = [g \in Goroutines |-> FALSE] /\ late = [g \in Goroutines |-> FALSE]
    /\ pc = [g \in Goroutines |-> "run"] /\ block = [g \in Goroutines |-> FALSE]
    /\ refs = 0 /\ fell = FALSE /\ trace = FALSE
    /\ done = FALSE /\ data = 0 /\ added = 0 /\ doneAt = 0
    /\ stream = "off" /\ asleep = FALSE /\ sent = 0

-----------------------------------------------------------------------------
(***************************************************************************)
(* Operations and requests.                                                *)
(***************************************************************************)
\* Only one operation is looked at.
NotBegun == refs = 0 /\ ~fell

BeginOperation ==
    /\ NotBegun
    /\ op' = [op EXCEPT ![Root] = "owner"]
    /\ refs' = 1
    /\ UNCHANGED <<testing, req, traced, late, pc, block, fell, trace, done, data, added, doneAt,
                   streamVars>>

\* Mutant of IncRef: a request under an operation is not counted.
IncRefMutant == refs

IncRef == refs + 1

\* BeginRequest: the parent's request, if any, makes way for the new one.  A
\* goroutine without an operation gets one that lives as long as the request.
BeginRequest(g, tr) ==
    /\ pc[g] = "run" /\ req[g] # "own"
    /\ req[g] = "inherited" => tr = traced[g]
    /\ \/ /\ op[g] # "none"
          /\ refs' = IncRef
          /\ late' = [late EXCEPT ![g] = fell]
          /\ UNCHANGED op
       \/ /\ g = Root /\ NotBegun
          /\ refs' = 1
          /\ op' = [op EXCEPT ![g] = "member"]
          /\ UNCHANGED late
    /\ req' = [req EXCEPT ![g] = "own"]
    /\ traced' = [traced EXCEPT ![g] = tr]
    /\ trace' = (trace \/ tr)
    /\ UNCHANGED <<testing, pc, block, fell, done, data, added, doneAt, streamVars>>

\* startEncoreG: a new goroutine takes part in its parent's operation.
Spawn(g, h) ==
    /\ pc[g] = "run" /\ op[g] # "none"
    /\ h # Root /\ op[h] = "none"
    /\ op' = [op EXCEPT ![h] = "member"]
    /\ req' = [req EXCEPT ![h] = IF req[g] = "nil" THEN "nil" ELSE "inherited"]
    /\ traced' = [traced EXCEPT ![h] = traced[g]]
    /\ UNCHANGED <<testing, late, pc, block, opVars, done, data, added, doneAt, streamVars>>

\* Mutant of LastRef: off by one.
LastRefMutant == refs <= 2

LastRef == refs = 1

\* The first half of decRef: the count, with which a goroutine gives up what it
\* holds, for nobody else reads that; the last one goes on to the trace.
DecRef(g, b) ==
    /\ refs' = refs - 1
    /\ fell' = (fell \/ refs = 1)
    /\ IF LastRef
       THEN pc' = [pc EXCEPT ![g] = "load"] /\ block' = [block EXCEPT ![g] = b]
       ELSE UNCHANGED <<pc, block>>

FinishRequest(g, b) ==
    /\ pc[g] = "run" /\ req[g] = "own"
    /\ DecRef(g, b)
    /\ req' = [req EXCEPT ![g] = "nil"]
    /\ traced' = [traced EXCEPT ![g] = FALSE] /\ late' = [late EXCEPT ![g] = FALSE]
    /\ UNCHANGED <<testing, op, trace, done, data, added, doneAt, streamVars>>

FinishOperation ==
    /\ pc[Root] = "run" /\ op[Root] = "owner" /\ req[Root] = "nil"
    /\ DecRef(Root, FALSE)
    /\ op' = [op EXCEPT ![Root] = "none"]
    /\ UNCHANGED <<testing, req, traced, late, trace, done, data, added, doneAt, streamVars>>

-----------------------------------------------------------------------------
(***************************************************************************)
(* The trace and its log.                                                  *)
(***************************************************************************)
\* initStream: the first time, the streaming goroutine starts.
InitStream == stream' = IF stream = "off" THEN "first" ELSE stream

\* Mutant of Wake: nobody is woken.
WakeMutant == UNCHANGED asleep

\* cond.Broadcast.
Wake == asleep' = FALSE

\* A goroutine of the operation logs an event.
Add(g) ==
    /\ pc[g] = "run" /\ op[g] # "none" /\ trace
    /\ added < MaxEvents
    /\ InitStream
    /\ data' = data + 1
    /\ added' = added + 1
    /\ asleep' = FALSE
    /\ UNCHANGED <<testing, gVars, opVars, done, doneAt, sent>>

\* The second half of decRef: the trace, if by now there is one, is done.
LoadTrace(g) ==
    /\ pc[g] = "load"
    /\ pc' = [pc EXCEPT ![g] = IF trace THEN "mark" ELSE "run"]
    /\ block' = [block EXCEPT ![g] = trace /\ @]
    /\ UNCHANGED <<testing, op, req, traced, late, opVars, done, data, added, doneAt, streamVars>>

\* Log.MarkDone,
MarkDone(g) ==
    /\ pc[g] = "mark"
    /\ done' = TRUE
    /\ doneAt' = IF done THEN doneAt ELSE added
    /\ Wake
    /\ pc' = [pc EXCEPT ![g] = "init"]
    /\ UNCHANGED <<testing, op, req, traced, late, block, opVars, data, added, stream, sent>>

\* initStream,
MarkInit(g) ==
    /\ pc[g] = "init"
    /\ InitStream
    /\ pc' = [pc EXCEPT ![g] = IF block[g] THEN "wait" ELSE "run"]
    /\ block' = [block EXCEPT ![g] = FALSE]
    /\ UNCHANGED <<testing, op, req, traced, late, opVars, done, data, added, doneAt, asleep, sent>>

\* and WaitForStreamSent.
WaitForStreamSent(g) ==
    /\ pc[g] = "wait" /\ stream \in {"sent", "failed"}
    /\ pc' = [pc EXCEPT ![g] = "run"]
    /\ UNCHANGED <<testing, op, req, traced, late, block, opVars, done, data, added, doneAt,
                   streamVars>>

-----------------------------------------------------------------------------
(***************************************************************************)
(* StreamTrace.                                                            *)
(***************************************************************************)
\* The log's data is taken and passed on.
Clear ==
    /\ data' = 0
    /\ sent' = sent + data

\* WaitUntilDone in a test, else WaitAtLeast, which looks at the clock only
\* when it is woken.
FirstWait ==
    /\ stream = "first" /\ ~asleep
    /\ \/ done /\ stream' = "get" /\ UNCHANGED asleep
       \/ ~done /\ asleep' = TRUE /\ UNCHANGED stream
       \/ ~done /\ ~testing /\ stream' = "read" /\ UNCHANGED asleep
    /\ UNCHANGED <<testing, gVars, opVars, done, data, added, doneAt, sent>>

\* GetAndClear of a log that is done: what is empty is not sent.
GetAndClear ==
    /\ stream = "get"
    /\ Clear
    /\ stream' = IF data = 0 THEN "sent" ELSE "send"
    /\ UNCHANGED <<testing, gVars, opVars, done, added, doneAt, asleep>>

\* Mutant of Complete: what was read last is taken for the end.
CompleteMutant == data > 0

\* Does a read show that there is nothing more to come?
Complete == done

\* readMoreIfNeeded: IsDoneAndEmpty calls it before there is a request, and a
\* trace that is empty needs none; then the HTTP request that sends its data.
WaitAndClear ==
    /\ stream = "read" /\ ~asleep
    /\ IF data = 0 /\ ~done
       THEN asleep' = TRUE /\ UNCHANGED <<data, sent, stream>>
       ELSE /\ Clear
            /\ stream' = IF ~Complete THEN "read" ELSE IF sent' = 0 THEN "sent" ELSE "send"
            /\ UNCHANGED asleep
    /\ UNCHANGED <<testing, gVars, opVars, done, added, doneAt>>

\* The platform answers at the end of the request, which may fail on its way.
Send ==
    /\ stream = "send" /\ stream' = "sent"
    /\ UNCHANGED <<testing, gVars, opVars, done, data, added, doneAt, asleep, sent>>

SendFails ==
    /\ stream = "send" \/ (stream = "read" /\ sent > 0)
    /\ stream' = "failed"
    /\ asleep' = FALSE
    /\ UNCHANGED <<testing, gVars, opVars, done, data, added, doneAt, sent>>

-----------------------------------------------------------------------------
DecRefStep(g) == LoadTrace(g) \/ MarkDone(g) \/ MarkInit(g) \/ WaitForStreamSent(g)
StreamStep == FirstWait \/ GetAndClear \/ WaitAndClear \/ Send

Next ==
    \/ BeginOperation \/ FinishOperation
    \/ \E g \in Goroutines : \/ \E tr \in BOOLEAN : BeginRequest(g, tr)
                             \/ \E b \in BOOLEAN : FinishRequest(g, b)
                             \/ \E h \in Goroutines : Spawn(g, h)
                             \/ Add(g) \/ DecRefStep(g)
    \/ StreamStep \/ SendFails

\* The tracker's code and the streaming goroutine run and the platform answers;
\* the application need not finish a request.
Fairness == /\ \A g \in Goroutines : WF_vars(DecRefStep(g))
            /\ WF_vars(StreamStep)

Spec == Init /\ [][Next]_vars
FairSpec == Spec /\ Fairness

-----------------------------------------------------------------------------
(***************************************************************************)
(* Properties.                                                             *)
(***************************************************************************)
\* While the operation, or a request begun before the count first fell to 0,
\* goes on, the trace is not done.
LiveNotDone ==
    done => /\ \A g \in Goroutines : req[g] = "own" => late[g]
            /\ op[Root] # "owner"

\* A trace that was sent has every event that was added before it was done.
CompleteTrace == stream = "sent" => done /\ sent >= doneAt

\* A trace that is done is sent, or fails to be, and whoever waits for that
\* goes on.
StreamEnds ==
    /\ done ~> stream \in {"sent", "failed"}
    /\ \A g \in Goroutines : pc[g] = "wait" ~> pc[g] = "run"
=============================================================================
