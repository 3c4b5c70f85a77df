----------------------- MODULE ConnectedExecutionProofs -----------------------
(***************************************************************************)
(* Theorems about ConnectedExecution, for any number of requests,          *)
(* attempts, faults and lost answers.  Two facts carry them: a connector   *)
(* is called by the one delivery that found the intent queued, and while   *)
(* nothing fails the intent, the worker and the message are in one of four *)
(* phases, told by what the connector last answered.                       *)
(***************************************************************************)
EXTENDS ConnectedExecution, TLAPS

Answers == {Result(ask, TRUE), Result(ask, FALSE)}
WorldTypeOK ==
  /\ ask \in Asks /\ Validated(ask)
  /\ rotated \in BOOLEAN
  /\ result \in Answers \cup {Nothing}
  /\ remote \in {"before", "done"}
  /\ lost \in Nat

TypeInv == ExecutionTypeOK /\ WorldTypeOK

\* Requests that created the row and are still running.
RowOwners == {q \in Executes : queuePc[q] \in {"transition", "update", "add", "track"}}

\* One request creates the row; nothing is delivered before it added the message;
\* and a delivery that got past the write of "executing" leaves no way back.
Spent == executions > 0 \/ workerPc \in {"load", "execute"}
OneDelivery ==
  /\ \A q1, q2 \in RowOwners : q1 = q2
  /\ RowOwners # {} \/ message.state # "none" => jobRow # "none"
  /\ message.state # "none" => \A q \in RowOwners : queuePc[q] = "track"
  /\ message.state = "none" => executions = 0 /\ outcome = "none"
  /\ (workerPc # "idle") = (message.state = "active")
  /\ Spent => status # "queued"
  /\ workerPc = "update" /\ goal = "executing" => executions = 0
  /\ workerPc \in {"load", "execute"} => executions = 0
  /\ executions = 0 => outcome \in {"none", "unavailable"}
  /\ executions > 0 => executions = 1 /\ outcome \in {"ok", "error"}

\* The connector's data, which lack what GitHub answered if that got lost.
Told == result = Result(ask, TRUE) \/ (result = Result(ask, FALSE) /\ lost > 0)

\* Success is reported on the connector's word and after its data are recorded.
Reporting ==
  \/ workerPc \in {"transition", "update"} /\ goal = "succeeded"
  \/ workerPc = "receipt"
  \/ status = "succeeded"
Recorded ==
  /\ workerPc = "complete" => outcome = "ok" /\ remote = "done"
  /\ Reporting => outcome = "ok" /\ remote = "done" /\ Told

\* The phases, while nothing fails but the connector.
Drives(to) == workerPc \in {"transition", "update"} /\ goal = to

NotAnswered ==
  /\ receipts = 0
  /\ message.state = "none" =>
       /\ status \in {"approved", "queued"}
       /\ \A q \in Executes : queuePc[q] = "add" => status = "queued"
  /\ message.state # "none" =>
       /\ message.state \in {"waiting", "active"}
       /\ \/ workerPc \in {"load", "execute"} /\ status = "executing"
          \/ (workerPc \in {"idle", "start"} \/ Drives("executing")) /\ status = "queued"

Succeeding ==
  /\ workerPc # "complete" => jobRow = "completed"
  /\ \/ (workerPc = "complete" \/ Drives("succeeded")) /\ status = "executing" /\ receipts = 0
     \/ workerPc = "receipt" /\ status = "succeeded" /\ receipts = 0
     \/ workerPc = "finish" /\ status = "succeeded" /\ receipts = 1
     \/ message.state = "completed" /\ status = "succeeded" /\ receipts = 1

Returned == workerPc \in {"idle", "start", "throw"} \/ (workerPc = "transition" /\ goal = "executing")

Failing ==
  /\ receipts = 0
  /\ message.state # "completed"
  /\ \/ (workerPc = "fail" \/ Drives("failed")) /\ status = "executing"
     \/ Returned /\ status = "failed"

Undisturbed ==
  /\ outcome = "none" => NotAnswered
  /\ outcome = "ok" => Succeeding
  /\ outcome = "error" => Failing /\ (lost = 0 => remote = "before")
  /\ outcome = "unavailable" => Returned /\ status = "executing"
  /\ executions = 0 => remote = "before"

IInv == TypeInv /\ OneDelivery /\ Recorded /\ (faults = 0 => Undisturbed)

-----------------------------------------------------------------------------
(* Types                                                                   *)

LEMMA TransitionsTyped ==
  ASSUME NEW from, NEW to, IsValidTransition(from, to)
  PROVE  from \in IntentState /\ to \in IntentState
BY DEF IsValidTransition, StateTransitions, IntentState

\* The shared row stays well typed through each of transitionIntent's steps.
LEMMA StoreSteps ==
  ASSUME StoreTypeOK
  PROVE  /\ \A to : TransitionAllowed(to) => StoreTypeOK' /\ to \in IntentState
         /\ \A to : TransitionRefused(to) => StoreTypeOK'
         /\ \A to \in IntentState : ApplyTransition(to) => StoreTypeOK'
         /\ Fault => StoreTypeOK'
         /\ UNCHANGED storeVars => StoreTypeOK'
BY TransitionsTyped, MaxFaultsAssumption
DEF StoreTypeOK, TransitionAllowed, TransitionRefused, ApplyTransition, Fault, storeVars

\* The updates BullMQ makes to a job when a delivery fails or stalls.
LEMMA JobUpdated ==
  ASSUME NEW m \in Message, NEW s \in {"waiting", "failed"}, NEW n \in Nat
  PROVE  /\ [m EXCEPT !.state = s] \in Message
         /\ [m EXCEPT !.attempts = n, !.state = s] \in Message
         /\ [m EXCEPT !.state = s, !.stalls = n] \in Message
         /\ m.attempts + 1 \in Nat /\ m.stalls + 1 \in Nat
<1>1. m.attempts + 1 \in Nat /\ m.stalls + 1 \in Nat
  BY DEF Message
<1>2. [m EXCEPT !.state = s] \in Message
  BY DEF Message
<1>3. [m EXCEPT !.attempts = n, !.state = s] \in Message
  BY DEF Message
<1>4. [m EXCEPT !.state = s, !.stalls = n] \in Message
  BY DEF Message
<1> QED
  BY <1>1, <1>2, <1>3, <1>4

LEMMA ExecutionTyped ==
  ASSUME ExecutionTypeOK, ExecutionNext
  PROVE  ExecutionTypeOK'
<1> USE StoreSteps, ExecutionAssumption DEF ExecutionTypeOK
<1>1. ASSUME NEW q \in Executes, QueueRead(q) \/ QueueStep(q) \/ QueueDies(q)
      PROVE  ExecutionTypeOK'
  <2> USE DEF QueuePc, QueueGoes, workerVars, effectVars
  <2>1. CASE QueueRead(q) \/ QueueFind(q) \/ QueueCreate(q)
    BY <2>1 DEF QueueRead, QueueFind, QueueCreate, JobRow
  <2>2. CASE QueueTransition(q) \/ QueueUpdate(q)
    BY <2>2 DEF QueueTransition, QueueUpdate, IntentState
  <2>3. CASE QueueAdd(q)
    BY <2>3 DEF QueueAdd, Message
  <2>4. CASE QueueTrack(q) \/ QueueDies(q)
    BY <2>4 DEF QueueTrack, QueueDies
  <2> QED
    BY <1>1, <2>1, <2>2, <2>3, <2>4 DEF QueueStep
<1>2. ASSUME WorkerStep \/ WorkerFault \/ WorkerCrash
      PROVE  ExecutionTypeOK'
  <2> USE DEF WorkerPc, WorkerGoes, WorkerAsks, ErrorPath, effectVars
  <2>1. CASE Deliver \/ WorkerFinish
    BY <2>1 DEF Deliver, WorkerFinish, Message
  <2>2. CASE WorkerStart \/ WorkerComplete \/ WorkerFail
    BY <2>2 DEF WorkerStart, WorkerComplete, WorkerFail, JobRow
  <2>3. CASE WorkerTransition \/ WorkerUpdate
    BY <2>3 DEF WorkerTransition, WorkerUpdate, IntentState
  <2>4. CASE WorkerLoad \/ WorkerExecute \/ WorkerReceipt
    BY <2>4 DEF WorkerLoad, WorkerExecute, WorkerReceipt, Outcome
  <2>5. CASE WorkerThrow
    <3>1. message' \in Message
      BY <2>5, JobUpdated DEF WorkerThrow
    <3> QED
      BY <2>5, <3>1 DEF WorkerThrow
  <2>6. CASE WorkerFault
    BY <2>6 DEF WorkerFault
  <2>7. CASE WorkerCrash
    <3>1. message' \in Message
      BY <2>7, JobUpdated DEF WorkerCrash
    <3> QED
      BY <2>7, <3>1 DEF WorkerCrash
  <2> QED
    BY <1>2, <2>1, <2>2, <2>3, <2>4, <2>5, <2>6, <2>7 DEF WorkerStep
<1> QED
  BY <1>1, <1>2 DEF ExecutionNext

-----------------------------------------------------------------------------
(* What a step does to the remote system                                   *)

LEMMA StepsAre ==
  ASSUME ConnectedNext
  PROVE  ExecutionNext
BY DEF ConnectedNext, ExecutionNext, Queueing, Working, WorkerLost

LEMMA ConnectorTouches ==
  ASSUME WorldTypeOK, ConnectedNext
  PROVE  /\ UNCHANGED <<ask, rotated>>
         /\ lost' \in {lost, lost + 1}
         /\ remote' = remote \/ (remote' = "done" /\ workerPc = "execute")
<1>1. CASE Working
  <2>1. CASE workerPc = "execute"
    BY <1>1, <2>1 DEF Working, DoesIt, AnswerLost
  <2>2. CASE workerPc # "execute"
    BY <1>1, <2>2 DEF Working, worldVars
  <2> QED
    BY <2>1, <2>2
<1>2. CASE WorkerLost
  BY <1>2 DEF WorkerLost
<1>3. CASE ~Working /\ ~WorkerLost
  BY <1>3 DEF ConnectedNext, Queueing, connectorVars
<1> QED
  BY <1>1, <1>2, <1>3

\* What is recorded lacks nothing but what GitHub answered.
LEMMA ConnectorRecords ==
  ASSUME WorldTypeOK, ConnectedNext
  PROVE  IF Working /\ workerPc = "complete"
           THEN /\ UNCHANGED lost
                /\ result' = Result(ask, TRUE) \/ (result' = Result(ask, FALSE) /\ lost > 0)
           ELSE result' = result
<1>1. CASE ~Working
  BY <1>1 DEF ConnectedNext, Queueing, connectorVars, WorkerLost
<1>2. CASE Working /\ workerPc # "complete"
  BY <1>2 DEF Working, RecordsResult
<1>3. CASE Working /\ workerPc = "complete"
  <2>1. result' = Result(ask, lost = 0)
    BY <1>3 DEF Working, RecordsResult
  <2>2. UNCHANGED lost
    BY <1>3 DEF Working, worldVars
  <2>3. lost = 0 \/ lost > 0
    BY DEF WorldTypeOK
  <2>4. lost = 0 => (lost = 0) = TRUE
    BY Zenon
  <2>5. lost > 0 => (lost = 0) = FALSE
    BY SMT DEF WorldTypeOK
  <2>6. lost = 0 => result' = Result(ask, TRUE)
    BY <2>1, <2>4, Zenon
  <2>7. lost > 0 => result' = Result(ask, FALSE)
    BY <2>1, <2>5, Zenon
  <2> QED
    BY <1>3, <2>2, <2>3, <2>6, <2>7
<1> QED
  BY <1>1, <1>2, <1>3

LEMMA WorldTyped ==
  ASSUME WorldTypeOK, ConnectedNext
  PROVE  WorldTypeOK'
<1>1. UNCHANGED ask
  BY ConnectorTouches
<1>2. Validated(ask)' = Validated(ask)
  BY <1>1 DEF Validated, GithubAccepts, HttpAccepts, MockAccepts
<1>3. \A read \in BOOLEAN : Result(ask, read)' = Result(ask, read)
  BY <1>1 DEF Result, GithubResult, HttpResult, MockResult
<1>4. Answers' = Answers
  BY <1>3 DEF Answers
<1>5. result' \in Answers' \cup {Nothing}
  BY <1>4, ConnectorRecords DEF WorldTypeOK, Answers
<1>6. lost' \in Nat /\ remote' \in {"before", "done"}
  BY ConnectorTouches DEF WorldTypeOK
<1> QED
  BY <1>1, <1>2, <1>5, <1>6, ConnectorTouches DEF WorldTypeOK

-----------------------------------------------------------------------------
(* One delivery reaches the connector                                      *)

LEMMA QueueKeepsDelivery ==
  ASSUME ExecutionTypeOK, OneDelivery,
         NEW q \in Executes, QueueRead(q) \/ QueueStep(q) \/ QueueDies(q)
  PROVE  OneDelivery'
<1> USE DEF OneDelivery, RowOwners, Spent, QueueGoes, ExecutionTypeOK, workerVars, effectVars,
            storeVars
<1>1. CASE QueueRead(q) \/ QueueFind(q) \/ QueueTrack(q)
  BY <1>1 DEF QueueRead, QueueFind, QueueTrack
<1>2. CASE QueueDies(q)
  BY <1>2 DEF QueueDies, Fault
<1>3. CASE QueueCreate(q)
  BY <1>3 DEF QueueCreate
<1>4. CASE QueueTransition(q)
  BY <1>4 DEF QueueTransition, TransitionAllowed, TransitionRefused
<1>5. CASE QueueUpdate(q)
  BY <1>5 DEF QueueUpdate, ApplyTransition
<1>6. CASE QueueAdd(q)
  BY <1>6 DEF QueueAdd, Message
<1> QED
  BY <1>1, <1>2, <1>3, <1>4, <1>5, <1>6 DEF QueueStep

LEMMA WorkerKeepsDelivery ==
  ASSUME ExecutionTypeOK, OneDelivery, WorkerStep \/ WorkerFault \/ WorkerCrash
  PROVE  OneDelivery'
<1> USE DEF OneDelivery, RowOwners, Spent, WorkerGoes, WorkerAsks, ExecutionTypeOK, effectVars,
            storeVars
<1>1. CASE Deliver \/ WorkerFinish
  BY <1>1 DEF Deliver, WorkerFinish, Message
<1>2. CASE WorkerThrow
  BY <1>2 DEF WorkerThrow, Message
<1>3. CASE WorkerCrash
  BY <1>3 DEF WorkerCrash, Fault, Message
<1>4. CASE WorkerStart \/ WorkerComplete \/ WorkerFail \/ WorkerReceipt
  BY <1>4 DEF WorkerStart, WorkerComplete, WorkerFail, WorkerReceipt
<1>5. CASE WorkerTransition
  BY <1>5 DEF WorkerTransition, TransitionAllowed, TransitionRefused, ErrorPath,
              IsValidTransition, StateTransitions
<1>6. CASE WorkerUpdate
  <2>1. CASE goal = "executing"
    BY <1>6, <2>1 DEF WorkerUpdate, ApplyTransition
  <2>2. CASE goal = "succeeded"
    BY <1>6, <2>2 DEF WorkerUpdate, ApplyTransition
  <2>3. CASE goal = "failed"
    BY <1>6, <2>3 DEF WorkerUpdate, ApplyTransition
  <2> QED
    BY <2>1, <2>2, <2>3
<1>7. CASE WorkerLoad
  BY <1>7 DEF WorkerLoad
<1>8. CASE WorkerExecute
  BY <1>8 DEF WorkerExecute
<1>9. CASE WorkerFault
  BY <1>9 DEF WorkerFault, Fault, ErrorPath
<1> QED
  BY <1>1, <1>2, <1>3, <1>4, <1>5, <1>6, <1>7, <1>8, <1>9 DEF WorkerStep

-----------------------------------------------------------------------------
(* Success is recorded                                                     *)

\* A step comes to report success from "complete", or reported it before, and
\* the answer it reports is never overwritten.
LEMMA ReportsStep ==
  ASSUME ExecutionTypeOK, OneDelivery, ExecutionNext
  PROVE  /\ Reporting' => Reporting \/ workerPc = "complete"
         /\ workerPc' = "complete" => workerPc = "complete" \/ (workerPc = "execute" /\ outcome' = "ok")
         /\ outcome = "ok" => outcome' = "ok"
<1> USE DEF ExecutionTypeOK
<1>1. ASSUME NEW q \in Executes, QueueRead(q) \/ QueueStep(q) \/ QueueDies(q)
      PROVE  /\ UNCHANGED <<workerPc, goal, outcome>>
             /\ status' \in {status, "queued"}
  BY <1>1 DEF QueueRead, QueueStep, QueueDies, QueueFind, QueueCreate, QueueTransition,
     QueueUpdate, QueueAdd, QueueTrack, workerVars, effectVars, storeVars, TransitionAllowed,
     TransitionRefused, ApplyTransition, Fault
<1>2. CASE Deliver \/ WorkerStart \/ WorkerComplete \/ WorkerReceipt \/ WorkerFail \/ WorkerFinish
           \/ WorkerThrow
  BY <1>2 DEF Deliver, WorkerStart, WorkerComplete, WorkerReceipt, WorkerFail, WorkerFinish,
     WorkerThrow, WorkerGoes, WorkerAsks, effectVars, storeVars, Reporting
<1>3. CASE WorkerTransition
  BY <1>3 DEF WorkerTransition, WorkerGoes, ErrorPath, TransitionAllowed, TransitionRefused,
     effectVars, storeVars, Reporting
<1>4. CASE WorkerUpdate
  <2>1. workerPc = "update" /\ status' = goal /\ UNCHANGED <<goal, outcome>>
    BY <1>4 DEF WorkerUpdate, ApplyTransition, WorkerGoes, effectVars
  <2>2. /\ goal = "executing" => workerPc' = "load"
        /\ goal = "succeeded" => workerPc' = "receipt"
        /\ goal = "failed" => workerPc' = "throw"
    BY <1>4 DEF WorkerUpdate, WorkerGoes
  <2> QED
    BY <2>1, <2>2 DEF Reporting
<1>5. CASE WorkerLoad \/ WorkerExecute
  BY <1>5 DEF WorkerLoad, WorkerExecute, WorkerGoes, storeVars, Reporting, OneDelivery
<1>6. CASE WorkerFault \/ WorkerCrash
  BY <1>6 DEF WorkerFault, WorkerCrash, WorkerGoes, ErrorPath, Fault, effectVars, Reporting
<1>7. CASE \E q \in Executes : QueueRead(q) \/ QueueStep(q) \/ QueueDies(q)
  <2>1. UNCHANGED <<workerPc, goal, outcome>> /\ status' \in {status, "queued"}
    BY <1>1, <1>7
  <2> QED
    BY <2>1 DEF Reporting
<1> QED
  BY <1>2, <1>3, <1>4, <1>5, <1>6, <1>7 DEF ExecutionNext, WorkerStep

LEMMA RecordedStep ==
  ASSUME TypeInv, OneDelivery, Recorded, ConnectedNext
  PROVE  Recorded'
<1> USE DEF TypeInv, WorldTypeOK, Recorded
<1>1. /\ Reporting' => Reporting \/ workerPc = "complete"
      /\ workerPc' = "complete" => workerPc = "complete" \/ (workerPc = "execute" /\ outcome' = "ok")
      /\ outcome = "ok" => outcome' = "ok"
  BY StepsAre, ReportsStep
<1>2. UNCHANGED ask /\ (remote = "done" => remote' = "done") /\ (lost > 0 => lost' > 0)
  BY ConnectorTouches
<1>3. Result(ask, TRUE)' = Result(ask, TRUE) /\ Result(ask, FALSE)' = Result(ask, FALSE)
  BY <1>2 DEF Result, GithubResult, HttpResult, MockResult
<1>4. Told => Told'
  BY <1>2, <1>3, ConnectorRecords DEF Told
<1>5. ASSUME workerPc = "execute", workerPc' = "complete"
      PROVE  remote' = "done"
  <2>1. Working
    BY <1>5 DEF ConnectedNext, Queueing, QueueStep, QueueRead, QueueDies, QueueFind, QueueCreate,
       QueueTransition, QueueUpdate, QueueAdd, QueueTrack, workerVars, WorkerLost, WorkerCrash,
       WorkerFault, WorkerGoes, ErrorPath
  <2>2. outcome' = "ok"
    BY <1>1, <1>5
  <2> QED
    BY <1>5, <2>1, <2>2 DEF Working, DoesIt
<1>6. ASSUME workerPc = "complete", Reporting'
      PROVE  Told'
  <2>1. CASE Working
    BY <1>3, <1>6, <2>1, ConnectorRecords DEF Told
  <2>2. CASE ~Working
    <3>1. Reporting
      BY <1>6, <2>2 DEF ConnectedNext, Queueing, QueueStep, QueueRead, QueueDies, QueueFind,
         QueueCreate, QueueTransition, QueueUpdate, QueueAdd, QueueTrack, workerVars, WorkerLost,
         WorkerCrash, WorkerFault, WorkerGoes, ErrorPath, Reporting, storeVars, TransitionAllowed,
         TransitionRefused, ApplyTransition, Fault
    <3> QED
      BY <1>4, <3>1
  <2> QED
    BY <2>1, <2>2
<1> QED
  BY <1>1, <1>2, <1>4, <1>5, <1>6
-----------------------------------------------------------------------------
(* The phases, while nothing fails but the connector                       *)

\* Before a step that is no fault.
Calm == TypeInv /\ OneDelivery /\ Recorded /\ Undisturbed

LEMMA QueueUndisturbed ==
  ASSUME Calm, NEW q \in Executes, QueueRead(q) \/ QueueStep(q), UNCHANGED connectorVars
  PROVE  Undisturbed'
<1> USE DEF Calm, TypeInv, ExecutionTypeOK, QueueGoes, workerVars, effectVars, storeVars
<1>1. UNCHANGED <<workerPc, goal, executions, outcome, receipts, remote, lost>>
  BY DEF QueueRead, QueueStep, QueueFind, QueueCreate, QueueTransition, QueueUpdate, QueueAdd,
         QueueTrack, connectorVars
<1>2. CASE message.state = "none"
  <2>1. outcome = "none" /\ executions = 0 /\ remote = "before" /\ NotAnswered
        /\ workerPc = "idle"
    BY <1>2 DEF OneDelivery, Undisturbed
  <2>2. CASE QueueAdd(q)
    <3>1. message'.state = "waiting" /\ status = "queued" /\ status' = status
      BY <1>2, <2>1, <2>2 DEF QueueAdd, NotAnswered, Message
    <3>2. NotAnswered'
      BY <1>1, <2>1, <3>1 DEF NotAnswered
    <3> QED
      BY <1>1, <2>1, <3>2 DEF Undisturbed
  <2>3. CASE QueueUpdate(q)
    <3>1. NotAnswered'
      BY <1>1, <1>2, <2>1, <2>3 DEF QueueUpdate, ApplyTransition, NotAnswered
    <3> QED
      BY <1>1, <2>1, <3>1 DEF Undisturbed
  <2>4. CASE QueueRead(q) \/ QueueFind(q) \/ QueueCreate(q) \/ QueueTransition(q) \/ QueueTrack(q)
    <3>1. /\ UNCHANGED <<status, message>>
          /\ \A r \in Executes : queuePc'[r] = "add" => queuePc[r] = "add"
      BY <2>4 DEF QueueRead, QueueFind, QueueCreate, QueueTransition, QueueTrack,
         TransitionAllowed, TransitionRefused
    <3>2. NotAnswered'
      BY <1>1, <1>2, <2>1, <3>1 DEF NotAnswered
    <3> QED
      BY <1>1, <2>1, <3>2 DEF Undisturbed
  <2> QED
    BY <2>2, <2>3, <2>4 DEF QueueStep
<1>3. CASE message.state # "none"
  <2>1. queuePc[q] \notin {"transition", "update", "add"} /\ jobRow # "none"
    BY <1>3 DEF OneDelivery, RowOwners
  <2>2. UNCHANGED <<status, message, jobRow>>
    BY <2>1 DEF QueueRead, QueueStep, QueueFind, QueueCreate, QueueTransition, QueueUpdate,
       QueueAdd, QueueTrack
  <2> QED
    BY <1>1, <1>3, <2>2
    DEF Undisturbed, NotAnswered, Succeeding, Failing, Returned, Drives
<1> QED
  BY <1>2, <1>3

LEMMA WorkerUndisturbed ==
  ASSUME Calm, Working
  PROVE  Undisturbed'
<1> USE DEF Calm, TypeInv, ExecutionTypeOK, WorkerGoes, WorkerAsks, effectVars, storeVars
<1> USE DEF Undisturbed, OneDelivery, NotAnswered, Succeeding, Failing, Returned, Drives
<1>1. workerPc # "execute" => UNCHANGED worldVars
  BY DEF Working
<1>2. CASE Deliver
  <2>1. message'.state = "active" /\ message.state = "waiting" /\ workerPc = "idle"
    BY <1>2 DEF Deliver, Message
  <2> QED
    BY <1>1, <1>2, <2>1 DEF Deliver, worldVars
<1>3. CASE WorkerStart
  BY <1>1, <1>3 DEF WorkerStart, worldVars
<1>4. CASE WorkerTransition
  BY <1>1, <1>4 DEF WorkerTransition, TransitionAllowed, TransitionRefused, ErrorPath,
     IsValidTransition, StateTransitions, worldVars
<1>5. CASE WorkerUpdate
  <2>1. workerPc = "update" /\ status' = goal /\ UNCHANGED <<goal, jobRow, message, executions, outcome, receipts>>
    BY <1>5 DEF WorkerUpdate, ApplyTransition
  <2>2. /\ goal = "executing" => workerPc' = "load"
        /\ goal = "succeeded" => workerPc' = "receipt"
        /\ goal = "failed" => workerPc' = "throw"
    BY <1>5 DEF WorkerUpdate
  <2> QED
    BY <1>1, <2>1, <2>2 DEF worldVars
<1>6. CASE WorkerLoad
  BY <1>1, <1>6 DEF WorkerLoad, worldVars
<1>7. CASE WorkerExecute
  <2>1. CASE outcome' = "ok" /\ workerPc' = "complete"
    BY <1>7, <2>1 DEF WorkerExecute
  <2>2. CASE outcome' = "error" /\ workerPc' = "fail"
    <3>1. DoesIt(FALSE)
      <4>1. (outcome' = "ok") = FALSE
        BY <2>2
      <4>2. DoesIt(outcome' = "ok")
        BY <1>7 DEF Working, WorkerExecute
      <4> QED
        BY ONLY <4>1, <4>2
    <3>2. lost' = 0 => remote' = remote
      BY <3>1 DEF DoesIt, AnswerLost, WorldTypeOK
    <3> QED
      BY <1>7, <2>2, <3>2 DEF WorkerExecute
  <2> QED
    BY <1>7, <2>1, <2>2 DEF WorkerExecute
<1>8. CASE WorkerComplete
  BY <1>1, <1>8 DEF WorkerComplete, worldVars
<1>9. CASE WorkerReceipt
  BY <1>1, <1>9 DEF WorkerReceipt, worldVars
<1>10. CASE WorkerFail
  BY <1>1, <1>10 DEF WorkerFail, worldVars
<1>11. CASE WorkerFinish
  <2>1. message'.state = "completed" /\ workerPc = "finish"
    BY <1>11 DEF WorkerFinish, Message
  <2> QED
    BY <1>1, <1>11, <2>1 DEF WorkerFinish, worldVars
<1>12. CASE WorkerThrow
  <2>1. message'.state \in {"waiting", "failed"} /\ workerPc = "throw" /\ message.state = "active"
    BY <1>12 DEF WorkerThrow, Message
  <2> QED
    BY <1>1, <1>12, <2>1 DEF WorkerThrow, worldVars
<1> QED
  BY <1>2, <1>3, <1>4, <1>5, <1>6, <1>7, <1>8, <1>9, <1>10, <1>11, <1>12 DEF Working, WorkerStep
\* A fault is counted and never forgotten.
LEMMA FaultsStay ==
  ASSUME ExecutionTypeOK, faults' = 0, ExecutionNext
  PROVE  faults = 0 /\ ~Fault
<1>1. faults' = faults \/ Fault
  BY DEF ExecutionNext, QueueRead, QueueStep, QueueDies, QueueFind, QueueCreate, QueueTransition,
     QueueUpdate, QueueAdd, QueueTrack, WorkerStep, WorkerFault, WorkerCrash, Deliver, WorkerStart,
     WorkerTransition, WorkerUpdate, WorkerLoad, WorkerExecute, WorkerComplete, WorkerReceipt,
     WorkerFail, WorkerFinish, WorkerThrow, storeVars, TransitionAllowed, TransitionRefused,
     ApplyTransition
<1> QED
  BY <1>1 DEF Fault, ExecutionTypeOK, StoreTypeOK

LEMMA UndisturbedStep ==
  ASSUME Calm, faults' = 0, ConnectedNext
  PROVE  Undisturbed'
<1>1. ~Fault
  BY StepsAre, FaultsStay DEF Calm, TypeInv
<1> QED
  BY <1>1, QueueUndisturbed, WorkerUndisturbed
  DEF ConnectedNext, Queueing, QueueDies, WorkerLost, WorkerCrash, WorkerFault

-----------------------------------------------------------------------------
(* The inductive invariant                                                 *)

LEMMA IInvInit ==
  ASSUME ConnectedInit
  PROVE  IInv
<1> USE DEF ConnectedInit, ApprovedStart, StoreInit, ExecutionInit
<1>1. ExecutionTypeOK
  BY MaxFaultsAssumption
  DEF ExecutionTypeOK, StoreTypeOK, IntentState, JobRow, Message, QueuePc, WorkerPc, Outcome
<1>2. WorldTypeOK
  BY DEF WorldTypeOK
<1>3. OneDelivery
  BY DEF OneDelivery, RowOwners, Spent
<1>4. Recorded
  BY DEF Recorded, Reporting
<1>5. Undisturbed
  BY DEF Undisturbed, NotAnswered
<1> QED
  BY <1>1, <1>2, <1>3, <1>4, <1>5 DEF IInv, TypeInv

LEMMA IInvStep ==
  ASSUME IInv, [ConnectedNext]_vars
  PROVE  IInv'
<1>1. CASE ConnectedNext
  <2>1. ExecutionNext
    BY <1>1, StepsAre
  <2>2. TypeInv'
    BY <1>1, <2>1, ExecutionTyped, WorldTyped DEF IInv, TypeInv
  <2>3. OneDelivery'
    BY <2>1, QueueKeepsDelivery, WorkerKeepsDelivery DEF ExecutionNext, IInv, TypeInv
  <2>4. Recorded'
    BY <1>1, RecordedStep DEF IInv
  <2>5. faults' = 0 => Undisturbed'
    BY <1>1, <2>1, FaultsStay, UndisturbedStep DEF IInv, Calm, TypeInv
  <2> QED
    BY <2>2, <2>3, <2>4, <2>5 DEF IInv
<1>2. CASE UNCHANGED vars
  <2> USE <1>2 DEF vars, storeVars, executionVars, connectorVars, IInv
  <2>1. ExecutionTypeOK'
    BY DEF TypeInv, ExecutionTypeOK, StoreTypeOK
  <2>2. WorldTypeOK'
    BY DEF TypeInv, WorldTypeOK, Answers, Validated, Result, GithubAccepts, HttpAccepts, MockAccepts,
       GithubResult, HttpResult, MockResult
  <2>3. OneDelivery'
    BY DEF OneDelivery, RowOwners, Spent
  <2>4. Recorded'
    BY DEF Recorded, Reporting, Told, Result, GithubResult, HttpResult, MockResult
  <2>5. faults' = 0 => Undisturbed'
    BY DEF Undisturbed, NotAnswered, Succeeding, Failing, Returned, Drives
  <2> QED
    BY <2>1, <2>2, <2>3, <2>4, <2>5 DEF TypeInv
<1> QED
  BY <1>1, <1>2

\* The inductive invariant holds in every behaviour.
THEOREM ConnectedExecutionInvariant == ConnectedSpec => []IInv
BY IInvInit, IInvStep, PTL DEF ConnectedSpec

-----------------------------------------------------------------------------
(* The theorems                                                            *)

\* The connector performs the side effect at most once, and an intent is reported
\* succeeded only if it did: under any number of requests, errors, retries,
\* crashes and redeliveries.
THEOREM OneRealExecution == ConnectedSpec => [](ExecutedAtMostOnce /\ SuccessIsReal)
<1>1. ASSUME IInv PROVE ExecutedAtMostOnce /\ SuccessIsReal
  <2>1. executions \in {0, 1}
    BY <1>1 DEF IInv, TypeInv, ExecutionTypeOK, OneDelivery
  <2>2. status = "succeeded" => outcome = "ok"
    BY <1>1 DEF IInv, Recorded, Reporting
  <2> QED
    BY <1>1, <2>1, <2>2 DEF IInv, OneDelivery, ExecutedAtMostOnce, SuccessIsReal
<1> QED
  BY <1>1, ConnectedExecutionInvariant, PTL

\* When BullMQ is done with the message and nothing failed but the connector, the
\* intent, the outcome and the receipt agree.
THEOREM FinishedJobsAgree == ConnectedSpec => []FinishedJobAgrees
<1>1. ASSUME IInv, message.state \in {"completed", "failed"}, faults = 0, outcome # "unavailable"
      PROVE  /\ status = IF outcome = "ok" THEN "succeeded" ELSE "failed"
             /\ receipts = IF outcome = "ok" THEN 1 ELSE 0
             /\ outcome = "ok" => jobRow = "completed"
  <2>1. Undisturbed /\ workerPc = "idle"
    BY <1>1 DEF IInv, OneDelivery
  <2>2. outcome \in {"none", "ok", "error"}
    BY <1>1 DEF IInv, TypeInv, ExecutionTypeOK, Outcome
  <2> QED
    BY <1>1, <2>1, <2>2
    DEF Undisturbed, NotAnswered, Succeeding, Failing, Returned, Drives
<1>2. IInv => FinishedJobAgrees
  BY <1>1 DEF FinishedJobAgrees
<1> QED
  BY <1>2, ConnectedExecutionInvariant, PTL

\* A connector that promised a rollback finds what it needs in its own data.
LEMMA ResultSuffices ==
  ASSUME NEW a \in Asks, Reversibility(a) # "none"
  PROVE  /\ Undoes(a, Result(a, TRUE))
         /\ Undoes(a, Result(a, FALSE)) \/ a.type = "github"
<1>1. CASE a.type = "github"
  BY <1>1 DEF Reversibility, GithubReversibility, Undoes, GithubUndoes, Result, GithubResult
<1>2. CASE a.type = "http"
  BY <1>2 DEF Reversibility, HttpReversibility, Undoes, HttpUndoes
<1>3. CASE a.type = "mock"
  BY <1>3 DEF Undoes
<1> QED
  BY <1>1, <1>2, <1>3, ConnectorsAssumption DEF Ask

\* A succeeded intent has had its effect, and what a rollback will need of it is on
\* record, if the simulation promised one: whatever failed or was delivered again.
\* The one exception is an answer of GitHub that could not be read.
THEOREM SuccessIsUndoable == ConnectedSpec => []SucceededCanBeUndone
<1>1. ASSUME IInv, status = "succeeded"
      PROVE  /\ remote = "done"
             /\ \/ Reversibility(ask) = "none"
                \/ Undoes(ask, ExecutionContext(receipts > 0))
                \/ ask.type = "github" /\ lost > 0
  <2>1. remote = "done" /\ Told /\ ask \in Asks
    BY <1>1 DEF IInv, Recorded, Reporting, TypeInv, WorldTypeOK
  <2>2. result # Nothing
    BY <2>1, ResultAssumption DEF Told
  <2>3. ExecutionContext(receipts > 0) = result
    BY <2>2 DEF ExecutionContext
  <2> QED
    BY <2>1, <2>3, ResultSuffices DEF Told
<1>2. IInv => SucceededCanBeUndone
  BY <1>1 DEF SucceededCanBeUndone
<1> QED
  BY <1>2, ConnectedExecutionInvariant, PTL

\* A failed intent, which nothing will roll back, has had no effect, unless an
\* answer got lost or a row could not be written.
THEOREM FailureLeavesNothing == ConnectedSpec => []FailedLeftNothing
<1>1. ASSUME IInv, status = "failed", faults = 0, lost = 0
      PROVE  remote = "before"
  <2>1. Undisturbed /\ outcome \in Outcome
    BY <1>1 DEF IInv, TypeInv, ExecutionTypeOK
  <2>2. outcome # "ok"
    BY <1>1, <2>1 DEF Undisturbed, Succeeding
  <2>3. outcome = "none" => executions = 0
    BY <1>1 DEF IInv, OneDelivery, TypeInv, ExecutionTypeOK
  <2> QED
    BY <1>1, <2>1, <2>2, <2>3 DEF Undisturbed, Outcome
<1>2. IInv => FailedLeftNothing
  BY <1>1 DEF FailedLeftNothing
<1> QED
  BY <1>2, ConnectedExecutionInvariant, PTL
=============================================================================
