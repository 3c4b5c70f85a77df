----------------------------- MODULE Execution ------------------------------
(***************************************************************************)
(* modules/executions/service.ts (queueExecution) and                      *)
(* jobs/execution.worker.ts on one intent: the API requests that ask for   *)
(* the execution, the execution_jobs row, the BullMQ message, and the      *)
(* worker that processes it.                                               *)
(*                                                                         *)
(*   request: idle -> find -> create -> transition -> update -> add        *)
(*                                                    -> track -> done     *)
(*   worker:  idle -> start -> transition -> update -> load -> execute     *)
(*              -> complete -> transition -> update -> receipt -> finish   *)
(*            catch block: fail -> transition -> update -> throw           *)
(*                                                                         *)
(* The row's intent_id is unique, so an intent has at most one row and,    *)
(* the row's id being the BullMQ jobId, at most one message.  BullMQ hands *)
(* a message to one worker at a time; an error consumes one of the         *)
(* MaxAttempts deliveries, a crash one of the MaxStalls recoveries.        *)
(***************************************************************************)
EXTENDS IntentStore

CONSTANTS
  Executes,      \* POST /intents/:id/execute requests
  MaxAttempts,   \* `attempts` of the BullMQ job
  MaxStalls      \* how often BullMQ recovers a message from a lost worker

ASSUME ExecutionAssumption ==
  /\ MaxAttempts \in Nat \ {0}
  /\ MaxStalls \in Nat

VARIABLES
  jobRow,      \* execution_jobs.status ("none": no row)
  message,     \* the BullMQ job: its state, attemptsMade, stalled counter
  queuePc,
  workerPc,
  goal,        \* the state the worker's transitionIntent call asks for
  executions,  \* number of connector.execute calls, over all attempts
  outcome,     \* what the connector last answered
  receipts     \* number of receipts of type execution

executionVars ==
  <<jobRow, message, queuePc, workerPc, goal, executions, outcome, receipts>>

workerVars == <<workerPc, goal>>
effectVars == <<executions, outcome, receipts>>

JobRow == {"none", "queued", "processing", "completed", "failed"}
Message == [state : {"none", "waiting", "active", "completed", "failed"},
            attempts : Nat, stalls : Nat]
QueuePc == {"idle", "find", "create", "transition", "update", "add", "track",
            "done", "refused", "dead"}
WorkerPc == {"idle", "start", "transition", "update", "load", "execute",
             "complete", "receipt", "fail", "finish", "throw"}
Outcome == {"none", "ok", "error", "unavailable"}

ExecutionTypeOK ==
  /\ StoreTypeOK
  /\ jobRow \in JobRow
  /\ message \in Message
  /\ queuePc \in [Executes -> QueuePc]
  /\ workerPc \in WorkerPc
  /\ goal \in {"executing", "succeeded", "failed"}
  /\ executions \in Nat
  /\ outcome \in Outcome
  /\ receipts \in Nat

ExecutionInit ==
  /\ jobRow = "none"
  /\ message = [state |-> "none", attempts |-> 0, stalls |-> 0]
  /\ queuePc = [q \in Executes |-> "idle"]
  /\ workerPc = "idle"
  /\ goal = "executing"
  /\ executions = 0
  /\ outcome = "none"
  /\ receipts = 0

-----------------------------------------------------------------------------
(* queueExecution                                                          *)

QueueGoes(q, to) == queuePc' = [queuePc EXCEPT ![q] = to]

QueueRead(q) ==
  /\ queuePc[q] = "idle"
  /\ QueueGoes(q, IF status = "approved" THEN "find" ELSE "refused")
  /\ UNCHANGED <<storeVars, jobRow, message, workerVars, effectVars>>

\* A row that is not failed is a conflict; a failed one lets the request go on,
\* unless the workspace's plan or budget turns it down.
QueueFind(q) ==
  /\ queuePc[q] = "find"
  /\ \E to \in {"create", "refused"} :
       /\ to = "create" => jobRow \in {"none", "failed"}
       /\ QueueGoes(q, to)
  /\ UNCHANGED <<storeVars, jobRow, message, workerVars, effectVars>>

\* Bug: a failed row is taken over, as the check before it suggests.
QueueCreateTakesOver(q) ==
  /\ queuePc[q] = "create"
  /\ \/ jobRow \in {"none", "failed"} /\ jobRow' = "queued" /\ QueueGoes(q, "transition")
     \/ jobRow \notin {"none", "failed"} /\ QueueGoes(q, "refused") /\ UNCHANGED jobRow
  /\ UNCHANGED <<storeVars, message, workerVars, effectVars>>

\* execution_jobs.intent_id is unique: any row, a failed one too, refuses this.
QueueCreate(q) ==
  /\ queuePc[q] = "create"
  /\ \/ /\ jobRow = "none"
        /\ jobRow' = "queued"
        /\ QueueGoes(q, "transition")
     \/ /\ jobRow # "none"
        /\ QueueGoes(q, "refused")
        /\ UNCHANGED jobRow
  /\ UNCHANGED <<storeVars, message, workerVars, effectVars>>

QueueTransition(q) ==
  /\ queuePc[q] = "transition"
  /\ \/ TransitionAllowed("queued") /\ QueueGoes(q, "update")
     \/ TransitionRefused("queued") /\ QueueGoes(q, "refused")
  /\ UNCHANGED <<jobRow, message, workerVars, effectVars>>

QueueUpdate(q) ==
  /\ queuePc[q] = "update"
  /\ ApplyTransition("queued")
  /\ QueueGoes(q, "add")
  /\ UNCHANGED <<jobRow, message, workerVars, effectVars>>

\* Bug: the request answers without having queued the message.
QueueAddSkipped(q) ==
  /\ queuePc[q] = "add"
  /\ QueueGoes(q, "track")
  /\ UNCHANGED <<storeVars, jobRow, message, workerVars, effectVars>>

QueueAdd(q) ==
  /\ queuePc[q] = "add"
  /\ message' = [message EXCEPT !.state = "waiting"]
  /\ QueueGoes(q, "track")
  /\ UNCHANGED <<storeVars, jobRow, workerVars, effectVars>>

\* trackExecutionStart; the usage counter is not part of this module.
QueueTrack(q) ==
  /\ queuePc[q] = "track"
  /\ QueueGoes(q, "done")
  /\ UNCHANGED <<storeVars, jobRow, message, workerVars, effectVars>>

QueueDies(q) ==
  /\ queuePc[q] \notin {"idle", "done", "refused", "dead"}
  /\ Fault
  /\ QueueGoes(q, "dead")
  /\ UNCHANGED <<jobRow, message, workerVars, effectVars>>

-----------------------------------------------------------------------------
(* processExecution                                                        *)

WorkerGoes(to) == workerPc' = to /\ UNCHANGED goal
WorkerAsks(to) == workerPc' = "transition" /\ goal' = to

Deliver ==
  /\ message.state = "waiting" /\ workerPc = "idle"
  /\ message' = [message EXCEPT !.state = "active"]
  /\ WorkerGoes("start")
  /\ UNCHANGED <<storeVars, jobRow, queuePc, effectVars>>

WorkerStart ==
  /\ workerPc = "start"
  /\ jobRow' = "processing"
  /\ WorkerAsks("executing")
  /\ UNCHANGED <<storeVars, message, queuePc, effectVars>>

\* Where an error raised while the worker drives the intent to `goal` goes: a
\* refused "succeeded" is caught by the try block, the others leave the handler.
ErrorPath == IF goal = "succeeded" THEN "fail" ELSE "throw"

WorkerTransition ==
  /\ workerPc = "transition"
  /\ \/ TransitionAllowed(goal) /\ WorkerGoes("update")
     \/ TransitionRefused(goal) /\ WorkerGoes(ErrorPath)
  /\ UNCHANGED <<jobRow, message, queuePc, effectVars>>

WorkerUpdate ==
  /\ workerPc = "update"
  /\ ApplyTransition(goal)
  /\ WorkerGoes(CASE goal = "executing" -> "load"
                  [] goal = "succeeded" -> "receipt"
                  [] goal = "failed"    -> "throw")
  /\ UNCHANGED <<jobRow, message, queuePc, effectVars>>

\* The connector is looked up and its context built, outside the try block: an
\* unregistered connector or an unreadable configuration leaves the handler.
WorkerLoad ==
  /\ workerPc = "load"
  /\ \/ WorkerGoes("execute") /\ UNCHANGED outcome
     \/ WorkerGoes("throw") /\ outcome' = "unavailable"
  /\ UNCHANGED <<storeVars, jobRow, message, queuePc, executions, receipts>>

\* Bug: the connector's failure is not noticed.
WorkerExecuteIgnoresError ==
  /\ workerPc = "execute"
  /\ executions' = executions + 1
  /\ outcome' \in {"ok", "error"}
  /\ WorkerGoes("complete")
  /\ UNCHANGED <<storeVars, jobRow, message, queuePc, receipts>>

\* The side effect.  A connector reports failure by throwing.
WorkerExecute ==
  /\ workerPc = "execute"
  /\ executions' = executions + 1
  /\ \/ outcome' = "ok" /\ WorkerGoes("complete")
     \/ outcome' = "error" /\ WorkerGoes("fail")
  /\ UNCHANGED <<storeVars, jobRow, message, queuePc, receipts>>

WorkerComplete ==
  /\ workerPc = "complete"
  /\ jobRow' = "completed"
  /\ WorkerAsks("succeeded")
  /\ UNCHANGED <<storeVars, message, queuePc, effectVars>>

WorkerReceipt ==
  /\ workerPc = "receipt"
  /\ receipts' = receipts + 1
  /\ WorkerGoes("finish")
  /\ UNCHANGED <<storeVars, jobRow, message, queuePc, executions, outcome>>

\* Bug: the catch block marks the row and leaves the intent executing.
WorkerFailRowOnly ==
  /\ workerPc = "fail"
  /\ jobRow' = "failed"
  /\ WorkerGoes("throw")
  /\ UNCHANGED <<storeVars, message, queuePc, effectVars>>

\* The catch block.
WorkerFail ==
  /\ workerPc = "fail"
  /\ jobRow' = "failed"
  /\ WorkerAsks("failed")
  /\ UNCHANGED <<storeVars, message, queuePc, effectVars>>

\* BullMQ learns that the handler returned.
WorkerFinish ==
  /\ workerPc = "finish"
  /\ message' = [message EXCEPT !.state = "completed"]
  /\ WorkerGoes("idle")
  /\ UNCHANGED <<storeVars, jobRow, queuePc, effectVars>>

\* BullMQ learns that the handler threw: another attempt, or none is left.
WorkerThrow ==
  /\ workerPc = "throw"
  /\ message' = [message EXCEPT
       !.attempts = @ + 1,
       !.state = IF message.attempts + 1 < MaxAttempts THEN "waiting" ELSE "failed"]
  /\ WorkerGoes("idle")
  /\ UNCHANGED <<storeVars, jobRow, queuePc, effectVars>>

\* A database statement of the handler fails: inside the try block the catch
\* block runs, elsewhere the handler throws.
WorkerFault ==
  /\ workerPc \in {"start", "transition", "update", "load", "complete", "receipt", "fail"}
  /\ Fault
  /\ WorkerGoes(CASE workerPc \in {"complete", "receipt"} -> "fail"
                  [] workerPc \in {"transition", "update"} -> ErrorPath
                  [] OTHER -> "throw")
  /\ UNCHANGED <<jobRow, message, queuePc, effectVars>>

\* The worker's process is lost; BullMQ finds the message stalled and hands it
\* out again, or fails it when it has stalled too often.
WorkerCrash ==
  /\ workerPc # "idle"
  /\ Fault
  /\ message' = IF message.stalls < MaxStalls
                  THEN [message EXCEPT !.state = "waiting", !.stalls = @ + 1]
                  ELSE [message EXCEPT !.state = "failed"]
  /\ WorkerGoes("idle")
  /\ UNCHANGED <<jobRow, queuePc, effectVars>>

-----------------------------------------------------------------------------
QueueStep(q) ==
  \/ QueueFind(q) \/ QueueCreate(q) \/ QueueTransition(q) \/ QueueUpdate(q)
  \/ QueueAdd(q) \/ QueueTrack(q)

WorkerStep ==
  \/ Deliver \/ WorkerStart \/ WorkerTransition \/ WorkerUpdate \/ WorkerLoad
  \/ WorkerExecute \/ WorkerComplete \/ WorkerReceipt \/ WorkerFail
  \/ WorkerFinish \/ WorkerThrow

ExecutionNext ==
  \/ \E q \in Executes : QueueRead(q) \/ QueueStep(q) \/ QueueDies(q)
  \/ WorkerStep \/ WorkerFault \/ WorkerCrash

\* On its own, the component starts with an approved intent.
ApprovedStart == StoreInit("approved") /\ ExecutionInit

ExecutionSpec ==
  /\ ApprovedStart
  /\ [][ExecutionNext]_<<storeVars, executionVars>>

\* A request that was accepted runs to its end, and BullMQ keeps delivering to
\* a worker that keeps running; clients and faults owe nothing.
ExecutionFairness ==
  /\ \A q \in Executes : WF_<<storeVars, executionVars>>(QueueStep(q))
  /\ WF_<<storeVars, executionVars>>(WorkerStep)

ExecutionFairSpec == ExecutionSpec /\ ExecutionFairness

-----------------------------------------------------------------------------
(* Properties                                                              *)

\* The connector performs the intent's side effect at most once, under any
\* number of concurrent requests, errors, retries, crashes and redeliveries:
\* only one request ever gets past the unique row, and only the delivery that
\* finds the intent queued gets to the connector.
ExecutedAtMostOnce == executions <= 1

\* An intent is reported succeeded only if the connector did succeed.
SuccessIsReal == status = "succeeded" => executions = 1 /\ outcome = "ok"

\* When BullMQ is done with the message and nothing failed but the connector,
\* the intent, the outcome and the receipt agree.
FinishedJobAgrees ==
  message.state \in {"completed", "failed"} /\ faults = 0 /\ outcome # "unavailable" =>
    /\ status = IF outcome = "ok" THEN "succeeded" ELSE "failed"
    /\ receipts = IF outcome = "ok" THEN 1 ELSE 0
    /\ outcome = "ok" => jobRow = "completed"

\* An accepted execution request is carried out: unless a fault or an
\* unavailable connector gets in the way, the intent ends succeeded or failed.
AcceptedExecutionSettles ==
  (\E q \in Executes : queuePc[q] = "done") ~>
    (status \in {"succeeded", "failed"} \/ faults > 0 \/ outcome = "unavailable")

\* What the comment at the rethrow says ("Re-throw so BullMQ handles retries"):
\* a connector error is retried, so a job that BullMQ gives up on has called
\* the connector once per attempt.
RetriesReachConnector ==
  message.state = "failed" /\ outcome = "error" /\ faults = 0 =>
    executions = message.attempts
=============================================================================
