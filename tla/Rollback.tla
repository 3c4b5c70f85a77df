------------------------------ MODULE Rollback ------------------------------
(***************************************************************************)
(* modules/executions/service.ts (requestRollback) and                     *)
(* jobs/rollback.worker.ts on one executed intent.                         *)
(*                                                                         *)
(* Every request r creates a rollback_attempts row of its own and queues a *)
(* BullMQ message of its own for it; the messages are processed            *)
(* concurrently, and the worker never looks at the intent's status before  *)
(* it calls connector.rollback.                                            *)
(*                                                                         *)
(*   request: idle -> create -> transition -> update -> add -> done        *)
(*            queue error: revert -> transition -> update -> refused       *)
(*   worker:  idle -> start -> load -> undo -> complete -> transition      *)
(*              -> update -> receipt -> finish                             *)
(*            catch block: caught -> transition -> update -> throw         *)
(***************************************************************************)
EXTENDS IntentStore, FiniteSets

CONSTANTS
  Rollbacks,              \* POST /intents/:id/rollback requests
  RollbackSupport,        \* connectors.rollback_support of the intent's connector
  MaxRollbackAttempts,    \* `attempts` of the queue's default job options
  MaxRollbackStalls,      \* how often BullMQ recovers a stalled message
  MaxRequestsInFlight     \* bound on the requests that run at the same time

ASSUME RollbackAssumption ==
  /\ IsFiniteSet(Rollbacks)
  /\ RollbackSupport \in {"supported", "partial", "unsupported"}
  /\ MaxRollbackAttempts \in Nat \ {0}
  /\ MaxRollbackStalls \in Nat
  /\ MaxRequestsInFlight \in Nat

VARIABLES
  attempt,    \* attempt[r]: status of r's rollback_attempts row
  job,        \* job[r]: the BullMQ job of r
  askPc,      \* askPc[r]: the request handler
  undoPc,     \* undoPc[r]: the worker's run on job[r]
  asked,      \* asked[r]: the state the handler's transitionIntent call asks for
  undoGoal,   \* undoGoal[r]: the same for the worker
  undoCalls,  \* undoCalls[r]: connector.rollback calls made for r
  undone,     \* number of connector.rollback calls that succeeded
  missing     \* some worker found no usable connector

rollbackVars ==
  <<attempt, job, askPc, undoPc, asked, undoGoal, undoCalls, undone, missing>>
askVars == <<askPc, asked>>
undoVars == <<undoPc, undoGoal>>
undoEffects == <<undoCalls, undone, missing>>

AskEnded == {"done", "refused", "dead"}
AskPc == {"idle", "create", "transition", "update", "add", "revert"} \cup AskEnded
UndoPc == {"idle", "start", "load", "undo", "complete", "transition", "update",
           "receipt", "caught", "finish", "throw"}
RollbackJob ==
  [state : {"none", "waiting", "active", "completed", "failed"},
   attempts : Nat, stalls : Nat]

RollbackTypeOK ==
  /\ StoreTypeOK
  /\ attempt \in [Rollbacks -> {"none", "pending", "in_progress", "completed", "failed"}]
  /\ job \in [Rollbacks -> RollbackJob]
  /\ askPc \in [Rollbacks -> AskPc]
  /\ undoPc \in [Rollbacks -> UndoPc]
  /\ asked \in [Rollbacks -> {"rollback_pending", "rollback_failed"}]
  /\ undoGoal \in [Rollbacks -> {"rolled_back", "rollback_failed"}]
  /\ undoCalls \in [Rollbacks -> Nat]
  /\ undone \in Nat
  /\ missing \in BOOLEAN

RollbackInit ==
  /\ attempt = [r \in Rollbacks |-> "none"]
  /\ job = [r \in Rollbacks |-> [state |-> "none", attempts |-> 0, stalls |-> 0]]
  /\ askPc = [r \in Rollbacks |-> "idle"]
  /\ undoPc = [r \in Rollbacks |-> "idle"]
  /\ asked = [r \in Rollbacks |-> "rollback_pending"]
  /\ undoGoal = [r \in Rollbacks |-> "rolled_back"]
  /\ undoCalls = [r \in Rollbacks |-> 0]
  /\ undone = 0
  /\ missing = FALSE

-----------------------------------------------------------------------------
(* requestRollback                                                         *)

RunningAsks == {r \in Rollbacks : askPc[r] \notin AskEnded \cup {"idle"}}
AskGoes(r, to) == askPc' = [askPc EXCEPT ![r] = to]

\* Bug: every state the chart lets roll back is accepted, failed ones too.
RollbackReadByChart(r) ==
  /\ askPc[r] = "idle"
  /\ Cardinality(RunningAsks) < MaxRequestsInFlight
  /\ AskGoes(r, IF CanRollback(status) /\ RollbackSupport # "unsupported"
                  THEN "create" ELSE "refused")
  /\ UNCHANGED <<storeVars, attempt, job, asked, undoVars, undoEffects>>

RollbackRead(r) ==
  /\ askPc[r] = "idle"
  /\ Cardinality(RunningAsks) < MaxRequestsInFlight
  /\ AskGoes(r, IF /\ status \in {"succeeded", "rollback_failed"}
                   /\ RollbackSupport # "unsupported"
                  THEN "create" ELSE "refused")
  /\ UNCHANGED <<storeVars, attempt, job, asked, undoVars, undoEffects>>

\* Bug: the job is queued without moving the intent to rollback_pending.
RollbackCreateNoTransition(r) ==
  /\ askPc[r] = "create"
  /\ attempt' = [attempt EXCEPT ![r] = "pending"]
  /\ AskGoes(r, "add")
  /\ UNCHANGED <<storeVars, job, asked, undoVars, undoEffects>>

RollbackCreate(r) ==
  /\ askPc[r] = "create"
  /\ attempt' = [attempt EXCEPT ![r] = "pending"]
  /\ AskGoes(r, "transition")
  /\ UNCHANGED <<storeVars, job, asked, undoVars, undoEffects>>

AskTransition(r) ==
  /\ askPc[r] = "transition"
  /\ \/ TransitionAllowed(asked[r]) /\ AskGoes(r, "update")
     \/ TransitionRefused(asked[r]) /\ AskGoes(r, "refused")
  /\ UNCHANGED <<attempt, job, asked, undoVars, undoEffects>>

AskUpdate(r) ==
  /\ askPc[r] = "update"
  /\ ApplyTransition(asked[r])
  /\ AskGoes(r, IF asked[r] = "rollback_pending" THEN "add" ELSE "refused")
  /\ UNCHANGED <<attempt, job, asked, undoVars, undoEffects>>

\* Bug: the request answers without having queued the message.
RollbackAddSkipped(r) ==
  /\ askPc[r] = "add"
  /\ AskGoes(r, "done")
  /\ UNCHANGED <<storeVars, attempt, job, asked, undoVars, undoEffects>>

RollbackAdd(r) ==
  /\ askPc[r] = "add"
  /\ job' = [job EXCEPT ![r].state = "waiting"]
  /\ AskGoes(r, "done")
  /\ UNCHANGED <<storeVars, attempt, asked, undoVars, undoEffects>>

\* rollbackQueue.add throws; the message may have reached Redis all the same.
RollbackAddFails(r) ==
  /\ askPc[r] = "add"
  /\ Fault
  /\ \/ job' = [job EXCEPT ![r].state = "waiting"]
     \/ UNCHANGED job
  /\ AskGoes(r, "revert")
  /\ UNCHANGED <<attempt, asked, undoVars, undoEffects>>

RollbackRevert(r) ==
  /\ askPc[r] = "revert"
  /\ attempt' = [attempt EXCEPT ![r] = "failed"]
  /\ AskGoes(r, "transition")
  /\ asked' = [asked EXCEPT ![r] = "rollback_failed"]
  /\ UNCHANGED <<storeVars, job, undoVars, undoEffects>>

AskDies(r) ==
  /\ r \in RunningAsks
  /\ Fault
  /\ AskGoes(r, "dead")
  /\ UNCHANGED <<attempt, job, asked, undoVars, undoEffects>>

-----------------------------------------------------------------------------
(* processRollback                                                         *)

UndoGoes(r, to) == undoPc' = [undoPc EXCEPT ![r] = to]
UndoAsks(r, to) ==
  /\ UndoGoes(r, "transition")
  /\ undoGoal' = [undoGoal EXCEPT ![r] = to]

UndoDeliver(r) ==
  /\ job[r].state = "waiting" /\ undoPc[r] = "idle"
  /\ job' = [job EXCEPT ![r].state = "active"]
  /\ UndoGoes(r, "start")
  /\ UNCHANGED <<storeVars, attempt, askVars, undoGoal, undoEffects>>

UndoStart(r) ==
  /\ undoPc[r] = "start"
  /\ attempt' = [attempt EXCEPT ![r] = "in_progress"]
  /\ UndoGoes(r, "load")
  /\ UNCHANGED <<storeVars, job, askVars, undoGoal, undoEffects>>

\* The intent is read and the connector looked up, outside the try block: a
\* missing connector or rollback function leaves the handler.
UndoLoad(r) ==
  /\ undoPc[r] = "load"
  /\ \/ UndoGoes(r, "undo") /\ UNCHANGED missing
     \/ UndoGoes(r, "throw") /\ missing' = TRUE
  /\ UNCHANGED <<storeVars, attempt, job, askVars, undoGoal, undoCalls, undone>>

\* Bug: the connector's failure is not noticed.
UndoIgnoresError(r) ==
  /\ undoPc[r] = "undo"
  /\ undoCalls' = [undoCalls EXCEPT ![r] = @ + 1]
  /\ undone' \in {undone, undone + 1}
  /\ UndoGoes(r, "complete")
  /\ UNCHANGED <<storeVars, attempt, job, askVars, undoGoal, missing>>

\* connector.rollback; it reports failure by throwing.
Undo(r) ==
  /\ undoPc[r] = "undo"
  /\ undoCalls' = [undoCalls EXCEPT ![r] = @ + 1]
  /\ \/ undone' = undone + 1 /\ UndoGoes(r, "complete")
     \/ UNCHANGED undone /\ UndoGoes(r, "caught")
  /\ UNCHANGED <<storeVars, attempt, job, askVars, undoGoal, missing>>

UndoComplete(r) ==
  /\ undoPc[r] = "complete"
  /\ attempt' = [attempt EXCEPT ![r] = "completed"]
  /\ UndoAsks(r, "rolled_back")
  /\ UNCHANGED <<storeVars, job, askVars, undoEffects>>

\* An error on the way to rolled_back is caught, one in the catch block is not.
UndoErrorPath(r) == IF undoGoal[r] = "rolled_back" THEN "caught" ELSE "throw"

UndoTransition(r) ==
  /\ undoPc[r] = "transition"
  /\ \/ TransitionAllowed(undoGoal[r]) /\ UndoGoes(r, "update")
     \/ TransitionRefused(undoGoal[r]) /\ UndoGoes(r, UndoErrorPath(r))
  /\ UNCHANGED <<attempt, job, askVars, undoGoal, undoEffects>>

UndoUpdate(r) ==
  /\ undoPc[r] = "update"
  /\ ApplyTransition(undoGoal[r])
  /\ UndoGoes(r, IF undoGoal[r] = "rolled_back" THEN "receipt" ELSE "throw")
  /\ UNCHANGED <<attempt, job, askVars, undoGoal, undoEffects>>

\* The rollback receipt is written; receipts are not counted here.
UndoReceipt(r) ==
  /\ undoPc[r] = "receipt"
  /\ UndoGoes(r, "finish")
  /\ UNCHANGED <<storeVars, attempt, job, askVars, undoGoal, undoEffects>>

\* Bug: the final attempt is never recognised.
UndoCaughtNeverFinal(r) ==
  /\ undoPc[r] = "caught"
  /\ UndoGoes(r, "throw")
  /\ UNCHANGED <<storeVars, attempt, job, askVars, undoGoal, undoEffects>>

\* Bug: the attempt before the last is taken for the last.
UndoCaughtEarly(r) ==
  /\ undoPc[r] = "caught"
  /\ \/ /\ job[r].attempts + 2 >= MaxRollbackAttempts
        /\ attempt' = [attempt EXCEPT ![r] = "failed"]
        /\ UndoAsks(r, "rollback_failed")
     \/ /\ job[r].attempts + 2 < MaxRollbackAttempts
        /\ UndoGoes(r, "throw")
        /\ UNCHANGED <<attempt, undoGoal>>
  /\ UNCHANGED <<storeVars, job, askVars, undoEffects>>

\* The catch block: only the final attempt marks the failure.
UndoCaught(r) ==
  /\ undoPc[r] = "caught"
  /\ \/ /\ job[r].attempts + 1 >= MaxRollbackAttempts
        /\ attempt' = [attempt EXCEPT ![r] = "failed"]
        /\ UndoAsks(r, "rollback_failed")
     \/ /\ job[r].attempts + 1 < MaxRollbackAttempts
        /\ UndoGoes(r, "throw")
        /\ UNCHANGED <<attempt, undoGoal>>
  /\ UNCHANGED <<storeVars, job, askVars, undoEffects>>

UndoFinish(r) ==
  /\ undoPc[r] = "finish"
  /\ job' = [job EXCEPT ![r].state = "completed"]
  /\ UndoGoes(r, "idle")
  /\ UNCHANGED <<storeVars, attempt, askVars, undoGoal, undoEffects>>

UndoThrow(r) ==
  /\ undoPc[r] = "throw"
  /\ job' = [job EXCEPT
       ![r].attempts = @ + 1,
       ![r].state = IF job[r].attempts + 1 < MaxRollbackAttempts
                      THEN "waiting" ELSE "failed"]
  /\ UndoGoes(r, "idle")
  /\ UNCHANGED <<storeVars, attempt, askVars, undoGoal, undoEffects>>

UndoFault(r) ==
  /\ undoPc[r] \in {"start", "load", "complete", "transition", "update", "receipt", "caught"}
  /\ Fault
  /\ UndoGoes(r, CASE undoPc[r] \in {"complete", "receipt"} -> "caught"
                   [] undoPc[r] \in {"transition", "update"} -> UndoErrorPath(r)
                   [] OTHER -> "throw")
  /\ UNCHANGED <<attempt, job, askVars, undoGoal, undoEffects>>

UndoCrash(r) ==
  /\ undoPc[r] # "idle"
  /\ Fault
  /\ job' = IF job[r].stalls < MaxRollbackStalls
              THEN [job EXCEPT ![r].state = "waiting", ![r].stalls = @ + 1]
              ELSE [job EXCEPT ![r].state = "failed"]
  /\ UndoGoes(r, "idle")
  /\ UNCHANGED <<attempt, askVars, undoGoal, undoEffects>>

-----------------------------------------------------------------------------
AskStep(r) ==
  \/ RollbackCreate(r) \/ AskTransition(r) \/ AskUpdate(r) \/ RollbackAdd(r)
  \/ RollbackRevert(r)

UndoStep(r) ==
  \/ UndoDeliver(r) \/ UndoStart(r) \/ UndoLoad(r) \/ Undo(r) \/ UndoComplete(r)
  \/ UndoTransition(r) \/ UndoUpdate(r) \/ UndoReceipt(r) \/ UndoCaught(r)
  \/ UndoFinish(r) \/ UndoThrow(r)

RollbackNext ==
  \E r \in Rollbacks :
    \/ RollbackRead(r) \/ AskStep(r) \/ RollbackAddFails(r) \/ AskDies(r)
    \/ UndoStep(r) \/ UndoFault(r) \/ UndoCrash(r)

\* On its own, the component starts with an executed intent.
SucceededStart == StoreInit("succeeded") /\ RollbackInit

RollbackSpec ==
  /\ SucceededStart
  /\ [][RollbackNext]_<<storeVars, rollbackVars>>

\* Accepted requests run to their end and BullMQ keeps delivering.
RollbackFairSpec ==
  /\ RollbackSpec
  /\ \A r \in Rollbacks :
       /\ WF_<<storeVars, rollbackVars>>(AskStep(r))
       /\ WF_<<storeVars, rollbackVars>>(UndoStep(r))

-----------------------------------------------------------------------------
(* Properties                                                              *)

\* An intent is reported rolled back only after some connector.rollback call
\* succeeded, whatever raced, failed or was retried.
RolledBackIsReal == status = "rolled_back" => undone > 0

\* The intent's status is read before it is written, so two requests that
\* overlap may both be accepted.
OneAtATime == MaxRequestsInFlight = 1

\* "The intent moves to rolled_back on success or rollback_failed on terminal
\* failure": when every job has left the queue, without faults and with a usable
\* connector, the intent and its attempt rows say which of the two it was.  That
\* takes requests one at a time.
JobsDone == \A r \in Rollbacks : job[r].state \in {"none", "completed", "failed"}
RollbackOutcomeIsTold ==
  OneAtATime /\ JobsDone /\ RunningAsks = {} /\ faults = 0 /\ ~missing =>
    /\ undone > 0 => status = "rolled_back"
    /\ undone = 0 => status \in {"succeeded", "rollback_failed"}
    /\ \A r \in Rollbacks :
         /\ job[r].state = "completed" => attempt[r] = "completed"
         /\ job[r].state = "failed" => attempt[r] = "failed"

\* An accepted rollback settles, unless a fault or a missing connector gets in
\* the way.
AcceptedRollbackSettles ==
  \A r \in Rollbacks :
    askPc[r] = "done" ~>
      (status \in {"rolled_back", "rollback_failed"} \/ faults > 0 \/ missing)
=============================================================================
