----------------------------- MODULE Governance -----------------------------
(***************************************************************************)
(* One intent from draft to rollback: the request handlers of the API and  *)
(* the two workers, all sharing the intents row and nothing else but the   *)
(* rows and messages of their own components.                              *)
(***************************************************************************)
EXTENDS Intake, Approvals, Execution, Rollback

vars == <<storeVars, intakeVars, approvalVars, executionVars, rollbackVars>>

Init ==
  /\ StoreInit("draft")
  /\ IntakeInit
  /\ ApprovalsInit
  /\ ExecutionInit
  /\ RollbackInit

Intaking == IntakeNext /\ UNCHANGED <<approvalVars, executionVars, rollbackVars>>
Approving == ApprovalsNext /\ UNCHANGED <<intakeVars, executionVars, rollbackVars>>
Executing == ExecutionNext /\ UNCHANGED <<intakeVars, approvalVars, rollbackVars>>
RollingBack == RollbackNext /\ UNCHANGED <<intakeVars, approvalVars, executionVars>>

Next == Intaking \/ Approving \/ Executing \/ RollingBack

Spec == Init /\ [][Next]_vars

TypeOK == IntakeTypeOK /\ ApprovalsTypeOK /\ ExecutionTypeOK /\ RollbackTypeOK

-----------------------------------------------------------------------------
(* Evidence: what the rows, messages and program counters imply about what  *)
(* has happened.  History only grows (decisions are never deleted, a call   *)
(* of the connector is never taken back), so a fact that a handler read     *)
(* before an await still holds when it acts on it, even where the status it *)
(* read does not.                                                          *)

\* Requests that created the execution_jobs row and are still running.
RowOwners == {q \in Executes : queuePc[q] \in {"transition", "update", "add", "track"}}

\* While some stage lacks approvals nothing acts on an approved intent: no
\* row, review, execution request or job does.
NotYetApproved ==
  /\ status \in {"draft", "proposed", "simulated", "pending_approval", "rejected"}
  /\ request.status # "approved"
  /\ \A r \in Reviews :
       reviewPc[r] \in {"transition", "update"} => decisions[r].verdict = "rejected"
  /\ \A q \in Executes : queuePc[q] \in {"idle", "done", "refused", "dead"}
  /\ jobRow = "none"

ApprovalEvidence == AllSatisfied \/ NotYetApproved

\* Stages are opened in order: by the row, by what a review read of it, and by
\* the decision recorded on that.
StageEvidence ==
  /\ \A k \in Stages : k < request.stage => Satisfied(k)
  /\ \A r \in Reviews :
       /\ snapshot[r].seen \subseteq Decided
       /\ reviewPc[r] \in {"idle", "dedupe", "record"} => r \notin Decided
       /\ \A k \in Stages :
            k < snapshot[r].stage \/ k < decisions[r].stage => Satisfied(k)
       /\ reviewPc[r] \in {"row", "transition", "update"} =>
            decisions[r].stage = snapshot[r].stage

\* One request creates the row; until it has queued the intent and added the
\* message nothing is delivered; and a delivery that got past the write of
\* "executing" leaves no way back to "queued".
Spent == executions > 0 \/ workerPc \in {"load", "execute"}
ExecutionEvidence ==
  /\ \A q1, q2 \in RowOwners : q1 = q2
  /\ RowOwners # {} \/ message.state # "none" => jobRow # "none"
  /\ message.state # "none" =>
       \A q \in RowOwners : queuePc[q] = "track"
  /\ message.state = "none" => workerPc = "idle" /\ executions = 0
  /\ Spent => status # "queued"
  /\ workerPc = "update" /\ goal = "executing" => executions = 0
  /\ workerPc \in {"load", "execute"} => executions = 0
  /\ executions = 0 => outcome \in {"none", "unavailable"}
  /\ executions > 0 => executions = 1 /\ outcome \in {"ok", "error"}

\* The states after a successful execution are reached on a connector's word.
OutcomeEvidence ==
  /\ status \in {"succeeded", "rollback_pending", "rolled_back", "rollback_failed"}
       => outcome = "ok"
  /\ workerPc \in {"complete", "receipt"} => outcome = "ok"
  /\ workerPc \in {"transition", "update"} /\ goal = "succeeded" => outcome = "ok"
  /\ \A r \in Rollbacks :
       askPc[r] \notin {"idle", "refused"} \/ job[r].state # "none"
         \/ undoPc[r] # "idle" => outcome = "ok"
  /\ status = "rolled_back" => undone > 0
  /\ \A r \in Rollbacks :
       undoPc[r] \in {"complete", "receipt"}
         \/ (undoPc[r] \in {"transition", "update"} /\ undoGoal[r] = "rolled_back")
         => undone > 0
  /\ undone > 0 => outcome = "ok"

\* The inductive invariant from which the promise follows.
Evidence ==
  TypeOK /\ ApprovalEvidence /\ StageEvidence /\ ExecutionEvidence /\ OutcomeEvidence

-----------------------------------------------------------------------------
(* The promise                                                             *)

Shown ==
  CASE status \in {"approved", "queued", "executing"} -> "approved"
    [] status = "succeeded" -> "succeeded"
    [] status = "rolled_back" -> "rolled_back"
    [] OTHER -> "nothing"

Promise == INSTANCE GovernedAction WITH
  approved <- AllSatisfied,
  runs <- executions,
  result <- IF executions = 0 THEN "none" ELSE outcome,
  undone <- undone > 0,
  shown <- Shown

\* The whole system implements the promise: no interleaving of requests and
\* workers, stale write, error, crash or redelivery runs an intent without its
\* approvals or twice, undoes what did not happen, or shows a state that has
\* not been earned.
KeepsPromise == Promise!PromiseSpec

\* "Any rejection rejects the entire request" (approvals/routes.ts) and rejected
\* is "terminal" (state-machine.ts): the connector is not called once a review
\* has finished rejecting the intent.
RejectedNeverRuns ==
  [][(\E r \in Reviews :
        reviewPc[r] = "done" /\ decisions[r].verdict = "rejected")
      => executions' = executions]_vars
=============================================================================
