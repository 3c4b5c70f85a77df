-------------------------- MODULE ConnectedRollback --------------------------
(***************************************************************************)
(* Rollback with the connectors: one intent that was validated, simulated  *)
(* and executed, and what its rollbacks do to the remote system.  Every    *)
(* registered connector has a rollback function, so what a worker may miss *)
(* is only a configuration it can decrypt.                                 *)
(***************************************************************************)
EXTENDS Rollback, Connectors

vars == <<storeVars, rollbackVars, connectorVars>>

\* As ConnectedExecution leaves a succeeded intent.
ConnectedInit ==
  /\ SucceededStart
  /\ ask \in {a \in Asks : Validated(a)}
  /\ rotated \in BOOLEAN
  /\ \E read \in BOOLEAN : result = Result(ask, read)
  /\ remote = "done"
  /\ lost = 0
  /\ hits = 0

Asking(r) ==
  /\ RollbackRead(r) \/ AskStep(r) \/ RollbackAddFails(r) \/ AskDies(r)
  /\ UNCHANGED connectorVars

\* The worker's steps; the receipt of the execution is there.
Undoing(r) ==
  /\ UndoStep(r)
  /\ undoPc[r] = "load" => (undoPc'[r] = "undo") = Opens(ask)
  /\ IF undoPc[r] = "undo"
       THEN UndoesIt(ExecutionContext(TRUE), undone' > undone)
       ELSE UNCHANGED worldVars
  /\ UNCHANGED <<ask, rotated, result>>

\* A worker that is lost while it waits may have been heard.
UndoLost(r) ==
  /\ UndoCrash(r)
  /\ \/ undoPc[r] = "undo" /\ Undoes(ask, ExecutionContext(TRUE)) /\ RemoteUndoes /\ Undone
     \/ UNCHANGED <<remote, hits>>
  /\ UNCHANGED <<ask, rotated, result, lost>>

UndoFails(r) == UndoFault(r) /\ UNCHANGED connectorVars

ConnectedNext ==
  \E r \in Rollbacks : Asking(r) \/ Undoing(r) \/ UndoLost(r) \/ UndoFails(r)

\* Accepted requests run to their end and BullMQ keeps delivering.
ConnectedSpec ==
  /\ ConnectedInit
  /\ [][ConnectedNext]_vars
  /\ \A r \in Rollbacks :
       /\ WF_vars(AskStep(r) /\ UNCHANGED connectorVars)
       /\ WF_vars(Undoing(r))

-----------------------------------------------------------------------------
(* Properties                                                              *)

\* An intent is reported rolled back only if the remote system was restored.
RolledBackIsRestored == status = "rolled_back" => remote = "undone"

\* What the simulation says of the reversibility is what the rollback does:
\* "none" is never undone or called so, whatever overlaps, and "full", with
\* requests one at a time, never fails but by a fault.
ReversibilityIsHonest ==
  /\ Reversibility(ask) = "none" => remote = "done" /\ status # "rolled_back"
  /\ OneAtATime /\ Reversibility(ask) = "full" /\ status = "rollback_failed" => faults > 0

\* With requests one at a time a rollback that is reported failed has left the
\* side effect in place, unless an answer got lost on the way; so the operator
\* can ask for another.
FailedRollbackLeftIt ==
  OneAtATime /\ status = "rollback_failed" /\ faults = 0 /\ lost = 0 => remote = "done"

\* With requests one at a time the remote system is asked to undo the same thing
\* again only after an answer or a worker was lost, or a row could not be written.
NotUndoneAgain == OneAtATime /\ hits > 1 => faults > 0 \/ lost > 0
=============================================================================
