------------------------- MODULE ConnectedExecution -------------------------
(***************************************************************************)
(* Execution with the connectors: one approved intent, which its           *)
(* connector has validated, and what becomes of it in the remote system.   *)
(***************************************************************************)
EXTENDS Execution, Connectors

vars == <<storeVars, executionVars, connectorVars>>

ConnectedInit ==
  /\ ApprovedStart
  /\ ask \in {a \in Asks : Validated(a)}
  /\ rotated \in BOOLEAN
  /\ result = Nothing
  /\ remote = "before"
  /\ lost = 0
  /\ hits = 0

Queueing(q) == QueueStep(q) /\ UNCHANGED connectorVars

\* Bug: the row is completed without the connector's data.
RecordsNoResult == UNCHANGED result

\* The update that completes the row writes the connector's data into it.  The
\* connector is called once, so an answer that was lost is the one to that call.
RecordsResult == result' = IF workerPc = "complete" THEN Result(ask, lost = 0) ELSE result

Working ==
  /\ WorkerStep
  /\ workerPc = "load" => (workerPc' = "execute") = Opens(ask)
  /\ IF workerPc = "execute" THEN DoesIt(outcome' = "ok") ELSE UNCHANGED worldVars
  /\ RecordsResult
  /\ UNCHANGED <<ask, rotated>>

\* A worker that is lost while it waits may have been heard.
WorkerLost ==
  /\ WorkerCrash
  /\ remote' \in {remote, IF workerPc = "execute" THEN "done" ELSE remote}
  /\ UNCHANGED <<ask, rotated, result, lost, hits>>

ConnectedNext ==
  \/ \E q \in Executes : (QueueRead(q) \/ QueueDies(q)) /\ UNCHANGED connectorVars
  \/ \E q \in Executes : Queueing(q)
  \/ Working \/ WorkerLost
  \/ WorkerFault /\ UNCHANGED connectorVars

\* As ExecutionFairness: accepted requests run to their end and BullMQ keeps
\* delivering to a worker that keeps running.
ConnectedSpec ==
  /\ ConnectedInit
  /\ [][ConnectedNext]_vars
  /\ \A q \in Executes : WF_vars(Queueing(q))
  /\ WF_vars(Working)

-----------------------------------------------------------------------------
(* Properties                                                              *)

\* A succeeded intent has had its effect, and what a rollback will need of it
\* is on record, if the simulation promised one, unless it was GitHub that did
\* it and the answer could not be read: then nothing tells what to undo.
SucceededCanBeUndone ==
  status = "succeeded" =>
    /\ remote = "done"
    /\ \/ Reversibility(ask) = "none"
       \/ Undoes(ask, ExecutionContext(receipts > 0))
       \/ ask.type = "github" /\ lost > 0

\* A failed intent, which nothing will roll back, has had no effect, unless an
\* answer got lost or a row could not be written.
FailedLeftNothing ==
  status = "failed" /\ faults = 0 /\ lost = 0 => remote = "before"
=============================================================================
