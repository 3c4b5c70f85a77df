-------------------------- MODULE GovernanceProofs --------------------------
(***************************************************************************)
(* Theorems about Governance, for every value of the constants: type       *)
(* correctness, the evidence invariant and the safety properties that      *)
(* follow from it, and that the system keeps the GovernedAction promise.   *)
(*                                                                         *)
(* The last part is about Approvals alone: that a rejection is final if    *)
(* requests come one at a time, and that an intent waits for approval only *)
(* if its request is on record, which holds of the composed system too.    *)
(***************************************************************************)
EXTENDS Governance, FiniteSetTheorems, TLAPS

-----------------------------------------------------------------------------
(* Type correctness                                                        *)

LEMMA TransitionsTyped ==
  ASSUME NEW from, NEW to, IsValidTransition(from, to)
  PROVE  from \in IntentState /\ to \in IntentState
BY DEF IsValidTransition, StateTransitions, IntentState

\* Every component starts well typed.
LEMMA InitTyped == Init => TypeOK
<1> SUFFICES ASSUME Init PROVE TypeOK
  OBVIOUS
<1> USE DEF Init, StoreInit
<1>1. StoreTypeOK
  BY MaxFaultsAssumption DEF StoreTypeOK, IntentState
<1>2. IntakeTypeOK
  BY <1>1 DEF IntakeTypeOK, IntakeInit
<1>3. ApprovalsTypeOK
  BY <1>1, ApprovalsAssumption
  DEF ApprovalsTypeOK, ApprovalsInit, Request, Decision, NoDecision, Snapshot,
      PolicyResult, SubmitPc, ReviewPc, Stages, Verdict
<1>4. ExecutionTypeOK
  BY <1>1, ExecutionAssumption
  DEF ExecutionTypeOK, ExecutionInit, JobRow, Message, QueuePc, WorkerPc, Outcome
<1>5. RollbackTypeOK
  <2>1. job \in [Rollbacks -> RollbackJob]
    BY RollbackAssumption DEF RollbackInit, RollbackJob
  <2>2. missing \in BOOLEAN
    BY DEF RollbackInit
  <2> QED
    BY <1>1, <2>1, <2>2 DEF RollbackTypeOK, RollbackInit, AskPc, UndoPc
<1> QED
  BY <1>2, <1>3, <1>4, <1>5 DEF TypeOK

\* The shared row stays well typed through each of transitionIntent's steps.
LEMMA StoreSteps ==
  ASSUME StoreTypeOK
  PROVE  /\ \A to : TransitionAllowed(to) => StoreTypeOK' /\ to \in IntentState
         /\ \A to : TransitionRefused(to) => StoreTypeOK'
         /\ \A to \in IntentState : ApplyTransition(to) => StoreTypeOK'
         /\ Fault => StoreTypeOK'
         /\ UNCHANGED storeVars => StoreTypeOK'
BY TransitionsTyped, MaxFaultsAssumption
DEF StoreTypeOK, TransitionAllowed, TransitionRefused, ApplyTransition, Fault, storeVars

LEMMA IntakeTyped ==
  ASSUME IntakeTypeOK, IntakeNext
  PROVE  IntakeTypeOK'
<1> USE StoreSteps DEF IntakeTypeOK, ProposeGoes, SimulateGoes, IntentState
<1>1. ASSUME NEW p \in Proposes, ProposeStep(p)
      PROVE  IntakeTypeOK'
  BY <1>1 DEF ProposeStep, ProposeTransition, ProposeUpdate, ProposeDies
<1>2. ASSUME NEW m \in Simulates, SimulateStep(m)
      PROVE  IntakeTypeOK'
  BY <1>2 DEF SimulateStep, SimulateRead, SimulateConnector, SimulateCreate,
              SimulateTransition, SimulateUpdate, SimulateDies
<1> QED
  BY <1>1, <1>2 DEF IntakeNext

\* What a review counts is a finite set, so the row it computes is well typed.
LEMMA RowTyped ==
  ASSUME ApprovalsTypeOK, NEW r \in Reviews
  PROVE  /\ Counted(r) \subseteq Reviews
         /\ IsFiniteSet(Counted(r))
         /\ Cardinality(Counted(r)) \in Nat
         /\ RowAfterApproval(r) \in Request
<1>1. Counted(r) \subseteq Reviews
  BY DEF ApprovalsTypeOK, Counted, Snapshot
<1>2. IsFiniteSet(Counted(r)) /\ Cardinality(Counted(r)) \in Nat
  BY <1>1, ApprovalsAssumption, FS_Subset, FS_CardinalityType
<1>3. snapshot[r].stage \in Stages
  BY DEF ApprovalsTypeOK, Snapshot
<1>4. ~(snapshot[r].stage >= LastStage) => snapshot[r].stage + 1 \in Stages
  BY <1>3, ApprovalsAssumption DEF Stages
<1> DEFINE row == RowAfterApproval(r)
<1>5. row.stage \in Stages /\ row.status \in {"pending", "approved"}
  BY <1>3, <1>4 DEF RowAfterApproval
<1>6. RowAfterApproval(r) \in Request
  BY <1>2, <1>5 DEF RowAfterApproval, Request
<1> QED
  BY <1>1, <1>2, <1>6

LEMMA ApprovalsTyped ==
  ASSUME ApprovalsTypeOK, ApprovalsNext
  PROVE  ApprovalsTypeOK'
<1> USE StoreSteps DEF IntentState
<1>1. ASSUME NEW s \in Submits, SubmitStep(s)
      PROVE  ApprovalsTypeOK'
  <2> USE DEF ApprovalsTypeOK, SubmitPc, Ended
  <2>1. CASE SubmitRead(s)
    BY <2>1 DEF SubmitRead
  <2>2. CASE SubmitEvaluate(s)
    BY <2>2 DEF SubmitEvaluate, PolicyResult
  <2>3. CASE SubmitCreate(s)
    <3>1. [status |-> "pending", stage |-> 0, count |-> 0] \in Request
      BY ApprovalsAssumption DEF Request, Stages
    <3> QED
      BY <2>3, <3>1 DEF SubmitCreate
  <2>4. CASE SubmitTransition(s)
    BY <2>4 DEF SubmitTransition
  <2>5. CASE SubmitUpdate(s)
    BY <2>5 DEF SubmitUpdate, SubmitTarget
  <2>6. CASE SubmitDies(s)
    BY <2>6 DEF SubmitDies
  <2> QED
    BY <1>1, <2>1, <2>2, <2>3, <2>4, <2>5, <2>6 DEF SubmitStep
<1>2. ASSUME NEW r \in Reviews, ReviewStep(r)
      PROVE  ApprovalsTypeOK'
  <2> USE DEF ApprovalsTypeOK, ReviewPc, Ended
  <2>1. CASE ReviewRead(r)
    <3>1. [stage |-> request.stage, count |-> request.count, seen |-> Decided] \in Snapshot
      BY DEF Snapshot, Request, Decided
    <3> QED
      BY <2>1, <3>1 DEF ReviewRead
  <2>2. CASE ReviewDedupe(r)
    BY <2>2 DEF ReviewDedupe
  <2>3. CASE ReviewRecord(r)
    <3>1. \A v \in Verdict : [verdict |-> v, stage |-> snapshot[r].stage] \in Decision
      BY DEF Decision, Snapshot
    <3> QED
      BY <2>3, <3>1 DEF ReviewRecord
  <2>4. CASE ReviewReject(r)
    <3>1. [request EXCEPT !.status = "rejected", !.count = snapshot[r].count] \in Request
      BY DEF Request, Snapshot
    <3> QED
      BY <2>4, <3>1 DEF ReviewReject
  <2>5. CASE ReviewApprove(r)
    BY <2>5, RowTyped DEF ReviewApprove
  <2>6. CASE ReviewTransition(r)
    BY <2>6 DEF ReviewTransition
  <2>7. CASE ReviewUpdate(r)
    BY <2>7 DEF ReviewUpdate, Verdict
  <2>8. CASE ReviewDies(r)
    BY <2>8 DEF ReviewDies
  <2> QED
    BY <1>2, <2>1, <2>2, <2>3, <2>4, <2>5, <2>6, <2>7, <2>8 DEF ReviewStep
<1> QED
  BY <1>1, <1>2 DEF ApprovalsNext

\* The updates BullMQ makes to a job when a delivery fails or stalls.
LEMMA JobUpdated ==
  ASSUME NEW m \in Message, NEW s \in {"waiting", "failed"}, NEW n \in Nat
  PROVE  /\ [m EXCEPT !.state = s] \in Message
         /\ [m EXCEPT !.attempts = n, !.state = s] \in Message
         /\ [m EXCEPT !.state = s, !.stalls = n] \in Message
         /\ m.attempts + 1 \in Nat /\ m.stalls + 1 \in Nat
<1>1. m.attempts + 1 \in Nat /\ m.stalls + 1 \in Nat
  BY DEF Message
<1>2. [m EXCEPT !.state = s] \in Message
  BY DEF Message
<1>3. [m EXCEPT !.attempts = n, !.state = s] \in Message
  BY DEF Message
<1>4. [m EXCEPT !.state = s, !.stalls = n] \in Message
  BY DEF Message
<1> QED
  BY <1>1, <1>2, <1>3, <1>4

LEMMA ExecutionTyped ==
  ASSUME ExecutionTypeOK, ExecutionNext
  PROVE  ExecutionTypeOK'
<1> USE StoreSteps, ExecutionAssumption DEF ExecutionTypeOK
<1>1. ASSUME NEW q \in Executes, QueueRead(q) \/ QueueStep(q) \/ QueueDies(q)
      PROVE  ExecutionTypeOK'
  <2> USE DEF QueuePc, QueueGoes, workerVars, effectVars
  <2>1. CASE QueueRead(q) \/ QueueFind(q) \/ QueueCreate(q)
    BY <2>1 DEF QueueRead, QueueFind, QueueCreate, JobRow
  <2>2. CASE QueueTransition(q) \/ QueueUpdate(q)
    BY <2>2 DEF QueueTransition, QueueUpdate, IntentState
  <2>3. CASE QueueAdd(q)
    BY <2>3 DEF QueueAdd, Message
  <2>4. CASE QueueTrack(q) \/ QueueDies(q)
    BY <2>4 DEF QueueTrack, QueueDies
  <2> QED
    BY <1>1, <2>1, <2>2, <2>3, <2>4 DEF QueueStep
<1>2. ASSUME WorkerStep \/ WorkerFault \/ WorkerCrash
      PROVE  ExecutionTypeOK'
  <2> USE DEF WorkerPc, WorkerGoes, WorkerAsks, ErrorPath, effectVars
  <2>1. CASE Deliver \/ WorkerFinish
    BY <2>1 DEF Deliver, WorkerFinish, Message
  <2>2. CASE WorkerStart \/ WorkerComplete \/ WorkerFail
    BY <2>2 DEF WorkerStart, WorkerComplete, WorkerFail, JobRow
  <2>3. CASE WorkerTransition \/ WorkerUpdate
    BY <2>3 DEF WorkerTransition, WorkerUpdate, IntentState
  <2>4. CASE WorkerLoad \/ WorkerExecute \/ WorkerReceipt
    BY <2>4 DEF WorkerLoad, WorkerExecute, WorkerReceipt, Outcome
  <2>5. CASE WorkerThrow
    <3>1. message' \in Message
      BY <2>5, JobUpdated DEF WorkerThrow
    <3> QED
      BY <2>5, <3>1 DEF WorkerThrow
  <2>6. CASE WorkerFault
    BY <2>6 DEF WorkerFault
  <2>7. CASE WorkerCrash
    <3>1. message' \in Message
      BY <2>7, JobUpdated DEF WorkerCrash
    <3> QED
      BY <2>7, <3>1 DEF WorkerCrash
  <2> QED
    BY <1>2, <2>1, <2>2, <2>3, <2>4, <2>5, <2>6, <2>7 DEF WorkerStep
<1> QED
  BY <1>1, <1>2 DEF ExecutionNext

LEMMA RollbackJobMoved ==
  ASSUME NEW jobs \in [Rollbacks -> RollbackJob], NEW r \in Rollbacks,
         NEW s \in {"waiting", "active", "completed", "failed"}
  PROVE  [jobs EXCEPT ![r].state = s] \in [Rollbacks -> RollbackJob]
BY DEF RollbackJob

LEMMA RollbackJobCounted ==
  ASSUME NEW jobs \in [Rollbacks -> RollbackJob], NEW r \in Rollbacks,
         NEW s \in {"waiting", "failed"}
  PROVE  /\ [jobs EXCEPT ![r].attempts = jobs[r].attempts + 1, ![r].state = s]
              \in [Rollbacks -> RollbackJob]
         /\ [jobs EXCEPT ![r].state = s, ![r].stalls = jobs[r].stalls + 1]
              \in [Rollbacks -> RollbackJob]
<1>1. jobs[r].attempts + 1 \in Nat /\ jobs[r].stalls + 1 \in Nat
  BY DEF RollbackJob
<1>2. ASSUME NEW n \in Nat
      PROVE  [jobs EXCEPT ![r].attempts = n, ![r].state = s] \in [Rollbacks -> RollbackJob]
  BY DEF RollbackJob
<1>3. ASSUME NEW n \in Nat
      PROVE  [jobs EXCEPT ![r].state = s, ![r].stalls = n] \in [Rollbacks -> RollbackJob]
  BY DEF RollbackJob
<1> QED
  BY <1>1, <1>2, <1>3

LEMMA RollbackTyped ==
  ASSUME RollbackTypeOK, RollbackNext
  PROVE  RollbackTypeOK'
<1> USE StoreSteps, RollbackAssumption DEF RollbackTypeOK
<1> SUFFICES ASSUME NEW r \in Rollbacks,
                    \/ RollbackRead(r) \/ AskStep(r) \/ RollbackAddFails(r) \/ AskDies(r)
                    \/ UndoStep(r) \/ UndoFault(r) \/ UndoCrash(r)
             PROVE  RollbackTypeOK'
  BY DEF RollbackNext
<1>1. CASE RollbackRead(r) \/ AskStep(r) \/ RollbackAddFails(r) \/ AskDies(r)
  <2> USE DEF AskPc, AskEnded, AskGoes, undoVars, undoEffects
  <2>1. CASE RollbackRead(r) \/ RollbackCreate(r) \/ RollbackRevert(r)
    BY <2>1 DEF RollbackRead, RollbackCreate, RollbackRevert
  <2>2. CASE AskTransition(r) \/ AskUpdate(r) \/ AskDies(r)
    BY <2>2 DEF AskTransition, AskUpdate, AskDies, IntentState
  <2>3. CASE RollbackAdd(r) \/ RollbackAddFails(r)
    <3>1. [job EXCEPT ![r].state = "waiting"] \in [Rollbacks -> RollbackJob]
      BY RollbackJobMoved
    <3> QED
      BY <2>3, <3>1 DEF RollbackAdd, RollbackAddFails
  <2> QED
    BY <1>1, <2>1, <2>2, <2>3 DEF AskStep
<1>2. CASE UndoStep(r) \/ UndoFault(r) \/ UndoCrash(r)
  <2> USE DEF UndoPc, UndoGoes, UndoAsks, UndoErrorPath, askVars, undoEffects
  <2>1. CASE UndoDeliver(r) \/ UndoFinish(r) \/ UndoThrow(r) \/ UndoCrash(r)
    <3>1. job' \in [Rollbacks -> RollbackJob]
      <4>1. CASE UndoDeliver(r) \/ UndoFinish(r)
        <5>1. [job EXCEPT ![r].state = "active"] \in [Rollbacks -> RollbackJob]
          BY RollbackJobMoved
        <5>2. [job EXCEPT ![r].state = "completed"] \in [Rollbacks -> RollbackJob]
          BY RollbackJobMoved
        <5> QED
          BY <4>1, <5>1, <5>2 DEF UndoDeliver, UndoFinish
      <4>2. CASE UndoThrow(r)
        BY <4>2, RollbackJobCounted DEF UndoThrow
      <4>3. CASE UndoCrash(r)
        BY <4>3, RollbackJobMoved, RollbackJobCounted DEF UndoCrash
      <4> QED
        BY <2>1, <4>1, <4>2, <4>3
    <3> QED
      BY <2>1, <3>1 DEF UndoDeliver, UndoFinish, UndoThrow, UndoCrash
  <2>2. CASE UndoStart(r) \/ UndoComplete(r) \/ UndoCaught(r)
    BY <2>2 DEF UndoStart, UndoComplete, UndoCaught
  <2>3. CASE UndoLoad(r)
    <3>1. missing' \in BOOLEAN
      BY <2>3 DEF UndoLoad
    <3>2. undoPc' \in [Rollbacks -> UndoPc]
      BY <2>3 DEF UndoLoad
    <3>3. /\ attempt' \in [Rollbacks -> {"none", "pending", "in_progress",
                                        "completed", "failed"}]
          /\ job' \in [Rollbacks -> RollbackJob]
          /\ askPc' \in [Rollbacks -> AskPc]
          /\ asked' \in [Rollbacks -> {"rollback_pending", "rollback_failed"}]
          /\ undoGoal' \in [Rollbacks -> {"rolled_back", "rollback_failed"}]
          /\ undoCalls' \in [Rollbacks -> Nat]
          /\ undone' \in Nat
          /\ StoreTypeOK'
      BY <2>3 DEF UndoLoad
    <3> QED
      BY ONLY <3>1, <3>2, <3>3 DEF RollbackTypeOK, UndoPc
  <2>4. CASE Undo(r) \/ UndoReceipt(r) \/ UndoFault(r)
    BY <2>4 DEF Undo, UndoReceipt, UndoFault
  <2>5. CASE UndoTransition(r) \/ UndoUpdate(r)
    BY <2>5 DEF UndoTransition, UndoUpdate, IntentState
  <2> QED
    BY <1>2, <2>1, <2>2, <2>3, <2>4, <2>5 DEF UndoStep
<1> QED
  BY <1>1, <1>2

\* A component whose variables a step leaves alone stays well typed if the
\* shared row does.
LEMMA FrameTyped ==
  ASSUME TypeOK, StoreTypeOK'
  PROVE  /\ UNCHANGED intakeVars => IntakeTypeOK'
         /\ UNCHANGED approvalVars => ApprovalsTypeOK'
         /\ UNCHANGED executionVars => ExecutionTypeOK'
         /\ UNCHANGED rollbackVars => RollbackTypeOK'
<1>1. UNCHANGED intakeVars => IntakeTypeOK'
  BY DEF TypeOK, IntakeTypeOK, intakeVars
<1>2. UNCHANGED approvalVars => ApprovalsTypeOK'
  BY DEF TypeOK, ApprovalsTypeOK, approvalVars
<1>3. UNCHANGED executionVars => ExecutionTypeOK'
  BY DEF TypeOK, ExecutionTypeOK, executionVars
<1>4. UNCHANGED rollbackVars => RollbackTypeOK'
  BY DEF TypeOK, RollbackTypeOK, rollbackVars
<1> QED
  BY <1>1, <1>2, <1>3, <1>4

LEMMA TypeStep == TypeOK /\ [Next]_vars => TypeOK'
<1> SUFFICES ASSUME TypeOK, [Next]_vars PROVE TypeOK'
  OBVIOUS
<1>1. CASE Intaking
  <2>1. IntakeTypeOK' /\ StoreTypeOK'
    BY <1>1, IntakeTyped DEF Intaking, TypeOK, IntakeTypeOK
  <2> QED
    BY <1>1, <2>1, FrameTyped DEF Intaking, TypeOK
<1>2. CASE Approving
  <2>1. ApprovalsTypeOK' /\ StoreTypeOK'
    BY <1>2, ApprovalsTyped DEF Approving, TypeOK, ApprovalsTypeOK
  <2> QED
    BY <1>2, <2>1, FrameTyped DEF Approving, TypeOK
<1>3. CASE Executing
  <2>1. ExecutionTypeOK' /\ StoreTypeOK'
    BY <1>3, ExecutionTyped DEF Executing, TypeOK, ExecutionTypeOK
  <2> QED
    BY <1>3, <2>1, FrameTyped DEF Executing, TypeOK
<1>4. CASE RollingBack
  <2>1. RollbackTypeOK' /\ StoreTypeOK'
    BY <1>4, RollbackTyped DEF RollingBack, TypeOK, RollbackTypeOK
  <2> QED
    BY <1>4, <2>1, FrameTyped DEF RollingBack, TypeOK
<1>5. CASE UNCHANGED vars
  <2>1. StoreTypeOK'
    BY <1>5, StoreSteps DEF vars, TypeOK, IntakeTypeOK
  <2> QED
    BY <1>5, <2>1, FrameTyped DEF vars, TypeOK
<1> QED
  BY <1>1, <1>2, <1>3, <1>4, <1>5 DEF Next

\* Every row, message, program counter and count keeps its type, whatever the
\* sets of requests, the stages, the budgets of attempts and the bounds are.
THEOREM TypeCorrect == Spec => []TypeOK
<1> QED
  BY InitTyped, TypeStep, PTL DEF Spec

-----------------------------------------------------------------------------
(* Approvals: recorded decisions only accumulate, so a satisfied stage      *)
(* stays satisfied and a count taken from an old snapshot never overstates. *)

\* Every recorded decision is left as it is.
DecisionsKept == \A r \in Decided : decisions'[r] = decisions[r]

LEMMA ApprovedAtFinite ==
  ASSUME ApprovalsTypeOK, NEW k \in Stages
  PROVE  IsFiniteSet(ApprovedAt(k)) /\ Cardinality(ApprovedAt(k)) \in Nat
BY ApprovalsAssumption, FS_Subset, FS_CardinalityType DEF ApprovedAt

LEMMA SatisfiedStays ==
  ASSUME ApprovalsTypeOK, ApprovalsTypeOK', DecisionsKept
  PROVE  /\ Decided \subseteq Decided'
         /\ \A k \in Stages : Satisfied(k) => Satisfied(k)'
         /\ AllSatisfied => AllSatisfied'
<1>1. Decided \subseteq Decided'
  BY DEF DecisionsKept, Decided
<1>2. ASSUME NEW k \in Stages, Satisfied(k)
      PROVE  Satisfied(k)'
  <2>1. ApprovedAt(k) \subseteq ApprovedAt(k)'
    BY DEF ApprovedAt, DecisionsKept, Decided
  <2>2. IsFiniteSet(ApprovedAt(k)') /\ Cardinality(ApprovedAt(k)') \in Nat
    BY ApprovalsAssumption, FS_Subset, FS_CardinalityType DEF ApprovedAt
  <2>3. Cardinality(ApprovedAt(k)) \in Nat
    BY ApprovedAtFinite
  <2>4. Cardinality(ApprovedAt(k)) <= Cardinality(ApprovedAt(k)')
    BY <2>1, <2>2, FS_Subset
  <2>5. Required[k] \in Nat
    BY ApprovalsAssumption
  <2> QED
    BY <1>2, <2>2, <2>3, <2>4, <2>5 DEF Satisfied
<1> QED
  BY <1>1, <1>2 DEF AllSatisfied

\* What a review counts for its stage has been recorded for that stage.
LEMMA CompleteIsSatisfied ==
  ASSUME ApprovalsTypeOK, StageEvidence, NEW r \in Reviews, StageComplete(r)
  PROVE  Satisfied(snapshot[r].stage)
<1> DEFINE k == snapshot[r].stage
           C == {d \in Counted(r) : decisions[d].stage = k}
<1>1. k \in Stages
  BY DEF ApprovalsTypeOK, Snapshot
<1>2. C \subseteq ApprovedAt(k)
  BY DEF Counted, ApprovedAt, StageEvidence, Decided
<1>3. IsFiniteSet(ApprovedAt(k)) /\ Cardinality(ApprovedAt(k)) \in Nat
  BY <1>1, ApprovedAtFinite
<1>4. IsFiniteSet(C) /\ Cardinality(C) <= Cardinality(ApprovedAt(k))
  BY <1>2, <1>3, FS_Subset
<1>5. Cardinality(C) \in Nat
  BY <1>4, FS_CardinalityType
<1>6. Required[k] \in Nat
  BY <1>1, ApprovalsAssumption
<1>7. Cardinality(C) >= Required[k]
  BY DEF StageComplete
<1> HIDE DEF k, C
<1>8. Cardinality(ApprovedAt(k)) >= Required[k]
  BY <1>3, <1>4, <1>5, <1>6, <1>7
<1> QED
  BY <1>8 DEF Satisfied, k

\* Submissions record no decision, and a review records its own once.
LEMMA DecisionsAreKept ==
  ASSUME TypeOK, StageEvidence, [Next]_vars
  PROVE  DecisionsKept
<1>1. CASE Approving
  <2>1. CASE \E s \in Submits : SubmitStep(s)
    BY <2>1 DEF SubmitStep, SubmitRead, SubmitEvaluate, SubmitCreate, SubmitTransition,
                SubmitUpdate, SubmitDies, DecisionsKept
  <2>2. ASSUME NEW r \in Reviews, ReviewStep(r)
        PROVE  DecisionsKept
    <3>1. CASE ReviewRecord(r)
      BY <3>1 DEF ReviewRecord, DecisionsKept, StageEvidence, Decided, TypeOK, ApprovalsTypeOK
    <3>2. CASE ~ReviewRecord(r)
      BY <2>2, <3>2 DEF ReviewStep, ReviewRead, ReviewDedupe, ReviewReject, ReviewApprove,
                        ReviewTransition, ReviewUpdate, ReviewDies, DecisionsKept
    <3> QED
      BY <3>1, <3>2
  <2> QED
    BY <1>1, <2>1, <2>2 DEF Approving, ApprovalsNext
<1>2. CASE UNCHANGED approvalVars
  BY <1>2 DEF approvalVars, DecisionsKept
<1> QED
  BY <1>1, <1>2 DEF Next, Intaking, Executing, RollingBack, vars

\* Every row the approval service writes comes from a satisfied stage.
LEMMA StageStep ==
  ASSUME TypeOK, StageEvidence, [Next]_vars
  PROVE  StageEvidence'
<1>1. TypeOK' /\ ApprovalsTypeOK /\ ApprovalsTypeOK'
  BY TypeStep DEF TypeOK
<1>2. /\ Decided \subseteq Decided'
      /\ \A k \in Stages : Satisfied(k) => Satisfied(k)'
  BY <1>1, DecisionsAreKept, SatisfiedStays
<1>3. CASE UNCHANGED approvalVars
  BY <1>2, <1>3 DEF approvalVars, StageEvidence, Decided
<1>4. ASSUME NEW s \in Submits, SubmitStep(s)
      PROVE  StageEvidence'
  <2>1. \A k \in Stages : k < request'.stage => Satisfied(k)
    BY <1>1, <1>4, ApprovalsAssumption
    DEF SubmitStep, SubmitRead, SubmitEvaluate, SubmitCreate, SubmitTransition,
        SubmitUpdate, SubmitDies, StageEvidence, Stages
  <2>2. UNCHANGED <<decisions, reviewPc, snapshot>>
    BY <1>4 DEF SubmitStep, SubmitRead, SubmitEvaluate, SubmitCreate, SubmitTransition,
                SubmitUpdate, SubmitDies
  <2> QED
    BY <1>2, <2>1, <2>2 DEF StageEvidence, Decided
<1>5. ASSUME NEW r \in Reviews, ReviewStep(r)
      PROVE  StageEvidence'
  <2>1. \A k \in Stages : k < request'.stage => Satisfied(k)
    <3>1. CASE ReviewApprove(r)
      <4>1. CASE StageComplete(r) /\ ~(snapshot[r].stage >= LastStage)
        <5>1. request'.stage = snapshot[r].stage + 1
          BY <3>1, <4>1 DEF ReviewApprove, RowAfterApproval
        <5>2. Satisfied(snapshot[r].stage)
          BY <1>1, <4>1, CompleteIsSatisfied
        <5>3. snapshot[r].stage \in Nat /\ \A k \in Stages : k \in Nat
          BY <1>1 DEF ApprovalsTypeOK, Snapshot, Stages
        <5> QED
          BY <5>1, <5>2, <5>3 DEF StageEvidence
      <4>2. CASE ~(StageComplete(r) /\ ~(snapshot[r].stage >= LastStage))
        <5>1. request'.stage = snapshot[r].stage
          BY <3>1, <4>2 DEF ReviewApprove, RowAfterApproval
        <5> QED
          BY <5>1 DEF StageEvidence
      <4> QED
        BY <4>1, <4>2
    <3>2. CASE ~ReviewApprove(r)
      <4>1. request'.stage = request.stage
        BY <1>1, <1>5, <3>2
        DEF ReviewStep, ReviewRead, ReviewDedupe, ReviewRecord, ReviewReject,
            ReviewTransition, ReviewUpdate, ReviewDies, ApprovalsTypeOK, Request
      <4> QED
        BY <4>1 DEF StageEvidence
    <3> QED
      BY <3>1, <3>2
  <2>2. \A d \in Reviews : snapshot'[d].seen \subseteq Decided
    BY <1>1, <1>5
    DEF ReviewStep, ReviewRead, ReviewDedupe, ReviewRecord, ReviewReject, ReviewApprove,
        ReviewTransition, ReviewUpdate, ReviewDies, ApprovalsTypeOK, StageEvidence
  <2>3. \A d \in Reviews :
          reviewPc'[d] \in {"idle", "dedupe", "record"} => d \notin Decided'
    BY <1>1, <1>5
    DEF ReviewStep, ReviewRead, ReviewDedupe, ReviewRecord, ReviewReject, ReviewApprove,
        ReviewTransition, ReviewUpdate, ReviewDies, ApprovalsTypeOK, StageEvidence, Decided
  <2>4. \A d \in Reviews : \A k \in Stages :
          k < snapshot'[d].stage \/ k < decisions'[d].stage => Satisfied(k)
    BY <1>1, <1>5
    DEF ReviewStep, ReviewRead, ReviewDedupe, ReviewRecord, ReviewReject, ReviewApprove,
        ReviewTransition, ReviewUpdate, ReviewDies, ApprovalsTypeOK, StageEvidence
  <2>5. \A d \in Reviews :
          reviewPc'[d] \in {"row", "transition", "update"} =>
            decisions'[d].stage = snapshot'[d].stage
    BY <1>1, <1>5
    DEF ReviewStep, ReviewRead, ReviewDedupe, ReviewRecord, ReviewReject, ReviewApprove,
        ReviewTransition, ReviewUpdate, ReviewDies, ApprovalsTypeOK, StageEvidence, ReviewPc
  <2> QED
    BY <1>2, <2>1, <2>2, <2>3, <2>4, <2>5 DEF StageEvidence
<1> QED
  BY <1>3, <1>4, <1>5
  DEF Next, Intaking, Approving, Executing, RollingBack, vars, ApprovalsNext

-----------------------------------------------------------------------------
(* Which states each component may write to the shared row.                 *)

LEMMA StatusWrites ==
  ASSUME TypeOK
  PROVE  /\ IntakeNext => status' \in {status, "proposed", "simulated"}
         /\ ApprovalsNext => status' \in {status, "pending_approval", "approved", "rejected"}
         /\ ExecutionNext =>
              status' \in {status, "queued", "executing", "succeeded", "failed"}
         /\ RollbackNext =>
              status' \in {status, "rollback_pending", "rolled_back", "rollback_failed"}
<1> USE DEF TransitionAllowed, TransitionRefused, ApplyTransition, Fault, storeVars
<1>1. ASSUME IntakeNext
      PROVE  status' \in {status, "proposed", "simulated"}
  BY <1>1 DEF IntakeNext, ProposeStep, ProposeTransition, ProposeUpdate, ProposeDies,
              SimulateStep, SimulateRead, SimulateConnector, SimulateCreate,
              SimulateTransition, SimulateUpdate, SimulateDies
<1>2. ASSUME ApprovalsNext
      PROVE  status' \in {status, "pending_approval", "approved", "rejected"}
  <2>1. ASSUME NEW s \in Submits, SubmitStep(s)
        PROVE  status' \in {status, "pending_approval", "rejected"}
    BY <2>1 DEF SubmitStep, SubmitRead, SubmitEvaluate, SubmitCreate, SubmitTransition,
                SubmitUpdate, SubmitDies, SubmitTarget
  <2>2. ASSUME NEW r \in Reviews, ReviewStep(r)
        PROVE  status' \in {status, "approved", "rejected"}
    BY <2>2 DEF ReviewStep, ReviewRead, ReviewDedupe, ReviewRecord, ReviewReject,
                ReviewApprove, ReviewTransition, ReviewUpdate, ReviewDies,
                TypeOK, ApprovalsTypeOK, Verdict
  <2> QED
    BY <1>2, <2>1, <2>2 DEF ApprovalsNext
<1>3. ASSUME ExecutionNext
      PROVE  status' \in {status, "queued", "executing", "succeeded", "failed"}
  <2>1. ASSUME NEW q \in Executes, QueueRead(q) \/ QueueStep(q) \/ QueueDies(q)
        PROVE  status' \in {status, "queued"}
    BY <2>1 DEF QueueRead, QueueStep, QueueFind, QueueCreate, QueueTransition,
                QueueUpdate, QueueAdd, QueueTrack, QueueDies
  <2>2. ASSUME WorkerStep \/ WorkerFault \/ WorkerCrash
        PROVE  status' \in {status, "executing", "succeeded", "failed"}
    BY <2>2 DEF WorkerStep, Deliver, WorkerStart, WorkerTransition, WorkerUpdate,
                WorkerLoad, WorkerExecute, WorkerComplete, WorkerReceipt, WorkerFail,
                WorkerFinish, WorkerThrow, WorkerFault, WorkerCrash,
                TypeOK, ExecutionTypeOK
  <2> QED
    BY <1>3, <2>1, <2>2 DEF ExecutionNext
<1>4. ASSUME RollbackNext
      PROVE  status' \in {status, "rollback_pending", "rolled_back", "rollback_failed"}
  BY <1>4 DEF RollbackNext, RollbackRead, AskStep, RollbackCreate, AskTransition,
              AskUpdate, RollbackAdd, RollbackRevert, RollbackAddFails, AskDies,
              UndoStep, UndoDeliver, UndoStart, UndoLoad, Undo, UndoComplete,
              UndoTransition, UndoUpdate, UndoReceipt, UndoCaught, UndoFinish,
              UndoThrow, UndoFault, UndoCrash, TypeOK, RollbackTypeOK
<1> QED
  BY <1>1, <1>2, <1>3, <1>4

-----------------------------------------------------------------------------
(* Execution: one request owns the row, one delivery reaches the connector. *)

\* A step of another component leaves the evidence of execution in place,
\* because nobody but queueExecution writes "queued".
LEMMA ExecutionFramed ==
  ASSUME TypeOK, ExecutionEvidence, UNCHANGED executionVars, status' # "queued" \/ status' = status
  PROVE  ExecutionEvidence'
BY DEF ExecutionEvidence, executionVars, RowOwners, Spent

\* A request moves only itself; it enters the row owners by creating the row.
LEMMA QueueKeepsEvidence ==
  ASSUME TypeOK, ExecutionEvidence,
         NEW q \in Executes, QueueRead(q) \/ QueueStep(q) \/ QueueDies(q)
  PROVE  ExecutionEvidence'
<1> USE DEF ExecutionEvidence, RowOwners, Spent, QueueGoes, TypeOK, ExecutionTypeOK,
            workerVars, effectVars, storeVars
<1>1. CASE QueueRead(q) \/ QueueFind(q) \/ QueueTrack(q)
  BY <1>1 DEF QueueRead, QueueFind, QueueTrack
<1>2. CASE QueueDies(q)
  BY <1>2 DEF QueueDies, Fault
<1>3. CASE QueueCreate(q)
  BY <1>3 DEF QueueCreate
<1>4. CASE QueueTransition(q)
  BY <1>4 DEF QueueTransition, TransitionAllowed, TransitionRefused
<1>5. CASE QueueUpdate(q)
  BY <1>5 DEF QueueUpdate, ApplyTransition
<1>6. CASE QueueAdd(q)
  BY <1>6 DEF QueueAdd, Message
<1> QED
  BY <1>1, <1>2, <1>3, <1>4, <1>5, <1>6 DEF QueueStep

\* A delivery gets to the connector only through "queued" -> "executing", and
\* no intent that the connector was called for is queued.
LEMMA WorkerKeepsEvidence ==
  ASSUME TypeOK, ExecutionEvidence, WorkerStep \/ WorkerFault \/ WorkerCrash
  PROVE  ExecutionEvidence'
<1> USE DEF ExecutionEvidence, RowOwners, Spent, WorkerGoes, WorkerAsks, TypeOK,
            ExecutionTypeOK, effectVars, storeVars
<1>1. CASE Deliver \/ WorkerFinish
  BY <1>1 DEF Deliver, WorkerFinish, Message
<1>2. CASE WorkerThrow
  BY <1>2 DEF WorkerThrow, Message
<1>3. CASE WorkerCrash
  BY <1>3 DEF WorkerCrash, Fault, Message
<1>4. CASE WorkerStart \/ WorkerComplete \/ WorkerFail \/ WorkerReceipt
  BY <1>4 DEF WorkerStart, WorkerComplete, WorkerFail, WorkerReceipt
<1>5. CASE WorkerTransition
  BY <1>5 DEF WorkerTransition, TransitionAllowed, TransitionRefused, ErrorPath,
              IsValidTransition, StateTransitions
<1>6. CASE WorkerUpdate
  <2>1. CASE goal = "executing"
    BY <1>6, <2>1 DEF WorkerUpdate, ApplyTransition
  <2>2. CASE goal = "succeeded"
    BY <1>6, <2>2 DEF WorkerUpdate, ApplyTransition
  <2>3. CASE goal = "failed"
    BY <1>6, <2>3 DEF WorkerUpdate, ApplyTransition
  <2> QED
    BY <2>1, <2>2, <2>3
<1>7. CASE WorkerLoad
  BY <1>7 DEF WorkerLoad
<1>8. CASE WorkerExecute
  BY <1>8 DEF WorkerExecute
<1>9. CASE WorkerFault
  BY <1>9 DEF WorkerFault, Fault, ErrorPath
<1> QED
  BY <1>1, <1>2, <1>3, <1>4, <1>5, <1>6, <1>7, <1>8, <1>9 DEF WorkerStep

LEMMA ExecutionStep ==
  ASSUME TypeOK, ExecutionEvidence, [Next]_vars
  PROVE  ExecutionEvidence'
<1>1. CASE Executing
  BY <1>1, QueueKeepsEvidence, WorkerKeepsEvidence DEF Executing, ExecutionNext
<1>2. CASE ~Executing
  <2>1. UNCHANGED executionVars /\ (status' # "queued" \/ status' = status)
    BY <1>2, StatusWrites
    DEF Next, Intaking, Approving, RollingBack, vars, storeVars
  <2> QED
    BY <2>1, ExecutionFramed
<1> QED
  BY <1>1, <1>2

-----------------------------------------------------------------------------
(* Approval before everything else.                                         *)

\* Before the approval there is no row, no message, no call, and nothing that
\* a rollback could be asked for.
LEMMA NothingHappensUnapproved ==
  ASSUME TypeOK, ExecutionEvidence, OutcomeEvidence, NotYetApproved,
         Executing \/ RollingBack
  PROVE  NotYetApproved'
<1>1. message.state = "none" /\ workerPc = "idle" /\ outcome # "ok"
  BY DEF ExecutionEvidence, NotYetApproved
<1>2. CASE Executing
  <2>1. ~WorkerStep /\ ~WorkerFault /\ ~WorkerCrash
    BY <1>1 DEF WorkerStep, Deliver, WorkerStart, WorkerTransition, WorkerUpdate,
                WorkerLoad, WorkerExecute, WorkerComplete, WorkerReceipt, WorkerFail,
                WorkerFinish, WorkerThrow, WorkerFault, WorkerCrash
  <2>2. ASSUME NEW q \in Executes, QueueRead(q) \/ QueueStep(q) \/ QueueDies(q)
        PROVE  queuePc' = [queuePc EXCEPT ![q] = "refused"] /\ UNCHANGED <<status, jobRow>>
    BY <2>2
    DEF NotYetApproved, QueueRead, QueueStep, QueueFind, QueueCreate, QueueTransition,
        QueueUpdate, QueueAdd, QueueTrack, QueueDies, QueueGoes, storeVars
  <2>3. UNCHANGED <<status, jobRow>> /\ \A q \in Executes : queuePc'[q] \in {queuePc[q], "refused"}
    BY <1>2, <2>1, <2>2 DEF Executing, ExecutionNext, TypeOK, ExecutionTypeOK
  <2> QED
    BY <1>2, <2>3 DEF NotYetApproved, Executing, approvalVars
<1>3. CASE RollingBack
  <2>1. \A r \in Rollbacks :
          askPc[r] \in {"idle", "refused"} /\ job[r].state = "none" /\ undoPc[r] = "idle"
    BY <1>1 DEF OutcomeEvidence
  <2>2. UNCHANGED status
    BY <1>3, <2>1
    DEF RollingBack, RollbackNext, RollbackRead, AskStep, RollbackCreate, AskTransition,
        AskUpdate, RollbackAdd, RollbackRevert, RollbackAddFails, AskDies, RunningAsks,
        AskEnded, UndoStep, UndoDeliver, UndoStart, UndoLoad, Undo, UndoComplete,
        UndoTransition, UndoUpdate, UndoReceipt, UndoCaught, UndoFinish, UndoThrow,
        UndoFault, UndoCrash, storeVars
  <2> QED
    BY <1>3, <2>2 DEF NotYetApproved, RollingBack, approvalVars, executionVars
<1> QED
  BY <1>2, <1>3

\* A review moves the row or the intent to "approved" only on enough approvals.
LEMMA ReviewNeedsApprovals ==
  ASSUME TypeOK, StageEvidence, NotYetApproved, NEW r \in Reviews, ReviewStep(r),
         UNCHANGED executionVars
  PROVE  AllSatisfied \/ NotYetApproved'
<1> USE DEF NotYetApproved, executionVars, storeVars, TypeOK, ApprovalsTypeOK
<1>1. CASE ReviewRead(r) \/ ReviewDedupe(r) \/ ReviewRecord(r)
  BY <1>1 DEF ReviewRead, ReviewDedupe, ReviewRecord
<1>2. CASE ReviewReject(r)
  BY <1>2 DEF ReviewReject, Request
<1>3. CASE ReviewApprove(r)
  <2>1. CASE request'.status = "approved"
    <3>1. StageComplete(r) /\ snapshot[r].stage >= LastStage
      BY <1>3, <2>1 DEF ReviewApprove, RowAfterApproval
    <3>2. Satisfied(snapshot[r].stage) /\ \A k \in Stages : k < snapshot[r].stage => Satisfied(k)
      BY <3>1, CompleteIsSatisfied DEF StageEvidence
    <3>3. snapshot[r].stage \in Stages /\ \A k \in Stages : k <= LastStage
      BY ApprovalsAssumption DEF Snapshot, Stages
    <3> QED
      BY <3>1, <3>2, <3>3, ApprovalsAssumption DEF AllSatisfied, Stages
  <2>2. CASE request'.status # "approved"
    BY <1>3, <2>2 DEF ReviewApprove
  <2> QED
    BY <2>1, <2>2
<1>4. CASE ReviewTransition(r)
  BY <1>4 DEF ReviewTransition, TransitionAllowed, TransitionRefused
<1>5. CASE ReviewUpdate(r)
  BY <1>5 DEF ReviewUpdate, ApplyTransition
<1>6. CASE ReviewDies(r)
  BY <1>6 DEF ReviewDies, Fault
<1> QED
  BY <1>1, <1>2, <1>3, <1>4, <1>5, <1>6 DEF ReviewStep

LEMMA SubmitNeedsApprovals ==
  ASSUME TypeOK, NotYetApproved, NEW s \in Submits, SubmitStep(s), UNCHANGED executionVars
  PROVE  NotYetApproved'
BY DEF NotYetApproved, SubmitStep, SubmitRead, SubmitEvaluate, SubmitCreate,
       SubmitTransition, SubmitUpdate, SubmitDies, SubmitTarget, TransitionAllowed,
       TransitionRefused, ApplyTransition, Fault, executionVars, storeVars

LEMMA ApprovalStep ==
  ASSUME TypeOK, ApprovalEvidence, StageEvidence, ExecutionEvidence, OutcomeEvidence,
         [Next]_vars
  PROVE  ApprovalEvidence'
<1>1. AllSatisfied => AllSatisfied'
  BY TypeStep, DecisionsAreKept, SatisfiedStays DEF TypeOK
<1>2. ASSUME NotYetApproved
      PROVE  AllSatisfied \/ NotYetApproved'
  <2>1. CASE Intaking
    BY <1>2, <2>1, StatusWrites DEF Intaking, NotYetApproved, approvalVars, executionVars
  <2>2. CASE Approving
    BY <1>2, <2>2, ReviewNeedsApprovals, SubmitNeedsApprovals DEF Approving, ApprovalsNext
  <2>3. CASE Executing \/ RollingBack
    BY <1>2, <2>3, NothingHappensUnapproved
  <2>4. CASE UNCHANGED vars
    BY <1>2, <2>4 DEF vars, storeVars, NotYetApproved, approvalVars, executionVars
  <2> QED
    BY <2>1, <2>2, <2>3, <2>4 DEF Next
<1> QED
  BY <1>1, <1>2 DEF ApprovalEvidence

-----------------------------------------------------------------------------
(* Outcomes: what a state claims rests on the connector's answer.           *)

\* The answer of the one call that is made is never overwritten.
LEMMA WorkerKeepsOutcome ==
  ASSUME TypeOK, ExecutionEvidence, OutcomeEvidence, WorkerStep \/ WorkerFault \/ WorkerCrash,
         UNCHANGED rollbackVars
  PROVE  OutcomeEvidence'
<1>1. outcome = "ok" => outcome' = "ok"
  BY DEF WorkerStep, Deliver, WorkerStart, WorkerTransition, WorkerUpdate, WorkerLoad,
         WorkerExecute, WorkerComplete, WorkerReceipt, WorkerFail, WorkerFinish,
         WorkerThrow, WorkerFault, WorkerCrash, effectVars, ExecutionEvidence
<1>2. /\ status' \in {"succeeded", "rollback_pending", "rolled_back", "rollback_failed"}
           => outcome' = "ok"
      /\ status' = "rolled_back" => status = "rolled_back"
  <2>1. CASE WorkerUpdate
    BY <1>1, <2>1 DEF WorkerUpdate, ApplyTransition, OutcomeEvidence, TypeOK, ExecutionTypeOK
  <2>2. CASE ~WorkerUpdate
    <3>1. UNCHANGED status
      BY <2>2 DEF WorkerStep, Deliver, WorkerStart, WorkerTransition, WorkerLoad,
             WorkerExecute, WorkerComplete, WorkerReceipt, WorkerFail, WorkerFinish,
             WorkerThrow, WorkerFault, WorkerCrash, TransitionAllowed, TransitionRefused,
             Fault, storeVars
    <3> QED
      BY <1>1, <3>1 DEF OutcomeEvidence
  <2> QED
    BY <2>1, <2>2
<1>3. /\ workerPc' \in {"complete", "receipt"} => outcome' = "ok"
      /\ workerPc' \in {"transition", "update"} /\ goal' = "succeeded" => outcome' = "ok"
  <2> USE DEF OutcomeEvidence, WorkerGoes, WorkerAsks, effectVars, ErrorPath
  <2>1. CASE Deliver \/ WorkerFinish \/ WorkerThrow \/ WorkerCrash \/ WorkerLoad \/ WorkerExecute
    BY <2>1 DEF Deliver, WorkerFinish, WorkerThrow, WorkerCrash, WorkerLoad, WorkerExecute
  <2>2. CASE WorkerStart \/ WorkerComplete \/ WorkerFail \/ WorkerReceipt \/ WorkerTransition
    BY <2>2 DEF WorkerStart, WorkerComplete, WorkerFail, WorkerReceipt, WorkerTransition
  <2>3. CASE WorkerFault
    BY <2>3 DEF WorkerFault
  <2>4. CASE WorkerUpdate
    <3>1. CASE goal = "executing"
      BY <2>4, <3>1 DEF WorkerUpdate
    <3>2. CASE goal = "succeeded"
      BY <2>4, <3>2 DEF WorkerUpdate
    <3>3. CASE goal = "failed"
      BY <2>4, <3>3 DEF WorkerUpdate
    <3> QED
      BY <3>1, <3>2, <3>3 DEF TypeOK, ExecutionTypeOK
  <2> QED
    BY <2>1, <2>2, <2>3, <2>4 DEF WorkerStep
<1> QED
  BY <1>1, <1>2, <1>3 DEF OutcomeEvidence, rollbackVars

\* Every rollback request and job descends from a read of a state that only a
\* successful execution leads to; "rolled_back" is written after a success.
LEMMA RollbackKeepsOutcome ==
  ASSUME TypeOK, OutcomeEvidence, RollbackNext, UNCHANGED executionVars
  PROVE  OutcomeEvidence'
<1> SUFFICES ASSUME NEW r \in Rollbacks,
                    \/ RollbackRead(r) \/ AskStep(r) \/ RollbackAddFails(r) \/ AskDies(r)
                    \/ UndoStep(r) \/ UndoFault(r) \/ UndoCrash(r)
             PROVE  OutcomeEvidence'
  BY DEF RollbackNext
<1> USE DEF TypeOK, RollbackTypeOK, OutcomeEvidence, executionVars, storeVars, askVars,
            undoVars, undoEffects, AskGoes, UndoGoes, UndoAsks, UndoErrorPath, Fault,
            TransitionAllowed, TransitionRefused, ApplyTransition
<1>1. CASE RollbackRead(r) \/ RollbackCreate(r) \/ RollbackRevert(r)
  BY <1>1 DEF RollbackRead, RollbackCreate, RollbackRevert
<1>2. CASE AskTransition(r) \/ AskUpdate(r)
  BY <1>2 DEF AskTransition, AskUpdate
<1>3. CASE AskDies(r)
  BY <1>3 DEF AskDies, RunningAsks, AskEnded
<1>4. CASE RollbackAdd(r) \/ RollbackAddFails(r)
  BY <1>4 DEF RollbackAdd, RollbackAddFails
<1>5. CASE UndoDeliver(r) \/ UndoFinish(r)
  BY <1>5 DEF UndoDeliver, UndoFinish
<1>6. CASE UndoStart(r) \/ UndoLoad(r) \/ UndoReceipt(r)
  BY <1>6 DEF UndoStart, UndoLoad, UndoReceipt
<1>7. CASE Undo(r)
  BY <1>7 DEF Undo
<1>8. CASE UndoComplete(r) \/ UndoCaught(r)
  BY <1>8 DEF UndoComplete, UndoCaught
<1>9. CASE UndoTransition(r) \/ UndoUpdate(r)
  BY <1>9 DEF UndoTransition, UndoUpdate
<1>10. CASE UndoThrow(r)
  BY <1>10 DEF UndoThrow
<1>11. CASE UndoCrash(r)
  BY <1>11 DEF UndoCrash
<1>12. CASE UndoFault(r)
  BY <1>12 DEF UndoFault
<1> QED
  BY <1>1, <1>2, <1>3, <1>4, <1>5, <1>6, <1>7, <1>8, <1>9, <1>10, <1>11, <1>12
  DEF AskStep, UndoStep

LEMMA OutcomeStep ==
  ASSUME TypeOK, ExecutionEvidence, OutcomeEvidence, [Next]_vars
  PROVE  OutcomeEvidence'
<1>1. ASSUME UNCHANGED <<executionVars, rollbackVars>>,
             status' \notin {"succeeded", "rollback_pending", "rolled_back", "rollback_failed"}
               \/ status' = status
      PROVE  OutcomeEvidence'
  BY <1>1 DEF OutcomeEvidence, executionVars, rollbackVars
<1>2. CASE Intaking \/ Approving \/ UNCHANGED vars
  BY <1>1, <1>2, StatusWrites DEF Intaking, Approving, vars, storeVars
<1>3. CASE Executing
  <2>1. CASE \E q \in Executes : QueueRead(q) \/ QueueStep(q) \/ QueueDies(q)
    <3>1. UNCHANGED <<workerVars, effectVars>> /\ status' \in {status, "queued"}
      BY <2>1 DEF QueueRead, QueueStep, QueueFind, QueueCreate, QueueTransition,
                  QueueUpdate, QueueAdd, QueueTrack, QueueDies, TransitionAllowed,
                  TransitionRefused, ApplyTransition, Fault, storeVars
    <3> QED
      BY <1>3, <3>1 DEF Executing, OutcomeEvidence, rollbackVars, workerVars, effectVars
  <2>2. CASE WorkerStep \/ WorkerFault \/ WorkerCrash
    BY <1>3, <2>2, WorkerKeepsOutcome DEF Executing
  <2> QED
    BY <1>3, <2>1, <2>2 DEF Executing, ExecutionNext
<1>4. CASE RollingBack
  BY <1>4, RollbackKeepsOutcome DEF RollingBack
<1> QED
  BY <1>2, <1>3, <1>4 DEF Next

-----------------------------------------------------------------------------
(* The invariant and what follows from it.                                  *)

\* Nothing has been approved at first, as every stage requires an approval.
LEMMA NothingSatisfied ==
  ASSUME Init
  PROVE  ~AllSatisfied
<1>1. ApprovedAt(0) = {}
  BY DEF Init, ApprovalsInit, ApprovedAt, NoDecision
<1>2. Cardinality(ApprovedAt(0)) = 0
  BY <1>1, FS_EmptySet
<1>3. 0 \in Stages /\ Required[0] \in Nat \ {0}
  BY ApprovalsAssumption DEF Stages
<1>4. ~Satisfied(0)
  BY <1>2, <1>3 DEF Satisfied
<1> QED
  BY <1>3, <1>4 DEF AllSatisfied

LEMMA EvidenceInit == Init => Evidence
<1> SUFFICES ASSUME Init PROVE Evidence
  OBVIOUS
<1>1. TypeOK
  BY InitTyped
<1>2. ApprovalEvidence
  BY DEF ApprovalEvidence, NotYetApproved, Init, StoreInit, ApprovalsInit, ExecutionInit
<1>3. StageEvidence
  BY DEF StageEvidence, Init, ApprovalsInit, NoDecision, Decided, Stages
<1>4. ExecutionEvidence
  BY DEF ExecutionEvidence, RowOwners, Spent, Init, ExecutionInit
<1>5. OutcomeEvidence
  BY DEF OutcomeEvidence, Init, StoreInit, ExecutionInit, RollbackInit
<1> QED
  BY <1>1, <1>2, <1>3, <1>4, <1>5 DEF Evidence

LEMMA EvidenceStep == Evidence /\ [Next]_vars => Evidence'
BY TypeStep, ApprovalStep, StageStep, ExecutionStep, OutcomeStep DEF Evidence

\* The evidence invariant holds in every state the system reaches, whatever
\* the numbers of requests, stages, attempts, recoveries and faults are.
THEOREM EvidenceHolds == Spec => []Evidence
BY EvidenceInit, EvidenceStep, PTL DEF Spec

\* No request row and no intent is approved before every stage has the
\* approvals it requires, and no decision is recorded for a stage that opened
\* early: processApprovalDecision's overwrites of the row are harmless here.
THEOREM ApprovalIsEarned == Spec => [](ApprovalNeedsEveryStage /\ StagesInOrder)
<1>1. Evidence => ApprovalNeedsEveryStage
  BY DEF Evidence, ApprovalEvidence, NotYetApproved, ApprovalNeedsEveryStage
<1>2. Evidence => StagesInOrder
  BY DEF Evidence, StageEvidence, StagesInOrder, Decided
<1> QED
  BY <1>1, <1>2, EvidenceHolds, PTL

\* connector.execute is called at most once for an intent, across all requests,
\* deliveries, retries and crashes.
THEOREM ExecutesOnce == Spec => []ExecutedAtMostOnce
<1>1. Evidence => ExecutedAtMostOnce
  BY DEF Evidence, TypeOK, ExecutionTypeOK, ExecutionEvidence, ExecutedAtMostOnce
<1> QED
  BY <1>1, EvidenceHolds, PTL

\* "succeeded" and "rolled_back" are never shown for something that did not
\* happen.
THEOREM StatusIsHonest == Spec => [](SuccessIsReal /\ RolledBackIsReal)
<1>1. Evidence => SuccessIsReal
  BY DEF Evidence, TypeOK, ExecutionTypeOK, ExecutionEvidence, OutcomeEvidence, SuccessIsReal
<1>2. Evidence => RolledBackIsReal
  BY DEF Evidence, OutcomeEvidence, RolledBackIsReal
<1> QED
  BY <1>1, <1>2, EvidenceHolds, PTL

-----------------------------------------------------------------------------
(* The refinement: the initial states map to initial states of             *)
(* GovernedAction, and every step to a step of it or to a stutter.         *)

\* What the status claims is warranted by what has happened.
LEMMA ShownIsWarranted == Evidence => Promise!Warranted(Shown) /\ Shown \in Promise!Claim
<1> SUFFICES ASSUME Evidence PROVE Promise!Warranted(Shown) /\ Shown \in Promise!Claim
  OBVIOUS
<1> USE DEF Promise!Warranted, Promise!Claim
<1>1. CASE status \in {"approved", "queued", "executing"}
  <2>1. Shown = "approved"
    BY <1>1 DEF Shown
  <2>2. AllSatisfied
    BY <1>1 DEF Evidence, ApprovalEvidence, NotYetApproved
  <2> QED
    BY <2>1, <2>2
<1>2. CASE status = "succeeded"
  <2>1. Shown = "succeeded"
    BY <1>2 DEF Shown
  <2>2. executions # 0 /\ outcome = "ok"
    BY <1>2 DEF Evidence, ExecutionEvidence, OutcomeEvidence, TypeOK, ExecutionTypeOK
  <2> QED
    BY <2>1, <2>2
<1>3. CASE status = "rolled_back"
  <2>1. Shown = "rolled_back"
    BY <1>3 DEF Shown
  <2>2. undone > 0
    BY <1>3 DEF Evidence, OutcomeEvidence
  <2> QED
    BY <2>1, <2>2
<1>4. CASE status \notin {"approved", "queued", "executing", "succeeded", "rolled_back"}
  <2>1. Shown = "nothing"
    BY <1>4 DEF Shown
  <2> QED
    BY <2>1
<1> QED
  BY <1>1, <1>2, <1>3, <1>4

\* The initial states of the system are initial states of the promise.
LEMMA PromiseStarts == Init => Promise!PromiseInit
<1> SUFFICES ASSUME Init PROVE Promise!PromiseInit
  OBVIOUS
<1>1. AllSatisfied = FALSE
  BY NothingSatisfied DEF AllSatisfied
<1>2. executions = 0 /\ undone = 0 /\ status = "draft"
  BY DEF Init, ExecutionInit, RollbackInit, StoreInit
<1>3. (undone > 0) = FALSE
  BY <1>2
<1>4. Shown = "nothing"
  BY <1>2 DEF Shown
<1> QED
  BY <1>1, <1>2, <1>3, <1>4 DEF Promise!PromiseInit

-----------------------------------------------------------------------------
(* The four kinds of step that change what the promise speaks of.           *)

\* A write of the status, and any step that touches nothing of the promise.
LEMMA StatusStepShows ==
  ASSUME Evidence', UNCHANGED <<decisions, executions, outcome, undone>>
  PROVE  Promise!Show
<1>1. UNCHANGED AllSatisfied
  BY DEF AllSatisfied, Satisfied, ApprovedAt
<1>2. Promise!Warranted(Shown)' /\ (Shown \in Promise!Claim)'
  BY ShownIsWarranted, PTL
<1> QED
  BY <1>1, <1>2 DEF Promise!Show, Promise!Warranted, Promise!Claim

LEMMA RecordStepApproves ==
  ASSUME TypeOK, StageEvidence, [Next]_vars, UNCHANGED <<status, executions, outcome, undone>>
  PROVE  Promise!Approve \/ UNCHANGED Promise!actionVars
<1>1. AllSatisfied => AllSatisfied'
  BY TypeStep, DecisionsAreKept, SatisfiedStays DEF TypeOK
<1>2. UNCHANGED Shown
  BY DEF Shown
<1>3. CASE AllSatisfied' = TRUE
  BY <1>2, <1>3 DEF Promise!Approve
<1>4. CASE AllSatisfied' = FALSE
  <2>1. AllSatisfied = FALSE
    BY <1>1, <1>4 DEF AllSatisfied
  <2> QED
    BY <1>2, <1>4, <2>1 DEF Promise!actionVars
<1> QED
  BY <1>3, <1>4 DEF AllSatisfied

LEMMA ExecuteStepRuns ==
  ASSUME Evidence, Evidence', WorkerExecute, UNCHANGED <<decisions, undone>>
  PROVE  Promise!Run
<1>1. UNCHANGED AllSatisfied
  BY DEF AllSatisfied, Satisfied, ApprovedAt
<1>2. UNCHANGED Shown
  BY DEF Shown, WorkerExecute, storeVars
<1>3. executions = 0 /\ executions' = 1 /\ outcome' \in {"ok", "error"}
  BY DEF WorkerExecute, Evidence, ExecutionEvidence
<1>4. AllSatisfied
  BY DEF WorkerExecute, Evidence, ExecutionEvidence, ApprovalEvidence, NotYetApproved
<1> QED
  BY <1>1, <1>2, <1>3, <1>4 DEF Promise!Run

LEMMA LoadStepStutters ==
  ASSUME Evidence, WorkerLoad, UNCHANGED <<decisions, undone>>
  PROVE  UNCHANGED Promise!actionVars
<1>1. UNCHANGED AllSatisfied
  BY DEF AllSatisfied, Satisfied, ApprovedAt
<1>2. UNCHANGED Shown
  BY DEF Shown, WorkerLoad, storeVars
<1>3. executions = 0 /\ executions' = 0
  BY DEF WorkerLoad, Evidence, ExecutionEvidence
<1> QED
  BY <1>1, <1>2, <1>3 DEF Promise!actionVars

LEMMA UndoStepUndoes ==
  ASSUME Evidence, NEW r \in Rollbacks, Undo(r),
         UNCHANGED <<decisions, executions, outcome>>
  PROVE  Promise!Undo \/ UNCHANGED Promise!actionVars
<1>1. UNCHANGED AllSatisfied
  BY DEF AllSatisfied, Satisfied, ApprovedAt
<1>2. UNCHANGED Shown
  BY DEF Shown, Undo, storeVars
<1>3. executions # 0 /\ outcome = "ok"
  BY DEF Undo, Evidence, OutcomeEvidence, ExecutionEvidence, TypeOK, ExecutionTypeOK
<1>4. CASE undone' = undone + 1
  <2>1. (undone' > 0) = TRUE
    BY <1>4 DEF Evidence, TypeOK, RollbackTypeOK
  <2> QED
    BY <1>1, <1>2, <1>3, <2>1 DEF Promise!Undo
<1>5. CASE UNCHANGED undone
  BY <1>1, <1>2, <1>5 DEF Promise!actionVars
<1> QED
  BY <1>4, <1>5 DEF Undo

-----------------------------------------------------------------------------
\* Every step of the system is a step of the promise, or changes nothing in it.
LEMMA PromiseStep ==
  Evidence /\ Evidence' /\ [Next]_vars => [Promise!PromiseNext]_(Promise!actionVars)
<1> SUFFICES ASSUME Evidence, Evidence', [Next]_vars
             PROVE  Promise!PromiseNext \/ UNCHANGED Promise!actionVars
  OBVIOUS
<1> USE StatusStepShows DEF Promise!PromiseNext
<1>1. CASE Intaking \/ UNCHANGED vars
  BY <1>1 DEF Intaking, vars, approvalVars, executionVars, rollbackVars
<1>2. CASE Approving
  <2>1. UNCHANGED <<executions, outcome, undone>>
    BY <1>2 DEF Approving, executionVars, rollbackVars
  <2>2. UNCHANGED decisions \/ UNCHANGED status
    BY <1>2 DEF Approving, ApprovalsNext, SubmitStep, SubmitRead, SubmitEvaluate,
                SubmitCreate, SubmitTransition, SubmitUpdate, SubmitDies, ReviewStep,
                ReviewRead, ReviewDedupe, ReviewRecord, ReviewReject, ReviewApprove,
                ReviewTransition, ReviewUpdate, ReviewDies, storeVars
  <2> QED
    BY <2>1, <2>2, RecordStepApproves DEF Evidence
<1>3. CASE Executing
  <2>1. UNCHANGED <<decisions, undone>>
    BY <1>3 DEF Executing, approvalVars, rollbackVars
  <2>2. WorkerExecute \/ WorkerLoad \/ UNCHANGED <<executions, outcome>>
    BY <1>3 DEF Executing, ExecutionNext, QueueRead, QueueStep, QueueFind, QueueCreate,
                QueueTransition, QueueUpdate, QueueAdd, QueueTrack, QueueDies, WorkerStep,
                Deliver, WorkerStart, WorkerTransition, WorkerUpdate, WorkerComplete,
                WorkerReceipt, WorkerFail, WorkerFinish, WorkerThrow, WorkerFault,
                WorkerCrash, effectVars
  <2> QED
    BY <2>1, <2>2, ExecuteStepRuns, LoadStepStutters
<1>4. CASE RollingBack
  <2>1. UNCHANGED <<decisions, executions, outcome>>
    BY <1>4 DEF RollingBack, approvalVars, executionVars
  <2>2. (\E r \in Rollbacks : Undo(r)) \/ UNCHANGED undone
    BY <1>4 DEF RollingBack, RollbackNext, RollbackRead, AskStep, RollbackCreate,
                AskTransition, AskUpdate, RollbackAdd, RollbackRevert, RollbackAddFails,
                AskDies, UndoStep, UndoDeliver, UndoStart, UndoLoad, UndoComplete,
                UndoTransition, UndoUpdate, UndoReceipt, UndoCaught, UndoFinish,
                UndoThrow, UndoFault, UndoCrash, undoEffects
  <2> QED
    BY <2>1, <2>2, UndoStepUndoes
<1> QED
  BY <1>1, <1>2, <1>3, <1>4 DEF Next

\* The whole system implements the promise of GovernedAction: no interleaving,
\* stale write, error, retry, crash or redelivery runs an intent without its
\* approvals or twice, or shows a state that was not earned.
THEOREM SystemKeepsPromise == Spec => KeepsPromise
BY PromiseStarts, PromiseStep, EvidenceHolds, PTL
DEF Spec, KeepsPromise, Promise!PromiseSpec
-----------------------------------------------------------------------------
(* Waiting and rejection: the request a waiting intent has, and, where      *)
(* requests come one at a time, the edge that an update is about to take.   *)

RequestEvidence ==
  /\ status = "pending_approval" => request.status # "none"
  /\ \A s \in Submits : submitPc[s] \in {"transition", "update"} =>
       policy[s] = "deny" \/ request.status # "none"

RequestsFit == Cardinality(RunningSubmits) + Cardinality(RunningReviews) <= width

SerialEvidence ==
  width = 1 =>
    /\ \A s \in Submits : submitPc[s] = "update" => IsValidTransition(status, SubmitTarget(s))
    /\ \A r \in Reviews : reviewPc[r] = "update" =>
         IsValidTransition(status, decisions[r].verdict)

ReviewEvidence ==
  ApprovalsTypeOK /\ RequestEvidence /\ RequestsFit /\ SerialEvidence /\ RejectionIsFinal

\* One request at a time: while one runs, or starts, no other does.
LEMMA RequestsFinite ==
  ASSUME ApprovalsTypeOK
  PROVE  /\ IsFiniteSet(RunningSubmits) /\ Cardinality(RunningSubmits) \in Nat
         /\ IsFiniteSet(RunningReviews) /\ Cardinality(RunningReviews) \in Nat
         /\ width \in Nat
<1>1. RunningSubmits \subseteq Submits /\ RunningReviews \subseteq Reviews
  BY DEF RunningSubmits, RunningReviews
<1>2. width \in Nat
  BY ApprovalsAssumption DEF ApprovalsTypeOK
<1> QED
  BY <1>1, <1>2, ApprovalsAssumption, FS_Subset, FS_CardinalityType

LEMMA OneRequest ==
  ASSUME ApprovalsTypeOK, RequestsFit, width = 1
  PROVE  /\ \A s \in RunningSubmits : RunningReviews = {} /\ RunningSubmits = {s}
         /\ \A r \in RunningReviews : RunningSubmits = {} /\ RunningReviews = {r}
         /\ MayStart => RunningSubmits = {} /\ RunningReviews = {}
<1>1. \A S : IsFiniteSet(S) /\ Cardinality(S) = 0 => S = {}
  BY FS_EmptySet
<1>2. ASSUME NEW S, IsFiniteSet(S), Cardinality(S) \in Nat, NEW x \in S
      PROVE  /\ Cardinality(S) >= 1
             /\ Cardinality(S) = 1 => S = {x}
  <2>1. Cardinality(S) # 0
    BY <1>1, <1>2
  <2>2. ASSUME Cardinality(S) = 1 PROVE S = {x}
    <3>1. PICK y : S = {y}
      BY <1>2, <2>2, FS_Singleton
    <3> QED
      BY <1>2, <3>1
  <2> QED
    BY <1>2, <2>1, <2>2
<1>3. ASSUME NEW s \in RunningSubmits PROVE RunningReviews = {} /\ RunningSubmits = {s}
  <2>1. Cardinality(RunningSubmits) >= 1
    BY <1>2, RequestsFinite
  <2>2. Cardinality(RunningSubmits) = 1 /\ Cardinality(RunningReviews) = 0
    BY <2>1, RequestsFinite DEF RequestsFit
  <2> QED
    BY <1>1, <1>2, <2>2, RequestsFinite
<1>4. ASSUME NEW r \in RunningReviews PROVE RunningSubmits = {} /\ RunningReviews = {r}
  <2>1. Cardinality(RunningReviews) >= 1
    BY <1>2, RequestsFinite
  <2>2. Cardinality(RunningReviews) = 1 /\ Cardinality(RunningSubmits) = 0
    BY <2>1, RequestsFinite DEF RequestsFit
  <2> QED
    BY <1>1, <1>2, <2>2, RequestsFinite
<1>5. MayStart => RunningSubmits = {} /\ RunningReviews = {}
  <2>1. MayStart => Cardinality(RunningSubmits) = 0 /\ Cardinality(RunningReviews) = 0
    BY RequestsFinite DEF MayStart
  <2> QED
    BY <1>1, <2>1, RequestsFinite
<1> QED
  BY <1>3, <1>4, <1>5

\* A request moves only itself, and runs already or may start.
LEMMA SubmitMoves ==
  ASSUME ApprovalsTypeOK, NEW s \in Submits, SubmitStep(s)
  PROVE  /\ UNCHANGED <<reviewPc, decisions, width>>
         /\ \A t \in Submits \ {s} : submitPc'[t] = submitPc[t] /\ policy'[t] = policy[t]
         /\ s \in RunningSubmits \/ MayStart
BY DEF ApprovalsTypeOK, SubmitStep, SubmitRead, SubmitEvaluate, SubmitCreate, SubmitTransition,
       SubmitUpdate, SubmitDies, RunningSubmits, Ended

LEMMA ReviewMoves ==
  ASSUME ApprovalsTypeOK, NEW r \in Reviews, ReviewStep(r)
  PROVE  /\ UNCHANGED <<submitPc, policy, width>>
         /\ \A q \in Reviews \ {r} : reviewPc'[q] = reviewPc[q] /\ decisions'[q] = decisions[q]
         /\ r \in RunningReviews \/ MayStart
BY DEF ApprovalsTypeOK, ReviewStep, ReviewRead, ReviewDedupe, ReviewRecord, ReviewReject,
       ReviewApprove, ReviewTransition, ReviewUpdate, ReviewDies, RunningReviews, Ended

LEMMA OneMore ==
  ASSUME NEW S, IsFiniteSet(S), NEW T, NEW x, T \subseteq S \cup {x}
  PROVE  Cardinality(T) \in Nat /\ Cardinality(T) <= Cardinality(S) + 1
<1>1. /\ IsFiniteSet(S \cup {x}) /\ Cardinality(S) \in Nat
      /\ Cardinality(S \cup {x}) = IF x \in S THEN Cardinality(S) ELSE Cardinality(S) + 1
  BY FS_AddElement, FS_CardinalityType
<1>2. Cardinality(T) \in Nat /\ Cardinality(T) <= Cardinality(S \cup {x})
  BY <1>1, FS_Subset, FS_CardinalityType
<1> QED
  BY <1>1, <1>2

LEMMA FitStep ==
  ASSUME ApprovalsTypeOK, RequestsFit, ApprovalsNext
  PROVE  RequestsFit'
<1>1. ASSUME NEW s \in Submits, SubmitStep(s) PROVE RequestsFit'
  <2>1. RunningReviews' = RunningReviews /\ width' = width
    BY <1>1, SubmitMoves DEF RunningReviews
  <2>2. RunningSubmits' \subseteq RunningSubmits \cup {s}
    BY <1>1, SubmitMoves DEF RunningSubmits
  <2>3. CASE s \in RunningSubmits
    <3>1. RunningSubmits' \subseteq RunningSubmits
      BY <2>2, <2>3
    <3>2. Cardinality(RunningSubmits') \in Nat
          /\ Cardinality(RunningSubmits') <= Cardinality(RunningSubmits)
      BY <3>1, RequestsFinite, FS_Subset, FS_CardinalityType
    <3> QED
      BY <2>1, <3>2, RequestsFinite DEF RequestsFit
  <2>4. CASE MayStart
    <3>1. Cardinality(RunningSubmits') \in Nat
          /\ Cardinality(RunningSubmits') <= Cardinality(RunningSubmits) + 1
      BY <2>2, RequestsFinite, OneMore
    <3> QED
      BY <2>1, <2>4, <3>1, RequestsFinite DEF RequestsFit, MayStart
  <2> QED
    BY <1>1, <2>3, <2>4, SubmitMoves
<1>2. ASSUME NEW r \in Reviews, ReviewStep(r) PROVE RequestsFit'
  <2>1. RunningSubmits' = RunningSubmits /\ width' = width
    BY <1>2, ReviewMoves DEF RunningSubmits
  <2>2. RunningReviews' \subseteq RunningReviews \cup {r}
    BY <1>2, ReviewMoves DEF RunningReviews
  <2>3. CASE r \in RunningReviews
    <3>1. RunningReviews' \subseteq RunningReviews
      BY <2>2, <2>3
    <3>2. Cardinality(RunningReviews') \in Nat
          /\ Cardinality(RunningReviews') <= Cardinality(RunningReviews)
      BY <3>1, RequestsFinite, FS_Subset, FS_CardinalityType
    <3> QED
      BY <2>1, <3>2, RequestsFinite DEF RequestsFit
  <2>4. CASE MayStart
    <3>1. Cardinality(RunningReviews') \in Nat
          /\ Cardinality(RunningReviews') <= Cardinality(RunningReviews) + 1
      BY <2>2, RequestsFinite, OneMore
    <3> QED
      BY <2>1, <2>4, <3>1, RequestsFinite DEF RequestsFit, MayStart
  <2> QED
    BY <1>2, <2>3, <2>4, ReviewMoves
<1> QED
  BY <1>1, <1>2 DEF ApprovalsNext

\* The row is created before anything moves the intent to wait for it, and
\* stays: every later write gives it a status again.
LEMMA RequestStep ==
  ASSUME ApprovalsTypeOK, RequestEvidence, ApprovalsNext
  PROVE  RequestEvidence'
<1> USE DEF ApprovalsTypeOK, RequestEvidence, TransitionAllowed, TransitionRefused,
            ApplyTransition, Fault, storeVars
<1>1. ASSUME NEW s \in Submits, SubmitStep(s) PROVE RequestEvidence'
  <2>1. CASE SubmitRead(s) \/ SubmitEvaluate(s)
    BY <2>1 DEF SubmitRead, SubmitEvaluate
  <2>2. CASE SubmitCreate(s)
    BY <2>2 DEF SubmitCreate
  <2>3. CASE SubmitTransition(s)
    BY <2>3 DEF SubmitTransition
  <2>4. CASE SubmitUpdate(s)
    BY <2>4 DEF SubmitUpdate, SubmitTarget
  <2>5. CASE SubmitDies(s)
    BY <2>5 DEF SubmitDies
  <2> QED
    BY <1>1, <2>1, <2>2, <2>3, <2>4, <2>5 DEF SubmitStep
<1>2. ASSUME NEW r \in Reviews, ReviewStep(r) PROVE RequestEvidence'
  <2>1. status' \in {status, "approved", "rejected"}
    BY <1>2 DEF ReviewStep, ReviewRead, ReviewDedupe, ReviewRecord, ReviewReject,
                ReviewApprove, ReviewTransition, ReviewUpdate, ReviewDies, Verdict
  <2>2. request.status # "none" => request'.status # "none"
    <3>1. CASE ReviewReject(r)
      BY <3>1 DEF ReviewReject, Request
    <3>2. CASE ReviewApprove(r)
      <4>1. request'.status = IF StageComplete(r) /\ snapshot[r].stage >= LastStage
                                THEN "approved" ELSE "pending"
        BY <3>2 DEF ReviewApprove, RowAfterApproval
      <4> QED
        BY <4>1
    <3>3. CASE ~ReviewReject(r) /\ ~ReviewApprove(r)
      BY <1>2, <3>3 DEF ReviewStep, ReviewRead, ReviewDedupe, ReviewRecord, ReviewTransition,
                        ReviewUpdate, ReviewDies
    <3> QED
      BY <3>1, <3>2, <3>3
  <2>3. UNCHANGED <<submitPc, policy>>
    BY <1>2, ReviewMoves
  <2> QED
    BY <2>1, <2>2, <2>3
<1> QED
  BY <1>1, <1>2 DEF ApprovalsNext

\* A request that writes alone takes an edge of the chart, and none leaves
\* "rejected".
LEMMA RejectionStep ==
  ASSUME ReviewEvidence, ApprovalsTypeOK', ApprovalsNext
  PROVE  SerialEvidence' /\ RejectionIsFinal'
<1>1. width' = width
  BY SubmitMoves, ReviewMoves DEF ApprovalsNext, ReviewEvidence
<1>2. SUFFICES ASSUME width = 1
               PROVE  /\ \A s \in Submits : submitPc'[s] = "update" =>
                           IsValidTransition(status', SubmitTarget(s)')
                      /\ \A r \in Reviews : reviewPc'[r] = "update" =>
                           IsValidTransition(status', decisions'[r].verdict)
                      /\ \A r \in Reviews :
                           reviewPc'[r] = "done" /\ decisions'[r].verdict = "rejected"
                             => status' = "rejected"
                      /\ \A s \in Submits :
                           submitPc'[s] = "done" /\ policy'[s] = "deny" => status' = "rejected"
  BY <1>1 DEF SerialEvidence, RejectionIsFinal
<1>3. /\ \A s \in Submits : submitPc[s] = "update" => IsValidTransition(status, SubmitTarget(s))
      /\ \A r \in Reviews : reviewPc[r] = "update" => IsValidTransition(status, decisions[r].verdict)
      /\ \A r \in Reviews :
           reviewPc[r] = "done" /\ decisions[r].verdict = "rejected" => status = "rejected"
      /\ \A s \in Submits : submitPc[s] = "done" /\ policy[s] = "deny" => status = "rejected"
      /\ ApprovalsTypeOK /\ RequestsFit
  BY <1>2 DEF ReviewEvidence, SerialEvidence, RejectionIsFinal
<1>4. \A to : ~IsValidTransition("rejected", to)
  BY DEF IsValidTransition, StateTransitions
<1>5. ASSUME NEW s \in Submits, SubmitStep(s)
      PROVE  /\ \A t \in Submits : submitPc'[t] = "update" =>
                  IsValidTransition(status', SubmitTarget(t)')
             /\ \A r \in Reviews : reviewPc'[r] = "update" =>
                  IsValidTransition(status', decisions'[r].verdict)
             /\ \A r \in Reviews :
                  reviewPc'[r] = "done" /\ decisions'[r].verdict = "rejected"
                    => status' = "rejected"
             /\ \A t \in Submits :
                  submitPc'[t] = "done" /\ policy'[t] = "deny" => status' = "rejected"
  <2>1. /\ UNCHANGED <<reviewPc, decisions>>
        /\ \A t \in Submits \ {s} : submitPc'[t] = submitPc[t] /\ policy'[t] = policy[t]
        /\ s \in RunningSubmits \/ MayStart
    BY <1>3, <1>5, SubmitMoves
  <2>2. /\ RunningReviews = {} /\ RunningSubmits \subseteq {s}
    BY <1>2, <1>3, <2>1, OneRequest
  <2>3. /\ \A r \in Reviews : reviewPc'[r] # "update"
        /\ \A t \in Submits \ {s} : submitPc'[t] # "update"
    BY <2>1, <2>2 DEF RunningReviews, RunningSubmits, Ended
  <2>4. CASE SubmitUpdate(s)
    <3>1. status # "rejected"
      BY <1>3, <1>4, <2>4 DEF SubmitUpdate
    <3>2. /\ status' = SubmitTarget(s) /\ submitPc'[s] = "done" /\ UNCHANGED policy
      BY <1>3, <2>4 DEF SubmitUpdate, ApplyTransition, ApprovalsTypeOK
    <3>3. policy'[s] = "deny" => status' = "rejected"
      BY <3>2 DEF SubmitTarget
    <3> QED
      BY <1>3, <2>1, <2>3, <3>1, <3>2, <3>3
  <2>5. CASE SubmitTransition(s)
    <3>1. /\ UNCHANGED <<status, policy>>
          /\ submitPc'[s] = "update" => IsValidTransition(status, SubmitTarget(s))
          /\ submitPc'[s] # "done"
      BY <1>3, <2>5 DEF SubmitTransition, TransitionAllowed, TransitionRefused, storeVars,
                        ApprovalsTypeOK
    <3>2. SubmitTarget(s)' = SubmitTarget(s)
      BY <3>1 DEF SubmitTarget
    <3> QED
      BY <1>3, <2>1, <2>3, <3>1, <3>2
  <2>6. CASE SubmitRead(s) \/ SubmitEvaluate(s) \/ SubmitCreate(s) \/ SubmitDies(s)
    <3>1. UNCHANGED status /\ submitPc'[s] \notin {"update", "done"}
      BY <1>3, <2>6 DEF SubmitRead, SubmitEvaluate, SubmitCreate, SubmitDies, Fault, storeVars,
                        ApprovalsTypeOK
    <3> QED
      BY <1>3, <2>1, <2>3, <3>1
  <2> QED
    BY <1>5, <2>4, <2>5, <2>6 DEF SubmitStep
<1>6. ASSUME NEW r \in Reviews, ReviewStep(r)
      PROVE  /\ \A t \in Submits : submitPc'[t] = "update" =>
                  IsValidTransition(status', SubmitTarget(t)')
             /\ \A q \in Reviews : reviewPc'[q] = "update" =>
                  IsValidTransition(status', decisions'[q].verdict)
             /\ \A q \in Reviews :
                  reviewPc'[q] = "done" /\ decisions'[q].verdict = "rejected"
                    => status' = "rejected"
             /\ \A t \in Submits :
                  submitPc'[t] = "done" /\ policy'[t] = "deny" => status' = "rejected"
  <2>1. /\ UNCHANGED <<submitPc, policy>>
        /\ \A q \in Reviews \ {r} : reviewPc'[q] = reviewPc[q] /\ decisions'[q] = decisions[q]
        /\ r \in RunningReviews \/ MayStart
    BY <1>3, <1>6, ReviewMoves
  <2>2. /\ RunningSubmits = {} /\ RunningReviews \subseteq {r}
    BY <1>2, <1>3, <2>1, OneRequest
  <2>3. /\ \A t \in Submits : submitPc'[t] # "update"
        /\ \A q \in Reviews \ {r} : reviewPc'[q] # "update"
    BY <2>1, <2>2 DEF RunningReviews, RunningSubmits, Ended
  <2>4. CASE ReviewUpdate(r)
    <3>1. status # "rejected"
      BY <1>3, <1>4, <2>4 DEF ReviewUpdate
    <3>2. status' = decisions[r].verdict /\ reviewPc'[r] = "done" /\ UNCHANGED decisions
      BY <1>3, <2>4 DEF ReviewUpdate, ApplyTransition, ApprovalsTypeOK
    <3> QED
      BY <1>3, <2>1, <2>3, <3>1, <3>2
  <2>5. CASE ReviewTransition(r)
    <3>1. /\ UNCHANGED <<status, decisions>>
          /\ reviewPc'[r] = "update" => IsValidTransition(status, decisions[r].verdict)
          /\ reviewPc'[r] # "done"
      BY <1>3, <2>5 DEF ReviewTransition, TransitionAllowed, TransitionRefused, storeVars,
                        ApprovalsTypeOK
    <3> QED
      BY <1>3, <2>1, <2>3, <3>1
  <2>6. CASE ReviewApprove(r)
    <3>1. UNCHANGED <<status, decisions>> /\ decisions[r].verdict = "approved"
          /\ reviewPc'[r] # "update"
      BY <1>3, <2>6 DEF ReviewApprove, storeVars, ApprovalsTypeOK
    <3> QED
      BY <1>3, <2>1, <2>3, <3>1
  <2>7. CASE ReviewRead(r) \/ ReviewDedupe(r) \/ ReviewRecord(r) \/ ReviewReject(r) \/ ReviewDies(r)
    <3>1. UNCHANGED status /\ reviewPc'[r] \notin {"update", "done"}
      BY <1>3, <2>7 DEF ReviewRead, ReviewDedupe, ReviewRecord, ReviewReject, ReviewDies, Fault,
                        storeVars, ApprovalsTypeOK
    <3> QED
      BY <1>3, <2>1, <2>3, <3>1
  <2> QED
    BY <1>6, <2>4, <2>5, <2>6, <2>7 DEF ReviewStep
<1> QED
  BY <1>5, <1>6 DEF ApprovalsNext

LEMMA ReviewEvidenceInit == SimulatedStart => ReviewEvidence
<1> SUFFICES ASSUME SimulatedStart PROVE ReviewEvidence
  OBVIOUS
<1>1. ApprovalsTypeOK
  <2>1. StoreTypeOK
    BY MaxFaultsAssumption DEF SimulatedStart, StoreInit, StoreTypeOK, IntentState
  <2> QED
    BY <2>1, ApprovalsAssumption
    DEF SimulatedStart, ApprovalsTypeOK, ApprovalsInit, Request, Decision, NoDecision, Snapshot,
        PolicyResult, SubmitPc, ReviewPc, Stages, Verdict
<1>2. RunningSubmits = {} /\ RunningReviews = {} /\ width \in Nat \ {0}
  BY ApprovalsAssumption DEF SimulatedStart, ApprovalsInit, RunningSubmits, RunningReviews
<1>3. RequestsFit
  <2>1. Cardinality(RunningSubmits) = 0 /\ Cardinality(RunningReviews) = 0
    BY <1>2, FS_EmptySet
  <2> QED
    BY <1>2, <2>1 DEF RequestsFit
<1>4. RequestEvidence /\ SerialEvidence /\ RejectionIsFinal
  BY DEF SimulatedStart, StoreInit, ApprovalsInit, RequestEvidence, SerialEvidence,
         RejectionIsFinal
<1> QED
  BY <1>1, <1>3, <1>4 DEF ReviewEvidence

LEMMA ReviewEvidenceStep ==
  ReviewEvidence /\ [ApprovalsNext]_<<storeVars, approvalVars>> => ReviewEvidence'
<1>1. ASSUME ReviewEvidence, ApprovalsNext PROVE ReviewEvidence'
  <2>1. ApprovalsTypeOK'
    BY <1>1, ApprovalsTyped DEF ReviewEvidence
  <2> QED
    BY <1>1, <2>1, FitStep, RequestStep, RejectionStep DEF ReviewEvidence
<1>2. ASSUME ReviewEvidence, UNCHANGED <<storeVars, approvalVars>> PROVE ReviewEvidence'
  BY <1>2 DEF ReviewEvidence, ApprovalsTypeOK, StoreTypeOK, RequestEvidence, RequestsFit,
     SerialEvidence, RejectionIsFinal, RunningSubmits, RunningReviews, SubmitTarget, Decided,
     storeVars, approvalVars
<1> QED
  BY <1>1, <1>2

\* The evidence on requests and rejections holds of the component on its own.
THEOREM ReviewEvidenceHolds == ApprovalsSpec => []ReviewEvidence
BY ReviewEvidenceInit, ReviewEvidenceStep, PTL DEF ApprovalsSpec

\* With requests one at a time, what a rejecting review or a denying policy
\* evaluation has done is never undone: "rejected" is terminal.
THEOREM RejectionsAreFinal == ApprovalsSpec => []RejectionIsFinal
<1>1. ReviewEvidence => RejectionIsFinal
  BY DEF ReviewEvidence
<1> QED
  BY <1>1, ReviewEvidenceHolds, PTL

\* An intent that waits has a request that can be decided on: the row is
\* created before the intent is moved.
THEOREM RequestComesFirst == ApprovalsSpec => []WaitingIntentHasRequest
<1>1. ReviewEvidence => WaitingIntentHasRequest
  BY DEF ReviewEvidence, RequestEvidence, WaitingIntentHasRequest
<1> QED
  BY <1>1, ReviewEvidenceHolds, PTL

\* In the whole system, too, an intent that waits has a request that can be
\* decided on: of all that writes the intents row only submitForApproval
\* makes it wait.
THEOREM WaitingIsForRequest == Spec => []WaitingIntentHasRequest
<1>1. Init => RequestEvidence
  BY DEF Init, StoreInit, ApprovalsInit, RequestEvidence
<1>2. TypeOK /\ RequestEvidence /\ [Next]_vars => RequestEvidence'
  <2> SUFFICES ASSUME TypeOK, RequestEvidence, [Next]_vars PROVE RequestEvidence'
    OBVIOUS
  <2>1. CASE Approving
    BY <2>1, RequestStep DEF Approving, TypeOK
  <2>2. CASE Intaking \/ Executing \/ RollingBack \/ UNCHANGED vars
    <3>1. status' = status \/ status' # "pending_approval"
      BY <2>2, StatusWrites DEF Intaking, Executing, RollingBack, vars, storeVars
    <3>2. UNCHANGED <<request, submitPc, policy>>
      BY <2>2 DEF Intaking, Executing, RollingBack, vars, approvalVars
    <3> QED
      BY <3>1, <3>2 DEF RequestEvidence
  <2> QED
    BY <2>1, <2>2 DEF Next
<1>3. RequestEvidence => WaitingIntentHasRequest
  BY DEF RequestEvidence, WaitingIntentHasRequest
<1> QED
  BY <1>1, <1>2, <1>3, TypeCorrect, PTL DEF Spec
=============================================================================
