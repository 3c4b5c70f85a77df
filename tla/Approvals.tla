----------------------------- MODULE Approvals ------------------------------
(***************************************************************************)
(* modules/approvals/service.ts: submitForApproval and                     *)
(* processApprovalDecision on one intent, run by concurrent API requests.  *)
(*                                                                         *)
(* Every action is the part of a handler up to and including one database  *)
(* statement; requests interleave between statements because neither       *)
(* handler opens a transaction.                                            *)
(*                                                                         *)
(*   submit: idle -> evaluate -> create -> transition -> update -> done    *)
(*   review: idle -> dedupe -> record -> row -> transition -> update       *)
(*                                                          -> done        *)
(*                                                                         *)
(* "refused" is a handler that threw an application error, "dead" one that *)
(* a fault ended half way.                                                 *)
(***************************************************************************)
EXTENDS IntentStore, FiniteSets

CONSTANTS
  Submits,       \* submit-for-approval requests
  Reviews,       \* approve / reject requests
  Users,         \* the users who review
  ReviewerOf,    \* ReviewerOf[r]: the user on whose behalf r is made
  LastStage,     \* index of the last approval stage (stages are 0..LastStage)
  Required,      \* Required[k]: requiredCount of stage k
  Eligible,      \* Eligible[k]: users whose role may review stage k
  MaxInFlight    \* bound on the requests that run at the same time

Stages == 0..LastStage

ASSUME ApprovalsAssumption ==
  /\ IsFiniteSet(Submits) /\ IsFiniteSet(Reviews)
  /\ ReviewerOf \in [Reviews -> Users]
  /\ LastStage \in Nat
  /\ Required \in [Stages -> Nat \ {0}]
  /\ Eligible \in [Stages -> SUBSET Users]
  /\ MaxInFlight \in Nat \ {0}

VARIABLES
  request,    \* the approval_requests row (status "none": no row yet)
  decisions,  \* decisions[r]: the approval_decisions row that r created
  policy,     \* policy[s]: overallResult of the policy evaluation in s
  submitPc,
  reviewPc,
  snapshot,   \* snapshot[r]: what r read of the row and of its decisions
  width       \* how many requests this behaviour lets run at the same time

approvalVars == <<request, decisions, policy, submitPc, reviewPc, snapshot, width>>

Verdict == {"approved", "rejected"}
Decision == [verdict : Verdict \cup {"none"}, stage : Stages]
NoDecision == [verdict |-> "none", stage |-> 0]
Decided == {r \in Reviews : decisions[r].verdict # "none"}

Request == [status : {"none", "pending", "approved", "rejected"},
            stage : Stages, count : Nat]
Snapshot == [stage : Stages, count : Nat, seen : SUBSET Reviews]
PolicyResult == {"none", "allow", "require_approval", "deny"}
Ended == {"done", "refused", "dead"}
SubmitPc == {"idle", "evaluate", "create", "transition", "update"} \cup Ended
ReviewPc == {"idle", "dedupe", "record", "row", "transition", "update"} \cup Ended

ApprovalsTypeOK ==
  /\ StoreTypeOK
  /\ request \in Request
  /\ decisions \in [Reviews -> Decision]
  /\ policy \in [Submits -> PolicyResult]
  /\ submitPc \in [Submits -> SubmitPc]
  /\ reviewPc \in [Reviews -> ReviewPc]
  /\ snapshot \in [Reviews -> Snapshot]
  /\ width \in 1..MaxInFlight
  /\ \A r \in Reviews :
       reviewPc[r] \in {"row", "transition", "update"} => decisions[r].verdict \in Verdict

ApprovalsInit ==
  /\ request = [status |-> "none", stage |-> 0, count |-> 0]
  /\ decisions = [r \in Reviews |-> NoDecision]
  /\ policy = [s \in Submits |-> "none"]
  /\ submitPc = [s \in Submits |-> "idle"]
  /\ reviewPc = [r \in Reviews |-> "idle"]
  /\ snapshot = [r \in Reviews |-> [stage |-> 0, count |-> 0, seen |-> {}]]
  /\ width \in 1..MaxInFlight

RunningSubmits == {s \in Submits : submitPc[s] \notin Ended \cup {"idle"}}
RunningReviews == {r \in Reviews : reviewPc[r] \notin Ended \cup {"idle"}}
ApprovalsIdle == RunningSubmits = {} /\ RunningReviews = {}
MayStart ==
  Cardinality(RunningSubmits) + Cardinality(RunningReviews) < width

\* Approvals recorded for stage k, and whether they reach its requiredCount.
ApprovedAt(k) ==
  {r \in Reviews : decisions[r].verdict = "approved" /\ decisions[r].stage = k}
Satisfied(k) == Cardinality(ApprovedAt(k)) >= Required[k]

-----------------------------------------------------------------------------
(* submitForApproval                                                       *)

\* The workspace's plan may refuse the stages; then the intent row and the
\* enabled policies are read, and only a simulated intent may be submitted.
SubmitRead(s) ==
  /\ submitPc[s] = "idle" /\ MayStart
  /\ \E to \in {"evaluate", "refused"} :
       /\ to = "evaluate" => status = "simulated"
       /\ submitPc' = [submitPc EXCEPT ![s] = to]
  /\ UNCHANGED <<storeVars, width, request, decisions, policy, reviewPc, snapshot>>

\* Bug: the intent is moved before its request is created.
SubmitEvaluateMovesFirst(s) ==
  /\ submitPc[s] = "evaluate"
  /\ \E result \in PolicyResult \ {"none"} : policy' = [policy EXCEPT ![s] = result]
  /\ submitPc' = [submitPc EXCEPT ![s] = "transition"]
  /\ UNCHANGED <<storeVars, width, request, decisions, reviewPc, snapshot>>

\* The policy_decisions rows are written.  Policies are data an operator may
\* edit between two submissions, so the result is free.
SubmitEvaluate(s) ==
  /\ submitPc[s] = "evaluate"
  /\ \E result \in PolicyResult \ {"none"} :
       /\ policy' = [policy EXCEPT ![s] = result]
       /\ submitPc' = [submitPc EXCEPT ![s] =
                         IF result = "deny" THEN "transition" ELSE "create"]
  /\ UNCHANGED <<storeVars, width, request, decisions, reviewPc, snapshot>>

\* approval_requests.intent_id is unique: a second row is refused.
SubmitCreate(s) ==
  /\ submitPc[s] = "create"
  /\ \/ /\ request.status = "none"
        /\ request' = [status |-> "pending", stage |-> 0, count |-> 0]
        /\ submitPc' = [submitPc EXCEPT ![s] = "transition"]
     \/ /\ request.status # "none"
        /\ submitPc' = [submitPc EXCEPT ![s] = "refused"]
        /\ UNCHANGED request
  /\ UNCHANGED <<storeVars, width, decisions, policy, reviewPc, snapshot>>

SubmitTarget(s) == IF policy[s] = "deny" THEN "rejected" ELSE "pending_approval"

SubmitTransition(s) ==
  /\ submitPc[s] = "transition"
  /\ \/ /\ TransitionAllowed(SubmitTarget(s))
        /\ submitPc' = [submitPc EXCEPT ![s] = "update"]
     \/ /\ TransitionRefused(SubmitTarget(s))
        /\ submitPc' = [submitPc EXCEPT ![s] = "refused"]
  /\ UNCHANGED <<width, request, decisions, policy, reviewPc, snapshot>>

SubmitUpdate(s) ==
  /\ submitPc[s] = "update"
  /\ ApplyTransition(SubmitTarget(s))
  /\ submitPc' = [submitPc EXCEPT ![s] = "done"]
  /\ UNCHANGED <<width, request, decisions, policy, reviewPc, snapshot>>

\* A fault ends the request after what it has already written.
SubmitDies(s) ==
  /\ s \in RunningSubmits
  /\ Fault
  /\ submitPc' = [submitPc EXCEPT ![s] = "dead"]
  /\ UNCHANGED <<width, request, decisions, policy, reviewPc, snapshot>>

-----------------------------------------------------------------------------
(* processApprovalDecision                                                 *)

\* The request is read together with its decisions, and must be pending.
\* Without a row there is no id to review, so the request cannot be made.
ReviewRead(r) ==
  /\ reviewPc[r] = "idle" /\ MayStart
  /\ request.status # "none"
  /\ \/ /\ request.status = "pending"
        /\ snapshot' = [snapshot EXCEPT ![r] =
                          [stage |-> request.stage, count |-> request.count,
                           seen |-> Decided]]
        /\ reviewPc' = [reviewPc EXCEPT ![r] = "dedupe"]
     \/ /\ request.status # "pending"
        /\ reviewPc' = [reviewPc EXCEPT ![r] = "refused"]
        /\ UNCHANGED snapshot
  /\ UNCHANGED <<storeVars, width, request, decisions, policy, submitPc>>

\* The role of the user by now, which must be an active member, against those
\* of the stage; who has which role does not change meanwhile.
MayReview(u, k) == u \in Eligible[k]

\* findFirst on the user's decision, then the role check of the active stage.
ReviewDedupe(r) ==
  /\ reviewPc[r] = "dedupe"
  /\ LET voted == \E d \in Decided : ReviewerOf[d] = ReviewerOf[r]
         allowed == MayReview(ReviewerOf[r], snapshot[r].stage)
     IN  reviewPc' = [reviewPc EXCEPT ![r] =
                        IF ~voted /\ allowed THEN "record" ELSE "refused"]
  /\ UNCHANGED <<storeVars, width, request, decisions, policy, submitPc, snapshot>>

\* approval_decisions has no unique key on (request, user).
ReviewRecord(r) ==
  /\ reviewPc[r] = "record"
  /\ \E v \in Verdict :
       decisions' = [decisions EXCEPT ![r] =
                       [verdict |-> v, stage |-> snapshot[r].stage]]
  /\ reviewPc' = [reviewPc EXCEPT ![r] = "row"]
  /\ UNCHANGED <<storeVars, width, request, policy, submitPc, snapshot>>

\* The decisions r counts: those it read, and its own.
Counted(r) ==
  {d \in snapshot[r].seen \cup {r} : decisions[d].verdict = "approved"}

StageComplete(r) ==
  Cardinality({d \in Counted(r) : decisions[d].stage = snapshot[r].stage})
    >= Required[snapshot[r].stage]

\* Bug: any complete stage approves the request.
RowAfterApprovalAnyStage(r) ==
  [status |-> IF StageComplete(r) THEN "approved" ELSE "pending",
   stage  |-> snapshot[r].stage,
   count  |-> Cardinality(Counted(r))]

\* The request row after an approval, computed from the snapshot alone.
RowAfterApproval(r) ==
  LET last == snapshot[r].stage >= LastStage
  IN  [status |-> IF StageComplete(r) /\ last THEN "approved" ELSE "pending",
       stage  |-> IF StageComplete(r) /\ ~last THEN snapshot[r].stage + 1
                                               ELSE snapshot[r].stage,
       count  |-> Cardinality(Counted(r))]

\* Bug: a rejection closes the request and forgets the intent.
ReviewRejectRowOnly(r) ==
  /\ reviewPc[r] = "row" /\ decisions[r].verdict = "rejected"
  /\ request' = [request EXCEPT !.status = "rejected",
                                !.count = snapshot[r].count]
  /\ reviewPc' = [reviewPc EXCEPT ![r] = "done"]
  /\ UNCHANGED <<storeVars, width, decisions, policy, submitPc, snapshot>>

ReviewReject(r) ==
  /\ reviewPc[r] = "row" /\ decisions[r].verdict = "rejected"
  /\ request' = [request EXCEPT !.status = "rejected",
                                !.count = snapshot[r].count]
  /\ reviewPc' = [reviewPc EXCEPT ![r] = "transition"]
  /\ UNCHANGED <<storeVars, width, decisions, policy, submitPc, snapshot>>

ReviewApprove(r) ==
  /\ reviewPc[r] = "row" /\ decisions[r].verdict = "approved"
  /\ request' = RowAfterApproval(r)
  /\ reviewPc' = [reviewPc EXCEPT ![r] =
                    IF request'.status = "approved" THEN "transition" ELSE "done"]
  /\ UNCHANGED <<storeVars, width, decisions, policy, submitPc, snapshot>>

\* A reviewer's verdict is also the state it asks transitionIntent for.
ReviewTransition(r) ==
  /\ reviewPc[r] = "transition"
  /\ \/ /\ TransitionAllowed(decisions[r].verdict)
        /\ reviewPc' = [reviewPc EXCEPT ![r] = "update"]
     \/ /\ TransitionRefused(decisions[r].verdict)
        /\ reviewPc' = [reviewPc EXCEPT ![r] = "refused"]
  /\ UNCHANGED <<width, request, decisions, policy, submitPc, snapshot>>

\* Bug: both verdicts write the state of an approval.
ReviewUpdateApproves(r) ==
  /\ reviewPc[r] = "update"
  /\ ApplyTransition("approved")
  /\ reviewPc' = [reviewPc EXCEPT ![r] = "done"]
  /\ UNCHANGED <<width, request, decisions, policy, submitPc, snapshot>>

ReviewUpdate(r) ==
  /\ reviewPc[r] = "update"
  /\ ApplyTransition(decisions[r].verdict)
  /\ reviewPc' = [reviewPc EXCEPT ![r] = "done"]
  /\ UNCHANGED <<width, request, decisions, policy, submitPc, snapshot>>

ReviewDies(r) ==
  /\ r \in RunningReviews
  /\ Fault
  /\ reviewPc' = [reviewPc EXCEPT ![r] = "dead"]
  /\ UNCHANGED <<width, request, decisions, policy, submitPc, snapshot>>

-----------------------------------------------------------------------------
SubmitStep(s) ==
  \/ SubmitRead(s)
  \/ SubmitEvaluate(s)
  \/ SubmitCreate(s)
  \/ SubmitTransition(s)
  \/ SubmitUpdate(s)
  \/ SubmitDies(s)

ReviewStep(r) ==
  \/ ReviewRead(r)
  \/ ReviewDedupe(r)
  \/ ReviewRecord(r)
  \/ ReviewReject(r)
  \/ ReviewApprove(r)
  \/ ReviewTransition(r)
  \/ ReviewUpdate(r)
  \/ ReviewDies(r)

ApprovalsNext ==
  \/ \E s \in Submits : SubmitStep(s)
  \/ \E r \in Reviews : ReviewStep(r)

\* On its own, the component starts with a simulated intent.
SimulatedStart == StoreInit("simulated") /\ ApprovalsInit

ApprovalsSpec ==
  /\ SimulatedStart
  /\ [][ApprovalsNext]_<<storeVars, approvalVars>>

-----------------------------------------------------------------------------
(* Properties                                                              *)

AllSatisfied == \A k \in Stages : Satisfied(k)

\* An approval, of the request row or of the intent, stands on the required
\* number of recorded approvals in every stage, however stale the snapshot it
\* was computed from (the row is overwritten without a comparison).
ApprovalNeedsEveryStage ==
  request.status = "approved" \/ status = "approved" => AllSatisfied

\* A decision counts for a stage only after all earlier stages had their
\* approvals: a late write that moves currentStageIndex back or forth never
\* opens a stage early.
StagesInOrder ==
  \A r \in Decided : \A k \in Stages : k < decisions[r].stage => Satisfied(k)

\* An intent waits for approval only when there is a request to decide on;
\* otherwise nobody could ever move it (the row is created first).
WaitingIntentHasRequest == status = "pending_approval" => request.status # "none"

\* "Any rejection rejects the entire request", and rejected is terminal: once
\* a rejecting review or a denying policy evaluation has finished, the intent
\* is and stays rejected.  That takes requests one at a time.
RejectionIsFinal ==
  width = 1 =>
    /\ \A r \in Reviews :
         reviewPc[r] = "done" /\ decisions[r].verdict = "rejected"
           => status = "rejected"
    /\ \A s \in Submits :
         submitPc[s] = "done" /\ policy[s] = "deny" => status = "rejected"
=============================================================================
