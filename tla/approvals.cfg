\* Requests one at a time and in pairs, one of them may die.
SPECIFICATION ApprovalsSpec
CONSTANTS
  Submits = {"s1", "s2"}
  Reviews = {"r1", "r2", "r3", "r4"}
  Users = {"ada", "bob", "cyd"}
  ReviewerOf <- MCReviewerOf
  LastStage = 1
  Required <- MCRequired
  Eligible <- MCEligible
  MaxInFlight = 2
  MaxFaults = 1
INVARIANTS
  ApprovalNeedsEveryStage
  WaitingIntentHasRequest
  RejectionIsFinal
CHECK_DEADLOCK FALSE
