SPECIFICATION Spec
CONSTANTS
  Proposes = {"p1"}
  Simulates = {"m1"}
  Submits = {"s1"}
  Reviews = {"r1", "r2"}
  Users = {"ada", "bob"}
  ReviewerOf <- MCReviewerOf
  LastStage = 0
  Required <- MCRequired
  Eligible <- MCEligible
  MaxInFlight = 2
  Executes = {"q1"}
  MaxAttempts = 2
  MaxStalls = 1
  Rollbacks = {}
  RollbackSupport = "supported"
  MaxRollbackAttempts = 1
  MaxRollbackStalls = 1
  MaxRequestsInFlight = 1
  MaxFaults = 0
PROPERTY
  RejectedNeverRuns
CHECK_DEADLOCK FALSE
