\* The whole life of an intent: two reviews that may overlap in any way, an
\* execution with one retry, a rollback, and one fault anywhere.
SPECIFICATION Spec
CONSTANTS
  Proposes = {"p1"}
  Simulates = {"m1"}
  Submits = {"s1"}
  Reviews = {"r1", "r2"}
  Users = {"ada", "bob"}
  ReviewerOf <- MCReviewerOf
  LastStage = 0
  Required <- MCRequired
  Eligible <- MCEligible
  MaxInFlight = 2
  Executes = {"q1"}
  MaxAttempts = 2
  MaxStalls = 1
  Rollbacks = {"b1"}
  RollbackSupport = "supported"
  MaxRollbackAttempts = 1
  MaxRollbackStalls = 1
  MaxRequestsInFlight = 1
  MaxFaults = 1
INVARIANTS
  Evidence
PROPERTY
  KeepsPromise
CHECK_DEADLOCK FALSE
