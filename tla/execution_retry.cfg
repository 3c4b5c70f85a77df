SPECIFICATION ExecutionSpec
CONSTANTS
  Executes = {"q1"}
  MaxAttempts = 3
  MaxStalls = 1
  MaxFaults = 0
INVARIANT
  RetriesReachConnector
CHECK_DEADLOCK FALSE
