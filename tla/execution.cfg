\* Three concurrent requests, the code's three attempts, one recovery, two faults,
\* and one answer of the remote system that gets lost.
SPECIFICATION ConnectedSpec
CONSTANTS
  Asks <- MCAsks
  Nothing = Nothing
  Executes = {"q1", "q2", "q3"}
  MaxAttempts = 3
  MaxStalls = 1
  MaxFaults = 2
  MaxLost = 1
INVARIANTS
  ExecutedAtMostOnce
  SuccessIsReal
  FinishedJobAgrees
  SucceededCanBeUndone
  FailedLeftNothing
PROPERTY
  AcceptedExecutionSettles
CHECK_DEADLOCK FALSE
