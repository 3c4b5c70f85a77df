\* Two requests, one after the other, the code's three attempts, one recovery,
\* and one answer of the remote system that gets lost.
SPECIFICATION ConnectedSpec
CONSTANTS
  Asks <- MCAsks
  Nothing = Nothing
  Rollbacks = {"b1", "b2"}
  RollbackSupport = "supported"
  MaxRollbackAttempts = 3
  MaxRollbackStalls = 1
  MaxRequestsInFlight = 1
  MaxFaults = 1
  MaxLost = 1
INVARIANTS
  RollbackOutcomeIsTold
  RolledBackIsRestored
  ReversibilityIsHonest
  FailedRollbackLeftIt
  NotUndoneAgain
PROPERTY
  AcceptedRollbackSettles
CHECK_DEADLOCK FALSE
