\* One request at a time; one of them may fail.
SPECIFICATION SubscriptionsSpec
CONSTANTS
  Requests = {"r1"}
  Preapprovals = {"p1"}
  Plans = {"pro"}
  Notices = {"n1"}
  Nothing = Nothing
  MaxInFlight = 1
  MaxOps = 1
  MaxRepeats = 0
  MaxFaults = 1
INVARIANT AnsweredIsSynced
CHECK_DEADLOCK FALSE
