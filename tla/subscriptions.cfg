\* Up to two requests at a time: two of users, and the webhooks of two changes
\* at the provider with one of them delivered once more; one request may fail.
SPECIFICATION SubscriptionsSpec
CONSTANTS
  Requests = {"r1", "r2"}
  Preapprovals = {"p1", "p2"}
  Plans = {"pro"}
  Notices = {"n1", "n2"}
  Nothing = Nothing
  MaxInFlight = 2
  MaxOps = 2
  MaxRepeats = 1
  MaxFaults = 1
INVARIANTS
  NoticesApplyOnce
PROPERTIES
  TrialEndsOnce
  EventuallyInSync
CHECK_DEADLOCK FALSE
