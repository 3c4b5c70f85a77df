\* Two tabs, up to two requests at a time.
SPECIFICATION DashboardSpec
CONSTANTS
  Tabs = {"t1", "t2"}
  Sessions = {"s1", "s2"}
  Flows = {"f1", "f2"}
  Tokens = {"c1", "c2", "c3", "c4", "c5"}
  Nothing = Nothing
  MaxInFlight = 2
  MaxOps = 5
INVARIANTS
  SignedOutStaysOut
  TurnedAwayForCause
  FormsFit
  OneIdentity
PROPERTY
  VisitsSettle
CHECK_DEADLOCK FALSE
