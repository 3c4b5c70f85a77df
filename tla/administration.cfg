\* Up to two requests at a time, four in all, one of which may fail.
SPECIFICATION AdministrationSpec
CONSTANTS
  r1 = r1
  r2 = r2
  k1 = k1
  k2 = k2
  k3 = k3
  Requests = {r1, r2}
  Keys = {k1, k2, k3}
  Catalog <- MCCatalog
  Intents <- MCIntents
  Profiles = {"br"}
  Coupons = {"spring"}
  ConnectorLimit = 1
  DefaultTtl = 1
  MaxTtl = 2
  LastTime = 1
  Nothing = Nothing
  MaxInFlight = 2
  MaxOps = 4
  MaxFaults = 1
SYMMETRY MCSymmetry
INVARIANTS
  RotationReplaces
  AuditForksAreBounded
  ConnectorsHold
PROPERTIES
  PoliciesOnlyTighten
CHECK_DEADLOCK FALSE
