\* Up to two of five requests at a time, two of them with one key, over two
\* months, with one fault; both kinds of plan.
SPECIFICATION MeteringSpec
CONSTANTS
  c1 = c1
  c2 = c2
  c3 = c3
  c4 = c4
  c5 = c5
  Twins = {c1, c2}
  Keyless = {c3, c4, c5}
  Creates <- MCCreates
  KeyOf <- MCKeyOf
  NoKey = NoKey
  Limit = 2
  WarningAt = 1
  MaxInFlight = 2
  LastMonth = 1
  MaxFaults = 1
SYMMETRY MCSymmetry
INVARIANTS
  LimitHolds
  OneIntentPerKey
  IntentsAreCounted
  MarksFollowCount
  OverageIsInvoiced
CHECK_DEADLOCK FALSE
