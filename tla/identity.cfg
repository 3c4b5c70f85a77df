\* Up to two requests at a time, four in all, of a founder and another user.
SPECIFICATION MCSpec
CONSTANTS
  r1 = r1
  r2 = r2
  s1 = s1
  s2 = s2
  i1 = i1
  Requests = {r1, r2}
  Users = {"ada", "bob"}
  Founder = "ada"
  Workspaces = {"north", "south"}
  Sessions = {s1, s2}
  Invites = {i1}
  Grantable = {"admin", "member"}
  MaxSeats = 2
  Nothing = Nothing
  MaxInFlight = 2
  MaxTokens = 2
  MaxOps = 4
SYMMETRY MCSymmetry
INVARIANTS
  OwnersStay
  HomeRoleAgrees
  SessionsAreEntitled
  TokensAreUsedUp
  NothingLeftOfRedacted
  SeatsHold
CHECK_DEADLOCK FALSE
