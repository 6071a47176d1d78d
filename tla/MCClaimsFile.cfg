SPECIFICATION FairSpec
CONSTANTS
  Agents = {a1, a2}
  b1 = b1
  b2 = b2
  Hooking = {a1}
  Branches = {b1, b2}
  Complete = {}
  Requests <- MCRequests
  Hooked <- MCHooked
  Plans = {1, 2}
  Features = {"core", "shared"}
  Blockers <- MCBlockers
  Stale = 1
  Day = 1
  LocalOffset = 0
  Keep = 2
  MaxCalls = 3
  MaxDeaths = 1
CHECK_DEADLOCK FALSE
INVARIANTS
  OneClaimPerInstance
  ScopesExclusive
  ReportedClaimsListed
PROPERTIES
  OwnersKeepClaims
  DeadOwnerYields
