SPECIFICATION Spec
CONSTANTS
  Agents = {a1, a2}
  Paths = {p1}
  Branches = {b1, b2}
  NoBranch = NoBranch
  Areas = {x1, x2}
  MaxCalls = 3
  MaxClaims = 2
SYMMETRY Symmetric
CHECK_DEADLOCK FALSE
INVARIANT
  ClaimsSeparateAgents
PROPERTIES
  WorkKept
  ClaimsStopRemoval
