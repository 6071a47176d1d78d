SPECIFICATION FairWorkSpec
CONSTANTS
  a1 = a1
  a2 = a2
  lw = lw
  s1 = s1
  Agents = {a1, a2}
  LegacyOwners = {lw}
  Scopes = {s1}
  Files = {f1}
  LegacyClaims <- MCLegacyClaims
  TTL = 2
  MaxFaults = 1
INVARIANTS
  OneHolder
  HolderRenews
PROPERTIES
  ObservedKept
  DeadWorkExpires
