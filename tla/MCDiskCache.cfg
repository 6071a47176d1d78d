SPECIFICATION FairSpec
CONSTANTS
  Procs = {p1, p2}
  Keys = {k1, k2}
  NoProc = NoProc
  TTL = 0
  MaxEntries = 1
  MaxOps = 3
  MaxClock = 1
  MaxFaults = 1
CHECK_DEADLOCK FALSE
INVARIANTS
  TornOnlyWhileWriting
  SizeBoundedAtRest
PROPERTIES
  ImplementsContract
  OperationsEnd
