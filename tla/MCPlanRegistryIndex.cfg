SPECIFICATION Spec
CONSTANTS
  Agents = {a1, a2}
  NoAgent = NoAgent
  Titles = {t1}
  Legacy = {}
  Remote = {}
  RemoteTitle = t1
  MaxPlan = 2
  MaxCalls = 2
  MaxFaults = 0
CHECK_DEADLOCK FALSE
INVARIANT
  IndexListsPlans
