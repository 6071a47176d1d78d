SPECIFICATION FairSpec
CONSTANTS
  Agents = {a1, a2}
  NoAgent = NoAgent
  Titles = {t1, t2}
  Legacy = {1}
  Remote = {2}
  RemoteTitle = t1
  MaxPlan = 4
  MaxCalls = 2
  MaxFaults = 1
CHECK_DEADLOCK FALSE
INVARIANTS
  NumbersDistinct
  AllOrNothing
PROPERTIES
  ConsumedForGood
  CreateEnds
