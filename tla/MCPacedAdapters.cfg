SPECIFICATION PFairSpec
CONSTANTS
  Threads = {t1, t2}
  NoThread = NoThread
  Limit = 1
  Interval = 2
  MaxGens = 2
  Retries = 1
  MaxTokens = 2
INVARIANTS
  ConcurrencyCapped
  OneRequestPerGrant
  RefusedTokenDropped
PROPERTIES
  GrantsSpaced
  SearchEnds
