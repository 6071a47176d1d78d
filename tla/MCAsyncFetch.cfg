SPECIFICATION ASpec
CONSTANTS
  Tasks = {t1, t2}
  Domains = {d1, d2, d3}
  Blocked = {d3}
  Statuses = {200, 404, 503}
  Contents <- MCContents
  AutoRender = TRUE
  Interval = 2
  MaxRetryAfter = 1
  MaxCalls = 3
CHECK_DEADLOCK FALSE
INVARIANTS
  CallsCountedOnce
  AttemptsClosed
PROPERTIES
  OwnRequestsSpaced
