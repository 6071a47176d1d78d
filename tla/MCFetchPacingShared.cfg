SPECIFICATION Spec
CONSTANTS
  Tasks = {t1, t2}
  Domains = {d1}
  Interval = 2
  MaxRetryAfter = 0
PROPERTY
  RequestsSpaced
