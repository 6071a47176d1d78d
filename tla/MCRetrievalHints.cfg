SPECIFICATION Spec
CONSTANTS
  Tasks = {t1}
  Providers = {"exa"}
  Configured = {"exa"}
  Credentialed = {}
  Urls = {"u1", "u2", "u3"}
  NoUrl = "none"
  Queries <- MCHintQueries
  Responses <- MCListed
  TopK = 2
  StorageFails = FALSE
  MaxCalls = 2
CHECK_DEADLOCK FALSE
INVARIANT
  HitsAnswerTheQuery
