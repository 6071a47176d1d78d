SPECIFICATION Spec
CONSTANTS
  Tasks = {t1, t2}
  Providers = {"brave", "exa", "tavily", "reddit", "arxiv", "github", "x", "hackernews", "openalex", "searxng"}
  Configured = {"brave", "exa", "tavily", "reddit", "arxiv", "github", "x", "hackernews", "openalex"}
  Credentialed = {"reddit", "x"}
  Urls = {"u1", "u2", "u3"}
  NoUrl = "none"
  Queries <- MCQueries
  Responses <- MCResponses
  TopK = 2
  StorageFails = TRUE
  MaxCalls = 2
CHECK_DEADLOCK FALSE
INVARIANTS
  MergedByPriority
  BatchAccountsForHits
  HitsFitTheControls
PROPERTIES
  LateAnswersKeepCaches
