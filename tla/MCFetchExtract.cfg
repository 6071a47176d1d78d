SPECIFICATION ExtractSpec
CONSTANTS
  Statuses <- MCStatuses
  Contents <- MCContents
  Methods = {"trafilatura"}
  MaxCalls = 3
CHECK_DEADLOCK FALSE
INVARIANTS
  ReturnedPageUnblocked
  EscalationLadder
  OutcomeCounted
  EveryAttemptClosed
  ExtractionSettles
  RenderedOnce
  ExtractTypeOK
PROPERTIES
  CaptchaFailsClosed
