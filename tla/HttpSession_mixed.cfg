CONSTANTS
  Requests <- MixedRequests
  Targets = {"root", "login", "upload", "static", "other"}
  MaxRequests = 3
  Pipelining = TRUE
  CutHeaders = 3
SPECIFICATION FairSpec
INVARIANT RequestsIntact
INVARIANT PromiseKept
PROPERTY ImplementsAppLayer
PROPERTY Answered
PROPERTY EndsAsAnnounced
CHECK_DEADLOCK FALSE
