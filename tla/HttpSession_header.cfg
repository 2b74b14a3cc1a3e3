CONSTANTS
  Requests <- SoundRequests
  Targets = {"root", "login", "upload", "static", "other"}
  MaxRequests = 3
  Pipelining = FALSE
  CutHeaders = 3
SPECIFICATION Spec
INVARIANT WaitsForMissingHeader
CHECK_DEADLOCK FALSE
