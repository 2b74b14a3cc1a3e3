CONSTANTS
  Requests <- EvenRequests
  Targets = {"root", "login", "upload", "static", "other"}
  MaxRequests = 3
  Pipelining = TRUE
  CutHeaders = 0
SPECIFICATION Spec
INVARIANT WaitsForMissingBody
CHECK_DEADLOCK FALSE
