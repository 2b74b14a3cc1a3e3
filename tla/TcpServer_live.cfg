CONSTANTS
  Conn = {c1, c2}
  c1 = c1
  c2 = c2
  Listener = Listener
  NoHandler = NoHandler
  SizeStep = 2
  ListenFd = 1
  OsLimit = 4
  MaxFd = 9
  IdleTimeout = 1
  MaxResponse = 1
  MaxClock = 0
  Conditions = {"stall"}
SPECIFICATION FairSpec
PROPERTY FinishedIsClosed
PROPERTY OutputDrains
CHECK_DEADLOCK FALSE
