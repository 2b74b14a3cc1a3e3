CONSTANTS
  Conn = {c1, c2, c3}
  c1 = c1
  c2 = c2
  c3 = c3
  Listener = Listener
  NoHandler = NoHandler
  SizeStep = 2
  ListenFd = 0
  OsLimit = 4
  MaxFd = 2
  IdleTimeout = 1
  MaxResponse = 1
  MaxClock = 1
  Conditions = {"clockback", "leak", "pipelining"}
SPECIFICATION Spec
SYMMETRY Symmetry
CHECK_DEADLOCK FALSE
INVARIANT SessionsFit
INVARIANT TimeoutsSorted
