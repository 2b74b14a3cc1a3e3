CONSTANTS
  Conn = {c1, c2}
  c1 = c1
  c2 = c2
  Listener = Listener
  NoHandler = NoHandler
  SizeStep = 2
  ListenFd = 1
  OsLimit = 5
  MaxFd = 9
  IdleTimeout = 1
  MaxResponse = 1
  MaxClock = 3
  Conditions = {}
SPECIFICATION Spec
SYMMETRY Symmetry
INVARIANT EventsAreReal
CHECK_DEADLOCK FALSE
