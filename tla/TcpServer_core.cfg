CONSTANTS
  Conn = {c1, c2}
  c1 = c1
  c2 = c2
  Listener = Listener
  NoHandler = NoHandler
  SizeStep = 2
  ListenFd = 1
  OsLimit = 4
  MaxFd = 9
  IdleTimeout = 1
  MaxResponse = 2
  MaxClock = 2
  Conditions = {"reset", "workers"}
SPECIFICATION Spec
SYMMETRY Symmetry
INVARIANT TypeOK
INVARIANT RegistriesAgree
INVARIANT WriteCursor
INVARIANT HandlersPolled
INVARIANT HandlersInTable
PROPERTY NoResponseLost
PROPERTY ImplementsService
CHECK_DEADLOCK FALSE
