CONSTANTS
  p1 = p1
  p2 = p2
  alice = alice
  bob = bob
  Process = {p1, p2}
  Seeded = {p1, p2}
  User = {alice, bob}
  NameLen <- MCNameLen
  MaxStarts = 3
  MaxDraws = 3
SPECIFICATION Spec
SYMMETRY Symmetry
INVARIANT TypeOK
INVARIANT CookiesHonest
INVARIANT OneSignsOut
CHECK_DEADLOCK FALSE
