CONSTANTS
  Process = {p1, p2}
  User = {alice, bob}
  MaxUploads = 2
  MaxFaults = 2
  MaxTime = 3
  MaxText = 3
  MaxLength = 2
SPECIFICATION PagesSpec
SYMMETRY Symmetry
INVARIANT TypeOK
INVARIANT CreatedIsWhole
INVARIANT FailureLeavesNothing
INVARIANT FailuresHaveCauses
INVARIANT ListingHonest
PROPERTY NotModifiedHonest
CHECK_DEADLOCK FALSE
