CONSTANTS
  c1 = c1
  c2 = c2
  Clients <- MCClients
  Sluggish <- MCSluggish
  WorkerCounts <- MCWorkerCounts
  MaxWorkers = 2
  MaxKills = 2
SPECIFICATION FairSpec
INVARIANT TypeOK
INVARIANT ServesUnprivileged
INVARIANT MasterNeverServes
INVARIANT WaitsForAll
PROPERTY MasterFollows
PROPERTY QueuedIsTaken
PROPERTY SessionsServed
CHECK_DEADLOCK FALSE
