SPECIFICATION FairSpec
CONSTANTS
  Fetches    = {f1, f2}
  MaxClients = 2
  MaxBatches = 2
INVARIANTS TypeOK FailsOnlyWithoutCode FreshAfterUpdate
PROPERTY CodeReachesPage
CHECK_DEADLOCK FALSE
