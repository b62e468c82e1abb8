SPECIFICATION FairSpec
CONSTANTS
  d1 = d1
  d2 = d2
  i1 = i1
  Deliveries = {d1, d2}
  Instances = {i1}
  Workers = {w1, w2}
  InstanceOf <- MCInstanceOf
  Codes = {200, 404, 429}
  QueueSize = 1
  MaxAttempts = 2
  PerInstance = 1
  NoJob = NoJob
INVARIANTS TypeOK OneCarrier TokensMatchHolders RowTellsTheTruth NoSilentLoss GracefulDrain
PROPERTIES NoPostAfterFinal LogSpec EveryJobEnds ShutdownEnds
