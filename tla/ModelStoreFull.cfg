SPECIFICATION FairSpec
CONSTANTS
  Apis = {a1}
  Trainings = 4
  Keep = 2
  MaxFaults = 2
  a1 = a1
  None = None
INVARIANT TypeOK
INVARIANT LatestIsWhole
INVARIANT WorkerScoresNewestHealthy
PROPERTY HealthyTrainingKeepsServing
PROPERTY NeverBackFromHealthy
PROPERTY ApiCatchesUp
CHECK_DEADLOCK FALSE
