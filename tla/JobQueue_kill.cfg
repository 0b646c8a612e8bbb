\* One process, killed once and started again.
SPECIFICATION FairSpec
CONSTANTS
  w1 = w1
  w2 = w2
  Workers = {w1}
  Jobs = {1}
  Callers = {}
  NoJob = NoJob
  Retries = {1}
  PoolSize = 1
  NoHandler = {}
  FaultKinds = {"kill"}
  MaxFaults = 1
PROPERTY EveryJobSettles
CHECK_DEADLOCK FALSE
