\* Two processes and two jobs, no faults and no cancel; process 2 runs a
\* release without a handler for job 2, and handlers may hang for ever.
SPECIFICATION FairSpec
CONSTANTS
  w1 = w1
  w2 = w2
  Workers = {w1, w2}
  Jobs = {1, 2}
  Callers = {}
  NoJob = NoJob
  Retries = {0, 1}
  PoolSize = 1
  NoHandler <- MCNoHandler
  FaultKinds = {}
  MaxFaults = 0
PROPERTIES
  EveryJobSettles
CHECK_DEADLOCK FALSE
