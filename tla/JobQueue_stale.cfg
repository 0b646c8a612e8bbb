\* Two processes and one row, nothing fails: the claim counts attempts from
\* a row read before the UPDATE.
SPECIFICATION Spec
CONSTANTS
  w1 = w1
  w2 = w2
  Workers = {w1, w2}
  Jobs = {1}
  Callers = {}
  NoJob = NoJob
  Retries = {1}
  PoolSize = 1
  NoHandler = {}
  FaultKinds = {}
  MaxFaults = 0
INVARIANT ExecutionsWithinBudget
CHECK_DEADLOCK FALSE
