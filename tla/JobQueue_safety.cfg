\* One row, two processes, two cancel calls, two faults: every interleaving.
\* The queue may be idle for ever, which TLC calls a deadlock.
SPECIFICATION Spec
CONSTANTS
  w1 = w1
  w2 = w2
  Workers = {w1, w2}
  Jobs = {1}
  Callers = {c1, c2}
  NoJob = NoJob
  Retries = {0, 1}
  PoolSize = 1
  NoHandler = {}
  FaultKinds = {"error", "shutdown", "kill"}
  MaxFaults = 2
SYMMETRY WorkerSymmetry
INVARIANTS
  TypeOK
  OneHolder
  AttemptsAgree
  CancelStopsExecution
  NoRetryRunsOnce
PROPERTIES
  SettledIsFinal
  ImplementsCustody
CHECK_DEADLOCK FALSE
