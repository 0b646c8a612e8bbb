\* Two processes and no faults: a chain that does not verify.
SPECIFICATION Spec
CONSTANTS
  api = api
  tool = tool
  r1 = r1
  r2 = r2
  s1 = s1
  s2 = s2
  Procs = {api, tool}
  Readers = {}
  Home <- MCNobody
  Resealers = {}
  Salts = {s1}
  NoSalt = NoSalt
  FaultKinds = {}
  MaxFaults = 0
  MaxEntries = 3
  Seconds = {0}
CHECK_DEADLOCK FALSE
INVARIANT ChainVerifies
