\* An API process and the reseal script: bytes lost in a reseal.
SPECIFICATION Spec
CONSTANTS
  api = api
  tool = tool
  r1 = r1
  r2 = r2
  s1 = s1
  s2 = s2
  Procs = {api, tool}
  Readers = {}
  Home <- MCNobody
  Resealers = {tool}
  Salts = {s1}
  NoSalt = NoSalt
  FaultKinds = {"tamper"}
  MaxFaults = 1
  MaxEntries = 3
  Seconds = {0}
CHECK_DEADLOCK FALSE
PROPERTY EvidenceKept
