\* One process, two reader threads, every kind of fault.
SPECIFICATION Spec
CONSTANTS
  api = api
  tool = tool
  r1 = r1
  r2 = r2
  s1 = s1
  s2 = s2
  Procs = {api}
  Readers = {r1, r2}
  Home <- MCOneHome
  Resealers = {api}
  Salts = {s1, s2}
  NoSalt = NoSalt
  FaultKinds = {"tamper", "torn", "restart"}
  MaxFaults = 1
  MaxEntries = 2
  Seconds = {0, 1}
SYMMETRY MCSymmetry
CHECK_DEADLOCK FALSE
INVARIANTS
  TypeOK
  LinksIntact
  ChainVerifies
  ReportsTrue
PROPERTIES
  EvidenceKept
  OnlyCorruptResealed
