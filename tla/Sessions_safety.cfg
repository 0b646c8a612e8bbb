SPECIFICATION Spec
CONSTANTS
  Requests = {t1, t2}
  Procs = {p1, p2}
  Devices = {web, phone}
  MaxBundles = 3
  MaxPassword = 2
  MaxTime = 2
  MaxEvents = 4
SYMMETRY MCSymmetry
CHECK_DEADLOCK FALSE
INVARIANTS
  TypeOK
  RevokedStayOut
  RevocationHolds
  OldPasswordOut
