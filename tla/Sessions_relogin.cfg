\* One device: its session is revoked, then the password is changed.
SPECIFICATION Spec
CONSTANTS
  Requests = {t1}
  Procs = {p1}
  Devices = {web}
  MaxBundles = 1
  MaxPassword = 2
  MaxTime = 2
  MaxEvents = 3
CHECK_DEADLOCK FALSE
INVARIANT ReloginRequired
