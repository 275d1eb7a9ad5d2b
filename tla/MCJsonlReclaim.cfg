\* Three writers, one of which dies with the lock: two reclaimers race.
SPECIFICATION Spec
CONSTANTS
  p1 = p1
  p2 = p2
  p3 = p3
  Procs = {p1, p2, p3}
  HostOf <- OneHost
  Keys = {k1}
  NoKey = NoKey
  NoLock = NoLock
  MaxEvents = 3
  MaxRetries = 2
  FinalAttempts = 2
  RotateAt = 0
  MaxFiles = 2
  MaxCrashes = 1
  MaxTorn = 0
  MaxMetaFaults = 0
  MayStall = FALSE
  CoarseClock = FALSE
SYMMETRY Symmetry
CHECK_DEADLOCK FALSE
INVARIANT ChainLinked
