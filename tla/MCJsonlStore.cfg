\* Three writers, no crash: exclusion, one chain, no duplicate, honest results.
SPECIFICATION Spec
CONSTANTS
  p1 = p1
  p2 = p2
  p3 = p3
  Procs = {p1, p2, p3}
  HostOf <- OneHost
  Keys = {k1}
  NoKey = NoKey
  NoLock = NoLock
  MaxEvents = 4
  MaxRetries = 2
  FinalAttempts = 2
  RotateAt = 0
  MaxFiles = 2
  MaxCrashes = 0
  MaxTorn = 1
  MaxMetaFaults = 0
  MayStall = FALSE
  CoarseClock = FALSE
SYMMETRY Symmetry
CHECK_DEADLOCK FALSE
INVARIANTS
  ChainLinked
  NoDuplicateKeys
  HonestOutcome
PROPERTY AppendIsAtomic
