\* Two writers that crash, leak their lock and rotate, under fairness.
SPECIFICATION FairSpec
CONSTANTS
  p1 = p1
  p2 = p2
  p3 = p3
  Procs = {p1, p2}
  HostOf <- OneHost
  Keys = {k1}
  NoKey = NoKey
  NoLock = NoLock
  MaxEvents = 3
  MaxRetries = 2
  FinalAttempts = 2
  RotateAt = 1
  MaxFiles = 2
  MaxCrashes = 1
  MaxTorn = 0
  MaxMetaFaults = 1
  MayStall = FALSE
  CoarseClock = FALSE
CHECK_DEADLOCK FALSE
INVARIANTS
  SafeUnlessStolen
  
  HonestOutcome
PROPERTIES
  EveryCallReturns
  DeadHolderDoesNotBlock
