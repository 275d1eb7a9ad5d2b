SPECIFICATION Spec
CONSTANTS
  p1 = p1
  p2 = p2
  u1 = u1
  Procs = {p1, p2}
  NoProc = NoProc
  Urls = {u1}
  NoAttestation = NoAttestation
  Invocations <- CommandLines
  Quorum = 1
  MaxEvents = 2
  Plans <- CommandPlans
  MaxMishaps = 1
INVARIANTS
  SealsVerify
PROPERTIES
  UntouchedPasses
  SealedEventsPresent
  StrictPassIsAttested
SYMMETRY Symmetry
CHECK_DEADLOCK FALSE
