\* Every commit the handler sees is attested.
INIT MCInit
NEXT MCNext
CONSTANTS
  Scenes = {"commits"}
  \* DualWrite
  Writers = {w1, w2}
  Importers = {i1, i2}
  History <- MCHistory
  None = None
  Keys = {k1}
  MaxRebuilds = 1
  MaxWriteFaults = 2
  \* CommitAttestor
  Handlers = {h1, h2}
  NoKey = NoKey
  Inputs <- MCInputs
  MaxMissteps = 1
  \* Enrollment
  c1 = c1
  c2 = c2
  c3 = c3
  m1 = m1
  m2 = m2
  Admins = {a1, a2}
  Clients = {c1, c2, c3}
  Machines = {m1, m2}
  MachineOf <- MCMachineOf
  Names = {red, blue}
  NoConfig = NoConfig
  MaxServings = 4
  MaxEnrollFaults = 1
  \* Telemetry
  Tellers = {t1, t2, t3}
  Nobody = Nobody
  OldLines <- MCOldLines
  MaxLinesPerFile = 1
  MaxFiles = 3
  TELEM_LOCK_MAX_RETRIES = 2
  MaxMishaps = 1
CHECK_DEADLOCK FALSE
INVARIANT CommitAttested
