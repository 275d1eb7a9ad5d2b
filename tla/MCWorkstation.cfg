\* Three hooks and clear-taint; two installers and the user; two signers and a relay.
INIT MCInit
NEXT MCNext
CONSTANTS
  Scenes = {"taint", "installer", "signing"}
  \* TaintStore
  Calls = {c1, c2, c3}
  Tools = {"BashSecret", "Write"}
  NoTool = NoTool
  NoLock = NoLock
  NoSnapshot = NoSnapshot
  MaxCrashes = 1
  MaxFaults = 1
  MaxClears = 1
  MayStall = FALSE
  \* Installer
  Runners = {r1, r2}
  InitFlags <- MCFlags
  Seeds <- MCSeeds
  UserHandlers <- MCUserHandlers
  UserEvents = {"PreToolUse"}
  Words <- MCWords
  MaxCommands = 3
  MaxUserEdits = 2
  MaxDeaths = 1
  \* Signing
  Signers = {g1, g2}
  Branches = {"main", "detached HEAD"}
  PlainBranches = {"main"}
  MaxKeys = 3
  MaxCommits = 2
  MaxRelayChanges = 1
  MaxSigningFaults = 1
CHECK_DEADLOCK FALSE
INVARIANTS
  NoLostUpdate
  InstalledAsAsked
  OwnHooksKept
  SignedVerifies
  SourceIsTrue
PROPERTY TaintShrinksOnlyByClear
