\* Two events, one crash or stop, one read or write that fails, one witness; overlapping
\* cycles, lost and late requests, deaths, and a window that is never only heartbeats.
SPECIFICATION MCSpec
CONSTANTS
  \* RelayDaemon
  Events = {e1, e2}
  NoTip = NoTip
  Endpoints = {w1}
  Quorum = 1
  MinEvents = 1
  MaxDowns = 1
  MaxBeats = 1
  MaxFaults = 1
  \* TeamSync
  Cycles = {c1, c2}
  NoCycle = NoCycle
  MAX_BATCH_EVENTS = 1
  MAX_BATCH_LINES = 2
  MaxLines = 3
  MaxHeartbeats = 1
  MaxSeals = 1
  MaxFailures = 1
CHECK_DEADLOCK FALSE
INVARIANTS
  RelayChainLinked
  AnswerIsTrue
  SealsMatchLog
  NoGaps
PROPERTIES
  EveryEventSealed
  EventuallySynced
