\* Three calls of two sessions, two terminals that approve, one fault.
SPECIFICATION Spec
CONSTANTS
  Hooks = {h1, h2, h3}
  Approvers = {a1, a2}
  s1 = s1
  s2 = s2
  Sessions = {s1, s2}
  Calls <- RaceCalls
  FailClosed = TRUE
  NoCall = NoCall
  NoRequest = NoRequest
  Ttls = {1}
  MaxClock = 2
  MaxApprovals = 2
  MaxFaults = 1
SYMMETRY Symmetry
CHECK_DEADLOCK FALSE
INVARIANTS
  SingleUse
  ApprovalScope
  NothingDangerousRuns
  AnswersAudited
PROPERTY FreshApprovalKept
