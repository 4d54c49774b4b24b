\* A bare escalate while the pending revert of an earlier incident is armed.
CONSTANTS
  i1 = i1
  i2 = i2
  w1 = w1
  Incident = {i1, i2}
  Worker = {w1}
  NoIncident = NoIncident
  HealLease = 1
  ServiceLease = 1
  ApprovalHold = 1
  MaxHealAttempts = 2
  StormCoalesce = TRUE
  EarlyRedelivery = FALSE
  BoundedRuns = TRUE
  QueueAttempts = 4
  RetryWindow = 1
  PromptQueue = FALSE
  DedupExpires = FALSE
  Gates = {"rollback", "fix_pr"}
  Fallback = FALSE
  MaxCrashes = 0
  MaxAnswers = 0
  MaxCompletions = 0
SPECIFICATION Spec
INVARIANT BareEscalateReleases
CHECK_DEADLOCK FALSE
