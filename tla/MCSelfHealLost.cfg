\* The instance dies mid-run and Cloud Tasks redelivers within the heal lease.
CONSTANTS
  i1 = i1
  w1 = w1
  Incident = {i1}
  Worker = {w1}
  NoIncident = NoIncident
  HealLease = 1
  ServiceLease = 1
  ApprovalHold = 1
  MaxHealAttempts = 2
  StormCoalesce = FALSE
  EarlyRedelivery = TRUE
  BoundedRuns = TRUE
  QueueAttempts = 4
  RetryWindow = 1
  PromptQueue = FALSE
  DedupExpires = FALSE
  Gates = {"rollback", "fix_pr"}
  Fallback = FALSE
  MaxCrashes = 1
  MaxAnswers = 0
  MaxCompletions = 0
SPECIFICATION Spec
INVARIANT HealSurvivesRecycle
CHECK_DEADLOCK FALSE
