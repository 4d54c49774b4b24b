\* The deployed limits, a unit of time being 120 s: HEAL_LEASE_S 600, MAX_HEAL_ATTEMPTS
\* 5, and the queue's 5 attempts and 1800 s of deploy.sh.  The queue is as quick as it
\* can be, so only the runs themselves take time.  With one incident the length of the
\* storm lease plays no part.
CONSTANTS
  i1 = i1
  w1 = w1
  Incident = {i1}
  Worker = {w1}
  NoIncident = NoIncident
  HealLease = 5
  ServiceLease = 5
  ApprovalHold = 1
  MaxHealAttempts = 5
  StormCoalesce = TRUE
  EarlyRedelivery = FALSE
  BoundedRuns = TRUE
  QueueAttempts = 5
  RetryWindow = 15
  PromptQueue = TRUE
  DedupExpires = FALSE
  Gates = {"rollback", "fix_pr"}
  Fallback = FALSE
  MaxCrashes = 0
  MaxAnswers = 0
  MaxCompletions = 0
SPECIFICATION Spec
INVARIANT NoSilentGiveUp
CHECK_DEADLOCK FALSE
