\* Storms, early redelivery, the in-process fallback and a crash, on two incidents
\* and two workers.
CONSTANTS
  i1 = i1
  i2 = i2
  w1 = w1
  w2 = w2
  Incident = {i1, i2}
  Worker = {w1, w2}
  NoIncident = NoIncident
  HealLease = 2
  ServiceLease = 2
  ApprovalHold = 3
  MaxHealAttempts = 2
  StormCoalesce = TRUE
  EarlyRedelivery = TRUE
  BoundedRuns = TRUE
  QueueAttempts = 2
  RetryWindow = 1
  PromptQueue = FALSE
  DedupExpires = FALSE
  Gates = {"rollback", "fix_pr"}
  Fallback = TRUE
  MaxCrashes = 1
  MaxAnswers = 0
  MaxCompletions = 0
SPECIFICATION Spec
SYMMETRY Symmetry
INVARIANTS SingleRun SingleHealer LossesAreNamed
\* With the dedup mark in force the system comes to rest once every alert is handled.
CHECK_DEADLOCK FALSE
