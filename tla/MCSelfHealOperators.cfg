\* An operator's answer and a completion settle the storm lease while heals run.
CONSTANTS
  i1 = i1
  i2 = i2
  w1 = w1
  w2 = w2
  Incident = {i1, i2}
  Worker = {w1, w2}
  NoIncident = NoIncident
  HealLease = 1
  ServiceLease = 1
  ApprovalHold = 1
  MaxHealAttempts = 2
  StormCoalesce = TRUE
  EarlyRedelivery = FALSE
  BoundedRuns = TRUE
  QueueAttempts = 3
  RetryWindow = 0
  PromptQueue = FALSE
  DedupExpires = FALSE
  Gates = {"rollback"}
  Fallback = FALSE
  MaxCrashes = 0
  MaxAnswers = 1
  MaxCompletions = 1
SPECIFICATION Spec
SYMMETRY Symmetry
PROPERTIES NoTakeoverMidRun
\* With the dedup mark in force the system comes to rest once every alert is handled.
CHECK_DEADLOCK FALSE
