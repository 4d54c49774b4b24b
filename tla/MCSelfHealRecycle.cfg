\* Cloud Tasks redelivers only after the lease of the dead run lapsed, and has
\* attempts to spare: no heal is lost and every heal ends.
CONSTANTS
  i1 = i1
  i2 = i2
  w1 = w1
  w2 = w2
  Incident = {i1, i2}
  Worker = {w1, w2}
  NoIncident = NoIncident
  HealLease = 1
  ServiceLease = 1
  ApprovalHold = 1
  MaxHealAttempts = 2
  StormCoalesce = TRUE
  EarlyRedelivery = FALSE
  BoundedRuns = TRUE
  QueueAttempts = 4
  RetryWindow = 1
  PromptQueue = FALSE
  DedupExpires = FALSE
  Gates = {"rollback"}
  Fallback = FALSE
  MaxCrashes = 1
  MaxAnswers = 0
  MaxCompletions = 0
SPECIFICATION FairSpec
INVARIANTS HealSurvivesRecycle NoSilentGiveUp
PROPERTIES AcceptedHealEnds
\* With the dedup mark in force the system comes to rest once every alert is handled.
CHECK_DEADLOCK FALSE
