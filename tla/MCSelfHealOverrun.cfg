\* The default configuration (no storm coalescing) with runs that may outlive
\* their lease, redeliveries at any time and a dedup mark that expires: one
\* incident, two workers.
CONSTANTS
  i1 = i1
  w1 = w1
  w2 = w2
  Incident = {i1}
  Worker = {w1, w2}
  NoIncident = NoIncident
  HealLease = 1
  ServiceLease = 1
  ApprovalHold = 1
  MaxHealAttempts = 2
  StormCoalesce = FALSE
  EarlyRedelivery = TRUE
  BoundedRuns = FALSE
  QueueAttempts = 3
  RetryWindow = 1
  PromptQueue = FALSE
  DedupExpires = TRUE
  Gates = {"rollback", "fix_pr"}
  Fallback = TRUE
  MaxCrashes = 1
  MaxAnswers = 1
  MaxCompletions = 0
SPECIFICATION Spec
SYMMETRY Symmetry
INVARIANTS TypeOK BreakerBoundsRuns
PROPERTIES DoneIsTerminal
