CONSTANTS
  Incident = {i1, i2}
  NoIncident = none
  Nobody = none
  Completer = {c1}
  MaxRev = 3
  CompleteLease = 1
  MaxUndoAttempts = 2
  PromoteAfter = 2
  ApprovalCoalesce = TRUE
  CanaryStages <- ThreeStages
  CloseSettlement = FALSE
  InitialLevel = "L3"
  GrantLevels = {}
  BoundedCompletions = TRUE
  FixApprovals = FALSE
  MaxHeals = 2
  MaxFaults = 0
  MaxGrants = 0
SPECIFICATION Spec
SYMMETRY Symmetry
INVARIANTS
  PinTracked
CHECK_DEADLOCK FALSE
