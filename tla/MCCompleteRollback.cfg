CONSTANTS
  Incident = {i1, i2}
  NoIncident = none
  Nobody = none
  Completer = {c1, c2}
  MaxRev = 3
  CompleteLease = 1
  MaxUndoAttempts = 1
  PromoteAfter = 2
  ApprovalCoalesce = TRUE
  CanaryStages <- TwoStages
  CloseSettlement = TRUE
  InitialLevel = "L3"
  GrantLevels = {"L2"}
  BoundedCompletions = TRUE
  FixApprovals = TRUE
  MaxHeals = 2
  MaxFaults = 1
  MaxGrants = 1
SPECIFICATION Spec
SYMMETRY Symmetry
INVARIANTS
  RevertTypeOK
  SingleCompletion
  TornSplitTracked
  PinForgottenOnlyBy
  CreditedOnce
  CapHolds
  DemotionSticks
CHECK_DEADLOCK FALSE
