CONSTANTS
  Writers = {w1, w2}
  Revs = {1, 2}
  Faulty = {2}
  Stages = {10}
  MaxAttempts = 2
  agentA = agentA
  agentB = agentB
  heal1 = heal1
  heal2 = heal2
  main = main
  module = module
  workflow = workflow
  Instances = {agentA, agentB}
  Threads = {heal1, heal2}
  Home <- HealsOfAgentA
  Classes = {keyError}
  Paths = {main, module, workflow}
  Allowed = {main, module}
  FixFile = main
  Fixes <- Proposals
  MaxCIRetries = 1
  MaxBranches = 2
  Peers = {agentA, agentB}
  Dashboards = {agentA}
  Max = 2
  MaxEvents = 3
  MaxAgain = 1
  Ids = {i1, i2}
  Late = {i1}
  Limit = 1
  MaxFaults = 2
SPECIFICATION FleetSpec
INVARIANTS
  TagLeaksOnlyBy EvidenceIsOfTheTarget
  DuplicateOnlyBy ConflictOnlyAcrossInstances WritesWhereItMay
  RepeatOnlyBy ViewersMissOnlyTheTrimmed
  VerdictIsFresh
PROPERTIES ProbeIsNonDisruptive PageCatchesUp
CHECK_DEADLOCK FALSE
