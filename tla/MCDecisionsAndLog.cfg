CONSTANTS
  Heals = {h1, h2}
  Revisions = {1, 2, 3}
  Marker <- Notes
  Unmarked = "none"
  Qualities <- Mixes
  Samples <- SamplesOf
  MinErrors = 3
  Seed = 20
  Floor = 10
  MaxDrift = 10
  WitnessMax = 1
  Budget = 3
  Incidents = {i1}
  Stampers = {w1, w2}
  RecentCap = 1
  MaxAppends = 3
  MaxStamps = 2
  Page = 1
  MaxEntries = 2
  MaxRestores = 1
  MaxWipes = 1
SPECIFICATION AccountSpec
SYMMETRY Symmetry
INVARIANTS
  ChainWhole ServedMatchesRecord AlarmOnlyBy
  BaselineNeverLearnsUp
PROPERTIES
  LogGrowsOrIsRestored TrustsWholeChains TrustOnlyExtends
  ActsAboveItsLevelOnlyBy CrossesMigrationOnlyBy FutileShiftOnlyBy
  HealthyServiceLeftAlone WitnessedUnfitOnlyBy
CHECK_DEADLOCK FALSE
