CONSTANTS
  Heals = {h1, h2}
  Revisions = {1, 2, 3}
  Marker <- Notes
  Unmarked = "none"
  Qualities <- Mixes
  Samples <- SamplesOf
  MinErrors = 3
  Seed = 20
  Floor = 10
  MaxDrift = 10
  WitnessMax = 1
  Budget = 3
SPECIFICATION DecisionSpec
PROPERTIES WitnessIsEvidence
CHECK_DEADLOCK FALSE
