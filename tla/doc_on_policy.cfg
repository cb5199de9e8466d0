SPECIFICATION Spec
CONSTANTS
  Ranks = {"r1", "r2"}
  Leader = "r1"
  Jobs <- KeptCacheJobs
  TotalSteps = 3
  TestFreq = 2
  SaveFreq = 2
  CriticWarmup = 2
  MaxRestarts = 2
INVARIANTS RolloutOnPolicy
