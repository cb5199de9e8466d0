CONSTANTS
  Workers <- TwoWorkers
  DpOf <- OwnDpRank
  MinWorkers = 1
  MultiTurn = TRUE
  Interval = 1
  MaxSteps = 1
  Deliveries = {1}
  Faults = {}
  MaxBatches = 2
  MaxChecks = 0
SPECIFICATION Spec
INVARIANT NoTrainingDuringGeneration
