CONSTANTS
  Workers <- TwoWorkers
  DpOf <- OneDpRank
  MinWorkers = 1
  MultiTurn = FALSE
  Interval = 1
  MaxSteps = 1
  Deliveries = {1}
  Faults = {"activation", "cleanup"}
  MaxBatches = 1
  MaxChecks = 1
SPECIFICATION Spec
INVARIANTS TrainsInSession
PROPERTIES CoordSpec
