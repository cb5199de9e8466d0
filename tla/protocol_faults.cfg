CONSTANTS
  Workers <- OneWorker
  DpOf <- OwnDpRank
  MinWorkers = 1
  MultiTurn = TRUE
  Interval = 2
  MaxSteps = 2
  Deliveries = {0, 1, 2}
  Faults = {"activation", "request", "cleanup", "stop"}
  MaxBatches = 3
  MaxChecks = 2
SPECIFICATION FairSpec
INVARIANTS NoOrphanTask CleanupFlagSound AnswerMatchesRequest
PROPERTIES BatchesComplete
