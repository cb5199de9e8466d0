CONSTANTS
  Workers <- MCWorkers
  DpOf <- MCDpOf
  MinWorkers = 2
SPECIFICATION CoordSpec
INVARIANTS
  CoordTypeOK
  NoFinishedTrainer
  WholeQuota
PROPERTIES
  SessionIntact
  LeaseRefinement
