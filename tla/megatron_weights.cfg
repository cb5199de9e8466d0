CONSTANTS
  Jobs <- SomeJobs
  HeadDim = 2
  Inter = 4
  Vocab = 4
  Bucket = 12
SPECIFICATION WeightsSpec
INVARIANTS LoadedAsComputed EngineFedWhole ExportsWhole
CHECK_DEADLOCK FALSE
