CONSTANTS
  w1 = w1
  w2 = w2
  Workers = {w1, w2}
  Interval = 2
  BufferSteps = 2
  Capacity = 3
  Faults = {"zero", "cleanup"}
  MaxGlobal = 6
  MaxRestarts = 1
SPECIFICATION DataSpec
SYMMETRY WorkerSymmetry
INVARIANTS WindowFresh
PROPERTIES TrainingHasData
