CONSTANTS
  Shapes <- SomeModels
  Saved <- InputTwice
  Rounds = 2
SPECIFICATION OffloadSpec
INVARIANTS BackwardReadsSaved TwoGroupsOnGpu
