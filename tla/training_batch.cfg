SPECIFICATION Spec
CONSTANTS
  Layouts <- MCLayouts
  MaxTokens = 10
  MicroBatch = 1
  DropZeroSignal = TRUE
  RewardExtras = FALSE
INVARIANTS BatchConsistent RowsAligned AdvantagesOfTheDraw FilterExact CollectivesMatch SpreadBounded ObjectiveSound ContainerLaws
CHECK_DEADLOCK FALSE
