SPECIFICATION FairSpec
CONSTANTS
  Slots = {1, 2}
  NumBatches = 2
  Setups <- MCSetups
  PromptLens = {2, 5}
  MaxModelLen = 10
  PromptLength = 5
  ResponseLength = 4
  MaxAssistantTurns = 2
  MaxUserTurns = 2
  AnswerLens = {0, 1}
  ObsLens = {1, 2}
  CreateLens = {0, 2}
  Servers = {1, 2}
  CacheSize = 2
INVARIANTS LossOnAnswers TrainedAsGenerated NoDanglingTurn EnvironmentKept SessionsSticky
PROPERTIES AllServed
CHECK_DEADLOCK FALSE
