SPECIFICATION RouterSpec
CONSTANTS
  glm = glm
  gptOss = gptOss
  qwen = qwen
  NoModel = NoModel
  Models <- ThreeModels
  Chain <- InOrder
  MaxRetries = 2
  Cooldown = 2
  MaxClock = 4
INVARIANT
  FailsOnlyWhenExhausted
  RejectedRests
PROPERTY
  EveryChatEnds
