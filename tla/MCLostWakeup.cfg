SPECIFICATION Spec
CONSTANTS
  Reqs = {0, 1}
  Tasks <- MCTasks
  FrontPools <- MCOnePool
  BackOf <- MCBackOf
  MaxTokens = 2
  Prompt = FALSE
  Caller = caller
  None = none
PROPERTIES EveryRequestEnds
CHECK_DEADLOCK FALSE
