SPECIFICATION Spec
CONSTANTS
  Reqs = {0, 1, 2, 3}
  Tasks <- MCTasks
  FrontPools <- MCFrontPools
  BackOf <- MCBackOf
  MaxTokens = 2
  Prompt = TRUE
  Caller = caller
  None = none
INVARIANTS TypeOK ChannelsExclusive NoIdleChannel ServedInOrder
PROPERTIES EveryRequestEnds
CHECK_DEADLOCK FALSE
