SPECIFICATION TimelySpec
CONSTANTS
  Reqs = {0, 1, 2}
  Tasks <- MCTwoTasks
  FrontQueue <- MCFrontQueue
  BackQueue <- MCPlainQueue
  MaxTokens = 2
  MinWindow = 2
  MeasuredBaselines = FALSE
  CalibrateN = 1
  Caller = caller
  None = none
INVARIANTS PoolsRestored
PROPERTIES EveryRequestEnds KeepsThePromise
CHECK_DEADLOCK FALSE
