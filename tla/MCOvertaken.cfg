SPECIFICATION Spec
CONSTANTS
  Reqs = {0, 1}
  Tasks <- MCOneTask
  FrontQueue <- MCOneFront
  BackQueue <- MCPairQueue
  MaxTokens = 2
  MinWindow = 1
  MeasuredBaselines = TRUE
  CalibrateN = 0
  Caller = caller
  None = none
INVARIANTS PoolsRestored
CHECK_DEADLOCK FALSE
