SPECIFICATION Spec
ACTION_CONSTRAINT TimelyStep
CONSTANTS
  Reqs = {0, 1, 2}
  Tasks <- MCTasks
  FrontQueue <- MCFrontQueue
  BackQueue <- MCBackQueue
  MaxTokens = 2
  MinWindow = 2
  MeasuredBaselines = TRUE
  CalibrateN = 0
  Caller = caller
  None = none
INVARIANTS TypeOK FrontsExclusive BacksExclusive NothingLost NoIdleWhileWaiting WaitersAreWaiting
CHECK_DEADLOCK FALSE
