SPECIFICATION Spec
CONSTANTS
  Modes = {"direct", "relay"}
  Threads = {"t1", "t2"}
  Script <- MCScript
  Ctl = "ctl"
  Retries = 2
  Depth = 2
  MaxConfigures <- MCMaxConfigures
  MaxFaults = 1
  MaxConns = 7
  None = none
INVARIANTS TypeOK FramesWhole AtMostOnce DepthKept AckedWhole
PROPERTIES ArrivesOrBroke
CHECK_DEADLOCK FALSE
