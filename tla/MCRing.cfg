SPECIFICATION Spec
CONSTANTS
  Reqs = {0}
  Nodes <- MCNodes
  Coord = coord
  Links <- MCLinks
  NextHop <- MCNextHop
  SegHead <- MCSegHead
  FrontNodes <- MCFrontNodes
  StaticPeer <- MCNoPeer
  StopIds = TRUE
  Buffer = 1
  MaxSteps = 2
  None = none
  FrontChain <- MCFrontChain
  BackChain <- MCBackChain
  WiredTo <- MCNoWiring
  MaxTokens = 2
  MinWindow = 1
  MaxRebinds = 1
INVARIANTS TypeOK CachesInStep NodeContract
PROPERTIES RingStops EveryRequestEnds
CHECK_DEADLOCK FALSE
