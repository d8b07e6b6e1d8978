SPECIFICATION Spec
CONSTANTS
  Reqs = {0}
  Nodes <- MCNodes
  Coord = coord
  Links <- MCLinks
  NextHop <- MCNextHop
  SegHead <- MCSegHead
  FrontNodes <- MCFrontNodes
  StaticPeer <- MCStaticPeer
  StopIds = FALSE
  Buffer = 1
  MaxSteps = 2
  None = none
  FrontChain <- MCFrontChain
  BackChain <- MCBackChain
  WiredTo <- MCWiring
  MaxTokens = 2
  MinWindow = 1
  MaxRebinds = 0
PROPERTIES RingStops
CHECK_DEADLOCK FALSE
