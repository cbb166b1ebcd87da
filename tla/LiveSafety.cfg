SPECIFICATION Spec
CONSTANTS
  g = g
  a1 = a1
  a2 = a2
  b1 = b1
  NoBlock = NoBlock
  Genesis = g
  Blocks <- Fork
  Parent <- ForkParent
  Number <- ForkNumber
  Line <- ForkLine
  Window = 2
  IsL1 = FALSE
  MaxClients = 1
  MaxMoves = 1
  MaxFaults = 1
  MaxInFlight = 1
INVARIANTS TypeOK ShownConsistent ReorgHidesSafety ViewersCounted
CHECK_DEADLOCK FALSE
