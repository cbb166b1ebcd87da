SPECIFICATION FromTheTop
CONSTANTS
  g = g
  a1 = a1
  a2 = a2
  b1 = b1
  NoBlock = NoBlock
  Genesis = g
  Blocks <- Pair
  Parent <- PairParent
  Number <- PairNumber
  Line <- PairLine
  Window = 2
  IsL1 = FALSE
  MaxClients = 1
  MaxMoves = 1
  MaxFaults = 1
  MaxInFlight = 1
PROPERTIES Converges
CHECK_DEADLOCK FALSE
