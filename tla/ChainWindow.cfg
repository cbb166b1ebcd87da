SPECIFICATION Spec
CONSTANTS
  g = g
  a1 = a1
  a2 = a2
  a3 = a3
  b1 = b1
  b2 = b2
  NoBlock = NoBlock
  Genesis = g
  Blocks <- Tree
  Parent <- TreeParent
  Number <- TreeNumber
  Line <- TreeLine
  Window = 3
  MaxMoves = 5
  MaxRaises = 1
INVARIANTS TypeOK WindowOneBranch
PROPERTIES CollectionSpec
