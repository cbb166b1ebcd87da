SPECIFICATION Spec
CONSTANTS
  j1 = j1
  j2 = j2
  j3 = j3
  b1 = b1
  b2 = b2
  c1 = c1
  c2 = c2
  a1 = a1
  a2 = a2
  Jobs <- TwoJobs
  Blocks = {b1, b2}
  Contracts = {c1, c2}
  Created <- TwoBlocks
  Reverted = {b2}
  Known = {c1}
  Sourcify = TRUE
  Capacity = 1
  Admissions = {a1, a2}
  Configurations <- Anyone
  MaxAdmitted = 2
  MaxFaults = 1
SYMMETRY Symmetry
INVARIANTS TypeOK QueueBounded DiskFollows
PROPERTIES VerdictStands RetainedUntilCrash
CHECK_DEADLOCK FALSE
