SPECIFICATION FairSpec
CONSTANTS
  j1 = j1
  j2 = j2
  j3 = j3
  b1 = b1
  b2 = b2
  c1 = c1
  c2 = c2
  a1 = a1
  a2 = a2
  Jobs <- TwoJobs
  Blocks = {b1}
  Contracts = {c1}
  Created <- OneBlock
  Reverted = {}
  Known = {c1}
  Sourcify = FALSE
  Capacity = 2
  Admissions = {a1}
  Configurations <- Either
  MaxAdmitted = 2
  MaxFaults = 1
PROPERTIES AttemptedAgain ReachesVerdict
CHECK_DEADLOCK FALSE
