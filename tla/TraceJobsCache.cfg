SPECIFICATION Spec
CONSTANTS
  k1 = k1
  k2 = k2
  v1 = v1
  v2 = v2
  v3 = v3
  Keys <- TwoKeys
  Ids <- ThreeIds
  Concurrency = 2
  MaxJobs = 2
  MaxClients = 2
  MaxResultBytes = 2
  MaxCacheBytes = 3
  Sizes = {2, 3}
  MaxCreated = 3
SYMMETRY Symmetry
INVARIANTS TypeOK SharedDecodeSurvives WorkIsWanted WithinLimits
PROPERTIES ResultsAreFinal ImplementsService
