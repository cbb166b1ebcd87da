SPECIFICATION FairSpec
CONSTANTS
  k1 = k1
  k2 = k2
  v1 = v1
  v2 = v2
  v3 = v3
  Keys <- TwoKeys
  Ids <- TwoIds
  Concurrency = 1
  MaxJobs = 2
  MaxClients = 2
  MaxResultBytes = 1
  MaxCacheBytes = 1
  Sizes = {1}
  MaxCreated = 3
INVARIANTS SlotsExact NoIdleSlot
PROPERTIES EveryDecodeEnds CloseDrains
