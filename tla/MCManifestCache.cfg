SPECIFICATION FairSpec
CONSTANTS
  s1 = s1
  s2 = s2
  r1 = r1
  Syncs <- TwoSyncs
  Requests <- OneRequest
  MaxVersion = 2
  MaxKicks = 1
  MaxCrashes = 1
INVARIANT TypeOK
PROPERTIES MemoryForward LandsForward MissingRecovers
CHECK_DEADLOCK FALSE
