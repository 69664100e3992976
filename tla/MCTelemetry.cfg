SPECIFICATION FairSpec
CONSTANTS
  e1 = e1
  e2 = e2
  e3 = e3
  d1 = d1
  d2 = d2
  Events <- ThreeEvents
  Blank <- OneBlank
  Daemons <- TwoDaemons
  ChunkSize = 1
  MaxFaults = 1
  MaxToggles = 1
INVARIANTS TypeOK MarkedWasInBatch DuplicatesNeedFaults RevocationStopsDelivery
PROPERTY NothingStaysUnsent
CHECK_DEADLOCK FALSE
