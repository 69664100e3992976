SPECIFICATION Spec
CONSTANTS
  a = a
  b = b
  Paths <- TwoPaths
  Contents <- TwoContents
  Missing = Missing
  UploadBatchSize = 2
  WaitModes <- AnyWait
  MaxRuns = 3
  MaxEdits = 2
  MaxFaults = 1
INVARIANTS TypeOK CacheKnowsServer SuccessMeansSynced
SYMMETRY Symmetry
CHECK_DEADLOCK FALSE
