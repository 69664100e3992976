SPECIFICATION Spec
CONSTANTS
  a = a
  b = b
  Paths <- TwoPaths
  Contents <- TwoContents
  Missing = Missing
  UploadBatchSize = 2
  WaitModes <- AlwaysWait
  MaxRuns = 1
  MaxEdits = 0
  MaxFaults = 1
PROPERTY SuccessfulUploadsRecorded
CHECK_DEADLOCK FALSE
