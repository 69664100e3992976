SPECIFICATION Spec
CONSTANTS
  s1 = s1
  r1 = r1
  s2 = s2
  Syncs <- OneSync
  Requests <- OneRequest
  MaxVersion = 2
  MaxKicks = 2
  MaxCrashes = 0
PROPERTY NoStaleRefetch
CHECK_DEADLOCK FALSE
