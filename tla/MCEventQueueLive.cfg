SPECIFICATION FairSpec
CONSTANTS
  h1 = h1
  h2 = h2
  h3 = h3
  d1 = d1
  d2 = d2
  Hooks <- AllHooks
  Daemons <- OneDaemon
  Oversized <- OneOversized
  RotateAt = 0
  MaxInode = 3
  NoDaemon = NoDaemon
PROPERTY HookReturns
CHECK_DEADLOCK FALSE
