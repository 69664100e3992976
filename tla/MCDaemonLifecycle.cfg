SPECIFICATION FairSpec
CONSTANTS
  d1 = d1
  d2 = d2
  c1 = c1
  Daemons <- TwoDaemons
  Clients <- OneClient
  NoDaemon = NoDaemon
INVARIANTS TypeOK OneDaemonUnlessOverlap QueueLenCountsRequests
PROPERTY OrphanRetires
CHECK_DEADLOCK FALSE
