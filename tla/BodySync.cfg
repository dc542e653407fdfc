SPECIFICATION FairSpec
CONSTANTS
  None = None
  master = master
  other = other
  Peers <- MCPeers
  Master = master
  N = 4
  CacheItems = 3
  MaxBlockFetch = 3
  MaxResults = 2
  MaxHeaders = 3
  MaxQueued = 3
  MinFullBlocks = 1
  Environments <- MCEnvironments
  MaxJoins = 1
CHECK_DEADLOCK FALSE
INVARIANTS
  TypeOK
  TaskPartition
  WindowKept
  IdleMatchesRequests
  NoLostWakeup
  ImportedInOrder
  SuccessIsComplete
PROPERTIES
  GivesUpForWant
  SyncEnds
