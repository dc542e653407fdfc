SPECIFICATION Spec
CONSTANTS
  None = None
  master = master
  other = other
  Peers <- MCPeers
  Master = master
  N = 4
  CacheItems = 3
  MaxBlockFetch = 3
  MaxResults = 2
  MaxHeaders = 3
  MaxQueued = 3
  MinFullBlocks = 1
  Environments <- MCLeaving
  MaxJoins = 0
CHECK_DEADLOCK FALSE
INVARIANTS
  SyncIsComplete
