SPECIFICATION FairSpec
CONSTANTS
  p1 = p1
  p2 = p2
  a = a
  b = b
  None = None
  Peers <- MCPeers
  Hashes <- MCTwo
  Number <- MCNumber
  Parents <- MCParents
  Nets <- MCNets
  BlockLimit = 1
  MaxQueueDist = 2
INVARIANTS
  QueueAccounting
  ImportedOnce
  NoLostWakeup
  OnePhase
PROPERTIES
  AnnouncementsHandled
  AllowanceReturned
CHECK_DEADLOCK FALSE
