SPECIFICATION FairSpec
CONSTANTS
  m1 = m1
  m2 = m2
  m3 = m3
  Mediators <- MCMediators
  Nodes <- MCNodes
  MaxCopies = 1
INVARIANTS
  FinishedIsComplete
  NoSenderLost
PROPERTY
  AllSign
CHECK_DEADLOCK FALSE
