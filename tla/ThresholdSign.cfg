SPECIFICATION FairSpec
CONSTANTS
  m1 = m1
  m2 = m2
  m3 = m3
  u1 = u1
  w = w
  NoUnit = NoUnit
  Mediators <- MCAll
  Local <- MCTwo
  BadSigners <- MCThird
  Units <- MCOwnAndPeer
  Author <- MCAuthor
  Valid <- MCUnit
  Threshold = 2
  MaxHanded <- MCHanded
  PeerShares <- MCShares
INVARIANTS
  TypeOK
  RecoveredOnce
PROPERTY
  GroupSigned
CHECK_DEADLOCK FALSE
