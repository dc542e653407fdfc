SPECIFICATION Spec
CONSTANTS
  m1 = m1
  m2 = m2
  m3 = m3
  u1 = u1
  w = w
  NoUnit = NoUnit
  Mediators <- MCAll
  Local <- MCAll
  BadSigners <- MCNone
  Units <- MCUnit
  Author <- MCAuthor
  Valid <- MCUnit
  Threshold = 3
  MaxHanded <- MCHanded
  PeerShares <- MCNone
INVARIANT
  GroupSigsVerify
CHECK_DEADLOCK FALSE
