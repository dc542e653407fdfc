SPECIFICATION MCSpec
CONSTANTS
  m1 = m1
  m2 = m2
  m3 = m3
  NoAddress = NoAddress
  Mediators <- MCMediators
  Active <- MCActive
  Draw <- MCDraw
  Interval = 2
  GenesisTime = 2
  MaxTime = 20
  Local <- MCLocal
  EnableStaleProduction = FALSE
  PeerUnits <- MCPeerUnits
  MaxNum = 10
  MaxSaving = 2
  MaxCrashes = 1
  Horizon = 8
  MaxHeight = 4
INVARIANTS
  TypeOK
  SlotAfterHead
  OneUnitPerSlot
  FairRound
  SlotsAccounted
  TimelySlotCount
PROPERTIES
  HeadAdvances
  TimelyNeverStarves
