SPECIFICATION MCSpec
CONSTANTS
  m1 = m1
  m2 = m2
  m3 = m3
  NoAddress = NoAddress
  Mediators <- MCMediators
  Active <- MCActive
  Draw <- MCDraw
  Interval = 2
  GenesisTime = 2
  MaxTime = 8
  Local <- MCLocal
  EnableStaleProduction = FALSE
  PeerUnits = {}
  MaxNum = 4
  MaxSaving = 2
  MaxCrashes = 0
  Horizon = 8
  MaxHeight = 4
INVARIANT
  PushUnwound
