SPECIFICATION Spec
CONSTANTS
  g = g
  u1 = u1
  u2 = u2
  v1 = v1
  w1 = w1
  c1 = c1
  c2 = c2
  c3 = c3
  c4 = c4
  t0 = t0
  t1 = t1
  t2 = t2
  t3 = t3
  o0 = o0
  o1 = o1
  o2 = o2
  o3 = o3
  o4 = o4
  None = None
  Genesis = g
  Units <- MCUnits
  Number <- MCNumber
  Parents <- MCParents
  Transactions <- MCTransactions
  TxsOf <- MCTxsOf
  Outputs <- MCOutputs
  Ins <- MCIns
  Outs <- MCOuts
  Callers <- MCCallers
  Plans <- MCPlans
INVARIANTS
  VisibleIsComplete
  InsertedPrefix
  UnspentKept
PROPERTY
  ImplementsLedger
