SPECIFICATION Spec
CONSTANTS
  c1 = c1
  c2 = c2
  c3 = c3
  pair = pair
  rival = rival
  other = other
  call = call
  Txs <- MCTxs
  Inputs <- MCInputs
  Output <- MCOutput
  Priority <- MCPriority
  Size <- MCSize
  Coins <- MCCoins
  Capacity = 3
  UnitTxSize = 3
  MaxAdds = 5
  MaxUnits = 2
INVARIANT
  ProposalSpendsOnce
