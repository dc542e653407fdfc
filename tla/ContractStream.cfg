SPECIFICATION FairSpec
CONSTANTS
  None = None
  c1 = c1
  c2 = c2
  t1 = t1
  t2 = t2
  Callers <- MCCallers
  Txids <- MCTxids
  Environments <- MCEnvironments
  MaxRequests = 2
CHECK_DEADLOCK FALSE
INVARIANTS
  ContextOwned
  AnswerIsMine
  NoRequestDropped
  SendChannelReceived
  OutcomeReported
PROPERTIES
  ExecuteReturns
  CallAnswered

