SPECIFICATION MCSpec
CONSTANTS
  c1 = c1  c2 = c2  c3 = c3  j1 = j1  j2 = j2  w1 = w1
  None = None
  Calls <- MCCalls
  Mixes <- MCMixes
  Connections <- MCConnections
  InitialGold = 1
  Types <- MCTypes
  Keys <- MCKeys
  Cursor <- MCCursor
  Jobs = {j1, j2}
  Plans <- MCPlans
  Walks = {w1}
  ChunkSize = 2
  PageSize = 2
  WalkedType = "mine"
  NoCursor = NoCursor
  InitialRows <- MCInitialRows
INVARIANTS NoUpdateIsLost AnswersAreTrue BatchesStopAtAChunk WalksAreComplete
PROPERTIES EveryCallReturns
CHECK_DEADLOCK FALSE
