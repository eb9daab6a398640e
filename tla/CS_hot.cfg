\* One call against legacy writers and deletes that never stop on its row.
CONSTANTS
  FenceWidth = 2
  FenceValues = {0, 1}
  k1 = k1
  k2 = k2
  b1 = b1
  b2 = b2
  b3 = b3
  lossy = lossy
  aliasA = aliasA
  aliasB = aliasB
  None = None
  Keys = {k1, k2}
  Bodies = {b1, b2, b3, lossy}
  Alias <- MCAlias
  Coerce <- MCCoerce
  Calls = {c1}
  Requests <- MCRequests
  FoundRows = FALSE
  Deletable = {k1}
  InitialTables <- MCInitialTables
  HotKeys = {k1}
  MaxRounds = 2
  ForeignCap = 2
SPECIFICATION FairSpec
INVARIANTS GivesUpOnlyUnderContention
PROPERTIES EveryCallReturns
CHECK_DEADLOCK FALSE
