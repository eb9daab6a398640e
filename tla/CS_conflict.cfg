\* One call without fences on a row that others insert and delete.
CONSTANTS
  FenceWidth = 2
  FenceValues = {0, 1}
  k1 = k1
  k2 = k2
  b1 = b1
  b2 = b2
  b3 = b3
  lossy = lossy
  aliasA = aliasA
  aliasB = aliasB
  None = None
  Keys = {k1, k2}
  Bodies = {b1, b3}
  Alias <- MCAlias
  Coerce <- MCCoerce
  Calls = {c1}
  Requests <- MCLegacyRequests
  FoundRows = FALSE
  Deletable = {k1}
  InitialTables <- MCInitialTables
  HotKeys = {k1}
  MaxRounds = 2
  ForeignCap = 2
SPECIFICATION Spec
INVARIANTS ConflictNamesAnotherRow
CHECK_DEADLOCK FALSE
