\* Two concurrent calls of Save and BatchSave, rows deleted meanwhile.
CONSTANTS
  k1 = k1
  k2 = k2
  b1 = b1
  b2 = b2
  b3 = b3
  lossy = lossy
  aliasA = aliasA
  aliasB = aliasB
  None = None
  Keys = {k1, k2}
  Bodies = {b1, b2, b3, lossy}
  Alias <- MCAlias
  Coerce <- MCCoerce
  Calls = {c1, c2}
  Batches <- MCBatches
  MaxBatch = 2
  Unfit <- MCUnfit
  FoundRows = FALSE
  InitialTables <- MCInitialTables
  Deletable = {k1}
SPECIFICATION Spec
SYMMETRY MCSymmetry
INVARIANTS BatchSavesAPrefix ConflictNeedsInterference
PROPERTIES ImplementsRowStore
CHECK_DEADLOCK FALSE
