\* Two concurrent Saves of one row, no other row in the way.
CONSTANTS
  k1 = k1
  k2 = k2
  b1 = b1
  b2 = b2
  b3 = b3
  lossy = lossy
  aliasA = aliasA
  aliasB = aliasB
  None = None
  Keys = {k1, k2}
  Bodies = {b1, b2}
  Alias <- MCAlias
  Coerce <- MCCoerce
  Calls = {c1, c2}
  Batches <- MCSaves
  MaxBatch = 2
  Unfit <- MCUnfit
  FoundRows = FALSE
  InitialTables <- MCInitialTables
  Deletable = {}
SPECIFICATION Spec
SYMMETRY MCSymmetry
INVARIANTS ConflictNamesAnotherRow
CHECK_DEADLOCK FALSE
