\* Two concurrent calls, every request, statements that fail or answer late.
CONSTANTS
  FenceWidth = 2
  FenceValues = {0, 1}
  k1 = k1
  k2 = k2
  b1 = b1
  b2 = b2
  b3 = b3
  lossy = lossy
  aliasA = aliasA
  aliasB = aliasB
  None = None
  Keys = {k1, k2}
  Bodies = {b1, b3}
  Alias <- MCAlias
  Coerce <- MCCoerce
  Calls = {c1, c2}
  Requests <- MCRequests
  FoundRows = FALSE
  Deletable = {}
  InitialTables <- MCInitialTables
  HotKeys = {k1}
  MaxRounds = 2
  ForeignCap = 2
SPECIFICATION Spec
SYMMETRY MCSymmetry
INVARIANTS TypeOK AnsweredVersionsSurvive AnswersMatchEffects ConflictNamesAnotherRow
PROPERTIES FenceNeverRetreats ImplementsFencedStore
CHECK_DEADLOCK FALSE
