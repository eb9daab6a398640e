SPECIFICATION MCSpec
CONSTANTS
  Families <- MCFamilies
  Cases <- MCCases
  NewKeys <- MCNewKeys
  MaxId = 4
  MaxFailures = 2
  NumFiles = 3
  MaxRuns = 2
INVARIANTS RowsSurviveMigration AlteredTablesAreAccepted RebuiltTablesAreSettled IdsAreNotReissued ShadowIsCreatable ShadowMatchesSyncWithoutReuse ReportsAreTrue NothingWrittenIsLost NothingIsLeftBehind
PROPERTIES MigrationEnds
CHECK_DEADLOCK FALSE
