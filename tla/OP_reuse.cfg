\* A renamed field is declared before the one that takes its name, or after it.
SPECIFICATION MCSpec
CONSTANTS
  Families <- MCFamilies
  Cases <- MCReusedNames
  NewKeys <- MCNewKeys
  MaxId = 4
  MaxFailures = 2
  NumFiles = 3
  MaxRuns = 2
INVARIANTS ShadowMatchesSync
CHECK_DEADLOCK FALSE
