\* A field takes the name another field gives up.
CONSTANTS
  p1 = p1
  p2 = p2
  c1 = c1
  c2 = c2
  c3 = c3
  None = None
  Dead = Dead
  Families <- MCFamilies
  Callers = {c1}
  Pools = {p1}
  PoolOf <- MCPoolOf
  MaxOpenConns = 1
  Versions <- ChainVersions
  InitialTables <- EmptyTables
  Servers = {TRUE}
  MaxFaults = 0
SPECIFICATION Spec
INVARIANTS FieldsReadTheirOwnColumns
