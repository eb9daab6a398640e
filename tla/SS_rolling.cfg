\* Two goroutines of a process with one connection, with and without GET_LOCK.
CONSTANTS
  p1 = p1
  p2 = p2
  c1 = c1
  c2 = c2
  c3 = c3
  None = None
  Dead = Dead
  Families <- MCFamilies
  Callers = {c1, c2}
  Pools = {p1}
  PoolOf <- MCPoolOf
  MaxOpenConns = 1
  Versions <- RollingVersions
  InitialTables <- RollingTables
  Servers = {TRUE, FALSE}
  MaxFaults = 1
SPECIFICATION FairSpec
PROPERTIES ExpandOnlyOnlyAdds EverySyncReturns
