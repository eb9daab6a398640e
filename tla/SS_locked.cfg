\* Two processes, sessions lost and processes killed twice.
CONSTANTS
  p1 = p1
  p2 = p2
  c1 = c1
  c2 = c2
  c3 = c3
  None = None
  Dead = Dead
  Families <- MCFamilies
  Callers = {c1, c3}
  Pools = {p1, p2}
  PoolOf <- MCPoolOf
  MaxOpenConns = 1
  Versions <- MCVersions
  InitialTables <- MCTables
  Servers = {TRUE}
  MaxFaults = 2
SPECIFICATION Spec
INVARIANTS TypeOK PlansAreCurrent PlansExecute SyncedTablesAreSettled RenamesKeepTheColumn IdleSessionsHoldNoLock
PROPERTIES NeverNarrows
