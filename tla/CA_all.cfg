\* A reader and a writer of either version, every operation, two writes in all; entries expire.
CONSTANTS
  old1 = old1
  new1 = new1
  new2 = new2
  gold = gold
  extra = extra
  None = None
  Callers = {old1, new1, new2}
  Columns = {gold, extra}
  Counter = gold
  Values = {0, 1}
  Schema <- MCSchema
  Messages <- MCMessages
  Kinds = {"find", "findOrCreate", "save", "update", "decr", "cas", "delete", "conditional", "where", "insert", "tx"}
  MaxWrites = 2
  InitialRows <- MCInitialRows
SPECIFICATION FairSpec
INVARIANTS TypeOK StaleEntriesHaveACause EntriesAreCommitted FindsAreWhole
PROPERTIES StalenessEnds
CHECK_DEADLOCK FALSE
