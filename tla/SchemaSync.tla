----------------------------- MODULE SchemaSync -----------------------------
(***************************************************************************)
(* Schema synchronisation of one table (SyncAllTables, UpdateTableField,   *)
(* GormDB.CreateOrUpdateTable), statement by statement.  Every caller       *)
(* first borrows a connection of its process's pool and takes the advisory *)
(* lock GET_LOCK in that session; all further statements run in the same   *)
(* session, RELEASE_LOCK is the last of them.  A server that has no        *)
(* GET_LOCK lets the calls run side by side, each statement on any         *)
(* connection of the pool.  DDL commits statement by statement, whatever   *)
(* becomes of the caller.                                                  *)
(***************************************************************************)
EXTENDS SchemaPlan

CONSTANTS
  Callers,        \* goroutines that synchronise, in all processes
  Pools,          \* connection pools, one per process
  PoolOf,         \* PoolOf[c]: the pool caller c borrows from
  MaxOpenConns,   \* the size of a pool
  Versions,       \* the versions of the program, see SchemaPlan
  InitialTables,  \* what the table may look like when the history begins
  Servers,        \* whether the server has GET_LOCK: a subset of BOOLEAN
  MaxFaults,      \* bound: lost sessions and crashed processes
  None, Dead      \* the lock's owner: nobody; a session whose client has gone

\* The types of the columns found at first and of the fields of all versions.
TypesOfColumns(t) == {t.cols[n].type : n \in DOMAIN t.cols}
TypesOfFields(v) == {f.type : f \in ToSet(v.fields)}
DeclaredTypes == (UNION {TypesOfColumns(t) : t \in InitialTables})
                   \cup (UNION {TypesOfFields(v) : v \in Versions})

ASSUME SyncAssumption ==
  /\ PoolOf \in [Callers -> Pools]
  /\ Callers \cap Pools = {}
  /\ {None, Dead} \cap (Callers \cup Pools) = {}
  /\ None # Dead
  /\ MaxOpenConns \in Nat \ {0}
  /\ Versions # {}
  /\ \A v \in Versions : IsVersion(v) /\ v.expandOnly \in BOOLEAN
  /\ DeclaredTypes \subseteq Types
  /\ \A t \in InitialTables : IsTable(t) /\ KeysFit(t)
  /\ Servers \subseteq BOOLEAN
  /\ MaxFaults \in Nat

VARIABLES
  table,    \* the online table
  locks,    \* whether the server has GET_LOCK
  lock,     \* owner of the lock: None, Dead, a caller's session, an idle session of a pool
  free,     \* free[p]: connections pool p may still lend
  pc,       \* pc[c]: the statement caller c sends next
  pinned,   \* pinned[c]: caller c holds a connection
  version,  \* version[c]: the program caller c runs in
  seen,     \* seen[c]: the columns caller c has read
  plan,     \* plan[c]: the ALTERs caller c has still to send
  result,   \* result[c]: what caller c will return
  orphans,  \* ALTER statements on the server whose client has gone
  faults

process == <<pc, version, seen, plan, result>>
session == <<lock, free, pinned>>
vars == <<table, locks, session, process, orphans, faults>>

Statements == {"exists", "create", "columns", "keys", "alter", "primary"}

NoColumns == <<>>
NoPlan == [refused |-> FALSE, columns |-> {}, primaryKey |-> {}]
AVersion == CHOOSE v \in Versions : TRUE

\* Every connection of a pool is lent or free, a caller that arrives has none, and one
\* that sends an ALTER has a plan.
TypeOK ==
  /\ locks \in Servers
  /\ lock \in {None, Dead} \cup Callers \cup Pools
  /\ free \in [Pools -> 0..MaxOpenConns]
  /\ pc \in [Callers -> Statements \cup {"idle", "borrow", "lock", "release"}]
  /\ version \in [Callers -> Versions]
  /\ result \in [Callers -> {"none", "ok", "error"}]
  /\ \A c \in Callers : pc[c] = "alter" => plan[c].columns # {}
  /\ \A c \in Callers : pc[c] = "primary" => plan[c].primaryKey # {}
  /\ \A c \in Callers : pinned[c] => pc[c] \notin {"idle", "borrow"}
  /\ \A p \in Pools :
       free[p] + Cardinality({c \in Callers : PoolOf[c] = p /\ pinned[c]}) = MaxOpenConns
  /\ faults \in 0..MaxFaults

Init ==
  /\ table \in InitialTables
  /\ locks \in Servers
  /\ lock = None
  /\ free = [p \in Pools |-> MaxOpenConns]
  /\ pc = [c \in Callers |-> "idle"]
  /\ pinned = [c \in Callers |-> FALSE]
  /\ version = [c \in Callers |-> AVersion]
  /\ seen = [c \in Callers |-> NoColumns]
  /\ plan = [c \in Callers |-> NoPlan]
  /\ result = [c \in Callers |-> "none"]
  /\ orphans = {}
  /\ faults = 0
-----------------------------------------------------------------------------
Goto(c, label) ==
  /\ pc' = [pc EXCEPT ![c] = label]
  /\ UNCHANGED <<version, seen, plan, result>>

\* A synchronisation is over; its locals are gone.
Return(c) ==
  /\ pc' = [pc EXCEPT ![c] = "idle"]
  /\ version' = [version EXCEPT ![c] = AVersion]
  /\ seen' = [seen EXCEPT ![c] = NoColumns]
  /\ plan' = [plan EXCEPT ![c] = NoPlan]
  /\ result' = [result EXCEPT ![c] = "none"]

\* What follows the last statement on the table: RELEASE_LOCK when there is a lock.
Finish(c, answer) ==
  IF pinned[c]
    THEN /\ pc' = [pc EXCEPT ![c] = "release"]
         /\ seen' = [seen EXCEPT ![c] = NoColumns]
         /\ plan' = [plan EXCEPT ![c] = NoPlan]
         /\ result' = [result EXCEPT ![c] = answer]
         /\ UNCHANGED version
    ELSE Return(c)

\* Close gives the session back to the pool, with any lock it holds.
CloseConn(c) ==
  /\ pinned' = [pinned EXCEPT ![c] = FALSE]
  /\ free' = [free EXCEPT ![PoolOf[c]] = @ + 1]
  /\ lock' = IF lock = c THEN PoolOf[c] ELSE lock

\* A connection marked as broken that nobody closes.
DiscardWithoutClose(c) ==
  /\ pinned' = [pinned EXCEPT ![c] = FALSE]
  /\ lock' = IF lock = c THEN Dead ELSE lock
  /\ UNCHANGED free

\* discardSQLConn: the connection is closed, the session ends when the server notices.
DiscardConn(c) ==
  /\ pinned' = [pinned EXCEPT ![c] = FALSE]
  /\ free' = [free EXCEPT ![PoolOf[c]] = @ + 1]
  /\ lock' = IF lock = c THEN Dead ELSE lock

\* meta(): a pinned caller's statements need its session alive, the others' a connection.
Meta(c) == IF pinned[c] THEN lock = c ELSE free[PoolOf[c]] > 0

-----------------------------------------------------------------------------
\* SyncAllTables of a program of version v: arrival at the pool.
Start(c) ==
  /\ pc[c] = "idle"
  /\ \E v \in Versions :
       /\ version' = [version EXCEPT ![c] = v]
       /\ pc' = [pc EXCEPT ![c] = "borrow"]
       /\ UNCHANGED <<seen, plan, result>>
  /\ UNCHANGED <<table, locks, session, orphans, faults>>

\* p.DB.Conn waits for a connection of the pool.
Borrow(c) ==
  /\ pc[c] = "borrow"
  /\ free[PoolOf[c]] > 0
  /\ free' = [free EXCEPT ![PoolOf[c]] = @ - 1]
  /\ pinned' = [pinned EXCEPT ![c] = TRUE]
  /\ Goto(c, "lock")
  /\ UNCHANGED <<table, locks, lock, orphans, faults>>

\* GET_LOCK returns 1.
GetsLock(c) ==
  /\ pc[c] = "lock"
  /\ locks
  /\ lock = None
  /\ lock' = c
  /\ Goto(c, "exists")
  /\ UNCHANGED <<table, locks, free, pinned, orphans, faults>>

\* GET_LOCK as a best effort: without the lock the call goes on all the same.
ProceedsWithoutLock(c) ==
  /\ pc[c] = "lock"
  /\ locks
  /\ lock # None
  /\ CloseConn(c)
  /\ Goto(c, "exists")
  /\ UNCHANGED <<table, locks, orphans, faults>>

\* A call that asks for the lock until it gets it.
AsksAgain(c) ==
  /\ pc[c] = "lock"
  /\ locks
  /\ lock # None
  /\ CloseConn(c)
  /\ Goto(c, "borrow")
  /\ UNCHANGED <<table, locks, orphans, faults>>

\* GET_LOCK returns 0 after its timeout.
LockTimesOut(c) ==
  /\ pc[c] = "lock"
  /\ locks
  /\ lock # None
  /\ CloseConn(c)
  /\ Return(c)
  /\ UNCHANGED <<table, locks, orphans, faults>>

\* The server does not know GET_LOCK: the call goes on without a lock.
LockUnsupported(c) ==
  /\ pc[c] = "lock"
  /\ ~locks
  /\ CloseConn(c)
  /\ Goto(c, "exists")
  /\ UNCHANGED <<table, locks, orphans, faults>>

\* GET_LOCK fails or returns NULL; the server may have granted it all the same.
LockFails(c) ==
  /\ pc[c] = "lock"
  /\ faults < MaxFaults
  /\ faults' = faults + 1
  /\ pinned' = [pinned EXCEPT ![c] = FALSE]
  /\ free' = [free EXCEPT ![PoolOf[c]] = @ + 1]
  /\ lock' \in {lock} \cup (IF locks /\ lock = None THEN {Dead} ELSE {})
  /\ Return(c)
  /\ UNCHANGED <<table, locks, orphans>>

CheckExists(c) ==
  /\ pc[c] = "exists"
  /\ Meta(c)
  /\ Goto(c, IF Exists(table) THEN "columns" ELSE "create")
  /\ UNCHANGED <<table, locks, session, orphans, faults>>

\* The table is created and then aligned like any other.
CreateTable(c) ==
  /\ pc[c] = "create"
  /\ Meta(c)
  /\ table' = Created(version[c], table)
  /\ Goto(c, "columns")
  /\ UNCHANGED <<locks, session, orphans, faults>>

\* readSchemaState: the columns, then the indexes and the primary key.
ReadColumns(c) ==
  /\ pc[c] = "columns"
  /\ Meta(c)
  /\ seen' = [seen EXCEPT ![c] = table.cols]
  /\ pc' = [pc EXCEPT ![c] = "keys"]
  /\ UNCHANGED <<table, locks, session, version, plan, result, orphans, faults>>

\* An instance derived for the pinned connection that forgets ExpandOnly.
ForgottenExpandOnly(c, t) == Plan(version[c], t, FALSE)

PlanOf(c, t) == Plan(version[c], t, version[c].expandOnly)

\* ... of which the plan is made.
ReadKeys(c) ==
  /\ pc[c] = "keys"
  /\ Meta(c)
  /\ LET made == PlanOf(c, [cols |-> seen[c], pk |-> table.pk, indexes |-> table.indexes])
     IN IF made.refused THEN Finish(c, "error")
        ELSE IF made.columns = {} /\ made.primaryKey = {} THEN Finish(c, "ok")
        ELSE /\ plan' = [plan EXCEPT ![c] = made]
             /\ seen' = [seen EXCEPT ![c] = NoColumns]
             /\ pc' = [pc EXCEPT ![c] = IF made.columns # {} THEN "alter" ELSE "primary"]
             /\ UNCHANGED <<version, result>>
  /\ UNCHANGED <<table, locks, session, orphans, faults>>

\* The ALTER caller c sends next.
Ddl(c) == IF pc[c] = "alter" THEN plan[c].columns ELSE plan[c].primaryKey
SendsDdl(c) == pc[c] \in {"alter", "primary"} /\ Meta(c)

\* A synchronisation that takes the first ALTER for the last.
AlterColumnsOnly(c) ==
  /\ SendsDdl(c)
  /\ Executes(table, Ddl(c))
  /\ table' = Altered(table, Ddl(c))
  /\ Finish(c, "ok")
  /\ UNCHANGED <<locks, session, orphans, faults>>

\* An ALTER takes effect as a whole; the wait until it can be seen changes nothing.
Alter(c) ==
  /\ SendsDdl(c)
  /\ Executes(table, Ddl(c))
  /\ table' = Altered(table, Ddl(c))
  /\ IF pc[c] = "alter" /\ plan[c].primaryKey # {}
       THEN /\ pc' = [pc EXCEPT ![c] = "primary"]
            /\ plan' = [plan EXCEPT ![c] = [refused |-> FALSE, columns |-> {},
                                            primaryKey |-> plan[c].primaryKey]]
            /\ UNCHANGED <<version, seen, result>>
       ELSE Finish(c, "ok")
  /\ UNCHANGED <<locks, session, orphans, faults>>

\* An ALTER is refused: for its columns and keys, or for rows that repeat a new key.
AlterRefused(c) ==
  /\ SendsDdl(c)
  /\ \/ ~Executes(table, Ddl(c))
     \/ \E x \in Ddl(c) : x.op = "add primary key" \/ (x.op = "add index" /\ x.index.unique)
  /\ Finish(c, "error")
  /\ UNCHANGED <<table, locks, session, orphans, faults>>

\* The pinned session is gone: the statement that finds out fails.
SessionLost(c) ==
  /\ pc[c] \in Statements
  /\ pinned[c]
  /\ lock # c
  /\ Finish(c, "error")
  /\ UNCHANGED <<table, locks, session, orphans, faults>>

\* RELEASE_LOCK returns 1: only then the session goes back to the pool.
Release(c) ==
  /\ pc[c] = "release"
  /\ lock = c
  /\ lock' = None
  /\ pinned' = [pinned EXCEPT ![c] = FALSE]
  /\ free' = [free EXCEPT ![PoolOf[c]] = @ + 1]
  /\ Return(c)
  /\ UNCHANGED <<table, locks, orphans, faults>>

\* A failed RELEASE_LOCK after which the connection is closed as usual.
ReleaseFailsAndCloses(c) ==
  /\ pc[c] = "release"
  /\ lock = c => faults < MaxFaults
  /\ faults' = IF lock = c THEN faults + 1 ELSE faults
  /\ CloseConn(c)
  /\ Return(c)
  /\ UNCHANGED <<table, locks, orphans>>

\* RELEASE_LOCK fails: its session is lost, or its 5 seconds are over.
ReleaseFails(c) ==
  /\ pc[c] = "release"
  /\ lock = c => faults < MaxFaults
  /\ faults' = IF lock = c THEN faults + 1 ELSE faults
  /\ DiscardConn(c)
  /\ Return(c)
  /\ UNCHANGED <<table, locks, orphans>>
-----------------------------------------------------------------------------
\* The server ends the session of a caller, and with it the lock.
SessionKilled(c) ==
  /\ lock = c
  /\ faults < MaxFaults
  /\ faults' = faults + 1
  /\ lock' = None
  /\ UNCHANGED <<table, locks, free, pinned, process, orphans>>

\* The client gives up on an ALTER (deadline, broken connection): the server still has it,
\* and the session lives until the server is done with it.
AlterAbandoned(c) ==
  /\ SendsDdl(c)
  /\ faults < MaxFaults
  /\ faults' = faults + 1
  /\ orphans' = orphans \cup {Ddl(c)}
  /\ lock' = IF lock = c THEN Dead ELSE lock
  /\ Finish(c, "error")
  /\ UNCHANGED <<table, locks, free, pinned>>

\* A process dies between two statements.
Crash(p) ==
  /\ \E c \in Callers : PoolOf[c] = p /\ pc[c] # "idle"
  /\ faults < MaxFaults
  /\ faults' = faults + 1
  /\ free' = [free EXCEPT ![p] = MaxOpenConns]
  /\ pinned' = [c \in Callers |-> pinned[c] /\ PoolOf[c] # p]
  /\ lock' = IF lock \in Callers /\ PoolOf[lock] = p THEN Dead ELSE lock
  /\ pc' = [c \in Callers |-> IF PoolOf[c] = p THEN "idle" ELSE pc[c]]
  /\ version' = [c \in Callers |-> IF PoolOf[c] = p THEN AVersion ELSE version[c]]
  /\ seen' = [c \in Callers |-> IF PoolOf[c] = p THEN NoColumns ELSE seen[c]]
  /\ plan' = [c \in Callers |-> IF PoolOf[c] = p THEN NoPlan ELSE plan[c]]
  /\ result' = [c \in Callers |-> IF PoolOf[c] = p THEN "none" ELSE result[c]]
  /\ UNCHANGED <<table, locks, orphans>>

\* An abandoned ALTER runs, or is refused.
OrphanRuns(clauses) ==
  /\ orphans' = orphans \ {clauses}
  /\ table' \in {table} \cup (IF Executes(table, clauses) THEN {Altered(table, clauses)} ELSE {})
  /\ UNCHANGED <<locks, session, process, faults>>

\* The server notices that a client has gone, once its statement is done.
SessionEnds ==
  /\ lock = Dead
  /\ orphans = {}
  /\ lock' = None
  /\ UNCHANGED <<table, locks, free, pinned, process, orphans, faults>>
-----------------------------------------------------------------------------
Locking(c) == GetsLock(c) \/ LockTimesOut(c) \/ LockUnsupported(c)
Syncing(c) == \/ CheckExists(c) \/ CreateTable(c) \/ ReadColumns(c) \/ ReadKeys(c)
              \/ Alter(c) \/ AlterRefused(c) \/ SessionLost(c)
Releasing(c) == Release(c) \/ ReleaseFails(c)

Next ==
  \/ \E c \in Callers :
       \/ Start(c) \/ Borrow(c) \/ Locking(c) \/ LockFails(c) \/ Syncing(c) \/ Releasing(c)
       \/ SessionKilled(c) \/ AlterAbandoned(c)
  \/ \E p \in Pools : Crash(p)
  \/ \E clauses \in orphans : OrphanRuns(clauses)
  \/ SessionEnds

Step(c) == Borrow(c) \/ Locking(c) \/ Syncing(c) \/ Releasing(c)

\* ENABLED Step(c), written out: what caller c waits for is there.
CanStep(c) ==
  \/ pc[c] = "borrow" /\ free[PoolOf[c]] > 0
  \/ pc[c] \in {"lock", "release"}
  \/ pc[c] \in Statements /\ (Meta(c) \/ (pinned[c] /\ lock # c))

\* SF_vars(Step(c)).  Statements answer at last, GET_LOCK within its timeout; and a caller
\* that waits for a connection gets one that comes free time and again (database/sql
\* serves the requests that wait before later ones).
Fairness == \A c \in Callers : []<>CanStep(c) => []<><<Step(c)>>_vars

Spec == Init /\ [][Next]_vars
FairSpec == Spec /\ Fairness
-----------------------------------------------------------------------------
(***************************************************************************)
(* Properties                                                              *)
(***************************************************************************)

\* Every column of a table belongs to one field, whatever the versions call it; a column
\* without its comment is known by its name alone.
OneColumnPerField(cols) ==
  /\ \A a, b \in DOMAIN cols : cols[a].born.num = cols[b].born.num => a = b
  /\ \A n \in DOMAIN cols :
       /\ cols[n].num \in {0, cols[n].born.num}
       /\ \A v \in Versions : \A f \in ToSet(v.fields) :
            /\ f.name = n => f.num = cols[n].born.num
            /\ cols[n].num = 0 /\ f.num = cols[n].born.num => f.name = n

\* No name is used for two fields, neither by two versions nor by a version and the table.
NamesAreKept ==
  /\ \A v, w \in Versions : \A f \in ToSet(v.fields) : \A g \in ToSet(w.fields) :
       f.name = g.name => f.num = g.num
  /\ \A t \in InitialTables : OneColumnPerField(t.cols)

\* With the lock, no DDL is planned from a table that has changed since: whoever is about
\* to send an ALTER would plan the very same one now, or its session is gone and it
\* cannot send it (acquireSyncLock, withPinnedConn).
PlansAreCurrent ==
  \A c \in Callers :
    locks /\ SendsDdl(c) =>
      LET now == PlanOf(c, table)
      IN ~now.refused /\ plan[c].columns = now.columns /\ plan[c].primaryKey = now.primaryKey

\* MySQL does not refuse an ALTER the lock protects for its columns or keys (1054, 1060,
\* 1061, 1068, 1072, 1075): the order of the two ALTERs of planSchemaAlignment fits.
PlansExecute == \A c \in Callers : locks /\ SendsDdl(c) => Executes(table, Ddl(c))

\* With the lock, no column is ever dropped, and none comes to hold less than it did,
\* whichever versions run in whichever order.
NeverNarrows ==
  [][locks => \A n \in DOMAIN table.cols :
       \E m \in DOMAIN table'.cols :
         /\ table'.cols[m].born = table.cols[n].born
         /\ HoldsAllOf(table'.cols[m].type, table.cols[n].type)]_vars

\* With the lock, a synchronisation that returns no error leaves a table its version has
\* nothing to change on.
SyncedTablesAreSettled ==
  \A c \in Callers :
    pc[c] = "release" /\ lock = c /\ result[c] = "ok" => IsSettled(version[c], table)

\* With the lock, a renamed field keeps its column: no field ever has a second one, where
\* no name is used again for another field and the renamed column has its comment
\* (buildColumnClauses).
RenamesKeepTheColumn ==
  locks => \A a, b \in DOMAIN table.cols :
             table.cols[a].born.num = table.cols[b].born.num => a = b

\* A synchronisation under ExpandOnly changes no column that was there, even without a
\* lock (checkExpandOnly).
ExpandOnlyOnlyAdds ==
  [][\A c \in Callers :
       Alter(c) /\ version[c].expandOnly
         => \A n \in DOMAIN table.cols :
              n \in DOMAIN table'.cols /\ table'.cols[n] = table.cols[n]]_vars

\* No idle session of a pool holds the lock: it would lock out every later
\* synchronisation for as long as the process lives (releaseSyncLock).
IdleSessionsHoldNoLock == lock \notin Pools

\* A synchronisation returns, with one connection in the pool and others waiting for it
\* as well (meta, withPinnedConn).
EverySyncReturns == \A c \in Callers : pc[c] # "idle" ~> pc[c] = "idle"

\* The number in the comment is the identity of a column: whoever synchronised without an
\* error reads every field from the column that was added for that field
\* (README.md:189-203, docs/README.md:51).
FieldsReadTheirOwnColumns ==
  \A c \in Callers :
    pc[c] = "release" /\ lock = c /\ result[c] = "ok"
      => \A i \in DOMAIN version[c].fields :
           LET f == version[c].fields[i]
           IN table.cols[f.name].born.num = f.num
=============================================================================
