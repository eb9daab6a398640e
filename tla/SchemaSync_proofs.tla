------------------------- MODULE SchemaSync_proofs -------------------------
(***************************************************************************)
(* The advisory lock of SchemaSync, proved for any number of callers,      *)
(* pools, versions and faults: the lock never stays behind in an idle      *)
(* session, and the ALTER a caller sends was planned from the table it     *)
(* alters.  The argument: as long as a session owns the lock, only its     *)
(* caller, whose statements all run in that session, and no statement of a *)
(* client that has gone, changes the table.  From this follows what a      *)
(* synchronisation does to the table: no column is narrowed, and, where no *)
(* name is used for two fields, every ALTER is the one planned for the     *)
(* table as it is, MySQL executes it, and nothing is left to change.       *)
(***************************************************************************)
EXTENDS SchemaSync, FiniteSetTheorems, WellFoundedInduction, TLAPS

(***************************************************************************)
(* Column types: the order the code's comparisons put on them, and what it *)
(* means for the type an ALTER writes, whatever families and ranks there   *)
(* are.                                                                    *)
(***************************************************************************)

\* A column that holds what b holds holds what c holds when b does: however many versions
\* follow one another, "wide enough" is never lost between them (isTypeMatch).
THEOREM TypeMatchIsTransitive ==
  ASSUME NEW a \in Types, NEW b \in Types, NEW c \in Types,
         IsTypeMatch(a, b), IsTypeMatch(b, c)
  PROVE  IsTypeMatch(a, c)
<1>1. a.rank \in Nat /\ b.rank \in Nat /\ c.rank \in Nat
      /\ a.size \in Nat /\ b.size \in Nat /\ c.size \in Nat
  BY DEF Types
<1>2. a.family = c.family /\ a.unsigned = c.unsigned
  BY DEF IsTypeMatch
<1>3. a.rank >= b.rank /\ b.rank >= c.rank
  BY <1>1 DEF IsTypeMatch
<1>4. CASE a.rank > c.rank
  BY <1>1, <1>2, <1>4 DEF IsTypeMatch
<1>5. CASE a.rank = c.rank
  <2>1. a.rank = b.rank /\ b.rank = c.rank
    BY <1>1, <1>3, <1>5
  <2>2. a.size >= b.size /\ b.size >= c.size
    BY <2>1 DEF IsTypeMatch
  <2> QED BY <1>1, <1>2, <1>5, <2>2 DEF IsTypeMatch
<1> QED BY <1>1, <1>3, <1>4, <1>5

\* The type an ALTER writes holds what the column held: MODIFY and CHANGE never narrow
\* (alignedColumnType, its two paths: comments filled in and renames).
THEOREM AlignedNeverNarrows ==
  ASSUME NEW current \in Types, NEW target \in Types,
         IsRenameConvertible(current, target)
  PROVE  IsTypeMatch(AlignedColumnType(current, target), current)
<1>1. /\ current.rank \in Nat /\ target.rank \in Nat
      /\ current.size \in Nat /\ target.size \in Nat
      /\ current.unsigned \in BOOLEAN /\ target.unsigned \in BOOLEAN
  BY DEF Types
<1>2. IsTypeMatch(current, current)
  BY <1>1 DEF IsTypeMatch
<1>3. CASE KeepsCurrent(current, target)
  BY <1>2, <1>3 DEF AlignedColumnType
<1>4. CASE ~KeepsCurrent(current, target)
  <2>1. target.unsigned = current.unsigned /\ target.family = current.family
    BY <1>4 DEF KeepsCurrent, UnsafeSignednessChange, IsRenameConvertible
  <2>2. target.rank >= current.rank
    BY <1>1, <1>4, <2>1 DEF KeepsCurrent, NarrowingSuppressed
  <2>3. target.rank = current.rank => target.size >= current.size
    BY <1>1, <1>4, <2>1 DEF KeepsCurrent, NarrowingSuppressed
  <2>4. IsTypeMatch(target, current)
    BY <2>1, <2>2, <2>3 DEF IsTypeMatch
  <2> QED BY <1>4, <2>4 DEF AlignedColumnType
<1> QED BY <1>3, <1>4

\* After the ALTER the column holds what the version wants, and the next synchronisation
\* finds nothing to do for its type: two versions do not alter it back and forth.
THEOREM AlignedHoldsTarget ==
  ASSUME NEW current \in Types, NEW target \in Types,
         IsRenameConvertible(current, target),
         ~UnsafeSignednessChange(current, target)
  PROVE  IsTypeMatch(AlignedColumnType(current, target), target)
<1>1. /\ current.rank \in Nat /\ target.rank \in Nat
      /\ current.size \in Nat /\ target.size \in Nat
  BY DEF Types
<1>2. current.family = target.family /\ current.unsigned = target.unsigned
  BY DEF IsRenameConvertible, UnsafeSignednessChange
<1>3. CASE KeepsCurrent(current, target)
  <2>1. NarrowingSuppressed(current, target)
    BY <1>3 DEF KeepsCurrent
  <2>2. IsTypeMatch(current, target)
    BY <1>1, <1>2, <2>1 DEF NarrowingSuppressed, IsTypeMatch
  <2> QED BY <1>3, <2>2 DEF AlignedColumnType
<1>4. CASE ~KeepsCurrent(current, target)
  BY <1>1, <1>4 DEF AlignedColumnType, IsTypeMatch
<1> QED BY <1>3, <1>4

-----------------------------------------------------------------------------

Typing ==
  /\ locks \in BOOLEAN
  /\ lock \in {None, Dead} \cup Callers
  /\ DOMAIN pc = Callers
  /\ DOMAIN version = Callers
  /\ DOMAIN seen = Callers
  /\ DOMAIN plan = Callers
  /\ pinned \in [Callers -> BOOLEAN]
  /\ IsTable(table)

\* Only a caller between GET_LOCK and RELEASE_LOCK owns the lock.
OwnerIsWorking ==
  \A c \in Callers : lock = c => locks /\ pc[c] \in Statements \cup {"release"}

\* With the lock, every statement runs on a pinned connection.
StatementsArePinned ==
  \A c \in Callers : \/ pc[c] \in {"lock", "release"}
                     \/ locks /\ pc[c] \in Statements
                     => pinned[c]

\* An abandoned ALTER is still in the session that owns the lock.
OrphansHoldTheLock == locks /\ orphans # {} => lock = Dead

\* Who reads the keys has read the columns of the table as it is.
SeenIsCurrent ==
  \A c \in Callers : lock = c /\ pc[c] = "keys" => seen[c] = table.cols

\* The first ALTER of a synchronisation is what its version would plan now.
FirstAlterIsCurrent ==
  \A c \in Callers : lock = c /\ pc[c] = "alter" => plan[c] = PlanOf(c, table)

\* Under ExpandOnly a plan has nothing but additions.
ExpandOnlyPlansAdd ==
  \A c \in Callers : pc[c] \in {"alter", "primary"} /\ version[c].expandOnly
                      => OnlyAdds(plan[c].columns) /\ OnlyAdds(plan[c].primaryKey)

\* The inductive invariant.
IInv ==
  /\ Typing
  /\ OwnerIsWorking
  /\ StatementsArePinned
  /\ OrphansHoldTheLock
  /\ SeenIsCurrent
  /\ FirstAlterIsCurrent
  /\ ExpandOnlyPlansAdd

-----------------------------------------------------------------------------
USE DEF Statements, PlanOf

\* What CREATE TABLE and ALTER TABLE leave is a table.
LEMMA AlteredIsTable == \A t, clauses : IsTable(Altered(t, clauses))
BY DEF Altered, IsTable

\* What CREATE TABLE makes is a table.
LEMMA CreatedIsTable == \A v, t : IsTable(t) => IsTable(Created(v, t))
BY DEF Created, IsTable

\* The initial states.
LEMMA InitIInv == Init => IInv
BY SyncAssumption DEF Init, IInv, Typing, OwnerIsWorking, StatementsArePinned,
   OrphansHoldTheLock, SeenIsCurrent, FirstAlterIsCurrent, ExpandOnlyPlansAdd

\* The steps up to the lock: only GET_LOCK itself gives a session the lock, and a failed
\* one leaves it with a dead session at most.
LEMMA StepStart ==
  ASSUME IInv, NEW c \in Callers, Start(c) PROVE IInv'
BY SyncAssumption DEF IInv, Typing, OwnerIsWorking, StatementsArePinned, OrphansHoldTheLock,
   SeenIsCurrent, FirstAlterIsCurrent, ExpandOnlyPlansAdd, Start, session

\* A connection is borrowed before anything is read.
LEMMA StepBorrow ==
  ASSUME IInv, NEW c \in Callers, Borrow(c) PROVE IInv'
BY SyncAssumption DEF IInv, Typing, OwnerIsWorking, StatementsArePinned, OrphansHoldTheLock,
   SeenIsCurrent, FirstAlterIsCurrent, ExpandOnlyPlansAdd, Borrow, Goto

\* The lock goes to a caller who has read nothing yet.
LEMMA StepGetsLock ==
  ASSUME IInv, NEW c \in Callers, GetsLock(c) PROVE IInv'
BY SyncAssumption DEF IInv, Typing, OwnerIsWorking, StatementsArePinned, OrphansHoldTheLock,
   SeenIsCurrent, FirstAlterIsCurrent, ExpandOnlyPlansAdd, GetsLock, Goto

\* A caller without the lock returns.
LEMMA StepLockTimesOut ==
  ASSUME IInv, NEW c \in Callers, LockTimesOut(c) PROVE IInv'
BY SyncAssumption DEF IInv, Typing, OwnerIsWorking, StatementsArePinned, OrphansHoldTheLock,
   SeenIsCurrent, FirstAlterIsCurrent, ExpandOnlyPlansAdd, LockTimesOut, CloseConn, Return

\* Without GET_LOCK nothing is claimed of the owner.
LEMMA StepLockUnsupported ==
  ASSUME IInv, NEW c \in Callers, LockUnsupported(c) PROVE IInv'
BY SyncAssumption DEF IInv, Typing, OwnerIsWorking, StatementsArePinned, OrphansHoldTheLock,
   SeenIsCurrent, FirstAlterIsCurrent, ExpandOnlyPlansAdd, LockUnsupported, CloseConn, Goto

\* A lost reply of GET_LOCK leaves the lock to a session that dies.
LEMMA StepLockFails ==
  ASSUME IInv, NEW c \in Callers, LockFails(c) PROVE IInv'
BY SyncAssumption DEF IInv, Typing, OwnerIsWorking, StatementsArePinned, OrphansHoldTheLock,
   SeenIsCurrent, FirstAlterIsCurrent, ExpandOnlyPlansAdd, LockFails, Return

\* The statements on the table. The owner of the lock is the only one who sends them, and
\* what it has read so far is still what the table looks like.
LEMMA StepCheckExists ==
  ASSUME IInv, NEW c \in Callers, CheckExists(c) PROVE IInv'
BY SyncAssumption DEF IInv, Typing, OwnerIsWorking, StatementsArePinned, OrphansHoldTheLock,
   SeenIsCurrent, FirstAlterIsCurrent, ExpandOnlyPlansAdd, CheckExists, Goto, session

\* The owner of the lock creates the table.
LEMMA StepCreateTable ==
  ASSUME IInv, NEW c \in Callers, CreateTable(c) PROVE IInv'
BY SyncAssumption, CreatedIsTable DEF IInv, Typing, OwnerIsWorking, StatementsArePinned,
   OrphansHoldTheLock, SeenIsCurrent, FirstAlterIsCurrent, ExpandOnlyPlansAdd, CreateTable,
   Goto, session, Meta

\* What is read of the columns is true when it is read.
LEMMA StepReadColumns ==
  ASSUME IInv, NEW c \in Callers, ReadColumns(c) PROVE IInv'
BY SyncAssumption DEF IInv, Typing, OwnerIsWorking, StatementsArePinned, OrphansHoldTheLock,
   SeenIsCurrent, FirstAlterIsCurrent, ExpandOnlyPlansAdd, ReadColumns, session

\* The plan is made from the table as it is.
LEMMA StepReadKeys ==
  ASSUME IInv, NEW c \in Callers, ReadKeys(c) PROVE IInv'
<1> DEFINE read == [cols |-> seen[c], pk |-> table.pk, indexes |-> table.indexes]
           made == PlanOf(c, read)
           expandOnly == version[c].expandOnly
<1>1. lock = c => read = table
  BY DEF ReadKeys, IInv, Typing, IsTable, SeenIsCurrent
<1>2. ~made.refused /\ expandOnly => OnlyAdds(made.columns) /\ OnlyAdds(made.primaryKey)
  BY DEF Plan, OnlyAdds
<1>3. /\ pc[c] = "keys"
      /\ UNCHANGED <<table, locks, session, orphans, faults>>
  BY DEF ReadKeys
<1>4. CASE Finish(c, "error") \/ Finish(c, "ok")
  BY <1>3, <1>4, SyncAssumption DEF IInv, Typing, OwnerIsWorking, StatementsArePinned,
     OrphansHoldTheLock, SeenIsCurrent, FirstAlterIsCurrent, ExpandOnlyPlansAdd, Finish,
     Return, session
<1>5. CASE /\ ~made.refused
           /\ plan' = [plan EXCEPT ![c] = made]
           /\ seen' = [seen EXCEPT ![c] = NoColumns]
           /\ pc' = [pc EXCEPT ![c] = IF made.columns # {} THEN "alter" ELSE "primary"]
           /\ UNCHANGED <<version, result>>
  <2> HIDE DEF made, read
  <2>1. /\ Typing' /\ OwnerIsWorking' /\ StatementsArePinned'
        /\ OrphansHoldTheLock' /\ SeenIsCurrent'
    BY <1>3, <1>5 DEF IInv, Typing, OwnerIsWorking, StatementsArePinned, OrphansHoldTheLock,
       SeenIsCurrent, session
  <2>2. FirstAlterIsCurrent'
    BY <1>1, <1>3, <1>5 DEF IInv, Typing, FirstAlterIsCurrent, session, made
  <2>3. ExpandOnlyPlansAdd'
    BY <1>2, <1>3, <1>5 DEF IInv, Typing, ExpandOnlyPlansAdd
  <2> QED
    BY <2>1, <2>2, <2>3 DEF IInv
<1> QED
  BY <1>4, <1>5 DEF ReadKeys

\* The first ALTER is the owner's, and ends what was seen.
LEMMA StepAlter ==
  ASSUME IInv, NEW c \in Callers, Alter(c) PROVE IInv'
<1>1. /\ SendsDdl(c)
      /\ table' = Altered(table, Ddl(c))
      /\ UNCHANGED <<locks, session, orphans, faults>>
  BY DEF Alter
<1>2. IsTable(table')
  BY <1>1, AlteredIsTable
<1>3. CASE Finish(c, "ok")
  BY <1>1, <1>2, <1>3, SyncAssumption DEF IInv, Typing, OwnerIsWorking, StatementsArePinned,
     OrphansHoldTheLock, SeenIsCurrent, FirstAlterIsCurrent, ExpandOnlyPlansAdd, SendsDdl,
     Meta, Finish, Return, session, IsTable
<1>4. CASE /\ pc' = [pc EXCEPT ![c] = "primary"]
           /\ plan' = [plan EXCEPT ![c] = [refused |-> FALSE, columns |-> {},
                                           primaryKey |-> plan[c].primaryKey]]
           /\ UNCHANGED <<version, seen, result>>
  BY <1>1, <1>2, <1>4, SyncAssumption DEF IInv, Typing, OwnerIsWorking, StatementsArePinned,
     OrphansHoldTheLock, SeenIsCurrent, FirstAlterIsCurrent, ExpandOnlyPlansAdd, SendsDdl,
     Meta, session, IsTable, OnlyAdds
<1> QED
  BY <1>3, <1>4 DEF Alter

\* A refused ALTER changes nothing.
LEMMA StepAlterRefused ==
  ASSUME IInv, NEW c \in Callers, AlterRefused(c) PROVE IInv'
<1>1. /\ SendsDdl(c)
      /\ Finish(c, "error")
      /\ UNCHANGED <<table, locks, session, orphans, faults>>
  BY DEF AlterRefused
<1> QED
  BY <1>1, SyncAssumption DEF IInv, Typing, OwnerIsWorking, StatementsArePinned,
   OrphansHoldTheLock, SeenIsCurrent, FirstAlterIsCurrent, ExpandOnlyPlansAdd, SendsDdl, Finish,
   Return, session

\* A caller whose session was ended gets an error, and no lock is its own any more.
LEMMA StepSessionLost ==
  ASSUME IInv, NEW c \in Callers, SessionLost(c) PROVE IInv'
BY SyncAssumption DEF IInv, Typing, OwnerIsWorking, StatementsArePinned, OrphansHoldTheLock,
   SeenIsCurrent, FirstAlterIsCurrent, ExpandOnlyPlansAdd, SessionLost, Finish, Return,
   session

\* RELEASE_LOCK: the connection goes back to the pool without the lock, or is discarded.
LEMMA StepRelease ==
  ASSUME IInv, NEW c \in Callers, Release(c) PROVE IInv'
BY SyncAssumption DEF IInv, Typing, OwnerIsWorking, StatementsArePinned, OrphansHoldTheLock,
   SeenIsCurrent, FirstAlterIsCurrent, ExpandOnlyPlansAdd, Release, Return

\* A failed RELEASE_LOCK costs the session.
LEMMA StepReleaseFails ==
  ASSUME IInv, NEW c \in Callers, ReleaseFails(c) PROVE IInv'
BY SyncAssumption DEF IInv, Typing, OwnerIsWorking, StatementsArePinned, OrphansHoldTheLock,
   SeenIsCurrent, FirstAlterIsCurrent, ExpandOnlyPlansAdd, ReleaseFails, DiscardConn, Return

\* Lost sessions, abandoned statements and crashes: from then on the lock is nobody's or
\* a dead session's, and a dead session keeps it until its ALTER is done.
LEMMA StepSessionKilled ==
  ASSUME IInv, NEW c \in Callers, SessionKilled(c) PROVE IInv'
BY SyncAssumption DEF IInv, Typing, OwnerIsWorking, StatementsArePinned, OrphansHoldTheLock,
   SeenIsCurrent, FirstAlterIsCurrent, ExpandOnlyPlansAdd, SessionKilled, process

\* An abandoned ALTER stays with the session that has the lock.
LEMMA StepAlterAbandoned ==
  ASSUME IInv, NEW c \in Callers, AlterAbandoned(c) PROVE IInv'
BY SyncAssumption DEF IInv, Typing, OwnerIsWorking, StatementsArePinned, OrphansHoldTheLock,
   SeenIsCurrent, FirstAlterIsCurrent, ExpandOnlyPlansAdd, AlterAbandoned, SendsDdl, Meta,
   Finish, Return

\* A crash leaves the session to the server.
LEMMA StepCrash ==
  ASSUME IInv, NEW p \in Pools, Crash(p) PROVE IInv'
BY SyncAssumption DEF IInv, Typing, OwnerIsWorking, StatementsArePinned, OrphansHoldTheLock,
   SeenIsCurrent, FirstAlterIsCurrent, ExpandOnlyPlansAdd, Crash

\* An abandoned ALTER runs while its session still has the lock.
LEMMA StepOrphanRuns ==
  ASSUME IInv, NEW clauses \in orphans, OrphanRuns(clauses) PROVE IInv'
BY SyncAssumption, AlteredIsTable DEF IInv, Typing, OwnerIsWorking, StatementsArePinned,
   OrphansHoldTheLock, SeenIsCurrent, FirstAlterIsCurrent, ExpandOnlyPlansAdd, OrphanRuns,
   session, process

\* The session ends when nothing runs in it.
LEMMA StepSessionEnds ==
  ASSUME IInv, SessionEnds PROVE IInv'
BY SyncAssumption DEF IInv, Typing, OwnerIsWorking, StatementsArePinned, OrphansHoldTheLock,
   SeenIsCurrent, FirstAlterIsCurrent, ExpandOnlyPlansAdd, SessionEnds, process

\* Every step.
LEMMA StepIInv == IInv /\ [Next]_vars => IInv'
<1>1. CASE UNCHANGED vars
  BY <1>1 DEF vars, session, process, IInv, Typing, OwnerIsWorking, StatementsArePinned,
     OrphansHoldTheLock, SeenIsCurrent, FirstAlterIsCurrent, ExpandOnlyPlansAdd
<1>2. ASSUME IInv, NEW c \in Callers, Start(c) \/ Borrow(c) \/ Locking(c) \/ LockFails(c)
      PROVE  IInv'
  BY <1>2, StepStart, StepBorrow, StepGetsLock, StepLockTimesOut, StepLockUnsupported,
     StepLockFails DEF Locking
<1>3. ASSUME IInv, NEW c \in Callers, Syncing(c)
      PROVE  IInv'
  BY <1>3, StepCheckExists, StepCreateTable, StepReadColumns, StepReadKeys, StepAlter,
     StepAlterRefused, StepSessionLost DEF Syncing
<1>4. ASSUME IInv, NEW c \in Callers, Releasing(c) \/ SessionKilled(c) \/ AlterAbandoned(c)
      PROVE  IInv'
  BY <1>4, StepRelease, StepReleaseFails, StepSessionKilled, StepAlterAbandoned
     DEF Releasing
<1> QED
  BY <1>1, <1>2, <1>3, <1>4, StepCrash, StepOrphanRuns, StepSessionEnds DEF Next

\* The invariant holds for any number of callers, pools, versions and faults.
THEOREM Invariance == Spec => []IInv
BY InitIInv, StepIInv, PTL DEF Spec

-----------------------------------------------------------------------------
\* However a synchronisation ends, no idle session of a pool is left with the advisory
\* lock (acquireSyncLock, releaseSyncLock).
THEOREM NoLockStaysBehind == Spec => []IdleSessionsHoldNoLock
<1>1. IInv => IdleSessionsHoldNoLock
  BY SyncAssumption DEF IInv, Typing, IdleSessionsHoldNoLock
<1> QED
  BY <1>1, Invariance, PTL

\* Whoever owns the lock and is about to send its first ALTER would plan the same ALTERs
\* from the table as it is now (syncTableSchema between GET_LOCK and RELEASE_LOCK).
THEOREM FirstAltersAreCurrent == Spec => []FirstAlterIsCurrent
<1>1. IInv => FirstAlterIsCurrent
  BY DEF IInv
<1> QED
  BY <1>1, Invariance, PTL

\* A set of additions MySQL executes leaves every column that was there as it was.
LEMMA AdditionsKeepColumns ==
  ASSUME NEW t, NEW clauses, OnlyAdds(clauses), Executes(t, clauses), NEW n \in DOMAIN t.cols
  PROVE  n \in DOMAIN Altered(t, clauses).cols /\ Altered(t, clauses).cols[n] = t.cols[n]
<1>1. Replaced(clauses) = {}
  BY DEF OnlyAdds, Replaced
<1> QED
  BY <1>1 DEF Altered

\* A synchronisation under ExpandOnly changes no column that was there, whatever other
\* callers do meanwhile and with or without a lock (checkExpandOnly).
THEOREM ExpandOnlyKeepsColumns == Spec => ExpandOnlyOnlyAdds
<1>1. ASSUME IInv, NEW c \in Callers, Alter(c), version[c].expandOnly,
             NEW n \in DOMAIN table.cols
      PROVE  n \in DOMAIN table'.cols /\ table'.cols[n] = table.cols[n]
  <2>1. OnlyAdds(Ddl(c))
    BY <1>1 DEF IInv, ExpandOnlyPlansAdd, Alter, SendsDdl, Ddl
  <2>2. Executes(table, Ddl(c)) /\ table' = Altered(table, Ddl(c))
    BY <1>1 DEF Alter
  <2> QED
    BY <2>1, <2>2, AdditionsKeepColumns
<1>2. IInv => [\A c \in Callers :
                 Alter(c) /\ version[c].expandOnly
                   => \A n \in DOMAIN table.cols :
                        n \in DOMAIN table'.cols /\ table'.cols[n] = table.cols[n]]_vars
  BY <1>1
<1> QED
  BY <1>2, Invariance, PTL DEF ExpandOnlyOnlyAdds

-----------------------------------------------------------------------------
(***************************************************************************)
(* Connections.  A pool's connections are counted by the set of callers    *)
(* that hold one, which is finite: it is empty at first and grows by one   *)
(* caller at a time.                                                       *)
(***************************************************************************)
Holders(p) == {c \in Callers : PoolOf[c] = p /\ pinned[c]}

Balanced ==
  \A p \in Pools : IsFiniteSet(Holders(p)) /\ free[p] + Cardinality(Holders(p)) = MaxOpenConns

\* What TypeOK says of each caller's place and of the constants in the state.
Places ==
  /\ locks \in Servers
  /\ free \in [Pools -> Nat]
  /\ pc \in [Callers -> Statements \cup {"idle", "borrow", "lock", "release"}]
  /\ version \in [Callers -> Versions]
  /\ result \in [Callers -> {"none", "ok", "error"}]
  /\ \A c \in Callers : pc[c] = "alter" => plan[c].columns # {}
  /\ \A c \in Callers : pc[c] = "primary" => plan[c].primaryKey # {}
  /\ \A c \in Callers : pinned[c] => pc[c] \notin {"idle", "borrow"}
  /\ faults \in 0..MaxFaults

\* The three things a step does with connections: nothing, lend one, take one back.
Lends(c) ==
  /\ ~pinned[c] /\ free[PoolOf[c]] > 0
  /\ pinned' = [pinned EXCEPT ![c] = TRUE]
  /\ free' = [free EXCEPT ![PoolOf[c]] = @ - 1]

TakesBack(c) ==
  /\ pinned[c]
  /\ pinned' = [pinned EXCEPT ![c] = FALSE]
  /\ free' = [free EXCEPT ![PoolOf[c]] = @ + 1]

\* A connection lent is one free connection less, and one holder more,
LEMMA LendKeepsBalance ==
  ASSUME Balanced, Places, pinned \in [Callers -> BOOLEAN], NEW c \in Callers, Lends(c)
  PROVE  Balanced' /\ free' \in [Pools -> Nat]
<1>0. PoolOf[c] \in Pools
  BY SyncAssumption
<1>1. \A p \in Pools : Holders(p)' = IF p = PoolOf[c] THEN Holders(p) \cup {c} ELSE Holders(p)
  BY DEF Lends, Holders
<1>2. c \notin Holders(PoolOf[c])
  BY DEF Lends, Holders
<1>3. \A p \in Pools : free'[p] = IF p = PoolOf[c] THEN free[p] - 1 ELSE free[p]
  BY DEF Lends, Places
<1>4. free' \in [Pools -> Nat]
  BY <1>0 DEF Lends, Places
<1>5. ASSUME NEW p \in Pools
      PROVE  IsFiniteSet(Holders(p))' /\ (free[p] + Cardinality(Holders(p)) = MaxOpenConns)'
  <2>1. IsFiniteSet(Holders(p)) /\ free[p] + Cardinality(Holders(p)) = MaxOpenConns
    BY DEF Balanced
  <2>2. CASE p = PoolOf[c]
    <3>1. /\ IsFiniteSet(Holders(p) \cup {c})
          /\ Cardinality(Holders(p) \cup {c}) = Cardinality(Holders(p)) + 1
      BY <1>2, <2>1, <2>2, FS_AddElement
    <3>2. Cardinality(Holders(p)) \in Nat
      BY <2>1, FS_CardinalityType
    <3>3. free[p] \in Nat /\ MaxOpenConns \in Nat
      BY SyncAssumption DEF Places
    <3>4. Holders(p)' = Holders(p) \cup {c} /\ free'[p] = free[p] - 1
      BY <1>1, <1>3, <2>2
    <3> HIDE DEF Holders
    <3> QED
      BY <2>1, <3>1, <3>2, <3>3, <3>4
  <2>3. CASE p # PoolOf[c]
    BY <1>1, <1>3, <2>1, <2>3
  <2> QED
    BY <2>2, <2>3
<1> QED
  BY <1>4, <1>5 DEF Balanced

\* and the other way round when it comes back.
LEMMA TakingBackKeepsBalance ==
  ASSUME Balanced, Places, pinned \in [Callers -> BOOLEAN], NEW c \in Callers, TakesBack(c)
  PROVE  Balanced' /\ free' \in [Pools -> Nat]
<1>0. PoolOf[c] \in Pools
  BY SyncAssumption
<1>1. \A p \in Pools : Holders(p)' = IF p = PoolOf[c] THEN Holders(p) \ {c} ELSE Holders(p)
  BY DEF TakesBack, Holders
<1>2. c \in Holders(PoolOf[c])
  BY DEF TakesBack, Holders
<1>3. \A p \in Pools : free'[p] = IF p = PoolOf[c] THEN free[p] + 1 ELSE free[p]
  BY DEF TakesBack, Places
<1>4. free' \in [Pools -> Nat]
  BY <1>0 DEF TakesBack, Places
<1>5. ASSUME NEW p \in Pools
      PROVE  IsFiniteSet(Holders(p))' /\ (free[p] + Cardinality(Holders(p)) = MaxOpenConns)'
  <2>1. IsFiniteSet(Holders(p)) /\ free[p] + Cardinality(Holders(p)) = MaxOpenConns
    BY DEF Balanced
  <2>2. CASE p = PoolOf[c]
    <3>1. /\ IsFiniteSet(Holders(p) \ {c})
          /\ Cardinality(Holders(p) \ {c}) = Cardinality(Holders(p)) - 1
      BY <1>2, <2>1, <2>2, FS_RemoveElement
    <3>2. Cardinality(Holders(p)) \in Nat
      BY <2>1, FS_CardinalityType
    <3>3. free[p] \in Nat /\ MaxOpenConns \in Nat
      BY SyncAssumption DEF Places
    <3>4. Holders(p)' = Holders(p) \ {c} /\ free'[p] = free[p] + 1
      BY <1>1, <1>3, <2>2
    <3> HIDE DEF Holders
    <3> QED
      BY <2>1, <3>1, <3>2, <3>3, <3>4
  <2>3. CASE p # PoolOf[c]
    BY <1>1, <1>3, <2>1, <2>3
  <2> QED
    BY <2>2, <2>3
<1> QED
  BY <1>4, <1>5 DEF Balanced

\* A process that dies gives all its connections back.
LEMMA CrashKeepsBalance ==
  ASSUME Balanced, Places, pinned \in [Callers -> BOOLEAN], NEW p \in Pools, Crash(p)
  PROVE  Balanced' /\ free' \in [Pools -> Nat]
<1>1. \A q \in Pools : Holders(q)' = IF q = p THEN {} ELSE Holders(q)
  BY DEF Crash, Holders
<1>2. \A q \in Pools : free'[q] = IF q = p THEN MaxOpenConns ELSE free[q]
  BY DEF Crash, Places
<1>3. free' \in [Pools -> Nat]
  BY SyncAssumption DEF Crash, Places
<1>4. IsFiniteSet({}) /\ MaxOpenConns + Cardinality({}) = MaxOpenConns
  BY FS_EmptySet, SyncAssumption
<1>5. ASSUME NEW q \in Pools
      PROVE  IsFiniteSet(Holders(q))' /\ (free[q] + Cardinality(Holders(q)) = MaxOpenConns)'
  <2>1. CASE q = p
    BY <1>1, <1>2, <1>4, <2>1
  <2>2. CASE q # p
    BY <1>1, <1>2, <2>2 DEF Balanced
  <2> QED
    BY <2>1, <2>2
<1> QED
  BY <1>3, <1>5 DEF Balanced

\* What a step does with connections, from the place of its caller.
LEMMA StepsLendOrTakeBack ==
  ASSUME IInv, Places, Next
  PROVE  \/ UNCHANGED <<free, pinned>>
         \/ \E c \in Callers : Lends(c) \/ TakesBack(c)
         \/ \E p \in Pools : Crash(p)
<1>1. ASSUME NEW c \in Callers, Start(c) \/ Syncing(c) \/ SessionKilled(c) \/ AlterAbandoned(c)
      PROVE  UNCHANGED <<free, pinned>>
  BY <1>1 DEF Start, Syncing, CheckExists, CreateTable, ReadColumns, ReadKeys, Alter,
     AlterRefused, SessionLost, SessionKilled, AlterAbandoned, session
<1>2. ASSUME NEW c \in Callers, Borrow(c)
      PROVE  Lends(c)
  BY <1>2 DEF IInv, Typing, Places, Borrow, Lends
<1>3. ASSUME NEW c \in Callers, Locking(c) \/ LockFails(c) \/ Releasing(c)
      PROVE  TakesBack(c) \/ UNCHANGED <<free, pinned>>
  BY <1>3 DEF IInv, StatementsArePinned, Locking, GetsLock, LockTimesOut, LockUnsupported,
     LockFails, Releasing, Release, ReleaseFails, CloseConn, DiscardConn, TakesBack
<1>4. ASSUME (\E clauses \in orphans : OrphanRuns(clauses)) \/ SessionEnds
      PROVE  UNCHANGED <<free, pinned>>
  BY <1>4 DEF OrphanRuns, SessionEnds, session
<1> QED
  BY <1>1, <1>2, <1>3, <1>4 DEF Next

\* Every step keeps the pools' balance,
LEMMA NextBalanced ==
  ASSUME IInv, Places, Balanced, [Next]_vars
  PROVE  Balanced' /\ free' \in [Pools -> Nat]
<1>0. pinned \in [Callers -> BOOLEAN]
  BY DEF IInv, Typing
<1>1. CASE UNCHANGED <<free, pinned>>
  BY <1>1 DEF Balanced, Holders, Places
<1> QED
  BY <1>0, <1>1, StepsLendOrTakeBack, LendKeepsBalance, TakingBackKeepsBalance,
     CrashKeepsBalance DEF vars, session

\* Every caller's place: who sends an ALTER has one to send.
LEMMA NextPlaces ==
  ASSUME IInv, Places, [Next]_vars, free' \in [Pools -> Nat]
  PROVE  Places'
<1>0. faults \in Nat /\ MaxFaults \in Nat /\ AVersion \in Versions
  BY SyncAssumption DEF Places, AVersion
<1> USE <1>0 DEF Places, IInv, Typing, StatementsArePinned
<1>1. CASE UNCHANGED vars
  BY <1>1 DEF vars, session, process
<1>2. ASSUME NEW c \in Callers, Start(c)
      PROVE  Places'
  BY <1>2 DEF Start, session
<1>3. ASSUME NEW c \in Callers, Borrow(c)
      PROVE  Places'
  BY <1>3 DEF Borrow, Goto
<1>4. ASSUME NEW c \in Callers, GetsLock(c) \/ LockUnsupported(c)
      PROVE  Places'
  BY <1>4 DEF GetsLock, LockUnsupported, Goto, CloseConn
<1>5. ASSUME NEW c \in Callers, LockTimesOut(c) \/ LockFails(c)
      PROVE  Places'
  BY <1>5 DEF LockTimesOut, LockFails, Return, CloseConn
<1>6. ASSUME NEW c \in Callers, CheckExists(c) \/ CreateTable(c)
      PROVE  Places'
  BY <1>6 DEF CheckExists, CreateTable, Goto, session
<1>7. ASSUME NEW c \in Callers, ReadColumns(c)
      PROVE  Places'
  BY <1>7 DEF ReadColumns, session
<1>8. ASSUME NEW c \in Callers, ReadKeys(c)
      PROVE  Places'
  <2> DEFINE made == PlanOf(c, [cols |-> seen[c], pk |-> table.pk, indexes |-> table.indexes])
  <2>1. CASE Finish(c, "error") \/ Finish(c, "ok")
    BY <1>8, <2>1 DEF ReadKeys, Finish, Return, session
  <2>2. CASE /\ ~(made.columns = {} /\ made.primaryKey = {})
             /\ plan' = [plan EXCEPT ![c] = made]
             /\ pc' = [pc EXCEPT ![c] = IF made.columns # {} THEN "alter" ELSE "primary"]
             /\ UNCHANGED <<version, result>>
    <3> HIDE DEF made
    <3> QED
      BY <1>8, <2>2 DEF ReadKeys, session
  <2> QED
    BY <1>8, <2>1, <2>2 DEF ReadKeys
<1>9. ASSUME NEW c \in Callers, Alter(c)
      PROVE  Places'
  <2>1. CASE Finish(c, "ok")
    BY <1>9, <2>1 DEF Alter, SendsDdl, Finish, Return, session
  <2>2. CASE ~Finish(c, "ok")
    BY <1>9, <2>2 DEF Alter, SendsDdl, session
  <2> QED
    BY <2>1, <2>2
<1>10. ASSUME NEW c \in Callers, AlterRefused(c) \/ SessionLost(c) \/ AlterAbandoned(c)
       PROVE  Places'
  <2>1. /\ Finish(c, "error")
        /\ UNCHANGED <<locks, free, pinned>>
        /\ faults' = faults \/ (faults < MaxFaults /\ faults' = faults + 1)
    BY <1>10 DEF AlterRefused, SessionLost, AlterAbandoned, session
  <2>2. pc[c] \in Statements
    BY <1>10 DEF AlterRefused, SessionLost, AlterAbandoned, SendsDdl
  <2> QED
    BY <2>1, <2>2 DEF Finish, Return
<1>11. ASSUME NEW c \in Callers, Releasing(c)
       PROVE  Places'
  BY <1>11 DEF Releasing, Release, ReleaseFails, DiscardConn, Return
<1>12. ASSUME (\E c \in Callers : SessionKilled(c)) \/ SessionEnds
       PROVE  Places'
  BY <1>12 DEF SessionKilled, SessionEnds, process
<1>13. ASSUME NEW p \in Pools, Crash(p)
       PROVE  Places'
  <2>1. /\ UNCHANGED locks /\ faults' \in 0..MaxFaults
        /\ pc' \in [Callers -> Statements \cup {"idle", "borrow", "lock", "release"}]
        /\ version' \in [Callers -> Versions]
        /\ result' \in [Callers -> {"none", "ok", "error"}]
    BY <1>13 DEF Crash
  <2>2. ASSUME NEW c \in Callers, PoolOf[c] = p
        PROVE  pc'[c] = "idle" /\ ~pinned'[c]
    BY <1>13, <2>2 DEF Crash
  <2>3. ASSUME NEW c \in Callers, PoolOf[c] # p
        PROVE  pc'[c] = pc[c] /\ plan'[c] = plan[c] /\ pinned'[c] = pinned[c]
    BY <1>13, <2>3 DEF Crash
  <2> QED
    BY <2>1, <2>2, <2>3
<1>14. ASSUME NEW clauses \in orphans, OrphanRuns(clauses)
       PROVE  Places'
  BY <1>14 DEF OrphanRuns, session, process
<1> QED
  BY <1>1, <1>2, <1>3, <1>4, <1>5, <1>6, <1>7, <1>8, <1>9, <1>10, <1>11, <1>12, <1>13, <1>14
     DEF Next, Locking, Syncing

\* which holds at first.
LEMMA InitBalanced == Init => Places /\ Balanced
<1> SUFFICES ASSUME Init PROVE Places /\ Balanced
  OBVIOUS
<1>1. AVersion \in Versions
  BY SyncAssumption DEF AVersion
<1>2. Places
  BY <1>1, SyncAssumption DEF Init, Places
<1>3. \A p \in Pools : Holders(p) = {}
  BY DEF Init, Holders
<1>4. \A p \in Pools : free[p] = MaxOpenConns
  BY DEF Init
<1>5. IsFiniteSet({}) /\ MaxOpenConns + Cardinality({}) = MaxOpenConns
  BY FS_EmptySet, SyncAssumption
<1>6. Balanced
  BY <1>3, <1>4, <1>5 DEF Balanced
<1> QED
  BY <1>2, <1>6

\* Every reachable state is well typed: no connection of a pool is lost or lent twice,
\* however synchronisations, sessions and processes end.
THEOREM TypeCorrect == Spec => []TypeOK
<1>1. Places /\ Balanced /\ IInv => TypeOK
  <2> SUFFICES ASSUME Places, Balanced, IInv PROVE TypeOK
    OBVIOUS
  <2>1. \A p \in Pools : free[p] + Cardinality({c \in Callers : PoolOf[c] = p /\ pinned[c]})
                           = MaxOpenConns
    BY DEF Balanced, Holders
  <2>2. ASSUME NEW p \in Pools
        PROVE  free[p] \in 0..MaxOpenConns
    <3>1. Cardinality(Holders(p)) \in Nat /\ free[p] + Cardinality(Holders(p)) = MaxOpenConns
      BY FS_CardinalityType DEF Balanced
    <3> QED
      BY <3>1, SyncAssumption DEF Places
  <2> QED
    BY <2>1, <2>2 DEF TypeOK, Places, IInv, Typing
<1> QED
  BY <1>1, InitBalanced, NextBalanced, NextPlaces, Invariance, PTL DEF Spec

-----------------------------------------------------------------------------
(***************************************************************************)
(* The plan of a version, field by field (ColumnClauses).  That there is   *)
(* a plan for any number of fields, and what holds of it, is shown by the  *)
(* least number of fields for which it would fail.                         *)
(***************************************************************************)
\* Every set of numbers has a least one.
LEMMA LeastNumber ==
  ASSUME NEW T \in SUBSET Nat, T # {}
  PROVE  \E x \in T : \A y \in T : x <= y
<1> DEFINE R == OpToRel(<, Nat)
<1>1. IsWellFoundedOn(R, Nat)
  BY NatLessThanWellFounded
<1>2. R = {ss \in Nat \X Nat : ss[1] < ss[2]}
  BY DEF OpToRel
<1> HIDE DEF R
<1>3. \E x \in T : \A y \in T : ~(<<y, x>> \in R)
  BY <1>1, WFMin
<1>4. \A x, y \in Nat : ~(<<y, x>> \in R) => x <= y
  <2> TAKE x, y \in Nat
  <2>1. <<y, x>> \in R <=> y < x
    BY <1>2, SMT
  <2> QED
    BY <2>1
<1> QED
  BY <1>3, <1>4

\* The plan before the first field, and the plans after each of the first n fields.
NoFields(cols) ==
  [left |-> DOMAIN cols, clauses |-> {}, refused |-> NumberIsAmbiguous(cols)]

PlansUpTo(v, cols, n, g) ==
  g = [i \in 0..n |-> IF i = 0 THEN NoFields(cols) ELSE PlanField(cols, g[i - 1], v.fields[i])]

\* There are plans for any number of fields.
LEMMA PlansExist ==
  ASSUME NEW v, NEW cols, NEW n \in Nat
  PROVE  \E g : PlansUpTo(v, cols, n, g)
<1> DEFINE T == {m \in Nat : ~\E g : PlansUpTo(v, cols, m, g)}
<1> SUFFICES ASSUME T # {} PROVE FALSE
  OBVIOUS
<1>1. PICK m \in T : \A k \in T : m <= k
  BY LeastNumber
<1>2. CASE m = 0
  <2>1. PlansUpTo(v, cols, m, [i \in 0..0 |-> NoFields(cols)])
    BY <1>2 DEF PlansUpTo
  <2> QED
    BY <2>1, <1>1
<1>3. CASE m # 0
  <2>1. m - 1 \in Nat /\ ~(m <= m - 1)
    BY <1>1, <1>3
  <2>2. PICK g : PlansUpTo(v, cols, m - 1, g)
    BY <1>1, <2>1
  <2> DEFINE step(p, i) == PlanField(cols, p, v.fields[i])
             h == [i \in 0..m |-> IF i = m THEN step(g[m - 1], m) ELSE g[i]]
  <2>3. g = [i \in 0..(m - 1) |-> IF i = 0 THEN NoFields(cols) ELSE step(g[i - 1], i)]
    BY <2>2 DEF PlansUpTo
  <2> HIDE DEF step
  <2>4. \A i \in 0..m : h[i] = IF i = 0 THEN NoFields(cols) ELSE step(h[i - 1], i)
    <3> TAKE i \in 0..m
    <3>1. CASE i = m
      BY <1>1, <1>3, <3>1
    <3>2. CASE i # m
      <4>1. i \in 0..(m - 1) /\ (i # 0 => i - 1 \in 0..m /\ i - 1 # m)
        BY <1>1, <3>2
      <4>2. g[i] = IF i = 0 THEN NoFields(cols) ELSE step(g[i - 1], i)
        BY <2>3, <4>1
      <4> QED
        BY <3>2, <4>1, <4>2
    <3> QED
      BY <3>1, <3>2
  <2>5. h = [i \in 0..m |-> IF i = 0 THEN NoFields(cols) ELSE step(h[i - 1], i)]
    BY <2>4
  <2>6. PlansUpTo(v, cols, m, h)
    BY <2>5 DEF PlansUpTo, step
  <2> QED
    BY <1>1, <2>6
<1> QED
  BY <1>2, <1>3

\* ColumnClauses is the last of them.
LEMMA PlansAreUnfolded ==
  ASSUME NEW v, NEW cols, Len(v.fields) \in Nat
  PROVE  \E g : /\ PlansUpTo(v, cols, Len(v.fields), g)
                /\ ColumnClauses(v, cols) = g[Len(v.fields)]
<1> DEFINE n == Len(v.fields)
<1>1. \E g : PlansUpTo(v, cols, n, g)
  BY PlansExist
<1> DEFINE planned == CHOOSE g : PlansUpTo(v, cols, n, g)
<1>2. ColumnClauses(v, cols) = planned[n]
  BY DEF ColumnClauses, PlansUpTo, NoFields
<1> QED
  BY <1>1, <1>2

\* What is known of the plan after some fields: a clause changes a column no other clause
\* changes and no later field can take; unless the plan is refused, the type it writes holds
\* what the column holds.
Planned(v, cols, p) ==
  /\ p = [left |-> p.left, clauses |-> p.clauses, refused |-> p.refused]
  /\ p.left \subseteq DOMAIN cols
  /\ p.refused \in BOOLEAN
  /\ \A x \in p.clauses :
       \/ x.op = "add column" /\ x.type \in DeclaredTypes
       \/ /\ x.op = "change column" /\ x.type \in DeclaredTypes
          /\ x.old \in DOMAIN cols \ p.left
          /\ ~p.refused => IsTypeMatch(x.type, cols[x.old].type)
  /\ \A x, y \in p.clauses :
       x.op = "change column" /\ y.op = "change column" /\ x.old = y.old => x = y

HasTypes(cols) == \A n \in DOMAIN cols : cols[n].type \in DeclaredTypes

\* One more field adds at most one clause, and takes the column it changes.
LEMMA PlanFieldKeeps ==
  ASSUME NEW v, NEW cols, HasTypes(cols), NEW p, Planned(v, cols, p),
         NEW f, f.type \in DeclaredTypes
  PROVE  Planned(v, cols, PlanField(cols, p, f))
<1> DEFINE found == Candidates(cols, p.left, f)
           old == CHOOSE n \in found : TRUE
<1>1. found \subseteq p.left
  BY DEF Candidates
<1>2. CASE found = {}
  <2>1. PlanField(cols, p, f) = [p EXCEPT !.clauses = @ \cup {AddColumn(f)}]
    BY <1>2 DEF PlanField
  <2>2. AddColumn(f).op = "add column" /\ AddColumn(f).type = f.type
    BY DEF AddColumn
  <2> QED
    BY <2>1, <2>2 DEF Planned
<1>3. CASE found # {} /\ InPlace(cols, old, f)
  <2>1. PlanField(cols, p, f) = [p EXCEPT !.left = @ \ {old}]
    BY <1>3 DEF PlanField
  <2> QED
    BY <2>1 DEF Planned
<1>4. CASE found # {} /\ ~InPlace(cols, old, f)
  <2> DEFINE x == ChangeColumn(old, cols[old], f)
             q == PlanField(cols, p, f)
  <2>1. q = [left |-> p.left \ {old}, clauses |-> p.clauses \cup {x},
             refused |-> p.refused \/ Inconvertible(cols[old], f)]
    BY <1>4 DEF PlanField
  <2>2. old \in p.left /\ old \in DOMAIN cols
    BY <1>1, <1>4 DEF Planned
  <2>3. /\ x.op = "change column" /\ x.old = old
        /\ x.type = AlignedColumnType(cols[old].type, f.type)
    BY DEF ChangeColumn
  <2>4. x.type \in DeclaredTypes
    BY <2>2, <2>3 DEF AlignedColumnType, HasTypes
  <2>5. ~q.refused => ~p.refused /\ IsTypeMatch(x.type, cols[old].type)
    <3>1. cols[old].type \in Types /\ f.type \in Types
      BY <2>2, SyncAssumption DEF HasTypes
    <3>2. ~q.refused => ~p.refused /\ IsRenameConvertible(cols[old].type, f.type)
      <4>1. q.refused = (p.refused \/ Inconvertible(cols[old], f))
        BY <2>1
      <4> QED
        BY <4>1 DEF Inconvertible
    <3> QED
      BY <2>3, <3>1, <3>2, AlignedNeverNarrows
  <2>11. q.refused \in BOOLEAN
    BY <2>1 DEF Inconvertible
  <2> HIDE DEF x, q
  <2>6. /\ q = [left |-> q.left, clauses |-> q.clauses, refused |-> q.refused]
        /\ q.left = p.left \ {old} /\ q.clauses = p.clauses \cup {x}
    BY <2>1
  <2>7. \A y \in p.clauses : y.op = "change column" => y.old # old
    BY <2>2 DEF Planned
  <2>8. q.left \subseteq DOMAIN cols
    BY <2>6 DEF Planned
  <2>9. \A y \in q.clauses :
           \/ y.op = "add column" /\ y.type \in DeclaredTypes
           \/ /\ y.op = "change column" /\ y.type \in DeclaredTypes
              /\ y.old \in DOMAIN cols \ q.left
              /\ ~q.refused => IsTypeMatch(y.type, cols[y.old].type)
    BY <2>2, <2>3, <2>4, <2>5, <2>6 DEF Planned
  <2>10. \A y, z \in q.clauses :
           y.op = "change column" /\ z.op = "change column" /\ y.old = z.old => y = z
    BY <2>3, <2>6, <2>7 DEF Planned
  <2>12. Planned(v, cols, q)
    BY <2>6, <2>8, <2>9, <2>10, <2>11 DEF Planned
  <2> QED
    BY <2>12 DEF q
<1> QED
  BY <1>2, <1>3, <1>4

\* The fields of a version have declared types.
LEMMA FieldsHaveTypes ==
  ASSUME NEW v \in Versions, NEW i \in DOMAIN v.fields
  PROVE  v.fields[i].type \in DeclaredTypes
<1>1. v.fields[i] \in ToSet(v.fields)
  BY DEF ToSet
<1>2. v.fields[i].type \in TypesOfFields(v)
  BY <1>1 DEF TypesOfFields
<1>3. TypesOfFields(v) \in {TypesOfFields(u) : u \in Versions}
  OBVIOUS
<1>4. v.fields[i].type \in UNION {TypesOfFields(u) : u \in Versions}
  BY <1>2, <1>3
<1> QED
  BY <1>4 DEF DeclaredTypes

\* What is known of a plan after every field is known of the whole.
LEMMA ColumnClausesArePlanned ==
  ASSUME NEW v \in Versions, NEW cols, HasTypes(cols)
  PROVE  Planned(v, cols, ColumnClauses(v, cols))
<1> DEFINE n == Len(v.fields)
<1>1. /\ n \in Nat /\ DOMAIN v.fields = 1..n
      /\ \A i \in 1..n : v.fields[i].type \in DeclaredTypes
  <2>1. n \in Nat /\ DOMAIN v.fields = 1..n
    BY SyncAssumption DEF IsVersion
  <2> QED
    BY <2>1, FieldsHaveTypes
<1>2. PICK g : PlansUpTo(v, cols, n, g) /\ ColumnClauses(v, cols) = g[n]
  BY <1>1, PlansAreUnfolded
<1> HIDE DEF n
<1>3. \A i \in 0..n : g[i] = IF i = 0 THEN NoFields(cols)
                                      ELSE PlanField(cols, g[i - 1], v.fields[i])
  BY <1>2 DEF PlansUpTo
<1> DEFINE T == {i \in 0..n : ~Planned(v, cols, g[i])}
<1> SUFFICES ASSUME T # {} PROVE FALSE
  BY <1>1, <1>2
<1>4. PICK m \in T : \A k \in T : m <= k
  <2>1. T \in SUBSET Nat
    BY <1>1
  <2> HIDE DEF T
  <2> QED
    BY <2>1, LeastNumber
<1>5. CASE m = 0
  <2>1. Planned(v, cols, NoFields(cols))
    BY DEF Planned, NoFields, NumberIsAmbiguous
  <2> QED
    BY <1>3, <1>4, <1>5, <2>1
<1>6. CASE m # 0
  <2>1. m - 1 \in 0..n /\ m \in 1..n /\ ~(m <= m - 1)
    BY <1>1, <1>4, <1>6
  <2>2. Planned(v, cols, g[m - 1])
    BY <1>4, <2>1
  <2>3. Planned(v, cols, PlanField(cols, g[m - 1], v.fields[m]))
    BY <1>1, <2>1, <2>2, PlanFieldKeeps
  <2> QED
    BY <1>3, <1>4, <1>6, <2>3
<1> QED
  BY <1>5, <1>6

\* A set of clauses that takes no column away and writes no type that holds less than the
\* column it replaces.
Fits(t, clauses) ==
  \A x \in clauses :
    /\ x \in OfColumns(clauses) => x.type \in DeclaredTypes
    /\ x.op = "change column" =>
         x.old \in DOMAIN t.cols /\ IsTypeMatch(x.type, t.cols[x.old].type)

Apart(first, second) == Replaced(first) \cap Replaced(second) = {}

\* What planSchemaAlignment plans fits the table it was planned from, and its second ALTER
\* changes no column the first one changes.
LEMMA PlanFits ==
  ASSUME NEW v \in Versions, NEW t, HasTypes(t.cols), NEW e, ~Plan(v, t, e).refused
  PROVE  /\ Fits(t, Plan(v, t, e).columns)
         /\ Fits(t, Plan(v, t, e).primaryKey)
         /\ Apart(Plan(v, t, e).columns, Plan(v, t, e).primaryKey)
<1> DEFINE align == ColumnClauses(v, t.cols)
           first == Plan(v, t, e).columns
           second == Plan(v, t, e).primaryKey
           waiting == {c \in align.clauses : WaitsForKey(v, t, c)}
           additions == {x \in first \cup second : x.op \in {"add index", "add primary key"}}
<1>1. Planned(v, t.cols, align)
  BY ColumnClausesArePlanned
<1>2. ~align.refused
  BY DEF Plan
<1>3. /\ first \subseteq (align.clauses \ waiting) \cup additions
      /\ second \subseteq waiting \cup additions
  <2> DEFINE missing == {AddIndex(i, v.indexes[i]) : i \in DOMAIN v.indexes \ DOMAIN t.indexes}
             late == {x \in missing : \E c \in waiting : c.name \in ToSet(x.index.cols)}
  <2>1. /\ first = (align.clauses \ waiting) \cup (missing \ late)
        /\ second = IF NeedsPrimaryKey(v, t)
                      THEN waiting \cup {AddPrimaryKey(v.pk)} \cup late ELSE {}
    BY DEF Plan
  <2>2. \A x \in missing : x.op = "add index"
    <3>1. \A i \in DOMAIN v.indexes \ DOMAIN t.indexes :
            AddIndex(i, v.indexes[i]).op = "add index"
      BY DEF AddIndex
    <3> QED
      BY <3>1
  <2>3. AddPrimaryKey(v.pk).op = "add primary key"
    BY DEF AddPrimaryKey
  <2> HIDE DEF missing, align, waiting, first, second
  <2> QED
    BY <2>1, <2>2, <2>3
<1> HIDE DEF align, first, second, waiting
<1>4. \A x \in align.clauses :
        /\ x.type \in DeclaredTypes
        /\ x.op = "change column" =>
             x.old \in DOMAIN t.cols /\ IsTypeMatch(x.type, t.cols[x.old].type)
  BY <1>1, <1>2 DEF Planned
<1>5. \A x \in additions : x.op \notin {"add column", "change column"}
  OBVIOUS
<1> HIDE DEF additions
<1>6. waiting \subseteq align.clauses
  BY DEF waiting
<1>7. Fits(t, first)
  BY <1>3, <1>4, <1>5 DEF Fits, OfColumns
<1>8. Fits(t, second)
  BY <1>3, <1>4, <1>5, <1>6 DEF Fits, OfColumns
<1>9. ASSUME NEW x \in first, NEW y \in second, x.op = "change column",
             y.op = "change column", x.old = y.old
      PROVE  FALSE
  <2>1. x \in align.clauses \ waiting /\ y \in waiting
    BY <1>3, <1>5, <1>9
  <2>2. x = y
    BY <1>1, <1>6, <1>9, <2>1 DEF Planned
  <2> QED
    BY <2>1, <2>2
<1>10. Apart(first, second)
  BY <1>9 DEF Apart, Replaced
<1> QED
  BY <1>7, <1>8, <1>10 DEF first, second

-----------------------------------------------------------------------------
(***************************************************************************)
(* Nothing is narrowed.  Every ALTER that can still run under the lock     *)
(* fits the table as it is: that of the lock's owner, and that of a client *)
(* that has gone, of which there is one at most.                           *)
(***************************************************************************)
\* Every column is still there, for the same field, and holds what it held in the code's
\* order of types.
Widens(t, after) ==
  \A n \in DOMAIN t.cols : \E m \in DOMAIN after.cols :
    /\ after.cols[m].born = t.cols[n].born
    /\ IsTypeMatch(after.cols[m].type, t.cols[n].type)

\* A declared type holds itself.
LEMMA DeclaredMatchThemselves ==
  \A type \in DeclaredTypes : IsTypeMatch(type, type)
BY SyncAssumption DEF IsTypeMatch, Types

\* The clause of a column that an ALTER adds or changes.
LEMMA ClauseIsFound ==
  ASSUME NEW clauses, NEW x \in OfColumns(clauses)
  PROVE  LET found == CHOOSE c \in OfColumns(clauses) : c.name = x.name
         IN found \in OfColumns(clauses) /\ found.name = x.name
OBVIOUS

\* An ALTER that fits and that MySQL executes.
LEMMA AlterWidens ==
  ASSUME NEW t, HasTypes(t.cols), NEW clauses, Fits(t, clauses), Executes(t, clauses)
  PROVE  HasTypes(Altered(t, clauses).cols) /\ Widens(t, Altered(t, clauses))
<1> DEFINE after == Altered(t, clauses)
           kept == DOMAIN t.cols \ Replaced(clauses)
           changed == OfColumns(clauses)
           clauseOf(n) == CHOOSE c \in changed : c.name = n
<1>1. DOMAIN after.cols = kept \cup {c.name : c \in changed}
  BY DEF Altered
<1>2. \A n \in kept : after.cols[n] = t.cols[n]
  BY DEF Altered
<1>3. \A n \in {c.name : c \in changed} \ kept :
        /\ after.cols[n].type = clauseOf(n).type
        /\ clauseOf(n).op = "change column" =>
             after.cols[n].born = t.cols[clauseOf(n).old].born
  BY DEF Altered
<1>4. \A x \in changed : x.name \notin kept /\ \A y \in changed : x # y => x.name # y.name
  BY DEF Executes
<1>5. \A x \in changed : clauseOf(x.name) = x
  <2> TAKE x \in changed
  <2>1. clauseOf(x.name) \in changed /\ clauseOf(x.name).name = x.name
    BY ClauseIsFound
  <2> QED
    BY <1>4, <2>1
<1>6. \A x \in changed : x.type \in DeclaredTypes
  BY DEF Fits, OfColumns
<1>7. \A x \in clauses : x.op = "change column" => x \in changed
  BY DEF OfColumns
<1>8. \A n \in Replaced(clauses) : \E x \in clauses : x.op = "change column" /\ x.old = n
  BY DEF Replaced
<1> HIDE DEF after, changed, clauseOf
<1>9. HasTypes(after.cols)
  <2> SUFFICES ASSUME NEW n \in DOMAIN after.cols PROVE after.cols[n].type \in DeclaredTypes
    BY DEF HasTypes
  <2>1. CASE n \in kept
    BY <1>2, <2>1 DEF HasTypes
  <2>2. CASE n \notin kept
    <3>1. PICK x \in changed : x.name = n
      BY <1>1, <2>2
    <3> QED
      BY <1>3, <1>5, <1>6, <2>2, <3>1
  <2> QED
    BY <2>1, <2>2
<1>10. ASSUME NEW n \in DOMAIN t.cols
       PROVE  \E m \in DOMAIN after.cols :
                /\ after.cols[m].born = t.cols[n].born
                /\ IsTypeMatch(after.cols[m].type, t.cols[n].type)
  <2>1. CASE n \in kept
    BY <1>1, <1>2, <2>1, DeclaredMatchThemselves DEF HasTypes
  <2>2. CASE n \in Replaced(clauses)
    <3>1. PICK x \in clauses : x.op = "change column" /\ x.old = n
      BY <1>8, <2>2
    <3>2. x \in changed /\ x.name \in DOMAIN after.cols /\ x.name \notin kept
      BY <1>1, <1>4, <1>7, <3>1
    <3>3. after.cols[x.name].type = x.type /\ after.cols[x.name].born = t.cols[n].born
      BY <1>3, <1>5, <3>1, <3>2
    <3>4. IsTypeMatch(x.type, t.cols[n].type)
      BY <3>1 DEF Fits
    <3> QED
      BY <3>2, <3>3, <3>4
  <2> QED
    BY <2>1, <2>2
<1> QED
  BY <1>9, <1>10 DEF after, Widens

\* The first of two ALTERs that are apart leaves the second one's columns as they are.
LEMMA AlterKeepsFit ==
  ASSUME NEW t, NEW first, NEW second, Fits(t, second), Apart(first, second)
  PROVE  Fits(Altered(t, first), second)
<1>1. \A n \in DOMAIN t.cols \ Replaced(first) :
        n \in DOMAIN Altered(t, first).cols /\ Altered(t, first).cols[n] = t.cols[n]
  BY DEF Altered
<1>2. \A x \in second : x.op = "change column" => x.old \notin Replaced(first)
  BY DEF Apart, Replaced
<1> QED
  BY <1>1, <1>2 DEF Fits

\* CREATE TABLE.
LEMMA CreatedHasTypes ==
  ASSUME NEW v \in Versions, NEW t, HasTypes(t.cols)
  PROVE  HasTypes(Created(v, t).cols) /\ Widens(t, Created(v, t))
<1>1. CASE Exists(t)
  BY <1>1, DeclaredMatchThemselves DEF Created, Widens, HasTypes
<1>2. CASE ~Exists(t)
  <2> DEFINE clauses == {AddColumn(v.fields[i]) : i \in DOMAIN v.fields}
             after == Altered(NoTable, clauses)
  <2>1. Created(v, t).cols = after.cols
    BY <1>2 DEF Created
  <2>2. DOMAIN t.cols = {}
    BY <1>2 DEF Exists
  <2>3. \A x \in clauses : x.op = "add column" /\ x.type \in DeclaredTypes
    <3>1. \A i \in DOMAIN v.fields : v.fields[i].type \in DeclaredTypes
      BY FieldsHaveTypes
    <3>2. \A i \in DOMAIN v.fields :
            /\ AddColumn(v.fields[i]).op = "add column"
            /\ AddColumn(v.fields[i]).type = v.fields[i].type
      BY DEF AddColumn
    <3> QED
      BY <3>1, <3>2
  <2> HIDE DEF clauses
  <2>4. OfColumns(clauses) = clauses
    BY <2>3 DEF OfColumns
  <2>5. DOMAIN NoTable.cols = {}
    BY DEF NoTable
  <2>6. /\ DOMAIN after.cols = {c.name : c \in clauses}
        /\ \A n \in DOMAIN after.cols :
             after.cols[n].type = (CHOOSE c \in clauses : c.name = n).type
    BY <2>4, <2>5 DEF Altered
  <2>7. \A n \in DOMAIN after.cols : (CHOOSE c \in clauses : c.name = n) \in clauses
    BY <2>6
  <2> HIDE DEF after
  <2>8. \A n \in DOMAIN after.cols : after.cols[n].type \in DeclaredTypes
    BY <2>3, <2>6, <2>7
  <2> QED
    BY <2>1, <2>2, <2>8 DEF HasTypes, Widens
<1> QED
  BY <1>1, <1>2

\* The ALTERs that can still run under the lock.
PendingFit ==
  locks =>
    /\ HasTypes(table.cols)
    /\ \A c \in Callers : lock = c /\ pc[c] = "alter" =>
         /\ Fits(table, plan[c].columns) /\ Fits(table, plan[c].primaryKey)
         /\ Apart(plan[c].columns, plan[c].primaryKey)
    /\ \A c \in Callers : lock = c /\ pc[c] = "primary" => Fits(table, plan[c].primaryKey)
    /\ \A clauses \in orphans : Fits(table, clauses)
    /\ \A a, b \in orphans : a = b

\* At first no ALTER is under way.
LEMMA InitPendingFit == Init => PendingFit
<1> SUFFICES ASSUME Init PROVE PendingFit
  OBVIOUS
<1>1. \A n \in DOMAIN table.cols : table.cols[n].type \in TypesOfColumns(table)
  BY DEF TypesOfColumns
<1>2. TypesOfColumns(table) \in {TypesOfColumns(t) : t \in InitialTables}
  BY DEF Init
<1>3. HasTypes(table.cols)
  BY <1>1, <1>2 DEF HasTypes, DeclaredTypes
<1> QED
  BY <1>3, SyncAssumption DEF Init, PendingFit

\* A step that leaves the table and the ALTERs that wait for it alone, or drops some.
LEMMA QuietStepFits ==
  ASSUME PendingFit, locks, UNCHANGED <<table, locks>>, orphans' \subseteq orphans,
         \A c \in Callers : lock' = c /\ pc'[c] \in {"alter", "primary"}
                              => lock = c /\ pc'[c] = pc[c] /\ plan'[c] = plan[c]
  PROVE  PendingFit' /\ Widens(table, table')
<1>1. Widens(table, table)
  BY DeclaredMatchThemselves DEF Widens, HasTypes, PendingFit
<1> QED
  BY <1>1 DEF PendingFit

\* A caller that returns sends no ALTER.
LEMMA ReturnFits ==
  ASSUME IInv, PendingFit, locks, NEW c \in Callers, Return(c),
         UNCHANGED <<table, locks, orphans>>, lock' \notin Callers \/ lock' = lock
  PROVE  PendingFit' /\ Widens(table, table')
<1>1. /\ pc' = [pc EXCEPT ![c] = "idle"]
      /\ plan' = [plan EXCEPT ![c] = NoPlan]
  BY DEF Return
<1>2. \A d \in Callers : pc'[d] \in {"alter", "primary"} => pc'[d] = pc[d] /\ plan'[d] = plan[d]
  BY <1>1 DEF IInv, Typing
<1>3. \A d \in Callers : lock' = d => lock = d
  OBVIOUS
<1> QED
  BY <1>2, <1>3, QuietStepFits

\* Nor does one whose last statement is over.
LEMMA FinishFits ==
  ASSUME IInv, PendingFit, locks, NEW c \in Callers, NEW answer, Finish(c, answer),
         UNCHANGED <<table, locks, lock, orphans>>
  PROVE  PendingFit' /\ Widens(table, table')
<1>1. CASE Return(c)
  BY <1>1, ReturnFits
<1>2. CASE /\ pc' = [pc EXCEPT ![c] = "release"]
           /\ plan' = [plan EXCEPT ![c] = NoPlan]
  <2>1. \A d \in Callers :
          pc'[d] \in {"alter", "primary"} => pc'[d] = pc[d] /\ plan'[d] = plan[d]
    BY <1>2 DEF IInv, Typing
  <2> QED
    BY <2>1, QuietStepFits
<1> QED
  BY <1>1, <1>2 DEF Finish

\* Only the owner of the lock sends a statement.
LEMMA SenderOwnsTheLock ==
  ASSUME IInv, locks, NEW c \in Callers, pc[c] \in Statements, Meta(c)
  PROVE  lock = c /\ orphans = {}
BY SyncAssumption DEF IInv, StatementsArePinned, OrphansHoldTheLock, Meta

\* Every step keeps that ALTERs under the lock fit the table.
LEMMA StepPendingFit ==
  ASSUME IInv, Places, PendingFit, locks, [Next]_vars
  PROVE  PendingFit' /\ Widens(table, table')
<1> USE DEF IInv, Typing
<1>1. CASE UNCHANGED vars
  BY <1>1, QuietStepFits DEF vars, session, process
<1>2. ASSUME NEW c \in Callers, Start(c) \/ Borrow(c) \/ Locking(c) \/ LockFails(c)
      PROVE  PendingFit' /\ Widens(table, table')
  <2>1. CASE Start(c)
    BY <2>1, QuietStepFits, SyncAssumption DEF Start, session
  <2>2. CASE Borrow(c) \/ GetsLock(c) \/ LockUnsupported(c)
    BY <2>2, QuietStepFits, SyncAssumption DEF Borrow, GetsLock, LockUnsupported, Goto, CloseConn
  <2>3. CASE LockTimesOut(c)
    <3>1. \A d \in Callers : lock' = d => lock = d
      BY <2>3, SyncAssumption DEF LockTimesOut, CloseConn
    <3>2. pc' = [pc EXCEPT ![c] = "idle"] /\ plan' = [plan EXCEPT ![c] = NoPlan]
      BY <2>3 DEF LockTimesOut, Return
    <3> QED
      BY <2>3, <3>1, <3>2, QuietStepFits DEF LockTimesOut
  <2>4. CASE LockFails(c)
    BY <2>4, QuietStepFits, SyncAssumption DEF LockFails, Return
  <2> QED
    BY <1>2, <2>1, <2>2, <2>3, <2>4 DEF Locking
<1>3. ASSUME NEW c \in Callers, CheckExists(c) \/ ReadColumns(c)
      PROVE  PendingFit' /\ Widens(table, table')
  BY <1>3, QuietStepFits DEF CheckExists, ReadColumns, Goto, session
<1>4. ASSUME NEW c \in Callers, CreateTable(c)
      PROVE  PendingFit' /\ Widens(table, table')
  <2>1. lock = c /\ orphans = {}
    BY <1>4, SenderOwnsTheLock DEF CreateTable
  <2>2. version[c] \in Versions
    BY DEF Places
  <2>3. HasTypes(table'.cols) /\ Widens(table, table')
    BY <1>4, <2>2, CreatedHasTypes DEF CreateTable, PendingFit
  <2> QED
    BY <1>4, <2>1, <2>3 DEF CreateTable, Goto, session, PendingFit
<1>5. ASSUME NEW c \in Callers, ReadKeys(c)
      PROVE  PendingFit' /\ Widens(table, table')
  <2> DEFINE made == PlanOf(c, [cols |-> seen[c], pk |-> table.pk, indexes |-> table.indexes])
  <2>1. lock = c /\ orphans = {}
    BY <1>5, SenderOwnsTheLock DEF ReadKeys
  <2>2. CASE Finish(c, "error") \/ Finish(c, "ok")
    BY <1>5, <2>2, QuietStepFits DEF ReadKeys, Finish, Return, session
  <2>3. CASE /\ ~made.refused
             /\ plan' = [plan EXCEPT ![c] = made]
             /\ pc' = [pc EXCEPT ![c] = IF made.columns # {} THEN "alter" ELSE "primary"]
    <3>1. made = Plan(version[c], table, version[c].expandOnly)
      BY <1>5, <2>1 DEF ReadKeys, SeenIsCurrent, IsTable
    <3>2. /\ Fits(table, made.columns) /\ Fits(table, made.primaryKey)
          /\ Apart(made.columns, made.primaryKey)
      BY <2>3, <3>1, PlanFits DEF PendingFit, Places
    <3>3. Widens(table, table)
      BY DeclaredMatchThemselves DEF Widens, HasTypes, PendingFit
    <3>4. UNCHANGED <<table, locks, lock, orphans>>
      BY <1>5 DEF ReadKeys, session
    <3> HIDE DEF made
    <3> QED
      BY <2>1, <2>3, <3>2, <3>3, <3>4 DEF PendingFit
  <2> QED
    BY <1>5, <2>2, <2>3 DEF ReadKeys
<1>6. ASSUME NEW c \in Callers, Alter(c)
      PROVE  PendingFit' /\ Widens(table, table')
  <2>1. lock = c /\ orphans = {} /\ pc[c] \in {"alter", "primary"}
    BY <1>6, SenderOwnsTheLock DEF Alter, SendsDdl
  <2>2. Fits(table, Ddl(c)) /\ Executes(table, Ddl(c)) /\ table' = Altered(table, Ddl(c))
    BY <1>6, <2>1 DEF Alter, PendingFit, Ddl
  <2>3. HasTypes(table'.cols) /\ Widens(table, table')
    BY <2>2, AlterWidens DEF PendingFit
  <2>4. UNCHANGED <<locks, lock, orphans>>
    BY <1>6 DEF Alter, session
  <2>5. CASE Finish(c, "ok")
    BY <2>1, <2>3, <2>4, <2>5 DEF PendingFit, Finish, Return
  <2>6. CASE /\ pc[c] = "alter"
             /\ pc' = [pc EXCEPT ![c] = "primary"]
             /\ plan' = [plan EXCEPT ![c] = [refused |-> FALSE, columns |-> {},
                                             primaryKey |-> plan[c].primaryKey]]
    <3>1. Fits(table', plan[c].primaryKey)
      BY <2>1, <2>2, <2>6, AlterKeepsFit DEF PendingFit, Ddl
    <3> QED
      BY <2>1, <2>3, <2>4, <2>6, <3>1 DEF PendingFit
  <2> QED
    BY <1>6, <2>5, <2>6 DEF Alter
<1>7. ASSUME NEW c \in Callers, AlterRefused(c) \/ SessionLost(c) \/ Releasing(c)
      PROVE  PendingFit' /\ Widens(table, table')
  <2>1. CASE AlterRefused(c)
    <3>1. Finish(c, "error") /\ UNCHANGED <<table, locks, lock, orphans>>
      BY <2>1 DEF AlterRefused, session
    <3> QED
      BY <3>1, FinishFits
  <2>2. CASE SessionLost(c)
    <3>1. Finish(c, "error") /\ UNCHANGED <<table, locks, lock, orphans>>
      BY <2>2 DEF SessionLost, session
    <3> QED
      BY <3>1, FinishFits
  <2>3. CASE Releasing(c)
    <3>1. lock' \notin Callers \/ lock' = lock
      BY <2>3, SyncAssumption DEF Releasing, Release, ReleaseFails, DiscardConn
    <3>2. Return(c) /\ UNCHANGED <<table, locks, orphans>>
      BY <2>3 DEF Releasing, Release, ReleaseFails
    <3> QED
      BY <3>1, <3>2, ReturnFits
  <2> QED
    BY <1>7, <2>1, <2>2, <2>3
<1>8. ASSUME NEW c \in Callers, SessionKilled(c)
      PROVE  PendingFit' /\ Widens(table, table')
  BY <1>8, QuietStepFits, SyncAssumption DEF SessionKilled, process
<1>9. ASSUME NEW c \in Callers, AlterAbandoned(c)
      PROVE  PendingFit' /\ Widens(table, table')
  <2>1. lock = c /\ orphans = {} /\ pc[c] \in {"alter", "primary"}
    BY <1>9, SenderOwnsTheLock DEF AlterAbandoned, SendsDdl
  <2>2. Fits(table, Ddl(c))
    BY <2>1 DEF PendingFit, Ddl
  <2>3. lock' = Dead /\ orphans' = {Ddl(c)} /\ UNCHANGED <<table, locks>>
    BY <1>9, <2>1 DEF AlterAbandoned
  <2>4. Widens(table, table)
    BY DeclaredMatchThemselves DEF Widens, HasTypes, PendingFit
  <2> QED
    BY <2>2, <2>3, <2>4, SyncAssumption DEF PendingFit
<1>10. ASSUME NEW p \in Pools, Crash(p)
       PROVE  PendingFit' /\ Widens(table, table')
  BY <1>10, QuietStepFits, SyncAssumption DEF Crash
<1>11. ASSUME NEW clauses \in orphans, OrphanRuns(clauses)
       PROVE  PendingFit' /\ Widens(table, table')
  <2>1. lock = Dead /\ orphans' = {} /\ UNCHANGED <<locks, lock>>
    BY <1>11 DEF OrphanRuns, OrphansHoldTheLock, PendingFit, session
  <2>2. HasTypes(table'.cols) /\ Widens(table, table')
    <3>1. CASE table' = table
      BY <3>1, DeclaredMatchThemselves DEF Widens, HasTypes, PendingFit
    <3>2. CASE Executes(table, clauses) /\ table' = Altered(table, clauses)
      BY <3>2, AlterWidens DEF PendingFit
    <3> QED
      BY <1>11, <3>1, <3>2 DEF OrphanRuns
  <2> QED
    BY <2>1, <2>2, SyncAssumption DEF PendingFit
<1>12. ASSUME SessionEnds
       PROVE  PendingFit' /\ Widens(table, table')
  BY <1>12, QuietStepFits, SyncAssumption DEF SessionEnds, process
<1> QED
  BY <1>1, <1>2, <1>3, <1>4, <1>5, <1>6, <1>7, <1>8, <1>9, <1>10, <1>11, <1>12
     DEF Next, Syncing

\* A server does not learn or forget GET_LOCK.
LEMMA ServersStay == [Next]_vars => UNCHANGED locks
BY DEF Next, vars, Start, Borrow, Locking, GetsLock, LockTimesOut, LockUnsupported, LockFails,
   Syncing, CheckExists, CreateTable, ReadColumns, ReadKeys, Alter, AlterRefused, SessionLost,
   Releasing, Release, ReleaseFails, SessionKilled, AlterAbandoned, Crash, OrphanRuns,
   SessionEnds

\* It holds in every reachable state.
LEMMA PendingInvariance == Spec => [](IInv /\ Places /\ PendingFit)
<1>1. IInv /\ Places /\ Balanced /\ PendingFit /\ [Next]_vars
        => Places' /\ Balanced' /\ PendingFit'
  <2> SUFFICES ASSUME IInv, Places, Balanced, PendingFit, [Next]_vars
               PROVE  Places' /\ Balanced' /\ PendingFit'
    OBVIOUS
  <2>1. Places' /\ Balanced'
    BY NextBalanced, NextPlaces
  <2>2. CASE locks
    BY <2>1, <2>2, StepPendingFit
  <2>3. CASE ~locks
    <3>1. ~locks'
      BY <2>3, ServersStay
    <3> QED
      BY <2>1, <3>1 DEF PendingFit
  <2> QED
    BY <2>2, <2>3
<1> QED
  BY <1>1, InitBalanced, InitPendingFit, Invariance, PTL DEF Spec

\* Whatever versions synchronise in whatever order, and however callers end: under the lock
\* no column is dropped, none changes the field it was added for, and in the order in which
\* the code compares types (isTypeMatch) none gets a type that holds less.
THEOREM AltersOnlyWiden == Spec => [][locks => Widens(table, table')]_vars
<1>1. IInv /\ Places /\ PendingFit /\ [Next]_vars => [locks => Widens(table, table')]_vars
  BY StepPendingFit
<1> QED
  BY <1>1, PendingInvariance, PTL DEF Spec

\* The same for what columns really hold, where the code's order of types is right about
\* the types declared (as it is about those the library declares; not about TINYTEXT beside
\* VARCHAR, nor about the CHAR key of an old table, which is refused).
THEOREM NothingIsNarrowed ==
  ASSUME \A a, b \in DeclaredTypes : IsTypeMatch(a, b) => HoldsAllOf(a, b)
  PROVE  Spec => NeverNarrows
<1>1. ASSUME IInv, Places, PendingFit, PendingFit', [Next]_vars, locks,
             NEW n \in DOMAIN table.cols
      PROVE  \E m \in DOMAIN table'.cols :
               /\ table'.cols[m].born = table.cols[n].born
               /\ HoldsAllOf(table'.cols[m].type, table.cols[n].type)
  <2>1. Widens(table, table')
    BY <1>1, StepPendingFit
  <2>2. HasTypes(table.cols) /\ HasTypes(table'.cols)
    BY <1>1, ServersStay DEF PendingFit
  <2>3. PICK m \in DOMAIN table'.cols :
          /\ table'.cols[m].born = table.cols[n].born
          /\ IsTypeMatch(table'.cols[m].type, table.cols[n].type)
    BY <2>1, <1>1 DEF Widens
  <2> QED
    BY <1>1, <2>2, <2>3 DEF HasTypes
<1>2. IInv /\ Places /\ PendingFit /\ PendingFit' /\ [Next]_vars
        => [locks => \A n \in DOMAIN table.cols :
              \E m \in DOMAIN table'.cols :
                /\ table'.cols[m].born = table.cols[n].born
                /\ HoldsAllOf(table'.cols[m].type, table.cols[n].type)]_vars
  BY <1>1
<1> QED
  BY <1>2, PendingInvariance, PTL DEF Spec, NeverNarrows

-----------------------------------------------------------------------------
(***************************************************************************)
(* Plans where no name is used for two fields.  A field then has one       *)
(* column at most, the one that was added for it, under whatever name;     *)
(* what is planned for the field depends on that column alone, and         *)
(* not on what the fields before it have taken.                            *)
(***************************************************************************)
Own(cols, f) == {n \in DOMAIN cols : cols[n].born.num = f.num}
OwnColumn(cols, f) == CHOOSE n \in Own(cols, f) : TRUE

IsAligned(cols, f) == Own(cols, f) # {} /\ InPlace(cols, OwnColumn(cols, f), f)

ClauseFor(cols, f) ==
  IF Own(cols, f) = {} THEN AddColumn(f)
    ELSE ChangeColumn(OwnColumn(cols, f), cols[OwnColumn(cols, f)], f)

IsRefused(cols, f) ==
  /\ Own(cols, f) # {} /\ ~InPlace(cols, OwnColumn(cols, f), f)
  /\ Inconvertible(cols[OwnColumn(cols, f)], f)

FieldClauses(v, cols) ==
  {ClauseFor(cols, f) : f \in {g \in ToSet(v.fields) : ~IsAligned(cols, g)}}

\* The fields of a version are numbered, and differ in name and number.
LEMMA FieldsOfVersions ==
  ASSUME NEW v \in Versions
  PROVE  /\ Len(v.fields) \in Nat \ {0} /\ DOMAIN v.fields = 1..Len(v.fields)
         /\ \A i \in DOMAIN v.fields : v.fields[i] \in ToSet(v.fields)
         /\ \A f \in ToSet(v.fields) : \E i \in DOMAIN v.fields : v.fields[i] = f
         /\ \A f \in ToSet(v.fields) : f.num \in Nat \ {0} /\ f.type \in DeclaredTypes
         /\ \A f, g \in ToSet(v.fields) : f.name = g.name \/ f.num = g.num => f = g
<1>1. IsVersion(v)
  BY SyncAssumption
<1>2. v.fields \in Seq(ToSet(v.fields)) /\ v.fields # <<>>
  BY <1>1 DEF IsVersion
<1>3. Len(v.fields) \in Nat \ {0} /\ DOMAIN v.fields = 1..Len(v.fields)
  BY <1>2
<1>4. /\ \A i \in DOMAIN v.fields : v.fields[i] \in ToSet(v.fields)
      /\ \A f \in ToSet(v.fields) : \E i \in DOMAIN v.fields : v.fields[i] = f
  BY DEF ToSet
<1>5. \A f \in ToSet(v.fields) : f.num \in Nat \ {0} /\ f.type \in DeclaredTypes
  BY <1>1, <1>4, FieldsHaveTypes DEF IsVersion
<1>6. \A i, j \in DOMAIN v.fields : i # j =>
        v.fields[i].name # v.fields[j].name /\ v.fields[i].num # v.fields[j].num
  BY <1>1 DEF IsVersion
<1> QED
  BY <1>3, <1>4, <1>5, <1>6

\* The column of a field, if it has one.
LEMMA OwnIsUnique ==
  ASSUME NEW cols, OneColumnPerField(cols), NEW f, NEW n \in Own(cols, f)
  PROVE  /\ Own(cols, f) = {n} /\ OwnColumn(cols, f) = n
         /\ n \in DOMAIN cols /\ cols[n].born.num = f.num
<1>1. Own(cols, f) = {n}
  BY DEF OneColumnPerField, Own
<1> QED
  BY <1>1 DEF Own, OwnColumn

\* By name or by number, what a field can take over is its own column.
LEMMA CandidatesAreOwn ==
  ASSUME NEW cols, OneColumnPerField(cols), NEW left \in SUBSET DOMAIN cols,
         NEW v \in Versions, NEW f \in ToSet(v.fields)
  PROVE  Candidates(cols, left, f) = Own(cols, f) \cap left
<1>1. f.num # 0
  BY FieldsOfVersions
<1>2. \A n \in DOMAIN cols : /\ cols[n].num \in {0, cols[n].born.num}
                             /\ f.name = n => f.num = cols[n].born.num
                             /\ cols[n].num = 0 /\ f.num = cols[n].born.num => f.name = n
  BY DEF OneColumnPerField
<1>3. CASE f.name \in left
  <2>1. f.name \in Own(cols, f)
    BY <1>2, <1>3 DEF Own
  <2>2. Own(cols, f) = {f.name}
    BY <2>1, OwnIsUnique
  <2> QED
    BY <1>3, <2>2 DEF Candidates
<1>4. CASE f.name \notin left
  BY <1>1, <1>2, <1>4 DEF Candidates, Own
<1> QED
  BY <1>3, <1>4

\* What one field adds to the plan.
LEMMA PlanFieldByField ==
  ASSUME NEW cols, OneColumnPerField(cols), NEW v \in Versions, NEW f \in ToSet(v.fields),
         NEW p, p = [left |-> p.left, clauses |-> p.clauses, refused |-> p.refused],
         p.left \in SUBSET DOMAIN cols, Own(cols, f) \subseteq p.left, p.refused \in BOOLEAN
  PROVE  PlanField(cols, p, f) =
           [left |-> p.left \ Own(cols, f),
            clauses |-> p.clauses \cup (IF IsAligned(cols, f) THEN {} ELSE {ClauseFor(cols, f)}),
            refused |-> p.refused \/ IsRefused(cols, f)]
<1> DEFINE found == Candidates(cols, p.left, f)
           old == CHOOSE n \in found : TRUE
<1>1. found = Own(cols, f)
  <2>1. found = Own(cols, f) \cap p.left
    BY CandidatesAreOwn
  <2> QED
    BY <2>1
<1>2. old = OwnColumn(cols, f)
  BY <1>1 DEF OwnColumn
<1>3. CASE found = {}
  <2>1. PlanField(cols, p, f) = [p EXCEPT !.clauses = @ \cup {AddColumn(f)}]
    BY <1>3 DEF PlanField
  <2>2. /\ Own(cols, f) = {} /\ ~IsAligned(cols, f) /\ ~IsRefused(cols, f)
        /\ ClauseFor(cols, f) = AddColumn(f)
    BY <1>1, <1>3 DEF IsAligned, IsRefused, ClauseFor
  <2> QED
    BY <2>1, <2>2
<1>4. CASE found # {} /\ InPlace(cols, old, f)
  <2>1. PlanField(cols, p, f) = [p EXCEPT !.left = @ \ {old}]
    BY <1>4 DEF PlanField
  <2>2. Own(cols, f) = {old}
    BY <1>1, <1>2, <1>4, OwnIsUnique
  <2>3. IsAligned(cols, f) /\ ~IsRefused(cols, f)
    BY <1>1, <1>2, <1>4 DEF IsAligned, IsRefused
  <2> QED
    BY <2>1, <2>2, <2>3
<1>5. CASE found # {} /\ ~InPlace(cols, old, f)
  <2>1. PlanField(cols, p, f) =
          [left |-> p.left \ {old},
           clauses |-> p.clauses \cup {ChangeColumn(old, cols[old], f)},
           refused |-> p.refused \/ Inconvertible(cols[old], f)]
    BY <1>5 DEF PlanField
  <2>2. Own(cols, f) = {old}
    BY <1>1, <1>2, <1>5, OwnIsUnique
  <2>3. /\ ~IsAligned(cols, f) /\ ClauseFor(cols, f) = ChangeColumn(old, cols[old], f)
        /\ IsRefused(cols, f) = Inconvertible(cols[old], f)
    BY <1>1, <1>2, <1>5 DEF IsAligned, IsRefused, ClauseFor, Inconvertible
  <2> HIDE DEF old
  <2> QED
    BY <2>1, <2>2, <2>3
<1> QED
  BY <1>3, <1>4, <1>5

\* The plan after some fields, and so the whole plan, field by field.
LEMMA ColumnClausesByField ==
  ASSUME NEW v \in Versions, NEW cols, OneColumnPerField(cols)
  PROVE  /\ ColumnClauses(v, cols).clauses = FieldClauses(v, cols)
         /\ ColumnClauses(v, cols).refused <=> \E f \in ToSet(v.fields) : IsRefused(cols, f)
<1> DEFINE n == Len(v.fields)
           field(i) == v.fields[i]
           left(i) == {m \in DOMAIN cols : \A j \in 1..i : cols[m].born.num # field(j).num}
           clauses(i) == {ClauseFor(cols, field(j)) :
                            j \in {k \in 1..i : ~IsAligned(cols, field(k))}}
           refused(i) == \E j \in 1..i : IsRefused(cols, field(j))
           after(i) == [left |-> left(i), clauses |-> clauses(i), refused |-> refused(i)]
<1>1. /\ n \in Nat /\ DOMAIN v.fields = 1..n
      /\ \A i \in 1..n : field(i) \in ToSet(v.fields)
      /\ \A f \in ToSet(v.fields) : \E i \in 1..n : field(i) = f
      /\ \A i, j \in 1..n : i # j => field(i).num # field(j).num
  <2>1. \A i, j \in DOMAIN v.fields : i # j => v.fields[i].num # v.fields[j].num
    BY SyncAssumption DEF IsVersion
  <2>2. n \in Nat /\ DOMAIN v.fields = 1..n
    BY FieldsOfVersions
  <2>3. /\ \A i \in DOMAIN v.fields : v.fields[i] \in ToSet(v.fields)
        /\ \A f \in ToSet(v.fields) : \E i \in DOMAIN v.fields : v.fields[i] = f
    BY FieldsOfVersions
  <2> HIDE DEF n
  <2> QED
    BY <2>1, <2>2, <2>3
<1>2. PICK g : PlansUpTo(v, cols, n, g) /\ ColumnClauses(v, cols) = g[n]
  BY <1>1, PlansAreUnfolded
<1> HIDE DEF n
<1>3. \A i \in 0..n : g[i] = IF i = 0 THEN NoFields(cols)
                                      ELSE PlanField(cols, g[i - 1], field(i))
  BY <1>2 DEF PlansUpTo
<1>4. g[0] = after(0)
  <2>1. ~NumberIsAmbiguous(cols)
    BY DEF NumberIsAmbiguous, OneColumnPerField
  <2>2. left(0) = DOMAIN cols /\ clauses(0) = {} /\ refused(0) = FALSE
    OBVIOUS
  <2>3. g[0] = NoFields(cols)
    BY <1>1, <1>3
  <2>4. NoFields(cols) = [left |-> DOMAIN cols, clauses |-> {}, refused |-> FALSE]
    BY <2>1 DEF NoFields, NumberIsAmbiguous
  <2> QED
    BY <2>2, <2>3, <2>4
<1>5. ASSUME NEW i \in 1..n, g[i - 1] = after(i - 1)
      PROVE  g[i] = after(i)
  <2> DEFINE p == g[i - 1]
             f == field(i)
  <2>1. i \in Nat /\ i - 1 \in Nat /\ 1..i = (1..(i - 1)) \cup {i} /\ i \notin 1..(i - 1)
    BY <1>1
  <2>2. f \in ToSet(v.fields) /\ \A j \in 1..(i - 1) : field(j).num # f.num
    <3>1. \A j \in 1..(i - 1) : j \in 1..n /\ j # i
      BY <1>1
    <3> HIDE DEF field
    <3> QED
      BY <1>1, <3>1
  <2>3. /\ p = [left |-> p.left, clauses |-> p.clauses, refused |-> p.refused]
        /\ p.left = left(i - 1) /\ p.clauses = clauses(i - 1) /\ p.refused = refused(i - 1)
    <3> HIDE DEF left, clauses, refused
    <3> QED
      BY <1>5
  <2>4. Own(cols, f) \subseteq p.left /\ p.left \in SUBSET DOMAIN cols
    BY <2>2, <2>3 DEF Own
  <2>5. p.refused \in BOOLEAN
    BY <2>3
  <2>6. g[i] = PlanField(cols, p, f)
    <3>1. i \in 0..n /\ i # 0
      BY <1>1
    <3> QED
      BY <1>3, <3>1
  <2>7. left(i) = left(i - 1) \ Own(cols, f)
    BY <2>1 DEF Own
  <2>8. clauses(i) = clauses(i - 1)
                       \cup (IF IsAligned(cols, f) THEN {} ELSE {ClauseFor(cols, f)})
    BY <2>1
  <2>9. refused(i) = (refused(i - 1) \/ IsRefused(cols, f))
    BY <2>1
  <2> HIDE DEF p, f, left, clauses, refused
  <2>10. PlanField(cols, p, f) =
           [left |-> p.left \ Own(cols, f),
            clauses |-> p.clauses \cup (IF IsAligned(cols, f) THEN {} ELSE {ClauseFor(cols, f)}),
            refused |-> p.refused \/ IsRefused(cols, f)]
    BY <2>2, <2>3, <2>4, <2>5, PlanFieldByField
  <2> QED
    BY <2>3, <2>6, <2>7, <2>8, <2>9, <2>10
<1> HIDE DEF after
<1> DEFINE T == {i \in 0..n : g[i] # after(i)}
<1>6. T = {}
  <2> SUFFICES ASSUME T # {} PROVE FALSE
    OBVIOUS
  <2>1. PICK m \in T : \A k \in T : m <= k
    <3>1. T \in SUBSET Nat
      BY <1>1
    <3> HIDE DEF T
    <3> QED
      BY <3>1, LeastNumber
  <2>2. m # 0
    BY <1>4, <2>1
  <2>3. m \in 0..n /\ g[m] # after(m)
    BY <2>1
  <2>4. m \in 1..n /\ m - 1 \in 0..n /\ ~(m <= m - 1)
    BY <1>1, <2>2, <2>3
  <2>5. g[m - 1] = after(m - 1)
    BY <2>1, <2>4
  <2> HIDE DEF T
  <2>6. g[m] = after(m)
    BY <1>5, <2>4, <2>5
  <2> QED
    BY <2>3, <2>6
<1>7. ColumnClauses(v, cols) = after(n)
  BY <1>1, <1>2, <1>6
<1>8. clauses(n) = FieldClauses(v, cols)
  BY <1>1 DEF FieldClauses
<1>9. refused(n) <=> \E f \in ToSet(v.fields) : IsRefused(cols, f)
  BY <1>1
<1> HIDE DEF clauses, refused, left
<1> QED
  BY <1>7, <1>8, <1>9 DEF after

-----------------------------------------------------------------------------
(***************************************************************************)
(* What an ALTER with some of the planned column clauses does: the columns *)
(* of the fields that are done are as their fields want them, the others   *)
(* are left alone.                                                         *)
(***************************************************************************)
\* The fields whose clause is among those of an ALTER.
Done(v, cols, clauses) ==
  {f \in ToSet(v.fields) : ~IsAligned(cols, f) /\ ClauseFor(cols, f) \in clauses}

\* The column a clause leaves.
Written(cols, f) ==
  IF Own(cols, f) = {}
    THEN [type |-> f.type, attrs |-> f.attrs, num |-> f.num,
          born |-> [num |-> f.num, name |-> f.name]]
    ELSE [type |-> AlignedColumnType(cols[OwnColumn(cols, f)].type, f.type),
          attrs |-> f.attrs, num |-> f.num, born |-> cols[OwnColumn(cols, f)].born]

Untouched(v, cols, clauses) ==
  {n \in DOMAIN cols : \A f \in Done(v, cols, clauses) : n \notin Own(cols, f)}

\* What a field's clause says.
LEMMA ClauseForFields ==
  ASSUME NEW cols, NEW f
  PROVE  LET x == ClauseFor(cols, f)
         IN /\ x.name = f.name /\ x.attrs = f.attrs /\ x.num = f.num
            /\ Own(cols, f) = {} => x.op = "add column" /\ x.type = f.type
            /\ Own(cols, f) # {} =>
                 /\ x.op = "change column" /\ x.old = OwnColumn(cols, f)
                 /\ x.type = AlignedColumnType(cols[OwnColumn(cols, f)].type, f.type)
BY DEF ClauseFor, AddColumn, ChangeColumn

\* The clauses of an ALTER that take a column away, and those that leave one.
LEMMA ClausesOfFields ==
  ASSUME NEW v \in Versions, NEW cols, OneColumnPerField(cols),
         NEW clauses, OfColumns(clauses) \subseteq FieldClauses(v, cols)
  PROVE  /\ OfColumns(clauses) = {ClauseFor(cols, f) : f \in Done(v, cols, clauses)}
         /\ Replaced(clauses) = UNION {Own(cols, f) : f \in Done(v, cols, clauses)}
         /\ DOMAIN cols \ Replaced(clauses) = Untouched(v, cols, clauses)
         /\ \A f \in Done(v, cols, clauses) : f.name \notin Untouched(v, cols, clauses)
<1> DEFINE done == Done(v, cols, clauses)
<1>1. \A f : LET x == ClauseFor(cols, f)
             IN /\ Own(cols, f) = {} => x.op = "add column"
                /\ Own(cols, f) # {} => x.op = "change column" /\ x.old = OwnColumn(cols, f)
  BY ClauseForFields
<1>2. \A f \in done : ClauseFor(cols, f) \in OfColumns(clauses)
  BY <1>1 DEF Done, OfColumns
<1>3. ASSUME NEW x \in OfColumns(clauses)
      PROVE  \E f \in done : x = ClauseFor(cols, f)
  <2>1. PICK f \in {g \in ToSet(v.fields) : ~IsAligned(cols, g)} : x = ClauseFor(cols, f)
    BY DEF FieldClauses
  <2>2. x \in clauses
    BY DEF OfColumns
  <2> QED
    BY <2>1, <2>2 DEF Done
<1>4. OfColumns(clauses) = {ClauseFor(cols, f) : f \in done}
  <2> HIDE DEF done
  <2> QED
    BY <1>2, <1>3
<1>5. \A f \in done : Own(cols, f) # {} => Own(cols, f) = {OwnColumn(cols, f)}
  BY OwnIsUnique
<1>6. ASSUME NEW n \in Replaced(clauses)
      PROVE  \E f \in done : n \in Own(cols, f)
  <2>1. PICK x \in clauses : x.op = "change column" /\ x.old = n
    BY DEF Replaced
  <2>2. PICK f \in done : x = ClauseFor(cols, f)
    BY <1>3, <2>1 DEF OfColumns
  <2>3. Own(cols, f) # {} /\ OwnColumn(cols, f) = n
    BY <1>1, <2>1, <2>2
  <2> HIDE DEF done
  <2> QED
    BY <1>5, <2>2, <2>3
<1>7. ASSUME NEW f \in done, NEW n \in Own(cols, f)
      PROVE  n \in Replaced(clauses)
  <2>1. ClauseFor(cols, f).op = "change column" /\ ClauseFor(cols, f).old = n
    <3>1. Own(cols, f) # {} /\ OwnColumn(cols, f) = n
      BY OwnIsUnique
    <3> QED
      BY <1>1, <3>1
  <2>2. ClauseFor(cols, f) \in clauses
    BY DEF Done
  <2> QED
    BY <2>1, <2>2 DEF Replaced
<1>8. Replaced(clauses) = UNION {Own(cols, f) : f \in done}
  <2> HIDE DEF done
  <2> QED
    BY <1>6, <1>7
<1>9. \A f \in done : f.name \notin Untouched(v, cols, clauses)
  <2> TAKE f \in done
  <2>1. f \in ToSet(v.fields)
    BY DEF Done
  <2>2. f.name \in DOMAIN cols => f.name \in Own(cols, f)
    BY <2>1 DEF OneColumnPerField, Own
  <2> QED
    BY <2>2 DEF Untouched
<1>10. DOMAIN cols \ Replaced(clauses) = Untouched(v, cols, clauses)
  BY <1>6, <1>7 DEF Untouched
<1> QED
  BY <1>4, <1>8, <1>9, <1>10

\* The columns after the ALTER.
LEMMA AlteredColumns ==
  ASSUME NEW v \in Versions, NEW t, OneColumnPerField(t.cols),
         NEW clauses, OfColumns(clauses) \subseteq FieldClauses(v, t.cols)
  PROVE  LET after == Altered(t, clauses).cols
             done == Done(v, t.cols, clauses)
             kept == Untouched(v, t.cols, clauses)
         IN /\ DOMAIN after = kept \cup {f.name : f \in done}
            /\ \A n \in kept : after[n] = t.cols[n]
            /\ \A f \in done : after[f.name] = Written(t.cols, f)
<1> DEFINE cols == t.cols
           after == Altered(t, clauses).cols
           done == Done(v, cols, clauses)
           kept == Untouched(v, cols, clauses)
           changed == OfColumns(clauses)
           clauseOf(n) == CHOOSE c \in changed : c.name = n
           column(c) == [type |-> c.type, attrs |-> c.attrs, num |-> c.num,
                         born |-> IF c.op = "change column" THEN t.cols[c.old].born
                                  ELSE [num |-> c.num, name |-> c.name]]
<1>1. /\ changed = {ClauseFor(cols, f) : f \in done}
      /\ DOMAIN t.cols \ Replaced(clauses) = kept
      /\ \A f \in done : f.name \notin kept
  BY ClausesOfFields
<1>2. after = [n \in kept \cup {c.name : c \in changed} |->
                 IF n \in kept THEN t.cols[n] ELSE column(clauseOf(n))]
  BY <1>1 DEF Altered
<1>3. \A f \in done : ClauseFor(cols, f).name = f.name
  BY ClauseForFields
<1>4. ASSUME NEW f \in done
      PROVE  clauseOf(f.name) = ClauseFor(cols, f)
  <2>1. ClauseFor(cols, f) \in changed /\ ClauseFor(cols, f).name = f.name
    BY <1>1, <1>3
  <2>2. clauseOf(f.name) \in changed /\ clauseOf(f.name).name = f.name
    BY <2>1, ClauseIsFound
  <2>3. PICK g \in done : clauseOf(f.name) = ClauseFor(cols, g)
    BY <1>1, <2>2
  <2>4. g.name = f.name
    BY <1>3, <2>2, <2>3
  <2>5. g \in ToSet(v.fields) /\ f \in ToSet(v.fields)
    BY DEF Done
  <2>6. g = f
    BY <2>4, <2>5, FieldsOfVersions
  <2> QED
    BY <2>3, <2>6
<1>5. ASSUME NEW f \in done
      PROVE  column(ClauseFor(cols, f)) = Written(cols, f)
  <2> DEFINE x == ClauseFor(cols, f)
  <2>1. /\ x.name = f.name /\ x.attrs = f.attrs /\ x.num = f.num
        /\ Own(cols, f) = {} => x.op = "add column" /\ x.type = f.type
        /\ Own(cols, f) # {} =>
             /\ x.op = "change column" /\ x.old = OwnColumn(cols, f)
             /\ x.type = AlignedColumnType(cols[OwnColumn(cols, f)].type, f.type)
    BY ClauseForFields
  <2> HIDE DEF x
  <2> QED
    BY <2>1 DEF Written, x
<1>6. {c.name : c \in changed} = {f.name : f \in done}
  BY <1>1, <1>3
<1> HIDE DEF changed, clauseOf, column, done, kept, after, cols
<1>7. DOMAIN after = kept \cup {f.name : f \in done}
  BY <1>2, <1>6
<1>8. \A n \in kept : after[n] = t.cols[n]
  BY <1>2
<1>9. \A f \in done : after[f.name] = Written(cols, f)
  BY <1>1, <1>2, <1>4, <1>5, <1>6
<1> QED
  BY <1>7, <1>8, <1>9 DEF after, done, kept, cols

\* The ALTER leaves one column at most for every field.
LEMMA OneColumnStays ==
  ASSUME NamesAreKept, NEW v \in Versions, NEW t, OneColumnPerField(t.cols),
         NEW clauses, OfColumns(clauses) \subseteq FieldClauses(v, t.cols)
  PROVE  OneColumnPerField(Altered(t, clauses).cols)
<1> DEFINE cols == t.cols
           after == Altered(t, clauses).cols
           done == Done(v, cols, clauses)
           kept == Untouched(v, cols, clauses)
<1>1. /\ DOMAIN after = kept \cup {f.name : f \in done}
      /\ \A n \in kept : after[n] = cols[n]
      /\ \A f \in done : after[f.name] = Written(cols, f)
  BY AlteredColumns
<1>2. done \subseteq ToSet(v.fields) /\ kept \subseteq DOMAIN cols
  BY DEF Done, Untouched
<1>3. \A f \in done : after[f.name].born.num = f.num /\ after[f.name].num = f.num
  <2> TAKE f \in done
  <2>1. Written(cols, f).num = f.num
    BY DEF Written
  <2>2. Own(cols, f) = {} => Written(cols, f).born.num = f.num
    BY DEF Written
  <2>3. Own(cols, f) # {} => Written(cols, f).born.num = f.num
    <3>1. Own(cols, f) # {} => cols[OwnColumn(cols, f)].born.num = f.num
      BY OwnIsUnique
    <3> QED
      BY <3>1 DEF Written
  <2> QED
    BY <1>1, <2>1, <2>2, <2>3
<1>4. \A n \in kept : \A f \in done : cols[n].born.num # f.num
  BY DEF Untouched, Own
<1>5. \A f, g \in done : f.num = g.num => f = g
  BY <1>2, FieldsOfVersions
<1> HIDE DEF after, done, kept, cols
<1>6. ASSUME NEW a \in DOMAIN after, NEW b \in DOMAIN after, after[a].born.num = after[b].born.num
      PROVE  a = b
  <2>1. CASE a \in kept /\ b \in kept
    BY <1>1, <1>2, <1>6, <2>1 DEF OneColumnPerField, cols
  <2>2. CASE a \in kept /\ b \notin kept
    BY <1>1, <1>3, <1>4, <1>6, <2>2
  <2>3. CASE a \notin kept /\ b \in kept
    BY <1>1, <1>3, <1>4, <1>6, <2>3
  <2>4. CASE a \notin kept /\ b \notin kept
    BY <1>1, <1>3, <1>5, <1>6, <2>4
  <2> QED
    BY <2>1, <2>2, <2>3, <2>4
<1>7. ASSUME NEW n \in DOMAIN after
      PROVE  /\ after[n].num \in {0, after[n].born.num}
             /\ \A w \in Versions : \A g \in ToSet(w.fields) :
                  /\ g.name = n => g.num = after[n].born.num
                  /\ after[n].num = 0 /\ g.num = after[n].born.num => g.name = n
  <2>1. CASE n \in kept
    BY <1>1, <1>2, <2>1 DEF OneColumnPerField, cols
  <2>2. CASE n \notin kept
    <3>1. PICK f \in done : n = f.name
      BY <1>1, <2>2
    <3>2. f \in ToSet(v.fields) /\ f.num # 0
      BY <1>2, FieldsOfVersions
    <3>3. \A w \in Versions : \A g \in ToSet(w.fields) : g.name = n => g.num = f.num
      BY <3>1, <3>2 DEF NamesAreKept
    <3> QED
      BY <1>3, <3>1, <3>2, <3>3
  <2> QED
    BY <2>1, <2>2
<1> QED
  BY <1>6, <1>7 DEF OneColumnPerField, after

\* No column of a field differs from it in a way no ALTER repairs.
NoColumnDrifts(v, cols) ==
  \A f \in ToSet(v.fields) : \A n \in Own(cols, f) : ~Drifts(cols[n], f)

NoFieldIsRefused(v, cols) == \A f \in ToSet(v.fields) : ~IsRefused(cols, f)

\* A written column is what its field wants.
LEMMA WrittenIsInPlace ==
  ASSUME NEW v \in Versions, NEW f \in ToSet(v.fields), NEW cols, HasTypes(cols),
         OneColumnPerField(cols), ~IsAligned(cols, f), ~IsRefused(cols, f),
         \A n \in Own(cols, f) : ~Drifts(cols[n], f)
  PROVE  /\ Written(cols, f).num = f.num /\ Written(cols, f).born.num = f.num
         /\ IsTypeMatch(Written(cols, f).type, f.type)
         /\ ~Drifts(Written(cols, f), f)
<1>1. f.type \in DeclaredTypes /\ f.type \in Types /\ IsTypeMatch(f.type, f.type)
  BY FieldsOfVersions, DeclaredMatchThemselves, SyncAssumption
<1>2. CASE Own(cols, f) = {}
  <2>1. /\ Written(cols, f).num = f.num /\ Written(cols, f).born.num = f.num
        /\ Written(cols, f).type = f.type /\ Written(cols, f).attrs = f.attrs
    BY <1>2 DEF Written
  <2> QED
    BY <1>1, <2>1 DEF Drifts, IsLegacyKey
<1>3. CASE Own(cols, f) # {}
  <2> DEFINE old == OwnColumn(cols, f)
             type == cols[old].type
  <2>1. old \in Own(cols, f) /\ old \in DOMAIN cols /\ cols[old].born.num = f.num
    BY <1>3, OwnIsUnique
  <2>2. type \in Types
    BY <2>1, SyncAssumption DEF HasTypes
  <2>3. ~Inconvertible(cols[old], f)
    BY <1>3 DEF IsAligned, IsRefused
  <2>4. /\ Written(cols, f).num = f.num /\ Written(cols, f).born.num = f.num
        /\ Written(cols, f).type = AlignedColumnType(type, f.type)
        /\ Written(cols, f).attrs = f.attrs
    BY <1>3, <2>1 DEF Written
  <2>5. IsTypeMatch(AlignedColumnType(type, f.type), f.type)
    BY <1>1, <2>2, <2>3, AlignedHoldsTarget DEF Inconvertible
  <2>6. ~IsLegacyKey(cols[old], f)
    BY <2>1 DEF Drifts
  <2>7. ~IsLegacyKey(Written(cols, f), f)
    BY <2>4, <2>6 DEF IsLegacyKey, AlignedColumnType
  <2> QED
    BY <2>4, <2>5, <2>7 DEF Drifts
<1> QED
  BY <1>2, <1>3

\* After an ALTER the fields that are done have nothing left to change; for the others
\* everything is as it was.
LEMMA AlteredFields ==
  ASSUME NamesAreKept, NEW v \in Versions, NEW t, HasTypes(t.cols), OneColumnPerField(t.cols),
         NoFieldIsRefused(v, t.cols), NoColumnDrifts(v, t.cols),
         NEW clauses, OfColumns(clauses) \subseteq FieldClauses(v, t.cols)
  PROVE  LET after == Altered(t, clauses).cols
         IN /\ FieldClauses(v, after) = FieldClauses(v, t.cols) \ clauses
            /\ NoFieldIsRefused(v, after)
            /\ NoColumnDrifts(v, after)
<1> DEFINE cols == t.cols
           after == Altered(t, clauses).cols
           done == Done(v, cols, clauses)
           kept == Untouched(v, cols, clauses)
<1>1. /\ DOMAIN after = kept \cup {f.name : f \in done}
      /\ \A n \in kept : after[n] = cols[n]
      /\ \A f \in done : after[f.name] = Written(cols, f)
  BY AlteredColumns
<1>2. OneColumnPerField(after)
  BY OneColumnStays
<1>3. /\ \A f \in done : f \in ToSet(v.fields) /\ ~IsAligned(cols, f)
      /\ \A f \in ToSet(v.fields) :
           f \in done <=> ~IsAligned(cols, f) /\ ClauseFor(cols, f) \in clauses
      /\ kept \subseteq DOMAIN cols
  BY DEF Done, Untouched
<1>4. ASSUME NEW f \in done
      PROVE  /\ Own(after, f) = {f.name} /\ OwnColumn(after, f) = f.name
             /\ IsAligned(after, f) /\ ~Drifts(after[f.name], f)
  <2>1. /\ Written(cols, f).num = f.num /\ Written(cols, f).born.num = f.num
        /\ IsTypeMatch(Written(cols, f).type, f.type)
        /\ ~Drifts(Written(cols, f), f)
    BY <1>3, WrittenIsInPlace DEF NoFieldIsRefused, NoColumnDrifts
  <2> HIDE DEF after, done, kept, cols
  <2>2. f.name \in Own(after, f)
    BY <1>1, <2>1 DEF Own
  <2>3. Own(after, f) = {f.name} /\ OwnColumn(after, f) = f.name
    BY <1>2, <2>2, OwnIsUnique
  <2>4. InPlace(after, f.name, f)
    BY <1>1, <2>1 DEF InPlace
  <2> QED
    BY <1>1, <2>1, <2>3, <2>4 DEF IsAligned
<1>5. ASSUME NEW f \in ToSet(v.fields), f \notin done
      PROVE  /\ Own(after, f) = Own(cols, f)
             /\ \A n \in Own(cols, f) : after[n] = cols[n]
  <2>1. \A g \in done : g.num # f.num
    BY <1>3, <1>5, FieldsOfVersions
  <2>2. Own(cols, f) \subseteq kept
    BY <2>1 DEF Own, Untouched
  <2>3. \A g \in done : after[g.name].born.num = g.num
    <3> TAKE g \in done
    <3>1. Own(after, g) = {g.name}
      BY <1>4
    <3> QED
      BY <3>1 DEF Own
  <2> HIDE DEF after, done, kept, cols
  <2>4. Own(after, f) \subseteq Own(cols, f)
    BY <1>1, <1>3, <2>1, <2>3 DEF Own
  <2>5. Own(cols, f) \subseteq Own(after, f)
    BY <1>1, <2>2 DEF Own
  <2> QED
    BY <1>1, <2>2, <2>4, <2>5
<1>6. ASSUME NEW f \in ToSet(v.fields), f \notin done
      PROVE  /\ IsAligned(after, f) = IsAligned(cols, f)
             /\ ClauseFor(after, f) = ClauseFor(cols, f)
             /\ IsRefused(after, f) = IsRefused(cols, f)
  <2>1. Own(after, f) = Own(cols, f) /\ \A n \in Own(cols, f) : after[n] = cols[n]
    BY <1>5, <1>6
  <2>2. OwnColumn(after, f) = OwnColumn(cols, f)
    BY <2>1 DEF OwnColumn
  <2>3. Own(cols, f) # {} => after[OwnColumn(cols, f)] = cols[OwnColumn(cols, f)]
    BY <2>1 DEF OwnColumn
  <2> HIDE DEF after, cols
  <2> QED
    BY <2>1, <2>2, <2>3 DEF IsAligned, ClauseFor, IsRefused, InPlace
<1> HIDE DEF after, done, kept, cols
<1>7. FieldClauses(v, after) = FieldClauses(v, cols) \ clauses
  <2>1. \A f \in ToSet(v.fields) :
          ~IsAligned(after, f) <=> ~IsAligned(cols, f) /\ ClauseFor(cols, f) \notin clauses
    BY <1>3, <1>4, <1>6
  <2>2. \A f \in ToSet(v.fields) : ~IsAligned(after, f) => ClauseFor(after, f) = ClauseFor(cols, f)
    BY <1>4, <1>6
  <2> QED
    BY <2>1, <2>2 DEF FieldClauses
<1>8. NoFieldIsRefused(v, after)
  <2>1. \A f \in done : ~IsRefused(after, f)
    BY <1>4 DEF IsAligned, IsRefused
  <2>2. \A f \in ToSet(v.fields) \ done : ~IsRefused(after, f)
    BY <1>6 DEF NoFieldIsRefused, cols
  <2> QED
    BY <2>1, <2>2 DEF NoFieldIsRefused
<1>9. NoColumnDrifts(v, after)
  <2>1. \A f \in done : \A n \in Own(after, f) : ~Drifts(after[n], f)
    BY <1>4
  <2>2. \A f \in ToSet(v.fields) \ done : \A n \in Own(after, f) : ~Drifts(after[n], f)
    BY <1>5 DEF NoColumnDrifts, cols
  <2> QED
    BY <2>1, <2>2 DEF NoColumnDrifts
<1> QED
  BY <1>7, <1>8, <1>9 DEF after, cols

-----------------------------------------------------------------------------
(***************************************************************************)
(* The two ALTERs of a plan, where a field has one column at most.         *)
(***************************************************************************)
\* The column clauses and the indexes that come with the primary key.
Waiting(v, t) == {x \in FieldClauses(v, t.cols) : WaitsForKey(v, t, x)}
Missing(v, t) == {AddIndex(i, v.indexes[i]) : i \in DOMAIN v.indexes \ DOMAIN t.indexes}
Late(v, t) == {x \in Missing(v, t) : \E c \in Waiting(v, t) : c.name \in ToSet(x.index.cols)}

First(v, t) == (FieldClauses(v, t.cols) \ Waiting(v, t)) \cup (Missing(v, t) \ Late(v, t))
Second(v, t) ==
  IF NeedsPrimaryKey(v, t) THEN Waiting(v, t) \cup {AddPrimaryKey(v.pk)} \cup Late(v, t) ELSE {}

KeysDrift(v, t) ==
  \/ \E i \in DOMAIN v.indexes \cap DOMAIN t.indexes : t.indexes[i] # v.indexes[i]
  \/ v.pk # <<>> /\ t.pk # <<>> /\ t.pk # v.pk

\* A plan, told by fields and keys.
LEMMA PlanByField ==
  ASSUME NEW v \in Versions, NEW t, OneColumnPerField(t.cols), NEW e \in BOOLEAN
  PROVE  LET plan1 == Plan(v, t, e)
         IN /\ plan1.columns = First(v, t) /\ plan1.primaryKey = Second(v, t)
            /\ ~plan1.refused <=>
                 /\ NoFieldIsRefused(v, t.cols) /\ NoColumnDrifts(v, t.cols)
                 /\ ~KeysDrift(v, t)
                 /\ e => OnlyAdds(First(v, t) \cup Second(v, t))
<1> DEFINE align == ColumnClauses(v, t.cols)
<1>1. /\ align.clauses = FieldClauses(v, t.cols)
      /\ align.refused <=> ~NoFieldIsRefused(v, t.cols)
  BY ColumnClausesByField DEF NoFieldIsRefused
<1>2. HasDrift(v, t) <=> ~NoColumnDrifts(v, t.cols) \/ KeysDrift(v, t)
  <2>1. \A f \in ToSet(v.fields) : Candidates(t.cols, DOMAIN t.cols, f) = Own(t.cols, f)
    <3>1. \A f : Own(t.cols, f) \cap DOMAIN t.cols = Own(t.cols, f)
      BY DEF Own
    <3>2. DOMAIN t.cols \in SUBSET DOMAIN t.cols
      OBVIOUS
    <3> QED
      BY <3>1, <3>2, CandidatesAreOwn
  <2>2. /\ \A i \in DOMAIN v.fields : v.fields[i] \in ToSet(v.fields)
        /\ \A f \in ToSet(v.fields) : \E i \in DOMAIN v.fields : v.fields[i] = f
    BY FieldsOfVersions
  <2>3. (\E i \in DOMAIN v.fields :
           \E n \in Candidates(t.cols, DOMAIN t.cols, v.fields[i]) : Drifts(t.cols[n], v.fields[i]))
          <=> ~NoColumnDrifts(v, t.cols)
    BY <2>1, <2>2 DEF NoColumnDrifts
  <2> QED
    BY <2>3 DEF HasDrift, KeysDrift
<1>3. Plan(v, t, e) =
        [refused |-> \/ align.refused \/ HasDrift(v, t)
                     \/ e /\ ~OnlyAdds(First(v, t) \cup Second(v, t)),
         columns |-> First(v, t), primaryKey |-> Second(v, t)]
  BY <1>1 DEF Plan, First, Second, Late, Missing, Waiting
<1> HIDE DEF align
<1> QED
  BY <1>1, <1>2, <1>3

\* What a missing index is.
LEMMA MissingIndexes ==
  ASSUME NEW v, NEW t, NEW x \in Missing(v, t)
  PROVE  /\ x.op = "add index" /\ x.name \in DOMAIN v.indexes \ DOMAIN t.indexes
         /\ x.index = v.indexes[x.name] /\ x = AddIndex(x.name, v.indexes[x.name])
<1>1. PICK i \in DOMAIN v.indexes \ DOMAIN t.indexes : x = AddIndex(i, v.indexes[i])
  BY DEF Missing
<1> QED
  BY <1>1 DEF AddIndex

\* Of the clauses of a plan, those that concern columns, indexes and the primary key.
LEMMA KindsOfClauses ==
  ASSUME NEW v \in Versions, NEW t
  PROVE  /\ \A x \in FieldClauses(v, t.cols) : x.op \in {"add column", "change column"}
         /\ \A x \in Missing(v, t) :
              /\ x.op = "add index" /\ x.name \in DOMAIN v.indexes \ DOMAIN t.indexes
              /\ x.index = v.indexes[x.name]
         /\ AddPrimaryKey(v.pk).op = "add primary key" /\ AddPrimaryKey(v.pk).pk = v.pk
         /\ Waiting(v, t) \subseteq FieldClauses(v, t.cols)
         /\ Late(v, t) \subseteq Missing(v, t)
         /\ ~NeedsPrimaryKey(v, t) => Waiting(v, t) = {} /\ Late(v, t) = {}
<1>1. \A x \in FieldClauses(v, t.cols) : x.op \in {"add column", "change column"}
  <2> TAKE x \in FieldClauses(v, t.cols)
  <2>1. PICK f \in ToSet(v.fields) : x = ClauseFor(t.cols, f)
    BY DEF FieldClauses
  <2> QED
    BY <2>1, ClauseForFields
<1>2. \A x \in Missing(v, t) :
        /\ x.op = "add index" /\ x.name \in DOMAIN v.indexes \ DOMAIN t.indexes
        /\ x.index = v.indexes[x.name]
  <2> TAKE x \in Missing(v, t)
  <2>1. /\ x.op = "add index" /\ x.name \in DOMAIN v.indexes \ DOMAIN t.indexes
        /\ x.index = v.indexes[x.name] /\ x = AddIndex(x.name, v.indexes[x.name])
    BY MissingIndexes
  <2> QED
    BY <2>1
<1>3. AddPrimaryKey(v.pk).op = "add primary key" /\ AddPrimaryKey(v.pk).pk = v.pk
  BY DEF AddPrimaryKey
<1>4. Waiting(v, t) \subseteq FieldClauses(v, t.cols)
  BY DEF Waiting
<1>5. Late(v, t) \subseteq Missing(v, t)
  BY DEF Late
<1>6. ~NeedsPrimaryKey(v, t) => Waiting(v, t) = {}
  BY DEF Waiting, WaitsForKey
<1>7. ~NeedsPrimaryKey(v, t) => Late(v, t) = {}
  BY <1>6 DEF Late
<1> QED
  BY <1>1, <1>2, <1>3, <1>4, <1>5, <1>6, <1>7

\* The clauses of an ALTER of a plan: column clauses of fields, and keys that are missing.
IsPart(v, t, clauses) ==
  clauses \subseteq FieldClauses(v, t.cols) \cup Missing(v, t)
                     \cup (IF NeedsPrimaryKey(v, t) THEN {AddPrimaryKey(v.pk)} ELSE {})

\* What the clauses of such an ALTER are.
LEMMA PartsOfPlans ==
  ASSUME NEW v \in Versions, NEW t, NEW clauses, IsPart(v, t, clauses)
  PROVE  /\ OfColumns(clauses) \subseteq FieldClauses(v, t.cols)
         /\ \A x \in clauses : x.op = "change column" => x \in FieldClauses(v, t.cols)
         /\ \A x \in clauses : x.op = "add index" => x \in Missing(v, t)
         /\ \A x \in clauses : x.op = "add primary key" =>
              x = AddPrimaryKey(v.pk) /\ NeedsPrimaryKey(v, t)
<1>1. /\ \A x \in FieldClauses(v, t.cols) : x.op \in {"add column", "change column"}
      /\ \A x \in Missing(v, t) : x.op = "add index"
      /\ AddPrimaryKey(v.pk).op = "add primary key"
  BY KindsOfClauses
<1>2. \A x \in clauses : \/ x \in FieldClauses(v, t.cols)
                         \/ x \in Missing(v, t)
                         \/ x = AddPrimaryKey(v.pk) /\ NeedsPrimaryKey(v, t)
  BY DEF IsPart
<1> QED
  BY <1>1, <1>2 DEF OfColumns

\* A column that has its field's name keeps it.
LEMMA FieldNamesStay ==
  ASSUME NEW v \in Versions, NEW t, OneColumnPerField(t.cols),
         NEW clauses, OfColumns(clauses) \subseteq FieldClauses(v, t.cols),
         NEW n \in FieldNames(v)
  PROVE  NewName(clauses, n) = n
<1> DEFINE cols == t.cols
           done == Done(v, cols, clauses)
<1>1. CASE n \notin Replaced(clauses)
  BY <1>1 DEF NewName
<1>2. CASE n \in Replaced(clauses)
  <2> DEFINE x == CHOOSE c \in clauses : c.op = "change column" /\ c.old = n
  <2>1. x \in clauses /\ x.op = "change column" /\ x.old = n
    BY <1>2 DEF Replaced
  <2>2. x \in OfColumns(clauses)
    BY <2>1 DEF OfColumns
  <2>3. OfColumns(clauses) = {ClauseFor(cols, f) : f \in done}
    BY ClausesOfFields
  <2>4. PICK f \in done : x = ClauseFor(cols, f)
    BY <2>2, <2>3
  <2>5. f \in ToSet(v.fields)
    BY DEF Done
  <2>6. Own(cols, f) # {} /\ OwnColumn(cols, f) = n /\ x.name = f.name
    <3> HIDE DEF x, cols
    <3> QED
      BY <2>1, <2>4, ClauseForFields
  <2>7. n \in DOMAIN cols /\ cols[n].born.num = f.num
    BY <2>6 DEF OwnColumn, Own
  <2>8. PICK g \in ToSet(v.fields) : g.name = n
    BY DEF FieldNames
  <2>9. g.num = f.num
    BY <2>7, <2>8 DEF OneColumnPerField
  <2>10. g = f
    BY <2>5, <2>9, FieldsOfVersions
  <2>11. NewName(clauses, n) = x.name
    BY <1>2 DEF NewName
  <2> QED
    BY <2>6, <2>8, <2>10, <2>11
<1> QED
  BY <1>1, <1>2

\* Keys over fields keep their columns' names.
LEMMA FieldKeysStay ==
  ASSUME NEW v \in Versions, NEW t, OneColumnPerField(t.cols),
         NEW clauses, OfColumns(clauses) \subseteq FieldClauses(v, t.cols),
         NEW key \in Seq(FieldNames(v))
  PROVE  Renamed(clauses, key) = key
<1>1. \A i \in DOMAIN key : key[i] \in FieldNames(v)
  OBVIOUS
<1>2. \A i \in DOMAIN key : NewName(clauses, key[i]) = key[i]
  BY <1>1, FieldNamesStay
<1>3. key = [i \in DOMAIN key |-> key[i]]
  OBVIOUS
<1> QED
  BY <1>2, <1>3 DEF Renamed

\* The keys after an ALTER.
LEMMA AlteredKeys ==
  ASSUME NEW v \in Versions, NEW t, OneColumnPerField(t.cols), ~KeysDrift(v, t),
         t.pk \in Seq(DOMAIN t.cols), NEW clauses, IsPart(v, t, clauses)
  PROVE  LET after == Altered(t, clauses)
         IN /\ ~KeysDrift(v, after)
            /\ Missing(v, after) = Missing(v, t) \ clauses
            /\ NeedsPrimaryKey(v, after) <=>
                 NeedsPrimaryKey(v, t) /\ AddPrimaryKey(v.pk) \notin clauses
<1> DEFINE after == Altered(t, clauses)
           added == {x \in clauses : x.op = "add index"}
           keys == {x \in clauses : x.op = "add primary key"}
           index(i) == (CHOOSE x \in added : x.name = i).index
<1>1. /\ OfColumns(clauses) \subseteq FieldClauses(v, t.cols)
      /\ added \subseteq Missing(v, t)
      /\ \A x \in keys : x = AddPrimaryKey(v.pk) /\ NeedsPrimaryKey(v, t)
  BY PartsOfPlans
<1>2. /\ DOMAIN after.indexes = DOMAIN t.indexes \cup {x.name : x \in added}
      /\ \A i \in DOMAIN t.indexes :
           after.indexes[i] = [t.indexes[i] EXCEPT !.cols = Renamed(clauses, @)]
      /\ \A i \in {x.name : x \in added} \ DOMAIN t.indexes : after.indexes[i] = index(i)
  BY DEF Altered
<1>3. after.pk = IF keys # {} THEN (CHOOSE x \in keys : TRUE).pk ELSE Renamed(clauses, t.pk)
  BY DEF Altered
<1>4. \A x \in Missing(v, t) : /\ x.op = "add index"
                               /\ x.name \in DOMAIN v.indexes \ DOMAIN t.indexes
                               /\ x.index = v.indexes[x.name]
  BY MissingIndexes
<1>5. IsVersion(v)
  BY SyncAssumption
<1> HIDE DEF added, keys, after
<1>6. ASSUME NEW i \in DOMAIN v.indexes \cap DOMAIN after.indexes
      PROVE  after.indexes[i] = v.indexes[i]
  <2>1. CASE i \in DOMAIN t.indexes
    <3>1. t.indexes[i] = v.indexes[i]
      BY <2>1 DEF KeysDrift
    <3>2. v.indexes[i] \in [cols : Seq(FieldNames(v)) \ {<<>>}, unique : BOOLEAN]
      BY <1>5 DEF IsVersion
    <3>3. Renamed(clauses, v.indexes[i].cols) = v.indexes[i].cols
      BY <1>1, <3>2, FieldKeysStay
    <3>4. [v.indexes[i] EXCEPT !.cols = v.indexes[i].cols] = v.indexes[i]
      BY <3>2
    <3> QED
      BY <1>2, <2>1, <3>1, <3>3, <3>4
  <2>2. CASE i \notin DOMAIN t.indexes
    <3>1. \E x \in added : x.name = i
      BY <1>2, <2>2
    <3>2. (CHOOSE x \in added : x.name = i) \in added
          /\ (CHOOSE x \in added : x.name = i).name = i
      BY <3>1
    <3>3. index(i) = v.indexes[i]
      BY <1>1, <1>4, <3>2
    <3> QED
      BY <1>2, <2>2, <3>1, <3>3
  <2> QED
    BY <2>1, <2>2
<1> DEFINE added1 == AddPrimaryKey(v.pk) \in clauses
           pkFits == /\ v.pk # <<>> /\ after.pk # <<>> => after.pk = v.pk
                     /\ v.pk # <<>> => (after.pk = <<>> <=> t.pk = <<>> /\ ~added1)
<1>7. ASSUME keys # {}
      PROVE  pkFits
  <2> DEFINE x == CHOOSE y \in keys : TRUE
  <2>1. x \in keys
    BY <1>7
  <2>2. x = AddPrimaryKey(v.pk) /\ x \in clauses
    BY <1>1, <2>1 DEF keys
  <2>3. after.pk = x.pk
    BY <1>3, <1>7
  <2> HIDE DEF x
  <2>4. x.pk = v.pk
    BY <2>2 DEF AddPrimaryKey
  <2> QED
    BY <2>2, <2>3, <2>4
<1>8. ASSUME keys = {}
      PROVE  pkFits
  <2>1. ~added1
    <3>1. AddPrimaryKey(v.pk).op = "add primary key"
      BY DEF AddPrimaryKey
    <3> QED
      BY <1>8, <3>1 DEF keys
  <2>2. after.pk = Renamed(clauses, t.pk)
    BY <1>3, <1>8
  <2>3. CASE t.pk = <<>>
    <3>1. Renamed(clauses, <<>>) = <<>>
      BY DEF Renamed
    <3> QED
      BY <2>1, <2>2, <2>3, <3>1
  <2>4. CASE t.pk # <<>> /\ v.pk # <<>>
    <3>1. t.pk = v.pk /\ v.pk \in Seq(FieldNames(v))
      BY <1>5, <2>4 DEF KeysDrift, IsVersion
    <3>2. after.pk = v.pk
      BY <1>1, <2>2, <3>1, FieldKeysStay
    <3> QED
      BY <2>4, <3>1, <3>2
  <2> QED
    BY <2>1, <2>3, <2>4
<1>9. pkFits
  BY <1>7, <1>8
<1>10. ~KeysDrift(v, after)
  BY <1>6, <1>9 DEF KeysDrift
<1>11. NeedsPrimaryKey(v, after) <=> NeedsPrimaryKey(v, t) /\ ~added1
  BY <1>9 DEF NeedsPrimaryKey
<1>12. Missing(v, after) = Missing(v, t) \ clauses
  <2>1. ASSUME NEW x \in Missing(v, after)
        PROVE  x \in Missing(v, t) /\ x \notin clauses
    <3>1. /\ x.op = "add index" /\ x.name \in DOMAIN v.indexes \ DOMAIN after.indexes
          /\ x = AddIndex(x.name, v.indexes[x.name])
      BY MissingIndexes
    <3>2. x.name \notin DOMAIN t.indexes
      BY <1>2, <3>1
    <3>3. x \notin clauses
      BY <1>2, <3>1 DEF added
    <3> QED
      BY <3>1, <3>2, <3>3 DEF Missing
  <2>2. ASSUME NEW x \in Missing(v, t), x \notin clauses
        PROVE  x \in Missing(v, after)
    <3>1. /\ x.name \in DOMAIN v.indexes \ DOMAIN t.indexes
          /\ x = AddIndex(x.name, v.indexes[x.name])
      BY MissingIndexes
    <3>2. \A y \in added : y.name # x.name
      <4> TAKE y \in added
      <4>1. y = AddIndex(y.name, v.indexes[y.name]) /\ y \in clauses
        BY <1>1, MissingIndexes DEF added
      <4> QED
        BY <2>2, <3>1, <4>1
    <3> QED
      BY <1>2, <3>1, <3>2 DEF Missing
  <2> QED
    BY <2>1, <2>2
<1> HIDE DEF pkFits
<1> QED
  BY <1>10, <1>11, <1>12 DEF after

\* A table whose plan is not refused, told by fields and keys.
Plannable(v, t) ==
  /\ HasTypes(t.cols) /\ OneColumnPerField(t.cols) /\ t.pk \in Seq(DOMAIN t.cols)
  /\ NoFieldIsRefused(v, t.cols) /\ NoColumnDrifts(v, t.cols) /\ ~KeysDrift(v, t)

\* What is left to plan after an ALTER with some of the clauses of a plan.
LEMMA LeftToPlan ==
  ASSUME NamesAreKept, NEW v \in Versions, NEW t, Plannable(v, t),
         NEW clauses, IsPart(v, t, clauses)
  PROVE  LET after == Altered(t, clauses)
         IN /\ FieldClauses(v, after.cols) = FieldClauses(v, t.cols) \ clauses
            /\ Missing(v, after) = Missing(v, t) \ clauses
            /\ NeedsPrimaryKey(v, after) <=>
                 NeedsPrimaryKey(v, t) /\ AddPrimaryKey(v.pk) \notin clauses
            /\ OneColumnPerField(after.cols)
            /\ NoFieldIsRefused(v, after.cols) /\ NoColumnDrifts(v, after.cols)
            /\ ~KeysDrift(v, after)
<1>1. OfColumns(clauses) \subseteq FieldClauses(v, t.cols)
  BY PartsOfPlans
<1> QED
  BY <1>1, AlteredFields, AlteredKeys, OneColumnStays DEF Plannable

\* Both ALTERs of a plan are parts of it.
LEMMA PlansAreParts ==
  ASSUME NEW v \in Versions, NEW t
  PROVE  IsPart(v, t, First(v, t)) /\ IsPart(v, t, Second(v, t))
BY KindsOfClauses DEF IsPart, First, Second

\* After the first ALTER the second is left to plan, and no more,
LEMMA SecondIsLeft ==
  ASSUME NamesAreKept, NEW v \in Versions, NEW t, Plannable(v, t)
  PROVE  LET after == Altered(t, First(v, t))
         IN First(v, after) = {} /\ Second(v, after) = Second(v, t)
<1> DEFINE after == Altered(t, First(v, t))
<1>1. /\ FieldClauses(v, after.cols) = FieldClauses(v, t.cols) \ First(v, t)
      /\ Missing(v, after) = Missing(v, t) \ First(v, t)
      /\ NeedsPrimaryKey(v, after) <=>
           NeedsPrimaryKey(v, t) /\ AddPrimaryKey(v.pk) \notin First(v, t)
  BY PlansAreParts, LeftToPlan
<1>2. /\ \A x \in FieldClauses(v, t.cols) : x.op \in {"add column", "change column"}
      /\ \A x \in Missing(v, t) : x.op = "add index"
      /\ AddPrimaryKey(v.pk).op = "add primary key"
      /\ Waiting(v, t) \subseteq FieldClauses(v, t.cols)
      /\ Late(v, t) \subseteq Missing(v, t)
  BY KindsOfClauses
<1> HIDE DEF after
<1>3. NeedsPrimaryKey(v, after) <=> NeedsPrimaryKey(v, t)
  BY <1>1, <1>2 DEF First
<1>4. FieldClauses(v, after.cols) = Waiting(v, t)
  BY <1>1, <1>2 DEF First
<1>5. Missing(v, after) = Late(v, t)
  BY <1>1, <1>2 DEF First
<1>6. Waiting(v, after) = Waiting(v, t)
  BY <1>3, <1>4 DEF Waiting, WaitsForKey
<1>7. Late(v, after) = Late(v, t)
  BY <1>5, <1>6 DEF Late
<1>8. First(v, after) = {}
  BY <1>4, <1>5, <1>6, <1>7 DEF First
<1>9. Second(v, after) = Second(v, t)
  BY <1>3, <1>6, <1>7 DEF Second
<1> QED
  BY <1>8, <1>9 DEF after

\* and nothing after the second.
LEMMA NothingIsLeft ==
  ASSUME NamesAreKept, NEW v \in Versions, NEW t, Plannable(v, t),
         First(v, t) = {}, Second(v, t) # {}
  PROVE  LET after == Altered(t, Second(v, t))
         IN First(v, after) = {} /\ Second(v, after) = {}
<1> DEFINE after == Altered(t, Second(v, t))
<1>1. /\ FieldClauses(v, after.cols) = FieldClauses(v, t.cols) \ Second(v, t)
      /\ Missing(v, after) = Missing(v, t) \ Second(v, t)
      /\ NeedsPrimaryKey(v, after) <=>
           NeedsPrimaryKey(v, t) /\ AddPrimaryKey(v.pk) \notin Second(v, t)
  BY PlansAreParts, LeftToPlan
<1>2. /\ Second(v, t) = Waiting(v, t) \cup {AddPrimaryKey(v.pk)} \cup Late(v, t)
      /\ FieldClauses(v, t.cols) \subseteq Waiting(v, t)
      /\ Missing(v, t) \subseteq Late(v, t)
  BY DEF First, Second
<1> HIDE DEF after
<1>3. /\ ~NeedsPrimaryKey(v, after)
      /\ FieldClauses(v, after.cols) = {} /\ Missing(v, after) = {}
  BY <1>1, <1>2
<1>4. First(v, after) = {} /\ Second(v, after) = {}
  BY <1>3 DEF First, Second
<1> QED
  BY <1>4 DEF after

\* A plan that is not refused.
LEMMA PlannableTables ==
  ASSUME NEW v \in Versions, NEW t, HasTypes(t.cols), OneColumnPerField(t.cols),
         KeysFit(t), NEW e \in BOOLEAN, ~Plan(v, t, e).refused
  PROVE  /\ Plannable(v, t)
         /\ Plan(v, t, e).columns = First(v, t) /\ Plan(v, t, e).primaryKey = Second(v, t)
         /\ e => OnlyAdds(First(v, t) \cup Second(v, t))
BY PlanByField DEF Plannable, KeysFit

\* Planning again after the first ALTER gives the second.
LEMMA PlanAfterFirst ==
  ASSUME NamesAreKept, NEW v \in Versions, NEW t, HasTypes(t.cols), OneColumnPerField(t.cols),
         KeysFit(t), NEW e \in BOOLEAN, ~Plan(v, t, e).refused
  PROVE  LET now == Plan(v, Altered(t, Plan(v, t, e).columns), e)
         IN ~now.refused /\ now.columns = {} /\ now.primaryKey = Plan(v, t, e).primaryKey
<1> DEFINE after == Altered(t, First(v, t))
<1>1. /\ Plannable(v, t)
      /\ Plan(v, t, e).columns = First(v, t) /\ Plan(v, t, e).primaryKey = Second(v, t)
      /\ e => OnlyAdds(First(v, t) \cup Second(v, t))
  BY PlannableTables
<1>2. First(v, after) = {} /\ Second(v, after) = Second(v, t)
  BY <1>1, SecondIsLeft
<1>3. /\ OneColumnPerField(after.cols) /\ NoFieldIsRefused(v, after.cols)
      /\ NoColumnDrifts(v, after.cols) /\ ~KeysDrift(v, after)
  BY <1>1, PlansAreParts, LeftToPlan
<1>4. e => OnlyAdds(First(v, after) \cup Second(v, after))
  BY <1>1, <1>2 DEF OnlyAdds
<1> HIDE DEF after
<1>5. LET now == Plan(v, after, e)
      IN ~now.refused /\ now.columns = {} /\ now.primaryKey = Second(v, t)
  BY <1>2, <1>3, <1>4, PlanByField
<1> QED
  BY <1>1, <1>5 DEF after

\* Planning again after the second ALTER gives nothing.
LEMMA PlanAfterSecond ==
  ASSUME NamesAreKept, NEW v \in Versions, NEW t, HasTypes(t.cols), OneColumnPerField(t.cols),
         KeysFit(t), NEW e \in BOOLEAN, ~Plan(v, t, e).refused,
         Plan(v, t, e).columns = {}, Plan(v, t, e).primaryKey # {}
  PROVE  LET now == Plan(v, Altered(t, Plan(v, t, e).primaryKey), e)
         IN ~now.refused /\ now.columns = {} /\ now.primaryKey = {}
<1> DEFINE after == Altered(t, Second(v, t))
<1>1. /\ Plannable(v, t)
      /\ Plan(v, t, e).columns = First(v, t) /\ Plan(v, t, e).primaryKey = Second(v, t)
  BY PlannableTables
<1>2. First(v, after) = {} /\ Second(v, after) = {}
  BY <1>1, NothingIsLeft
<1>3. /\ OneColumnPerField(after.cols) /\ NoFieldIsRefused(v, after.cols)
      /\ NoColumnDrifts(v, after.cols) /\ ~KeysDrift(v, after)
  BY <1>1, PlansAreParts, LeftToPlan
<1>4. OnlyAdds(First(v, after) \cup Second(v, after))
  BY <1>2 DEF OnlyAdds
<1> HIDE DEF after
<1>5. LET now == Plan(v, after, e)
      IN ~now.refused /\ now.columns = {} /\ now.primaryKey = {}
  BY <1>2, <1>3, <1>4, PlanByField
<1> QED
  BY <1>1, <1>5 DEF after

\* A version whose plan is empty has nothing to change, ExpandOnly or not.
LEMMA EmptyPlansSettle ==
  ASSUME NEW v \in Versions, NEW t, OneColumnPerField(t.cols), NEW e \in BOOLEAN,
         ~Plan(v, t, e).refused, Plan(v, t, e).columns = {}, Plan(v, t, e).primaryKey = {}
  PROVE  IsSettled(v, t)
<1>1. First(v, t) = {} /\ Second(v, t) = {}
  BY PlanByField
<1>2. /\ NoFieldIsRefused(v, t.cols) /\ NoColumnDrifts(v, t.cols) /\ ~KeysDrift(v, t)
  BY PlanByField
<1>3. LET now == Plan(v, t, FALSE) IN ~now.refused /\ now.columns = {} /\ now.primaryKey = {}
  BY <1>1, <1>2, PlanByField
<1> QED
  BY <1>3 DEF IsSettled

-----------------------------------------------------------------------------
(***************************************************************************)
(* MySQL executes both ALTERs of a plan: what their keys need is there.    *)
(***************************************************************************)
\* The column of a field that is done or was aligned.
LEMMA FieldIsThere ==
  ASSUME NEW v \in Versions, NEW t, OneColumnPerField(t.cols),
         NEW clauses, OfColumns(clauses) \subseteq FieldClauses(v, t.cols),
         NEW f \in ToSet(v.fields), IsAligned(t.cols, f) \/ ClauseFor(t.cols, f) \in clauses
  PROVE  f.name \in DOMAIN Altered(t, clauses).cols
<1> DEFINE kept == Untouched(v, t.cols, clauses)
           done == Done(v, t.cols, clauses)
<1>1. DOMAIN Altered(t, clauses).cols = kept \cup {g.name : g \in done}
  BY AlteredColumns
<1>2. CASE IsAligned(t.cols, f)
  <2>1. OwnColumn(t.cols, f) = f.name /\ Own(t.cols, f) # {}
    BY <1>2 DEF IsAligned, InPlace
  <2>2. f.name \in DOMAIN t.cols /\ t.cols[f.name].born.num = f.num
    BY <2>1, OwnIsUnique
  <2>3. \A g \in done : g \in ToSet(v.fields) /\ g # f
    BY <1>2 DEF Done
  <2>4. \A g \in done : g.num # f.num
    BY <2>3, FieldsOfVersions
  <2>5. f.name \in kept
    BY <2>2, <2>4 DEF Untouched, Own
  <2> HIDE DEF kept, done
  <2> QED
    BY <1>1, <2>5
<1>3. CASE ~IsAligned(t.cols, f)
  <2>1. f \in done
    BY <1>3 DEF Done
  <2> HIDE DEF kept, done
  <2> QED
    BY <1>1, <2>1
<1> QED
  BY <1>2, <1>3

\* A column that was there is there under its new name.
LEMMA ColumnIsThere ==
  ASSUME NEW v \in Versions, NEW t, OneColumnPerField(t.cols),
         NEW clauses, OfColumns(clauses) \subseteq FieldClauses(v, t.cols),
         NEW n \in DOMAIN t.cols
  PROVE  NewName(clauses, n) \in DOMAIN Altered(t, clauses).cols
<1> DEFINE kept == Untouched(v, t.cols, clauses)
           done == Done(v, t.cols, clauses)
<1>1. DOMAIN Altered(t, clauses).cols = kept \cup {g.name : g \in done}
  BY AlteredColumns
<1>2. /\ OfColumns(clauses) = {ClauseFor(t.cols, f) : f \in done}
      /\ DOMAIN t.cols \ Replaced(clauses) = kept
  BY ClausesOfFields
<1> HIDE DEF kept, done
<1>3. CASE n \notin Replaced(clauses)
  BY <1>1, <1>2, <1>3 DEF NewName
<1>4. CASE n \in Replaced(clauses)
  <2> DEFINE x == CHOOSE c \in clauses : c.op = "change column" /\ c.old = n
  <2>1. x \in clauses /\ x.op = "change column" /\ x.old = n
    BY <1>4 DEF Replaced
  <2>2. x \in OfColumns(clauses)
    BY <2>1 DEF OfColumns
  <2>3. NewName(clauses, n) = x.name
    BY <1>4 DEF NewName
  <2> HIDE DEF x
  <2>4. PICK f \in done : x = ClauseFor(t.cols, f)
    BY <1>2, <2>2
  <2>5. x.name = f.name
    BY <2>4, ClauseForFields
  <2> QED
    BY <1>1, <2>3, <2>5
<1> QED
  BY <1>3, <1>4

\* A key over columns of the table follows them.
LEMMA KeysFollow ==
  ASSUME NEW v \in Versions, NEW t, OneColumnPerField(t.cols),
         NEW clauses, OfColumns(clauses) \subseteq FieldClauses(v, t.cols),
         NEW key \in Seq(DOMAIN t.cols)
  PROVE  LET renamed == Renamed(clauses, key)
         IN /\ renamed \in Seq(DOMAIN Altered(t, clauses).cols)
            /\ DOMAIN renamed = DOMAIN key
            /\ \A i \in DOMAIN key : renamed[i] = NewName(clauses, key[i])
            /\ renamed = <<>> <=> key = <<>>
<1> DEFINE there == DOMAIN Altered(t, clauses).cols
           renamed == Renamed(clauses, key)
<1>1. renamed = [i \in 1..Len(key) |-> NewName(clauses, key[i])]
  BY DEF Renamed
<1>2. \A i \in 1..Len(key) : NewName(clauses, key[i]) \in there
  <2>1. \A i \in 1..Len(key) : key[i] \in DOMAIN t.cols
    OBVIOUS
  <2> QED
    BY <2>1, ColumnIsThere
<1> HIDE DEF there, renamed
<1>3. Len(key) \in Nat /\ DOMAIN key = 1..Len(key)
  OBVIOUS
<1>4. renamed \in [1..Len(key) -> there]
  BY <1>1, <1>2
<1>5. renamed \in Seq(there) /\ Len(renamed) = Len(key)
  BY <1>3, <1>4
<1>6. renamed = <<>> <=> key = <<>>
  BY <1>5
<1> QED
  BY <1>1, <1>3, <1>5, <1>6 DEF there, renamed

\* The indexes and the primary key of the altered table.
LEMMA AlteredIndexes ==
  ASSUME NEW v \in Versions, NEW t, OneColumnPerField(t.cols), KeysFit(t),
         NEW clauses, IsPart(v, t, clauses)
  PROVE  LET after == Altered(t, clauses)
         IN /\ \A i : i \in DOMAIN after.indexes <=>
                 \/ i \in DOMAIN t.indexes
                 \/ \E x \in clauses : x.op = "add index" /\ x.name = i
            /\ \A i \in DOMAIN t.indexes :
                 /\ "cols" \in DOMAIN after.indexes[i]
                 /\ after.indexes[i].cols = Renamed(clauses, t.indexes[i].cols)
            /\ \A x \in clauses : x.op = "add index" => after.indexes[x.name] = x.index
            /\ after.pk = IF AddPrimaryKey(v.pk) \in clauses THEN v.pk
                                                             ELSE Renamed(clauses, t.pk)
<1> DEFINE after == Altered(t, clauses)
           added == {x \in clauses : x.op = "add index"}
           keys == {x \in clauses : x.op = "add primary key"}
<1>1. /\ DOMAIN after.indexes = DOMAIN t.indexes \cup {x.name : x \in added}
      /\ \A i \in DOMAIN t.indexes :
           after.indexes[i] = [t.indexes[i] EXCEPT !.cols = Renamed(clauses, @)]
      /\ \A i \in {x.name : x \in added} \ DOMAIN t.indexes :
           after.indexes[i] = (CHOOSE x \in added : x.name = i).index
  BY DEF Altered
<1>2. after.pk = IF keys # {} THEN (CHOOSE x \in keys : TRUE).pk ELSE Renamed(clauses, t.pk)
  BY DEF Altered
<1>3. /\ added \subseteq Missing(v, t)
      /\ \A x \in keys : x = AddPrimaryKey(v.pk)
  BY PartsOfPlans
<1>4. AddPrimaryKey(v.pk).op = "add primary key" /\ AddPrimaryKey(v.pk).pk = v.pk
  BY DEF AddPrimaryKey
<1>5. \A i \in DOMAIN t.indexes :
        "cols" \in DOMAIN t.indexes[i]
  BY DEF KeysFit
<1> HIDE DEF after
<1>6. \A i \in DOMAIN t.indexes :
        /\ "cols" \in DOMAIN after.indexes[i]
        /\ after.indexes[i].cols = Renamed(clauses, t.indexes[i].cols)
  <2> TAKE i \in DOMAIN t.indexes
  <2> DEFINE key == Renamed(clauses, t.indexes[i].cols)
  <2>1. after.indexes[i] = [t.indexes[i] EXCEPT !.cols = key]
    BY <1>1
  <2>2. "cols" \in DOMAIN t.indexes[i]
    BY <1>5
  <2> HIDE DEF key
  <2>3. /\ "cols" \in DOMAIN [t.indexes[i] EXCEPT !.cols = key]
        /\ [t.indexes[i] EXCEPT !.cols = key].cols = key
    BY <2>2
  <2> QED
    BY <2>1, <2>3 DEF key
<1>7. ASSUME NEW x \in added
      PROVE  after.indexes[x.name] = x.index
  <2> DEFINE y == CHOOSE z \in added : z.name = x.name
  <2>1. y \in added /\ y.name = x.name
    OBVIOUS
  <2> HIDE DEF y, added
  <2>2. /\ x.name \notin DOMAIN t.indexes
        /\ x.index = v.indexes[x.name] /\ y.index = v.indexes[y.name]
    BY <1>3, <2>1, MissingIndexes
  <2>3. after.indexes[x.name] = y.index
    BY <1>1, <2>2 DEF y
  <2> QED
    BY <2>1, <2>2, <2>3
<1>8. after.pk = IF AddPrimaryKey(v.pk) \in clauses THEN v.pk ELSE Renamed(clauses, t.pk)
  <2>1. keys # {} <=> AddPrimaryKey(v.pk) \in clauses
    BY <1>3, <1>4
  <2>2. keys # {} => (CHOOSE x \in keys : TRUE) \in keys
    OBVIOUS
  <2> HIDE DEF keys
  <2> QED
    BY <1>2, <1>3, <1>4, <2>1, <2>2
<1>9. \A i : i \in DOMAIN after.indexes <=>
         \/ i \in DOMAIN t.indexes
         \/ \E x \in clauses : x.op = "add index" /\ x.name = i
  <2>1. \A i : i \in {x.name : x \in added} <=> \E x \in clauses : x.op = "add index" /\ x.name = i
    OBVIOUS
  <2> HIDE DEF added
  <2> QED
    BY <1>1, <2>1
<1>10. \A x \in clauses : x.op = "add index" => after.indexes[x.name] = x.index
  BY <1>7
<1> HIDE DEF added, keys
<1> QED
  BY <1>6, <1>8, <1>9, <1>10 DEF after

\* An AUTO_INCREMENT column the ALTER leaves alone leads the key it led.
LEMMA LeadersStay ==
  ASSUME NEW v \in Versions, NEW t, OneColumnPerField(t.cols), KeysFit(t),
         NEW clauses, IsPart(v, t, clauses),
         NEW n \in Untouched(v, t.cols, clauses), LeadsAKey(t, n)
  PROVE  LeadsAKey(Altered(t, clauses), n)
<1> DEFINE after == Altered(t, clauses)
<1>1. OfColumns(clauses) \subseteq FieldClauses(v, t.cols)
  BY PartsOfPlans
<1>2. NewName(clauses, n) = n
  <2>1. n \notin Replaced(clauses)
    BY <1>1, ClausesOfFields
  <2> QED
    BY <2>1 DEF NewName
<1>3. /\ \A i \in DOMAIN t.indexes : i \in DOMAIN after.indexes
      /\ \A i \in DOMAIN t.indexes :
           after.indexes[i].cols = Renamed(clauses, t.indexes[i].cols)
      /\ AddPrimaryKey(v.pk) \notin clauses => after.pk = Renamed(clauses, t.pk)
  <2>1. /\ \A i : i \in DOMAIN after.indexes <=>
             \/ i \in DOMAIN t.indexes
             \/ \E x \in clauses : x.op = "add index" /\ x.name = i
        /\ \A i \in DOMAIN t.indexes :
             /\ "cols" \in DOMAIN after.indexes[i]
             /\ after.indexes[i].cols = Renamed(clauses, t.indexes[i].cols)
        /\ \A x \in clauses : x.op = "add index" => after.indexes[x.name] = x.index
        /\ after.pk = IF AddPrimaryKey(v.pk) \in clauses THEN v.pk ELSE Renamed(clauses, t.pk)
    BY AlteredIndexes
  <2> HIDE DEF after
  <2> QED
    BY <2>1
<1> HIDE DEF after
<1>4. CASE t.pk # <<>> /\ t.pk[1] = n
  <2>1. t.pk \in Seq(DOMAIN t.cols) /\ 1 \in DOMAIN t.pk
    BY <1>4 DEF KeysFit
  <2>2. AddPrimaryKey(v.pk) \notin clauses
    <3>1. AddPrimaryKey(v.pk).op = "add primary key"
      BY DEF AddPrimaryKey
    <3> QED
      BY <1>4, <3>1, PartsOfPlans DEF NeedsPrimaryKey
  <2>3. Renamed(clauses, t.pk) # <<>> /\ Renamed(clauses, t.pk)[1] = NewName(clauses, t.pk[1])
    BY <1>1, <1>4, <2>1, KeysFollow
  <2>4. after.pk # <<>> /\ after.pk[1] = n
    BY <1>2, <1>3, <1>4, <2>2, <2>3
  <2> QED
    BY <2>4 DEF LeadsAKey, after
<1>5. ASSUME NEW i \in DOMAIN t.indexes, t.indexes[i].cols[1] = n
      PROVE  LeadsAKey(after, n)
  <2> DEFINE key == t.indexes[i].cols
  <2>1. key \in Seq(DOMAIN t.cols) /\ 1 \in DOMAIN key
    <3>1. key \in Seq(DOMAIN t.cols) \ {<<>>}
      BY DEF KeysFit
    <3> HIDE DEF key
    <3> QED
      BY <3>1
  <2>2. key[1] = n
    BY <1>5
  <2> HIDE DEF key
  <2>3. Renamed(clauses, key)[1] = NewName(clauses, key[1])
    <3>1. /\ Renamed(clauses, key) \in Seq(DOMAIN Altered(t, clauses).cols)
          /\ DOMAIN Renamed(clauses, key) = DOMAIN key
          /\ \A j \in DOMAIN key : Renamed(clauses, key)[j] = NewName(clauses, key[j])
          /\ Renamed(clauses, key) = <<>> <=> key = <<>>
      BY <1>1, <2>1, KeysFollow
    <3> QED
      BY <2>1, <3>1
  <2> QED
    BY <1>2, <1>3, <2>2, <2>3 DEF LeadsAKey, key
<1> QED
  BY <1>4, <1>5 DEF LeadsAKey, after

\* The AUTO_INCREMENT field leads a key of the altered table, where the keys it leads in the
\* version are there.
LEMMA FieldLeads ==
  ASSUME NEW v \in Versions, NEW after, ~KeysDrift(v, after),
         NEW f \in ToSet(v.fields), f.attrs = "auto",
         v.pk # <<>> /\ v.pk[1] = f.name => ~NeedsPrimaryKey(v, after),
         \A i \in DOMAIN v.indexes : v.indexes[i].cols[1] = f.name => i \in DOMAIN after.indexes
  PROVE  LeadsAKey(after, f.name)
<1>1. LeadsAKey(v, f.name)
  BY SyncAssumption DEF IsVersion
<1>2. CASE v.pk # <<>> /\ v.pk[1] = f.name
  BY <1>2 DEF LeadsAKey, KeysDrift, NeedsPrimaryKey
<1>3. ASSUME NEW i \in DOMAIN v.indexes, v.indexes[i].cols[1] = f.name
      PROVE  LeadsAKey(after, f.name)
  BY <1>3 DEF LeadsAKey, KeysDrift
<1> QED
  BY <1>1, <1>2, <1>3 DEF LeadsAKey

\* The columns of the keys an ALTER adds are there, and the AUTO_INCREMENT field leads a key.
KeysAreServed(v, t, clauses) ==
  LET after == Altered(t, clauses)
  IN /\ \A x \in clauses : x.op = "add index" => ToSet(x.index.cols) \subseteq DOMAIN after.cols
     /\ AddPrimaryKey(v.pk) \in clauses => ToSet(v.pk) \subseteq DOMAIN after.cols
     /\ \A f \in Done(v, t.cols, clauses) : f.attrs = "auto" => LeadsAKey(after, f.name)

\* That is what MySQL needs to execute an ALTER that is part of a plan.
LEMMA PartExecutes ==
  ASSUME NEW v \in Versions, NEW t, Exists(t), OneColumnPerField(t.cols), KeysFit(t),
         NEW clauses, IsPart(v, t, clauses),
         KeysAreServed(v, t, clauses)
  PROVE  Executes(t, clauses)
<1> DEFINE after == Altered(t, clauses)
           there == DOMAIN after.cols
           done == Done(v, t.cols, clauses)
           kept == Untouched(v, t.cols, clauses)
<1>1. /\ OfColumns(clauses) \subseteq FieldClauses(v, t.cols)
      /\ \A x \in clauses : x.op = "add index" => x \in Missing(v, t)
      /\ \A x \in clauses : x.op = "add primary key" =>
           x = AddPrimaryKey(v.pk) /\ NeedsPrimaryKey(v, t)
  BY PartsOfPlans
<1>2. /\ OfColumns(clauses) = {ClauseFor(t.cols, f) : f \in done}
      /\ Replaced(clauses) = UNION {Own(t.cols, f) : f \in done}
      /\ DOMAIN t.cols \ Replaced(clauses) = kept
      /\ \A f \in done : f.name \notin kept
  BY <1>1, ClausesOfFields
<1>3. \A f \in done : f \in ToSet(v.fields) /\ ClauseFor(t.cols, f).name = f.name
  BY ClauseForFields DEF Done
<1>4. /\ DOMAIN after.cols = kept \cup {f.name : f \in done}
      /\ \A n \in kept : after.cols[n] = t.cols[n]
      /\ \A f \in done : after.cols[f.name] = Written(t.cols, f)
  <2>1. OfColumns(clauses) \subseteq FieldClauses(v, t.cols)
    BY <1>1
  <2> QED
    BY <2>1, AlteredColumns
<1>5. kept \subseteq DOMAIN t.cols
  BY DEF Untouched
<1>6. Replaced(clauses) \subseteq DOMAIN t.cols
  <2>1. \A f \in done : Own(t.cols, f) \subseteq DOMAIN t.cols
    BY DEF Own
  <2> HIDE DEF done
  <2> QED
    BY <1>2, <2>1
<1>7. /\ \A i : i \in DOMAIN after.indexes <=>
           \/ i \in DOMAIN t.indexes
           \/ \E x \in clauses : x.op = "add index" /\ x.name = i
      /\ \A i \in DOMAIN t.indexes :
           /\ "cols" \in DOMAIN after.indexes[i]
           /\ after.indexes[i].cols = Renamed(clauses, t.indexes[i].cols)
      /\ \A x \in clauses : x.op = "add index" => after.indexes[x.name] = x.index
      /\ after.pk = IF AddPrimaryKey(v.pk) \in clauses THEN v.pk ELSE Renamed(clauses, t.pk)
  BY AlteredIndexes
<1>8. /\ \A x \in clauses : x.op = "add index" => ToSet(x.index.cols) \subseteq there
      /\ AddPrimaryKey(v.pk) \in clauses => ToSet(v.pk) \subseteq there
      /\ \A f \in done : f.attrs = "auto" => LeadsAKey(after, f.name)
  BY DEF KeysAreServed
<1>9. \A key \in Seq(DOMAIN t.cols) :
        /\ Renamed(clauses, key) \in Seq(there)
        /\ Renamed(clauses, key) = <<>> <=> key = <<>>
  <2> TAKE key \in Seq(DOMAIN t.cols)
  <2>1. OfColumns(clauses) \subseteq FieldClauses(v, t.cols)
    BY <1>1
  <2>2. /\ Renamed(clauses, key) \in Seq(DOMAIN Altered(t, clauses).cols)
        /\ DOMAIN Renamed(clauses, key) = DOMAIN key
        /\ \A i \in DOMAIN key : Renamed(clauses, key)[i] = NewName(clauses, key[i])
        /\ Renamed(clauses, key) = <<>> <=> key = <<>>
    BY <2>1, KeysFollow
  <2> QED
    BY <2>2
<1> HIDE DEF done, kept, after, there
<1>10. \A c, d \in OfColumns(clauses) : c # d => c.name # d.name
  <2>1. \A f, g \in done : f.name = g.name => f = g
    BY <1>3, FieldsOfVersions
  <2> QED
    BY <1>2, <1>3, <2>1
<1>11. \A c \in OfColumns(clauses) : c.name \notin kept
  BY <1>2, <1>3
<1>12. \A c \in clauses : c.op = "add index" => c.name \notin DOMAIN t.indexes
  BY <1>1, MissingIndexes
<1>13. \A c \in clauses : c.op = "add primary key" => t.pk = <<>>
  BY <1>1 DEF NeedsPrimaryKey
<1>14. ASSUME NEW key \in Seq(FieldNames(v)), ToSet(key) \subseteq there
       PROVE  key \in Seq(there)
  <2>1. Len(key) \in Nat /\ DOMAIN key = 1..Len(key) /\ key \in [1..Len(key) -> FieldNames(v)]
    OBVIOUS
  <2>2. \A i \in 1..Len(key) : key[i] \in there
    BY <1>14, <2>1 DEF ToSet
  <2>3. key \in [1..Len(key) -> there]
    BY <2>1, <2>2
  <2> QED
    BY <2>1, <2>3
<1>15. after.pk \in Seq(there)
  <2>1. v.pk \in Seq(FieldNames(v))
    BY SyncAssumption DEF IsVersion
  <2>2. t.pk \in Seq(DOMAIN t.cols)
    BY DEF KeysFit
  <2>3. Renamed(clauses, t.pk) \in Seq(there)
    BY <1>9, <2>2
  <2> QED
    BY <1>7, <1>14, <1>8, <2>1, <2>3
<1>16. ASSUME NEW i \in DOMAIN after.indexes
       PROVE  /\ "cols" \in DOMAIN after.indexes[i]
              /\ after.indexes[i].cols \in Seq(there) \ {<<>>}
  <2>1. CASE i \in DOMAIN t.indexes
    <3>1. t.indexes[i].cols \in Seq(DOMAIN t.cols) \ {<<>>}
      BY <2>1 DEF KeysFit
    <3>2. Renamed(clauses, t.indexes[i].cols) \in Seq(there) \ {<<>>}
      BY <1>9, <3>1
    <3>3. /\ "cols" \in DOMAIN after.indexes[i]
          /\ after.indexes[i].cols = Renamed(clauses, t.indexes[i].cols)
      BY <1>7, <2>1
    <3> QED
      BY <3>2, <3>3
  <2>2. CASE i \notin DOMAIN t.indexes
    <3>1. PICK x \in clauses : x.op = "add index" /\ x.name = i
      BY <1>7, <2>2
    <3>2. x.name \in DOMAIN v.indexes /\ x.index = v.indexes[x.name]
      <4>1. x \in Missing(v, t)
        BY <1>1, <3>1
      <4>2. x.name \in DOMAIN v.indexes \ DOMAIN t.indexes /\ x.index = v.indexes[x.name]
        BY <4>1, MissingIndexes
      <4> QED
        BY <4>2
    <3>3. x.index \in [cols : Seq(FieldNames(v)) \ {<<>>}, unique : BOOLEAN]
      <4>1. \A j \in DOMAIN v.indexes :
              v.indexes[j] \in [cols : Seq(FieldNames(v)) \ {<<>>}, unique : BOOLEAN]
        BY SyncAssumption DEF IsVersion
      <4> QED
        BY <3>2, <4>1
    <3>4. "cols" \in DOMAIN x.index /\ x.index.cols \in Seq(FieldNames(v)) \ {<<>>}
      BY <3>3
    <3>5. x.index.cols \in Seq(there) \ {<<>>}
      BY <1>14, <1>8, <3>1, <3>4
    <3>6. after.indexes[i] = x.index
      BY <1>7, <3>1
    <3> QED
      BY <3>4, <3>5, <3>6
  <2> QED
    BY <2>1, <2>2
<1>17. ASSUME NEW n \in there, after.cols[n].attrs = "auto"
       PROVE  LeadsAKey(after, n)
  <2>1. CASE n \in kept
    <3>1. n \in DOMAIN t.cols /\ t.cols[n].attrs = "auto"
      BY <1>4, <1>5, <1>17, <2>1
    <3>2. LeadsAKey(t, n)
      BY <3>1 DEF KeysFit
    <3> QED
      BY <2>1, <3>2, LeadersStay DEF kept, after
  <2>2. CASE n \notin kept
    <3>1. PICK f \in done : n = f.name
      BY <1>4, <2>2 DEF there
    <3>2. after.cols[f.name] = Written(t.cols, f)
      BY <1>4
    <3>3. f.attrs = "auto"
      <4>1. Written(t.cols, f).attrs = f.attrs
        BY DEF Written
      <4> QED
        BY <1>17, <3>1, <3>2, <4>1
    <3> QED
      BY <1>8, <3>1, <3>3
  <2> QED
    BY <2>1, <2>2
<1>18. KeysFit(after)
  BY <1>15, <1>16, <1>17 DEF KeysFit, there
<1> QED
  BY <1>2, <1>6, <1>10, <1>11, <1>12, <1>13, <1>18 DEF Executes, after

\* The columns of an index of a version are fields of it.
LEMMA IndexesHaveFields ==
  ASSUME NEW v \in Versions, NEW t, NEW x \in Missing(v, t), NEW n \in ToSet(x.index.cols)
  PROVE  \E f \in ToSet(v.fields) : f.name = n
<1>1. x.name \in DOMAIN v.indexes \ DOMAIN t.indexes /\ x.index = v.indexes[x.name]
  BY MissingIndexes
<1>2. v.indexes[x.name] \in [cols : Seq(FieldNames(v)) \ {<<>>}, unique : BOOLEAN]
  BY <1>1, SyncAssumption DEF IsVersion
<1>3. x.index.cols \in Seq(FieldNames(v))
  BY <1>1, <1>2
<1>4. n \in FieldNames(v)
  BY <1>3 DEF ToSet
<1> QED
  BY <1>4 DEF FieldNames

\* The index an AUTO_INCREMENT field leads is there after an ALTER that has the clause of
\* the index or follows on one.
LEMMA LedIndexIsThere ==
  ASSUME NEW v \in Versions, NEW t, NEW after, NEW clauses,
         Missing(v, after) = Missing(v, t) \ clauses,
         NEW i \in DOMAIN v.indexes, AddIndex(i, v.indexes[i]) \in Missing(v, t)
                                       => AddIndex(i, v.indexes[i]) \in clauses
  PROVE  i \in DOMAIN after.indexes
<1>1. AddIndex(i, v.indexes[i]) \notin Missing(v, after)
  OBVIOUS
<1> QED
  BY <1>1 DEF Missing

\* A version has one AUTO_INCREMENT field at most.
LEMMA OneAutoField ==
  ASSUME NEW v \in Versions, NEW f \in ToSet(v.fields), NEW g \in ToSet(v.fields),
         f.attrs = "auto", g.attrs = "auto"
  PROVE  f = g
<1>1. \A i, j \in DOMAIN v.fields :
        i # j /\ v.fields[i].attrs = "auto" => v.fields[j].attrs # "auto"
  BY SyncAssumption DEF IsVersion
<1>2. \A h \in ToSet(v.fields) : \E i \in DOMAIN v.fields : v.fields[i] = h
  BY FieldsOfVersions
<1>3. PICK i \in DOMAIN v.fields : v.fields[i] = f
  BY <1>2
<1>4. PICK j \in DOMAIN v.fields : v.fields[j] = g
  BY <1>2
<1> QED
  BY <1>1, <1>3, <1>4

\* The first ALTER has what its keys need,
LEMMA FirstIsServed ==
  ASSUME NEW v \in Versions, NEW t, Plannable(v, t)
  PROVE  KeysAreServed(v, t, First(v, t))
<1> DEFINE clauses == First(v, t)
           after == Altered(t, clauses)
<1>1. IsPart(v, t, clauses)
  BY PlansAreParts
<1>2. OfColumns(clauses) \subseteq FieldClauses(v, t.cols)
  BY <1>1, PartsOfPlans
<1>3. OneColumnPerField(t.cols)
  BY DEF Plannable
<1>4. /\ ~KeysDrift(v, after) /\ Missing(v, after) = Missing(v, t) \ clauses
      /\ NeedsPrimaryKey(v, after) <=>
           NeedsPrimaryKey(v, t) /\ AddPrimaryKey(v.pk) \notin clauses
  BY <1>1, AlteredKeys DEF Plannable
<1>5. /\ \A x \in FieldClauses(v, t.cols) : x.op \in {"add column", "change column"}
      /\ \A x \in Missing(v, t) : x.op = "add index"
      /\ AddPrimaryKey(v.pk).op = "add primary key"
  BY KindsOfClauses
<1>6. AddPrimaryKey(v.pk) \notin clauses
  BY <1>5 DEF First
<1>7. ASSUME NEW x \in clauses, x.op = "add index", NEW n \in ToSet(x.index.cols)
      PROVE  n \in DOMAIN after.cols
  <2>1. x \in Missing(v, t) \ Late(v, t)
    BY <1>5, <1>7 DEF First
  <2>2. PICK f \in ToSet(v.fields) : f.name = n
    BY <1>7, <2>1, IndexesHaveFields
  <2>3. ClauseFor(t.cols, f) \notin Waiting(v, t)
    <3>1. ClauseFor(t.cols, f).name = n
      BY <2>2, ClauseForFields
    <3> QED
      BY <1>7, <2>1, <3>1 DEF Late
  <2>4. IsAligned(t.cols, f) \/ ClauseFor(t.cols, f) \in clauses
    BY <2>3 DEF First, FieldClauses
  <2> HIDE DEF clauses
  <2> QED
    BY <1>2, <1>3, <2>2, <2>4, FieldIsThere
<1>8. ASSUME NEW f \in Done(v, t.cols, clauses), f.attrs = "auto"
      PROVE  LeadsAKey(after, f.name)
  <2>1. f \in ToSet(v.fields) /\ ClauseFor(t.cols, f) \in clauses
    BY DEF Done
  <2>2. ClauseFor(t.cols, f) \notin Waiting(v, t)
    <3>1. ClauseFor(t.cols, f).op \in {"add column", "change column"}
      BY ClauseForFields
    <3>2. ClauseFor(t.cols, f) \notin Missing(v, t)
      BY <1>5, <3>1
    <3> QED
      BY <2>1, <3>2 DEF First
  <2>3. ClauseFor(t.cols, f).attrs = "auto" /\ ClauseFor(t.cols, f).name = f.name
    BY <1>8, ClauseForFields
  <2>4. ClauseFor(t.cols, f) \in FieldClauses(v, t.cols)
    BY <2>1 DEF FieldClauses, Done
  <2>5. ~NeedsPrimaryKey(v, t) \/ f.name \notin ToSet(v.pk)
    BY <2>2, <2>3, <2>4 DEF Waiting, WaitsForKey
  <2>6. v.pk # <<>> /\ v.pk[1] = f.name => ~NeedsPrimaryKey(v, after)
    <3>1. v.pk \in Seq(FieldNames(v))
      BY SyncAssumption DEF IsVersion
    <3>2. v.pk # <<>> /\ v.pk[1] = f.name => f.name \in ToSet(v.pk)
      BY <3>1 DEF ToSet
    <3> QED
      BY <1>4, <2>5, <3>2
  <2>7. Waiting(v, t) = {}
    <3> SUFFICES ASSUME NEW c \in Waiting(v, t) PROVE FALSE
      OBVIOUS
    <3>1. c \in FieldClauses(v, t.cols) /\ c.attrs = "auto"
      BY DEF Waiting, WaitsForKey
    <3>2. PICK g \in ToSet(v.fields) : c = ClauseFor(t.cols, g)
      BY <3>1 DEF FieldClauses
    <3>3. g.attrs = "auto"
      BY <3>1, <3>2, ClauseForFields
    <3>4. g = f
      BY <1>8, <2>1, <3>3, OneAutoField
    <3> QED
      BY <2>2, <3>2, <3>4
  <2>8. ASSUME NEW i \in DOMAIN v.indexes, v.indexes[i].cols[1] = f.name
        PROVE  i \in DOMAIN after.indexes
    <3> DEFINE x == AddIndex(i, v.indexes[i])
    <3>1. \A c \in Waiting(v, t) : c.name \notin ToSet(x.index.cols)
      BY <2>7
    <3>2. x \in Missing(v, t) => x \in clauses
      BY <3>1 DEF Late, First
    <3> HIDE DEF clauses, after
    <3> QED
      BY <1>4, <3>2, LedIndexIsThere
  <2> HIDE DEF after
  <2> QED
    BY <1>4, <1>8, <2>1, <2>6, <2>8, FieldLeads
<1> QED
  BY <1>6, <1>7, <1>8 DEF KeysAreServed

\* and so does the second.
LEMMA SecondIsServed ==
  ASSUME NamesAreKept, NEW v \in Versions, NEW t, Plannable(v, t),
         First(v, t) = {}, Second(v, t) # {}
  PROVE  KeysAreServed(v, t, Second(v, t))
<1> DEFINE clauses == Second(v, t)
           after == Altered(t, clauses)
<1>1. IsPart(v, t, clauses)
  BY PlansAreParts
<1>2. OfColumns(clauses) \subseteq FieldClauses(v, t.cols)
  BY <1>1, PartsOfPlans
<1>3. OneColumnPerField(t.cols)
  BY DEF Plannable
<1>4. /\ ~KeysDrift(v, after) /\ Missing(v, after) = Missing(v, t) \ clauses
      /\ NeedsPrimaryKey(v, after) <=>
           NeedsPrimaryKey(v, t) /\ AddPrimaryKey(v.pk) \notin clauses
  BY <1>1, AlteredKeys DEF Plannable
<1>5. /\ clauses = Waiting(v, t) \cup {AddPrimaryKey(v.pk)} \cup Late(v, t)
      /\ FieldClauses(v, t.cols) \subseteq Waiting(v, t)
      /\ Missing(v, t) \subseteq Late(v, t)
  BY DEF First, Second
<1> HIDE DEF clauses, after
<1>6. \A f \in ToSet(v.fields) : f.name \in DOMAIN after.cols
  <2> TAKE f \in ToSet(v.fields)
  <2>1. IsAligned(t.cols, f) \/ ClauseFor(t.cols, f) \in clauses
    BY <1>5 DEF FieldClauses
  <2> QED
    BY <1>2, <1>3, <2>1, FieldIsThere DEF after
<1>7. ASSUME NEW x \in clauses, x.op = "add index", NEW n \in ToSet(x.index.cols)
      PROVE  n \in DOMAIN after.cols
  <2>1. x \in Missing(v, t)
    BY <1>1, <1>7, PartsOfPlans
  <2> QED
    BY <1>6, <1>7, <2>1, IndexesHaveFields
<1>8. ToSet(v.pk) \subseteq DOMAIN after.cols
  <2>1. v.pk \in Seq(FieldNames(v))
    BY SyncAssumption DEF IsVersion
  <2>2. ToSet(v.pk) \subseteq FieldNames(v)
    BY <2>1 DEF ToSet
  <2> QED
    BY <1>6, <2>2 DEF FieldNames
<1>9. ASSUME NEW f \in Done(v, t.cols, clauses), f.attrs = "auto"
      PROVE  LeadsAKey(after, f.name)
  <2>1. f \in ToSet(v.fields)
    BY DEF Done
  <2>2. ~NeedsPrimaryKey(v, after)
    BY <1>4, <1>5
  <2>3. \A i \in DOMAIN v.indexes : i \in DOMAIN after.indexes
    <3> TAKE i \in DOMAIN v.indexes
    <3>1. AddIndex(i, v.indexes[i]) \in Missing(v, t) => AddIndex(i, v.indexes[i]) \in clauses
      BY <1>5
    <3>2. Missing(v, after) = Missing(v, t) \ clauses
      BY <1>4
    <3> QED
      BY <3>1, <3>2, LedIndexIsThere
  <2> QED
    BY <1>4, <1>9, <2>1, <2>2, <2>3, FieldLeads
<1> QED
  BY <1>7, <1>8, <1>9 DEF KeysAreServed, after, clauses

\* MySQL executes what planSchemaAlignment plans.
LEMMA FirstExecutes ==
  ASSUME NEW v \in Versions, NEW t, Exists(t), HasTypes(t.cols), OneColumnPerField(t.cols),
         KeysFit(t), NEW e \in BOOLEAN, ~Plan(v, t, e).refused
  PROVE  Executes(t, Plan(v, t, e).columns)
<1>1. Plannable(v, t) /\ Plan(v, t, e).columns = First(v, t)
  BY PlannableTables
<1>2. IsPart(v, t, First(v, t)) /\ KeysAreServed(v, t, First(v, t))
  BY <1>1, PlansAreParts, FirstIsServed
<1> QED
  BY <1>1, <1>2, PartExecutes

\* The same of the second ALTER, once the first has nothing left to do.
LEMMA SecondExecutes ==
  ASSUME NamesAreKept, NEW v \in Versions, NEW t, Exists(t), HasTypes(t.cols),
         OneColumnPerField(t.cols), KeysFit(t), NEW e \in BOOLEAN, ~Plan(v, t, e).refused,
         Plan(v, t, e).columns = {}, Plan(v, t, e).primaryKey # {}
  PROVE  Executes(t, Plan(v, t, e).primaryKey)
<1>1. /\ Plannable(v, t)
      /\ Plan(v, t, e).columns = First(v, t) /\ Plan(v, t, e).primaryKey = Second(v, t)
  BY PlannableTables
<1>2. IsPart(v, t, Second(v, t)) /\ KeysAreServed(v, t, Second(v, t))
  BY <1>1, PlansAreParts, SecondIsServed
<1> QED
  BY <1>1, <1>2, PartExecutes

\* A table just created has one column for each field and the version's keys.
LEMMA CreatedFits ==
  ASSUME NamesAreKept, NEW v \in Versions, NEW t, ~Exists(t)
  PROVE  /\ Exists(Created(v, t)) /\ KeysFit(Created(v, t))
         /\ OneColumnPerField(Created(v, t).cols)
<1> DEFINE clauses == {AddColumn(v.fields[i]) : i \in DOMAIN v.fields}
           fresh == Altered(NoTable, clauses).cols
           created == Created(v, t)
<1>1. created = [cols |-> fresh, pk |-> v.pk, indexes |-> v.indexes]
  BY DEF Created
<1>2. \A f : Own(NoTable.cols, f) = {} /\ ~IsAligned(NoTable.cols, f)
  BY DEF NoTable, Own, IsAligned
<1>3. \A f : ClauseFor(NoTable.cols, f) = AddColumn(f)
  BY <1>2 DEF ClauseFor
<1>4. FieldClauses(v, NoTable.cols) = clauses
  <2>1. /\ \A i \in DOMAIN v.fields : v.fields[i] \in ToSet(v.fields)
        /\ \A f \in ToSet(v.fields) : \E i \in DOMAIN v.fields : v.fields[i] = f
    BY FieldsOfVersions
  <2>2. {g \in ToSet(v.fields) : ~IsAligned(NoTable.cols, g)} = ToSet(v.fields)
    BY <1>2
  <2> DEFINE additions == {AddColumn(f) : f \in ToSet(v.fields)}
  <2>3. FieldClauses(v, NoTable.cols) = additions
    BY <1>3, <2>2 DEF FieldClauses
  <2>4. additions = clauses
    BY <2>1
  <2> HIDE DEF additions, clauses
  <2> QED
    BY <2>3, <2>4
<1>5. OneColumnPerField(NoTable.cols)
  BY DEF OneColumnPerField, NoTable
<1> HIDE DEF clauses
<1>6. OfColumns(clauses) \subseteq FieldClauses(v, NoTable.cols)
  BY <1>4 DEF OfColumns
<1>7. OneColumnPerField(fresh)
  BY <1>5, <1>6, OneColumnStays
<1>8. Done(v, NoTable.cols, clauses) = ToSet(v.fields)
  BY <1>2, <1>4 DEF Done, FieldClauses
<1>9. Untouched(v, NoTable.cols, clauses) = {}
  BY DEF Untouched, NoTable
<1>10. /\ DOMAIN fresh = {} \cup {f.name : f \in ToSet(v.fields)}
       /\ \A f \in ToSet(v.fields) : fresh[f.name] = Written(NoTable.cols, f)
  <2>1. /\ DOMAIN fresh = Untouched(v, NoTable.cols, clauses)
                            \cup {f.name : f \in Done(v, NoTable.cols, clauses)}
        /\ \A n \in Untouched(v, NoTable.cols, clauses) : fresh[n] = NoTable.cols[n]
        /\ \A f \in Done(v, NoTable.cols, clauses) : fresh[f.name] = Written(NoTable.cols, f)
    BY <1>5, <1>6, AlteredColumns
  <2> QED
    BY <1>8, <1>9, <2>1
<1>11. \A f \in ToSet(v.fields) : fresh[f.name].attrs = f.attrs
  <2>1. \A f : Written(NoTable.cols, f).attrs = f.attrs
    BY DEF Written
  <2> QED
    BY <1>10, <2>1
<1> HIDE DEF fresh
<1>12. DOMAIN fresh = FieldNames(v)
  BY <1>10 DEF FieldNames
<1>13. DOMAIN fresh # {}
  <2>1. Len(v.fields) \in Nat \ {0} /\ DOMAIN v.fields = 1..Len(v.fields)
    BY FieldsOfVersions
  <2>2. v.fields[1] \in ToSet(v.fields)
    BY <2>1 DEF ToSet
  <2> QED
    BY <1>10, <2>2
<1>14. /\ v.pk \in Seq(DOMAIN fresh)
       /\ \A i \in DOMAIN v.indexes : /\ "cols" \in DOMAIN v.indexes[i]
                                      /\ v.indexes[i].cols \in Seq(DOMAIN fresh) \ {<<>>}
  <2>1. /\ v.pk \in Seq(FieldNames(v))
        /\ \A i \in DOMAIN v.indexes :
             v.indexes[i] \in [cols : Seq(FieldNames(v)) \ {<<>>}, unique : BOOLEAN]
    BY SyncAssumption DEF IsVersion
  <2> QED
    BY <1>12, <2>1
<1>15. ASSUME NEW n \in DOMAIN fresh, fresh[n].attrs = "auto"
       PROVE  LeadsAKey(created, n)
  <2>1. PICK f \in ToSet(v.fields) : n = f.name
    BY <1>10
  <2>2. LeadsAKey(v, n)
    BY <1>11, <1>15, <2>1, SyncAssumption DEF IsVersion
  <2> HIDE DEF created
  <2> QED
    BY <1>1, <2>2 DEF LeadsAKey
<1> HIDE DEF created
<1>16. KeysFit(created)
  BY <1>1, <1>14, <1>15 DEF KeysFit
<1> QED
  BY <1>1, <1>7, <1>13, <1>16 DEF Exists, created

-----------------------------------------------------------------------------
(***************************************************************************)
(* Synchronisations under the lock, where no name is used for two fields:  *)
(* the owner's ALTERs are those its version plans for the table as it is,  *)
(* and what a client leaves behind is an ALTER some version plans for it.  *)
(***************************************************************************)
PlanIsCurrent(c) ==
  LET now == PlanOf(c, table)
  IN /\ ~now.refused /\ plan[c].columns = now.columns /\ plan[c].primaryKey = now.primaryKey
     /\ pc[c] = "primary" => plan[c].columns = {}

\* What the owner of the lock knows of the table.
Knows(c) ==
  /\ pc[c] \in {"columns", "keys", "alter", "primary"} => Exists(table)
  /\ pc[c] \in {"alter", "primary"} => PlanIsCurrent(c)
  /\ pc[c] = "release" /\ result[c] = "ok" => IsSettled(version[c], table)

\* The ALTER that comes next in the plan of a version.
IsPlanned(clauses, t) ==
  \E v \in Versions, e \in BOOLEAN :
    LET now == Plan(v, t, e)
    IN /\ ~now.refused
       /\ \/ clauses = now.columns
          \/ now.columns = {} /\ clauses = now.primaryKey

Settling ==
  locks =>
    /\ OneColumnPerField(table.cols) /\ KeysFit(table)
    /\ \A c \in Callers : lock = c => Knows(c)
    /\ \A clauses \in orphans : IsPlanned(clauses, table)

\* A planned ALTER leaves one column for every field, and what MySQL executes leaves keys
\* that fit.
LEMMA PlannedAlters ==
  ASSUME NamesAreKept, NEW t, HasTypes(t.cols), OneColumnPerField(t.cols), KeysFit(t),
         NEW clauses, IsPlanned(clauses, t)
  PROVE  /\ OneColumnPerField(Altered(t, clauses).cols)
         /\ Executes(t, clauses) => KeysFit(Altered(t, clauses))
<1>1. PICK v \in Versions, e \in BOOLEAN :
        /\ ~Plan(v, t, e).refused
        /\ clauses = Plan(v, t, e).columns \/ clauses = Plan(v, t, e).primaryKey
  BY DEF IsPlanned
<1>2. Plan(v, t, e).columns = First(v, t) /\ Plan(v, t, e).primaryKey = Second(v, t)
  BY PlanByField
<1>3. IsPart(v, t, clauses)
  BY <1>1, <1>2, PlansAreParts
<1>4. OfColumns(clauses) \subseteq FieldClauses(v, t.cols)
  BY <1>3, PartsOfPlans
<1> QED
  BY <1>4, OneColumnStays DEF Executes

\* The owner's next ALTER is planned,
LEMMA NextAlterIsPlanned ==
  ASSUME Places, NEW c \in Callers, pc[c] \in {"alter", "primary"}, PlanIsCurrent(c)
  PROVE  IsPlanned(Ddl(c), table)
<1>1. version[c] \in Versions /\ version[c].expandOnly \in BOOLEAN
  BY SyncAssumption DEF Places
<1> QED
  BY <1>1 DEF PlanIsCurrent, PlanOf, IsPlanned, Ddl

\* and MySQL executes it.
LEMMA NextAlterExecutes ==
  ASSUME NamesAreKept, Places, NEW c \in Callers, pc[c] \in {"alter", "primary"},
         PlanIsCurrent(c), Exists(table), HasTypes(table.cols), OneColumnPerField(table.cols),
         KeysFit(table)
  PROVE  Executes(table, Ddl(c))
<1> DEFINE now == PlanOf(c, table)
<1>1. version[c] \in Versions /\ version[c].expandOnly \in BOOLEAN
  BY SyncAssumption DEF Places
<1>2. ~now.refused /\ plan[c].columns = now.columns /\ plan[c].primaryKey = now.primaryKey
  BY DEF PlanIsCurrent
<1>3. CASE pc[c] = "alter"
  <2>1. Executes(table, now.columns)
    BY <1>1, <1>2, FirstExecutes DEF PlanOf
  <2> QED
    BY <1>2, <1>3, <2>1 DEF Ddl
<1>4. CASE pc[c] = "primary"
  <2>1. now.columns = {} /\ now.primaryKey # {}
    BY <1>2, <1>4 DEF PlanIsCurrent, Places
  <2>2. Executes(table, now.primaryKey)
    BY <1>1, <1>2, <2>1, SecondExecutes DEF PlanOf
  <2> QED
    BY <1>2, <1>4, <2>2 DEF Ddl
<1> QED
  BY <1>3, <1>4

\* After the ALTER the version plans what the synchronisation has still to send.
LEMMA AlterMovesOn ==
  ASSUME NamesAreKept, Places, NEW c \in Callers, pc[c] \in {"alter", "primary"},
         PlanIsCurrent(c), HasTypes(table.cols), OneColumnPerField(table.cols), KeysFit(table)
  PROVE  LET now == PlanOf(c, Altered(table, Ddl(c)))
         IN /\ ~now.refused /\ now.columns = {}
            /\ now.primaryKey = IF pc[c] = "alter" THEN plan[c].primaryKey ELSE {}
<1> DEFINE v == version[c]
           e == version[c].expandOnly
           before == Plan(v, table, e)
<1>1. v \in Versions /\ e \in BOOLEAN
  BY SyncAssumption DEF Places
<1>2. \A t : PlanOf(c, t) = Plan(v, t, e)
  BY DEF PlanOf
<1>3. /\ ~before.refused
      /\ plan[c].columns = before.columns /\ plan[c].primaryKey = before.primaryKey
      /\ pc[c] = "primary" => plan[c].columns = {}
  BY <1>2 DEF PlanIsCurrent
<1> HIDE DEF v, e
<1>4. CASE pc[c] = "alter"
  <2>1. LET now == Plan(v, Altered(table, before.columns), e)
        IN ~now.refused /\ now.columns = {} /\ now.primaryKey = before.primaryKey
    BY <1>1, <1>3, PlanAfterFirst
  <2>2. Ddl(c) = before.columns
    BY <1>3, <1>4 DEF Ddl
  <2> HIDE DEF before
  <2> QED
    BY <1>2, <1>3, <1>4, <2>1, <2>2
<1>5. CASE pc[c] = "primary"
  <2>1. before.columns = {} /\ before.primaryKey # {}
    BY <1>3, <1>5 DEF Places
  <2>2. LET now == Plan(v, Altered(table, before.primaryKey), e)
        IN ~now.refused /\ now.columns = {} /\ now.primaryKey = {}
    BY <1>1, <1>3, <2>1, PlanAfterSecond
  <2>3. Ddl(c) = before.primaryKey
    BY <1>3, <1>5 DEF Ddl
  <2> HIDE DEF before
  <2> QED
    BY <1>2, <1>3, <1>5, <2>2, <2>3
<1> QED
  BY <1>4, <1>5

\* At first no field has two columns and nobody owns the lock.
LEMMA InitSettling == NamesAreKept /\ Init => Settling
BY SyncAssumption DEF NamesAreKept, Init, Settling

\* A step that leaves the table alone and after which the owner of the lock is who it was and
\* where it was, or at a place where nothing is known of the table.
LEMMA QuietStepSettles ==
  ASSUME Settling, locks, UNCHANGED <<table, locks>>, orphans' \subseteq orphans,
         \A c \in Callers : lock' = c =>
           \/ /\ lock = c /\ pc'[c] = pc[c] /\ version'[c] = version[c]
              /\ plan'[c] = plan[c] /\ result'[c] = result[c]
           \/ pc'[c] \notin {"columns", "keys", "alter", "primary", "release"}
           \/ pc'[c] = "release" /\ result'[c] # "ok"
  PROVE  Settling'
<1>1. ASSUME NEW c \in Callers, lock' = c
      PROVE  Knows(c)'
  <2>1. CASE /\ lock = c /\ pc'[c] = pc[c] /\ version'[c] = version[c]
             /\ plan'[c] = plan[c] /\ result'[c] = result[c]
    <3>1. Knows(c)
      BY <2>1 DEF Settling
    <3> QED
      BY <2>1, <3>1 DEF Knows, PlanIsCurrent, PlanOf
  <2>2. CASE pc'[c] \notin {"columns", "keys", "alter", "primary", "release"}
    BY <2>2 DEF Knows
  <2>3. CASE pc'[c] = "release" /\ result'[c] # "ok"
    BY <2>3 DEF Knows
  <2> QED
    BY <1>1, <2>1, <2>2, <2>3
<1> QED
  BY <1>1 DEF Settling

\* A step of the owner of the lock when nobody has left an ALTER behind.
LEMMA OwnerStepSettles ==
  ASSUME locks, UNCHANGED <<locks, lock, orphans>>, NEW c \in Callers, lock = c, orphans = {},
         OneColumnPerField(table.cols)', KeysFit(table)', Knows(c)'
  PROVE  Settling'
BY DEF Settling

\* Every step keeps what the owner of the lock knows of the table true.
LEMMA StepSettling ==
  ASSUME NamesAreKept, IInv, Places, PendingFit, Settling, locks, [Next]_vars
  PROVE  Settling'
<1> USE DEF IInv, Typing
<1>1. CASE UNCHANGED vars
  BY <1>1, QuietStepSettles DEF vars, session, process
<1>2. ASSUME NEW c \in Callers, Start(c) \/ Borrow(c) \/ Locking(c) \/ LockFails(c)
      PROVE  Settling'
  <2>1. CASE Start(c)
    BY <2>1, QuietStepSettles, SyncAssumption DEF Start, session, Places
  <2>2. CASE Borrow(c) \/ GetsLock(c) \/ LockUnsupported(c)
    BY <2>2, QuietStepSettles, SyncAssumption
       DEF Borrow, GetsLock, LockUnsupported, Goto, CloseConn, Places
  <2>3. CASE LockTimesOut(c)
    <3>1. \A d \in Callers : lock' = d => lock = d
      BY <2>3, SyncAssumption DEF LockTimesOut, CloseConn
    <3> QED
      BY <2>3, <3>1, QuietStepSettles DEF LockTimesOut, Return, Places
  <2>4. CASE LockFails(c)
    <3>1. \A d \in Callers : lock' = d => lock = d
      BY <2>4, SyncAssumption DEF LockFails
    <3> QED
      BY <2>4, <3>1, QuietStepSettles DEF LockFails, Return, Places
  <2> QED
    BY <1>2, <2>1, <2>2, <2>3, <2>4 DEF Locking
<1>3. ASSUME NEW c \in Callers, CheckExists(c) \/ ReadColumns(c)
      PROVE  Settling'
  <2>1. lock = c /\ orphans = {}
    BY <1>3, SenderOwnsTheLock DEF CheckExists, ReadColumns, Statements
  <2>2. UNCHANGED <<table, locks, lock, orphans>>
    BY <1>3 DEF CheckExists, ReadColumns, session
  <2>3. Knows(c)'
    <3>1. Knows(c)
      BY <2>1 DEF Settling
    <3>2. /\ pc'[c] \in {"columns", "keys", "create"}
          /\ pc'[c] \in {"columns", "keys"} => Exists(table)
      BY <1>3, <3>1 DEF CheckExists, ReadColumns, Goto, Knows
    <3> QED
      BY <2>2, <3>2 DEF Knows
  <2> QED
    BY <2>1, <2>2, <2>3, OwnerStepSettles DEF Settling
<1>4. ASSUME NEW c \in Callers, CreateTable(c)
      PROVE  Settling'
  <2>1. lock = c /\ orphans = {}
    BY <1>4, SenderOwnsTheLock DEF CreateTable, Statements
  <2>2. version[c] \in Versions /\ table' = Created(version[c], table)
    BY <1>4 DEF Places, CreateTable
  <2>3. Exists(table') /\ KeysFit(table') /\ OneColumnPerField(table'.cols)
    <3>1. CASE Exists(table)
      BY <2>2, <3>1 DEF Created, Settling
    <3>2. CASE ~Exists(table)
      BY <2>2, <3>2, CreatedFits
    <3> QED
      BY <3>1, <3>2
  <2>4. pc'[c] = "columns" /\ UNCHANGED <<locks, lock, orphans>>
    BY <1>4 DEF CreateTable, Goto, session
  <2>5. Knows(c)'
    BY <2>3, <2>4 DEF Knows
  <2> QED
    BY <2>1, <2>3, <2>4, <2>5, OwnerStepSettles
<1>5. ASSUME NEW c \in Callers, ReadKeys(c)
      PROVE  Settling'
  <2> DEFINE made == PlanOf(c, [cols |-> seen[c], pk |-> table.pk, indexes |-> table.indexes])
  <2>1. lock = c /\ orphans = {} /\ pinned[c] /\ pc[c] = "keys"
    BY <1>5, SenderOwnsTheLock DEF ReadKeys, Statements, StatementsArePinned
  <2>2. UNCHANGED <<table, locks, lock, orphans>>
    BY <1>5 DEF ReadKeys, session
  <2>3. made = PlanOf(c, table)
    BY <1>5, <2>1 DEF ReadKeys, SeenIsCurrent, IsTable
  <2>4. version[c] \in Versions /\ version[c].expandOnly \in BOOLEAN
    BY SyncAssumption DEF Places
  <2>5. OneColumnPerField(table.cols) /\ KeysFit(table) /\ Exists(table)
    BY <2>1 DEF Settling, Knows
  <2> HIDE DEF made
  <2>6. CASE made.refused /\ Finish(c, "error")
    <3>1. pc'[c] = "release" /\ result'[c] = "error"
      BY <2>1, <2>6 DEF Finish, Places
    <3>2. Knows(c)'
      BY <3>1 DEF Knows
    <3> QED
      BY <2>1, <2>2, <2>5, <3>2, OwnerStepSettles
  <2>7. CASE ~made.refused /\ made.columns = {} /\ made.primaryKey = {} /\ Finish(c, "ok")
    <3>1. pc'[c] = "release" /\ version' = version
      BY <2>1, <2>7 DEF Finish
    <3>2. IsSettled(version[c], table)
      BY <2>3, <2>4, <2>5, <2>7, EmptyPlansSettle DEF PlanOf
    <3>3. Knows(c)'
      BY <2>2, <3>1, <3>2 DEF Knows
    <3> QED
      BY <2>1, <2>2, <2>5, <3>3, OwnerStepSettles
  <2>8. CASE /\ ~made.refused
             /\ plan' = [plan EXCEPT ![c] = made]
             /\ pc' = [pc EXCEPT ![c] = IF made.columns # {} THEN "alter" ELSE "primary"]
             /\ UNCHANGED version
    <3>1. plan'[c] = made /\ pc'[c] \in {"alter", "primary"}
          /\ (pc'[c] = "primary" => made.columns = {})
      BY <2>8
    <3>2. PlanIsCurrent(c)'
      BY <2>2, <2>3, <2>8, <3>1 DEF PlanIsCurrent, PlanOf
    <3>3. Knows(c)'
      BY <2>2, <2>5, <3>1, <3>2 DEF Knows
    <3> QED
      BY <2>1, <2>2, <2>5, <3>3, OwnerStepSettles
  <2> QED
    BY <1>5, <2>6, <2>7, <2>8 DEF ReadKeys, made
<1>6. ASSUME NEW c \in Callers, Alter(c)
      PROVE  Settling'
  <2>1. lock = c /\ orphans = {} /\ pinned[c] /\ pc[c] \in {"alter", "primary"}
    BY <1>6, SenderOwnsTheLock DEF Alter, SendsDdl, Statements, StatementsArePinned
  <2>2. /\ OneColumnPerField(table.cols) /\ KeysFit(table) /\ Exists(table)
        /\ PlanIsCurrent(c) /\ HasTypes(table.cols)
    BY <2>1 DEF Settling, Knows, PendingFit
  <2>3. /\ Executes(table, Ddl(c)) /\ table' = Altered(table, Ddl(c))
        /\ UNCHANGED <<locks, lock, orphans>>
    BY <1>6 DEF Alter, session
  <2>4. OneColumnPerField(table'.cols) /\ KeysFit(table')
    BY <2>1, <2>2, <2>3, NextAlterIsPlanned, PlannedAlters
  <2>5. LET now == PlanOf(c, table')
        IN /\ ~now.refused /\ now.columns = {}
           /\ now.primaryKey = IF pc[c] = "alter" THEN plan[c].primaryKey ELSE {}
    BY <2>1, <2>2, <2>3, AlterMovesOn
  <2>6. Exists(table')
    <3>1. Widens(table, table')
      BY StepPendingFit
    <3> QED
      BY <2>2, <3>1 DEF Exists, Widens
  <2>7. version[c] \in Versions /\ version[c].expandOnly \in BOOLEAN
    BY SyncAssumption DEF Places
  <2>8. CASE /\ pc[c] = "alter" /\ plan[c].primaryKey # {}
             /\ pc' = [pc EXCEPT ![c] = "primary"]
             /\ plan' = [plan EXCEPT ![c] = [refused |-> FALSE, columns |-> {},
                                             primaryKey |-> plan[c].primaryKey]]
             /\ UNCHANGED version
    <3>1. /\ pc'[c] = "primary" /\ plan'[c].columns = {}
          /\ plan'[c].primaryKey = plan[c].primaryKey
      BY <2>8
    <3>2. PlanIsCurrent(c)'
      BY <2>5, <2>8, <3>1 DEF PlanIsCurrent, PlanOf
    <3>3. Knows(c)'
      BY <2>6, <3>1, <3>2 DEF Knows
    <3> QED
      BY <2>1, <2>3, <2>4, <3>3, OwnerStepSettles
  <2>9. CASE ~(pc[c] = "alter" /\ plan[c].primaryKey # {}) /\ Finish(c, "ok")
    <3>1. pc'[c] = "release" /\ version' = version
      BY <2>1, <2>9 DEF Finish
    <3>2. IsSettled(version[c], table')
      BY <2>4, <2>5, <2>7, <2>9, EmptyPlansSettle DEF PlanOf
    <3>3. Knows(c)'
      BY <3>1, <3>2 DEF Knows
    <3> QED
      BY <2>1, <2>3, <2>4, <3>3, OwnerStepSettles
  <2> QED
    BY <1>6, <2>8, <2>9 DEF Alter
<1>7. ASSUME NEW c \in Callers, AlterRefused(c) \/ SessionLost(c)
      PROVE  Settling'
  <2>1. UNCHANGED <<table, locks, lock, pinned, orphans>> /\ Finish(c, "error")
    BY <1>7 DEF AlterRefused, SessionLost, session
  <2> QED
    BY <2>1, QuietStepSettles DEF Finish, Return, Places
<1>8. ASSUME NEW c \in Callers, Releasing(c)
      PROVE  Settling'
  <2>1. /\ UNCHANGED <<table, locks, orphans>> /\ Return(c)
        /\ \A d \in Callers : lock' = d => lock = d /\ d # c
    BY <1>8, SyncAssumption DEF Releasing, Release, ReleaseFails, DiscardConn
  <2> QED
    BY <2>1, QuietStepSettles DEF Return
<1>9. ASSUME NEW c \in Callers, SessionKilled(c)
      PROVE  Settling'
  BY <1>9, QuietStepSettles, SyncAssumption DEF SessionKilled, process
<1>10. ASSUME NEW c \in Callers, AlterAbandoned(c)
       PROVE  Settling'
  <2>1. lock = c /\ orphans = {} /\ pc[c] \in {"alter", "primary"}
    BY <1>10, SenderOwnsTheLock DEF AlterAbandoned, SendsDdl, Statements
  <2>2. PlanIsCurrent(c) /\ OneColumnPerField(table.cols) /\ KeysFit(table)
    BY <2>1 DEF Settling, Knows
  <2>3. IsPlanned(Ddl(c), table)
    BY <2>1, <2>2, NextAlterIsPlanned
  <2>4. lock' = Dead /\ orphans' = {Ddl(c)} /\ UNCHANGED <<table, locks>>
    BY <1>10, <2>1 DEF AlterAbandoned
  <2> QED
    BY <2>2, <2>3, <2>4, SyncAssumption DEF Settling
<1>11. ASSUME NEW p \in Pools, Crash(p)
       PROVE  Settling'
  <2>1. UNCHANGED <<table, locks, orphans>>
    BY <1>11 DEF Crash
  <2>2. \A c \in Callers : lock' = c => lock = c /\ PoolOf[c] # p
    BY <1>11, SyncAssumption DEF Crash
  <2>3. \A c \in Callers : PoolOf[c] # p =>
          /\ pc'[c] = pc[c] /\ version'[c] = version[c]
          /\ plan'[c] = plan[c] /\ result'[c] = result[c]
    BY <1>11 DEF Crash
  <2> QED
    BY <2>1, <2>2, <2>3, QuietStepSettles
<1>12. ASSUME NEW clauses \in orphans, OrphanRuns(clauses)
       PROVE  Settling'
  <2>1. lock = Dead /\ orphans' = {} /\ UNCHANGED <<locks, lock>>
    BY <1>12 DEF OrphanRuns, OrphansHoldTheLock, PendingFit, session
  <2>2. /\ OneColumnPerField(table.cols) /\ KeysFit(table)
        /\ HasTypes(table.cols) /\ IsPlanned(clauses, table)
    BY DEF Settling, PendingFit
  <2>3. OneColumnPerField(table'.cols) /\ KeysFit(table')
    <3>1. CASE table' = table
      BY <2>2, <3>1
    <3>2. CASE Executes(table, clauses) /\ table' = Altered(table, clauses)
      BY <2>2, <3>2, PlannedAlters
    <3> QED
      BY <1>12, <3>1, <3>2 DEF OrphanRuns
  <2> QED
    BY <2>1, <2>3, SyncAssumption DEF Settling
<1>13. ASSUME SessionEnds
       PROVE  Settling'
  BY <1>13, QuietStepSettles, SyncAssumption DEF SessionEnds, process
<1> QED
  BY <1>1, <1>2, <1>3, <1>4, <1>5, <1>6, <1>7, <1>8, <1>9, <1>10, <1>11, <1>12, <1>13
     DEF Next, Syncing

\* What the owner of the lock knows is so in every reachable state.
LEMMA SettlingInvariance ==
  ASSUME NamesAreKept
  PROVE  Spec => [](IInv /\ Places /\ PendingFit /\ Settling)
<1>1. IInv /\ Places /\ PendingFit /\ Settling /\ [Next]_vars => Settling'
  <2> SUFFICES ASSUME IInv, Places, PendingFit, Settling, [Next]_vars PROVE Settling'
    OBVIOUS
  <2>1. CASE locks
    BY <2>1, StepSettling
  <2>2. CASE ~locks
    <3>1. ~locks'
      BY <2>2, ServersStay
    <3> QED
      BY <3>1 DEF Settling
  <2> QED
    BY <2>1, <2>2
<1>2. Init => Settling
  BY InitSettling
<1> QED
  BY <1>1, <1>2, PendingInvariance, PTL DEF Spec

\* For all versions and tables that use no name for two fields: under the lock both ALTERs
\* of a synchronisation, and not only the first, are what its version would plan at the
\* moment they are sent (acquireSyncLock, planSchemaAlignment).
THEOREM PlansStayCurrent ==
  ASSUME NamesAreKept
  PROVE  Spec => []PlansAreCurrent
<1>1. IInv /\ Places /\ PendingFit /\ Settling => PlansAreCurrent
  <2> SUFFICES ASSUME IInv, Settling, locks, NEW c \in Callers, SendsDdl(c)
               PROVE  PlanIsCurrent(c)
    BY DEF PlansAreCurrent, PlanIsCurrent
  <2>1. lock = c /\ pc[c] \in {"alter", "primary"}
    BY SenderOwnsTheLock DEF SendsDdl, Statements
  <2> QED
    BY <2>1 DEF Settling, Knows
<1> QED
  BY <1>1, SettlingInvariance, PTL

\* MySQL never refuses such an ALTER for its columns or keys: what a new key needs is
\* there before or comes with it, and the AUTO_INCREMENT column always leads a key.
THEOREM PlansAlwaysExecute ==
  ASSUME NamesAreKept
  PROVE  Spec => []PlansExecute
<1>1. IInv /\ Places /\ PendingFit /\ Settling => PlansExecute
  <2> SUFFICES ASSUME IInv, Places, PendingFit, Settling, locks, NEW c \in Callers, SendsDdl(c)
               PROVE  Executes(table, Ddl(c))
    BY DEF PlansExecute
  <2>1. lock = c /\ pc[c] \in {"alter", "primary"}
    BY SenderOwnsTheLock DEF SendsDdl, Statements
  <2>2. /\ Exists(table) /\ PlanIsCurrent(c)
        /\ HasTypes(table.cols) /\ OneColumnPerField(table.cols) /\ KeysFit(table)
    BY <2>1 DEF Settling, Knows, PendingFit
  <2> QED
    BY <2>1, <2>2, NextAlterExecutes
<1> QED
  BY <1>1, SettlingInvariance, PTL

\* A synchronisation that returns no error has nothing left to change.
THEOREM SyncSettles ==
  ASSUME NamesAreKept
  PROVE  Spec => []SyncedTablesAreSettled
<1>1. IInv /\ Places /\ PendingFit /\ Settling => SyncedTablesAreSettled
  BY DEF IInv, OwnerIsWorking, Settling, Knows, SyncedTablesAreSettled
<1> QED
  BY <1>1, SettlingInvariance, PTL

\* A renamed field keeps its column under the lock, whichever versions run in whichever
\* order (buildColumnClauses).
THEOREM RenamesKeep ==
  ASSUME NamesAreKept
  PROVE  Spec => []RenamesKeepTheColumn
<1>1. IInv /\ Places /\ PendingFit /\ Settling => RenamesKeepTheColumn
  BY DEF Settling, OneColumnPerField, RenamesKeepTheColumn
<1> QED
  BY <1>1, SettlingInvariance, PTL

\* What README.md:189-203 promises of numbers holds as long as no name is used again: a
\* synchronised program reads every field from the column that was added for the field.
THEOREM NumbersAreIdentities ==
  ASSUME NamesAreKept
  PROVE  Spec => []FieldsReadTheirOwnColumns
<1>1. ASSUME NEW v \in Versions, NEW t, OneColumnPerField(t.cols), IsSettled(v, t),
             NEW f \in ToSet(v.fields)
      PROVE  t.cols[f.name].born.num = f.num
  <2>1. First(v, t) = {} /\ Second(v, t) = {}
    BY <1>1, PlanByField DEF IsSettled
  <2>2. ~NeedsPrimaryKey(v, t)
    BY <2>1 DEF Second
  <2>3. FieldClauses(v, t.cols) = {}
    BY <2>1, <2>2, KindsOfClauses DEF First
  <2>4. IsAligned(t.cols, f)
    BY <2>3 DEF FieldClauses
  <2>5. Own(t.cols, f) # {} /\ OwnColumn(t.cols, f) = f.name
    BY <2>4 DEF IsAligned, InPlace
  <2> QED
    BY <1>1, <2>5, OwnIsUnique
<1>2. IInv /\ Places /\ PendingFit /\ Settling => FieldsReadTheirOwnColumns
  <2> SUFFICES ASSUME IInv, Places, Settling, NEW c \in Callers,
                      pc[c] = "release", lock = c, result[c] = "ok",
                      NEW i \in DOMAIN version[c].fields
               PROVE  table.cols[version[c].fields[i].name].born.num
                        = version[c].fields[i].num
    BY DEF FieldsReadTheirOwnColumns
  <2>1. OneColumnPerField(table.cols) /\ IsSettled(version[c], table)
    BY DEF IInv, OwnerIsWorking, Settling, Knows
  <2>2. version[c] \in Versions /\ version[c].fields[i] \in ToSet(version[c].fields)
    BY DEF Places, ToSet
  <2> QED
    BY <1>1, <2>1, <2>2
<1> QED
  BY <1>2, SettlingInvariance, PTL
=============================================================================
