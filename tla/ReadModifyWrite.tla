-------------------------- MODULE ReadModifyWrite --------------------------
(***************************************************************************)
(* The ways docs/concurrency.md gives for changing one column of a row     *)
(* that others change too: atomic arithmetic (IncrByPK, DecrByPKIfEnough), *)
(* optimistic locking (UpdateIfVersion, UpdateFieldsIfVersion) and a row   *)
(* lock (FindOneByPKForUpdate in a transaction); beside them the way it    *)
(* warns of, and calls that remove the row and create it again.  One call  *)
(* does two things in one transaction: it pays, and inserts an item.       *)
(*                                                                         *)
(* There is one row [gold, version], its cache entry, a table of items     *)
(* with an AUTO_INCREMENT id, and a pool of connections.  A step is one    *)
(* request.  A statement outside a transaction borrows a connection for    *)
(* its step only.  The row lock also stands for the gap of an absent row.  *)
(* Every call adds or takes one piece of gold.                             *)
(***************************************************************************)
EXTENDS Integers, FiniteSets

CONSTANTS
  Calls,        \* calls, each in a goroutine of its own
  Mixes,        \* the methods they use: functions from Calls
  Connections,  \* the pool (MaxOpenConns)
  InitialGold,  \* gold of the row at first
  None          \* no row, no entry, nobody, no connection

Versioned == {"addIfVersion", "spendIfVersion"}
InTransaction == {"locked", "purchase"}
\* "overwrite": FindOneByPK, then UpdateFieldsByPK;  "insert": InsertReturningID of an item.
Methods == Versioned \cup InTransaction \cup
  {"incr", "decr", "overwrite", "delete", "findOrCreate", "insert"}

ASSUME AccessAssumption ==
  /\ Mixes \subseteq [Calls -> Methods]
  /\ Connections # {} /\ IsFiniteSet(Connections)
  /\ InitialGold \in Nat
  /\ None \notin Calls \cup Connections \cup [gold : Int, version : Nat]

VARIABLES
  row,      \* the committed row
  items,    \* the committed items: [id, by]
  nextId,   \* the AUTO_INCREMENT counter, which no rollback lowers
  entry,    \* the cache entry of the row
  lock,     \* the transaction that holds the row lock
  draft,    \* the row and the items as that transaction left them
  conn,     \* conn[c]: the connection c holds for a transaction or two statements
  lastId,   \* lastId[k]: LAST_INSERT_ID() of the session of connection k
  method,   \* method[c]: how c accesses the row
  pc,       \* pc[c]: the request c sends next
  base,     \* base[c]: the row as c has read it
  id,       \* id[c]: what InsertReturningID returned
  answer,   \* answer[c]: what c returned
  late,     \* late[c]: a statement of c is on the server, its reply was lost
  \* history, read by no guard:
  ledger,   \* the gold there should be, if no item had been paid
  applied,  \* applied[c]: how often the effect of the call has come about
  missed    \* missed[c]: the call found no row and took that for success

store == <<row, items, nextId>>
tx == <<lock, draft, conn, lastId>>
caller == <<pc, base, id, answer>>
books == <<ledger, applied, missed>>
accessVars == <<store, entry, tx, method, caller, late, books>>

NewRow == [gold |-> 0, version |-> 0]

AccessInit ==
  /\ row \in {None, [NewRow EXCEPT !.gold = InitialGold]}
  /\ items = {}
  /\ nextId = 1
  /\ entry \in {None, row}
  /\ lock = None
  /\ draft = [row |-> None, items |-> {}]
  /\ conn = [c \in Calls |-> None]
  /\ lastId = [k \in Connections |-> 0]
  /\ method \in Mixes
  /\ pc = [c \in Calls |-> "start"]
  /\ base = [c \in Calls |-> None]
  /\ id = [c \in Calls |-> 0]
  /\ answer = [c \in Calls |-> "none"]
  /\ late = [c \in Calls |-> FALSE]
  /\ ledger = InitialGold
  /\ applied = [c \in Calls |-> 0]
  /\ missed = [c \in Calls |-> FALSE]

Next(c, request) == pc' = [pc EXCEPT ![c] = request]
Returns(c, a) == Next(c, "end") /\ answer' = [answer EXCEPT ![c] = a]

FreeConnections == Connections \ {conn[c] : c \in Calls}

StartCall(c) ==
  /\ pc[c] = "start"
  /\ Next(c, CASE method[c] \in {"incr", "decr", "delete"} -> "exec"
               [] method[c] \in Versioned \cup {"overwrite", "findOrCreate"} -> "get"
               [] method[c] \in InTransaction \cup {"insert"} -> "begin")
  /\ UNCHANGED <<store, entry, tx, method, base, id, answer, late, books>>
-----------------------------------------------------------------------------
(***************************************************************************)
(* FindOneByPK                                                             *)
(***************************************************************************)

\* FindOrCreate ends with a row found; the others go on to write.
AfterFind(c) ==
  IF method[c] = "findOrCreate" THEN Returns(c, "found")
    ELSE Next(c, "exec") /\ UNCHANGED answer

HitEntry(c) ==
  /\ pc[c] = "get" /\ entry # None
  /\ base' = [base EXCEPT ![c] = entry]
  /\ AfterFind(c)
  /\ UNCHANGED <<store, entry, tx, method, id, late, books>>

MissEntry(c) ==
  /\ pc[c] = "get"
  /\ Next(c, "load")
  /\ UNCHANGED <<store, entry, tx, method, base, id, answer, late, books>>

LoadRow(c) ==
  /\ pc[c] = "load" /\ FreeConnections # {}
  /\ base' = [base EXCEPT ![c] = row]
  /\ CASE row # None -> Next(c, "fill") /\ UNCHANGED answer
       [] row = None /\ method[c] = "findOrCreate" -> Next(c, "exec") /\ UNCHANGED answer
       [] OTHER -> Returns(c, "missing")
  /\ UNCHANGED <<store, entry, tx, method, id, late, books>>

FillEntry(c) ==
  /\ pc[c] = "fill"
  /\ entry' \in {base[c], entry}
  /\ AfterFind(c)
  /\ UNCHANGED <<store, tx, method, base, id, late, books>>
-----------------------------------------------------------------------------
(***************************************************************************)
(* The statements: the row they leave, and whether they affect one         *)
(***************************************************************************)

\* IncrByPK: UPDATE ... SET f = f + 1 WHERE pk = ?
Incremented(r) == IF r = None THEN <<r, FALSE>> ELSE <<[r EXCEPT !.gold = @ + 1], TRUE>>

\* DecrByPKIfEnough: ... AND f >= 1
Decremented(r) ==
  IF r # None /\ r.gold >= 1 THEN <<[r EXCEPT !.gold = @ - 1], TRUE>> ELSE <<r, FALSE>>

\* UpdateIfVersion and UpdateFieldsIfVersion: SET f = ?, ver = ver + 1 WHERE pk = ? AND ver = ?
MutantUpdatedIfVersion(r, old, gold) ==
  IF r # None /\ r.version >= old.version
    THEN <<[gold |-> gold, version |-> r.version + 1], TRUE>> ELSE <<r, FALSE>>

UpdatedIfVersion(r, old, gold) ==
  IF r # None /\ r.version = old.version
    THEN <<[gold |-> gold, version |-> r.version + 1], TRUE>> ELSE <<r, FALSE>>

\* UpdateFieldsByPK: SET f = ? WHERE pk = ?
Overwritten(r, gold) ==
  IF r = None THEN <<r, FALSE>> ELSE <<[r EXCEPT !.gold = gold], TRUE>>

Statement(c) ==
  CASE method[c] = "incr" -> Incremented(row)
    [] method[c] = "decr" -> Decremented(row)
    [] method[c] = "addIfVersion" -> UpdatedIfVersion(row, base[c], base[c].gold + 1)
    [] method[c] = "spendIfVersion" -> UpdatedIfVersion(row, base[c], base[c].gold - 1)
    [] method[c] = "overwrite" -> Overwritten(row, base[c].gold + 1)
    [] method[c] = "delete" -> <<None, row # None>>
    [] method[c] = "findOrCreate" -> IF row = None THEN <<NewRow, TRUE>> ELSE <<row, FALSE>>

\* IncrByPK, UpdateFieldsByPK and Delete do not look at RowsAffected.
IgnoresAffected(m) == m \in {"incr", "overwrite", "delete"}
Invalidates(m, affected) == IgnoresAffected(m) \/ (affected /\ m # "findOrCreate")

Paid == {i \in items : method[i.by] = "purchase"}

\* What a call enters in the books when its statement affects the row.
Entered(m) ==
  CASE m \in {"incr", "addIfVersion", "overwrite", "locked"} -> ledger + 1
    [] m \in {"decr", "spendIfVersion"} -> ledger - 1
    [] m = "findOrCreate" -> Cardinality(Paid)
    [] OTHER -> ledger

Applies(c, affected) ==
  /\ ledger' = IF affected THEN Entered(method[c]) ELSE ledger
  /\ applied' = IF affected THEN [applied EXCEPT ![c] = @ + 1] ELSE applied
  /\ missed' = [missed EXCEPT ![c] = ~affected /\ IgnoresAffected(method[c])]

\* The caller's own check before a versioned update that spends.
CanSpend(c) == method[c] = "spendIfVersion" /\ pc[c] = "exec" => base[c].gold > 0

\* false of DecrByPKIfEnough and 1062 of the INSERT end the call; after false of the
\* versioned updates the caller reads again and retries (docs/concurrency.md).
ExecStatement(c) ==
  LET out == Statement(c) IN
  /\ pc[c] = "exec" /\ lock = None /\ FreeConnections # {}
  /\ CanSpend(c)
  /\ row' = out[1]
  /\ Applies(c, out[2])
  /\ CASE Invalidates(method[c], out[2]) -> Next(c, "del") /\ UNCHANGED answer
       [] ~out[2] /\ method[c] \in Versioned -> Next(c, "get") /\ UNCHANGED answer
       [] ~out[2] /\ method[c] = "decr" -> Returns(c, "refused")
       [] method[c] = "findOrCreate" -> Returns(c, IF out[2] THEN "done" ELSE "refused")
  /\ UNCHANGED <<items, nextId, entry, tx, method, base, id, late>>

\* The caller sees that there is nothing to spend.
NothingToSpend(c) ==
  /\ pc[c] = "exec" /\ ~CanSpend(c)
  /\ Returns(c, "refused")
  /\ UNCHANGED <<store, entry, tx, method, base, id, late, books>>

\* The statement or the SELECT fails; a statement whose reply is lost may still run.
StatementFails(c) ==
  /\ pc[c] \in {"load", "exec"}
  /\ CanSpend(c)
  /\ late' \in IF pc[c] = "exec" THEN {late, [late EXCEPT ![c] = TRUE]} ELSE {late}
  /\ Returns(c, "error")
  /\ UNCHANGED <<store, entry, tx, method, base, id, books>>

LateStatement(c) ==
  /\ late[c] /\ lock = None
  /\ late' = [late EXCEPT ![c] = FALSE]
  /\ row' = Statement(c)[1]
  /\ Applies(c, Statement(c)[2])
  /\ UNCHANGED <<items, nextId, entry, tx, method, caller>>

\* cacheDelKeys, which may fail.
DeleteEntry(c) ==
  /\ pc[c] = "del"
  /\ entry' \in {None, entry}
  /\ Returns(c, "done")
  /\ UNCHANGED <<store, tx, method, base, id, late, books>>
-----------------------------------------------------------------------------
(***************************************************************************)
(* Transaction and RunInTransaction                                        *)
(***************************************************************************)

\* BeginTx, or the connection InsertReturningID of GormDB keeps for its two statements.
Begin(c) ==
  /\ pc[c] = "begin"
  /\ \E k \in FreeConnections : conn' = [conn EXCEPT ![c] = k]
  /\ Next(c, CASE method[c] = "locked" -> "lock"
               [] method[c] = "purchase" -> "pay"
               [] method[c] = "insert" -> "item")
  /\ UNCHANGED <<store, entry, lock, draft, lastId, method, base, id, answer, late, books>>

\* The transaction's view: what it has locked and changed, else what is committed.
View(c) == IF lock = c THEN draft ELSE [row |-> row, items |-> {}]
LocksAndLeaves(c, view) == lock \in {None, c} /\ lock' = c /\ draft' = view

\* FOR UPDATE dropped on the way, as QueryOptions.ForUpdate once was by GormDB.
MutantFindForUpdate(c) ==
  /\ pc[c] = "lock"
  /\ base' = [base EXCEPT ![c] = row]
  /\ Next(c, IF row = None THEN "rollback" ELSE "write")
  /\ UNCHANGED <<store, entry, tx, method, id, answer, late, books>>

\* FindOneByPKForUpdate; no row is an error of the callback.
FindForUpdate(c) ==
  /\ pc[c] = "lock"
  /\ LocksAndLeaves(c, View(c))
  /\ base' = [base EXCEPT ![c] = row]
  /\ Next(c, IF row = None THEN "rollback" ELSE "write")
  /\ UNCHANGED <<store, entry, conn, lastId, method, id, answer, late, books>>

\* UpdateFieldsByPK of the row read, plus one.
WriteLocked(c) ==
  /\ pc[c] = "write"
  /\ LocksAndLeaves(c, [View(c) EXCEPT !.row = Overwritten(@, base[c].gold + 1)[1]])
  /\ Next(c, "commit")
  /\ UNCHANGED <<store, entry, conn, lastId, method, base, id, answer, late, books>>

\* DecrByPKIfEnough; the callback returns an error when there is not enough.
Pay(c) ==
  LET out == Decremented(View(c).row) IN
  /\ pc[c] = "pay"
  /\ LocksAndLeaves(c, [View(c) EXCEPT !.row = out[1]])
  /\ Next(c, IF out[2] THEN "item" ELSE "rollback")
  /\ UNCHANGED <<store, entry, conn, lastId, method, base, id, answer, late, books>>

Item(c) == [id |-> nextId, by |-> c]

\* In a transaction, Connection() of GORM takes another connection of the pool.
MutantInsertItem(c) ==
  /\ pc[c] = "item"
  /\ items' = items \cup {Item(c)}
  /\ nextId' = nextId + 1
  /\ lastId' = [lastId EXCEPT ![conn[c]] = nextId]
  /\ Next(c, "id")
  /\ applied' = IF lock = c THEN applied ELSE [applied EXCEPT ![c] = @ + 1]
  /\ UNCHANGED <<row, entry, lock, draft, conn, method, base, id, answer, late, ledger,
                 missed>>

\* InsertReturningID: in a transaction the item is part of it, else it is there at once.
InsertItem(c) ==
  /\ pc[c] = "item"
  /\ IF lock = c
       THEN draft' = [draft EXCEPT !.items = @ \cup {Item(c)}] /\ UNCHANGED <<items, applied>>
       ELSE /\ items' = items \cup {Item(c)}
            /\ applied' = [applied EXCEPT ![c] = @ + 1]
            /\ UNCHANGED draft
  /\ nextId' = nextId + 1
  /\ lastId' = [lastId EXCEPT ![conn[c]] = nextId]
  /\ Next(c, "id")
  /\ UNCHANGED <<row, entry, lock, conn, method, base, id, answer, late, ledger, missed>>

\* Two statements on the pool: the second may run on any connection.
MutantReadInsertId(c) ==
  /\ pc[c] = "id"
  /\ \E k \in FreeConnections \cup {conn[c]} : id' = [id EXCEPT ![c] = lastId[k]]
  /\ IF lock = c THEN Next(c, "commit") /\ UNCHANGED <<conn, answer>>
                 ELSE Returns(c, "done") /\ conn' = [conn EXCEPT ![c] = None]
  /\ UNCHANGED <<store, entry, lock, draft, lastId, method, base, late, books>>

\* SELECT LAST_INSERT_ID(), in the same session.
ReadInsertId(c) ==
  /\ pc[c] = "id"
  /\ id' = [id EXCEPT ![c] = lastId[conn[c]]]
  /\ IF lock = c THEN Next(c, "commit") /\ UNCHANGED <<conn, answer>>
                 ELSE Returns(c, "done") /\ conn' = [conn EXCEPT ![c] = None]
  /\ UNCHANGED <<store, entry, lock, draft, lastId, method, base, late, books>>

\* The transaction is over on the server and its connection is back in the pool.
Ends(c) ==
  /\ lock' = IF lock = c THEN None ELSE lock
  /\ draft' = IF lock = c THEN [row |-> None, items |-> {}] ELSE draft
  /\ conn' = [conn EXCEPT ![c] = None]

Takes(c) ==
  /\ row' = draft.row
  /\ items' = items \cup draft.items
  /\ ledger' = Entered(method[c])
  /\ applied' = [applied EXCEPT ![c] = @ + 1]

\* Commit; the deletions put off follow.
CommitTransaction(c) ==
  /\ pc[c] = "commit"
  /\ Takes(c)
  /\ Ends(c)
  /\ Next(c, "del")
  /\ UNCHANGED <<nextId, entry, lastId, method, base, id, answer, late, missed>>

\* An error of Commit: nobody knows, nothing is deleted.
CommitFails(c) ==
  /\ pc[c] = "commit"
  /\ Takes(c) \/ UNCHANGED <<row, items, ledger, applied>>
  /\ Ends(c)
  /\ Returns(c, "error")
  /\ UNCHANGED <<nextId, entry, lastId, method, base, id, late, missed>>

\* A panic leaves through Transaction without a rollback.
MutantRollBack(c) ==
  /\ pc[c] \in {"rollback", "lock", "write", "pay", "item", "id", "commit"}
  /\ IF pc[c] = "rollback" THEN Ends(c) ELSE UNCHANGED <<lock, draft, conn>>
  /\ Returns(c, IF pc[c] = "rollback" THEN "refused" ELSE "error")
  /\ UNCHANGED <<store, entry, lastId, method, base, id, late, books>>

\* The callback returns an error, a statement fails, or the callback panics: rolled back.
\* Without a transaction the error of either statement gives the connection back.
RollBack(c) ==
  /\ pc[c] \in {"rollback", "lock", "write", "pay", "item", "id", "commit"}
  /\ Ends(c)
  /\ Returns(c, CASE method[c] = "insert" -> "error"
                  [] OTHER -> "refused")
  /\ UNCHANGED <<store, entry, lastId, method, base, id, late, books>>

\* The TTL of the entry passes.
ExpireEntry ==
  /\ entry # None
  /\ entry' = None
  /\ UNCHANGED <<store, tx, method, caller, late, books>>

\* What a goroutine does by itself, unless something fails.
Step(c) ==
  \/ HitEntry(c) \/ MissEntry(c) \/ LoadRow(c) \/ FillEntry(c)
  \/ ExecStatement(c) \/ NothingToSpend(c) \/ DeleteEntry(c)
  \/ Begin(c) \/ FindForUpdate(c) \/ WriteLocked(c) \/ Pay(c) \/ InsertItem(c) \/ ReadInsertId(c)
  \/ CommitTransaction(c)

AccessNext ==
  \/ \E c \in Calls :
       StartCall(c) \/ Step(c) \/ StatementFails(c) \/ LateStatement(c) \/ CommitFails(c)
         \/ RollBack(c)
  \/ ExpireEntry

\* Goroutines run, and entries have a finite TTL.
AccessFairness ==
  /\ \A c \in Calls : WF_accessVars(Step(c) \/ RollBack(c))
  /\ WF_accessVars(ExpireEntry)

AccessSpec == AccessInit /\ [][AccessNext]_accessVars /\ AccessFairness
-----------------------------------------------------------------------------
\* The methods in use go together: nobody overwrites what was read without a lock; a version
\* is of use only among writers who all check and raise it, and only while the row is not
\* deleted and created anew, for its version then starts again.
MethodsAgree ==
  LET used == {method[c] : c \in Calls}
  IN /\ "overwrite" \notin used
     /\ used \cap Versioned # {} =>
          /\ used \cap {"incr", "decr", "locked", "purchase"} = {}
          /\ ~({"delete", "findOrCreate"} \subseteq used)

\* With such methods no change of the column is lost or made twice: the gold is what the calls
\* that took effect add up to, whatever is stale in the cache, fails, rolls back or runs
\* late; and an item is there exactly when it was paid for.
NoUpdateIsLost ==
  MethodsAgree /\ row # None => row.gold = ledger - Cardinality(Paid) /\ row.gold >= 0

\* A call tells its caller what happened: success, that its effect came about once, or that
\* it found no row where the code does not look; a refusal, that it did not; and after an
\* error it came about once at most.  The id InsertReturningID returns is the item's own.
AnswersAreTrue ==
  \A c \in Calls :
    LET own == {i \in items : i.by = c} IN
    /\ applied[c] <= 1
    /\ answer[c] = "done" => applied[c] = 1 \/ missed[c]
    /\ answer[c] \in {"refused", "missing", "found"} => applied[c] = 0 /\ own = {}
    /\ answer[c] = "done" /\ method[c] \in {"insert", "purchase"} => {i.id : i \in own} = {id[c]}

\* Every call returns: no caller waits for ever for the row lock or for a connection that a
\* failed or panicking transaction kept, and a caller that retries on a stale cache entry
\* gets past it.
EveryCallReturns == \A c \in Calls : pc[c] # "start" ~> pc[c] = "end"
=============================================================================
