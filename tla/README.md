# A TLA+ model of proto2mysql

proto2mysql stores protobuf messages as MySQL rows: it derives tables from message
descriptors, keeps the online tables aligned with them, and reads and writes rows,
optionally through a cache. This directory models the parts of it whose correctness
depends on the order in which statements of several processes reach the database, checks
them with TLC and proves their safety with TLAPS.

    tlc -workers 2 -config CS_safety.cfg MC_ConditionalSave.tla    # a run
    tlapm ConditionalSave_proofs.tla                               # a proof

`PROJECT.json` lists the components, the runs, the source lines behind every definition,
the hazards with the properties that cover them, the theorems, and for every property a
wrong variant of the code it rejects.

## The system

| Part | State | Operations | What makes it hard |
|---|---|---|---|
| **Conditional save** `conditional_save.go` | none of its own; the row, its fence columns | `SaveConditional` (DB and GormDB): UPDATE with a fence predicate, state read, INSERT, second state read, whole-row comparison, at most two rounds | every statement is a transaction of its own, so anything happens in between; statements that outlive the call; writers that know no fences |
| **Save** `proto2mysql.go`, `proto2gorm.go` | none; the row | `Save`, `BatchSave`: UPDATE by primary key, INSERT, on 1062 UPDATE again, then compare the whole row FOR UPDATE | 1062 may mean the own primary key or another row's UNIQUE value; partial batches |
| **Cache-aside** `cache.go` | the cache entry per primary key; per transaction the deletions put off (`pendingCacheDels`) | `FindOneByPK`, `FindOrCreate`, every write by primary key, `InvalidateCache` | late back-fill, lost replies, failing deletions, two schema versions sharing a key |
| **Single-row writes** `proto2mysql.go` | the row | `Insert`, `InsertReturningID`, `Update*`, `IncrByPK`, `DecrByPKIfEnough`, `UpdateIfVersion`, `UpdateFieldsIfVersion`, `Delete*` | guards in the WHERE clause decide races; what was read is stale when written; two statements need one session |
| **Transactions** `proto2mysql.go` | `tx`, `txOwner`; a connection, row locks | `Transaction`, `RunInTransaction`, `FindOneByPKForUpdate` | panics, lost commits, derived instances, a pool that runs dry |
| **Batches, walks by cursor** `proto2mysql.go`, `proto2gorm.go` | – (a statement per chunk or page) | `BatchInsert`, `BatchDelete`, `FindPageByCursor` | not atomic: chunks before a failure stay; rows come and go between pages |
| **Schema synchronisation** `proto2mysql.go` | advisory lock, pinned connection, online table | `SyncAllTables`, `UpdateTableField`, `CreateOrUpdateTable` | replicas start together; DDL commits at once; TiDB shows a schema late; `ExpandOnly` must not get lost |
| **Column alignment, column types** `proto2mysql.go` | – (pure) | `buildColumnClauses`, `planSchemaAlignment`, `isTypeMatch`, `alignedColumnType` | renames by field number, narrowing, signedness |
| **String key columns** `keycolumns.go` | the old, the shadow and the backup table; the operator's session | `validateKeyValues`, `legacyKeyColumnError`, `legacyKeyAlterSQL`, `legacyKeyRebuildSQL` | byte budgets, order of DDL, statements that are run again after a failure |
| **Atomic file output** `sqlgen.go`, `tools/proto2sql` | targets, temporary and backup files | `dumpSQLFileAtomic`, `writeFilesAtomicWithOps` | several files replaced as one; the roll-back fails too |
| SQL generation, other queries, options, value conversion | – | SQL text, scanning, conversion | string building without shared state |

The parts meet in the database and in the cache only, and in the operator who runs what
synchronisation prints. `Save`, `SaveConditional` and the
single-row writes of any number of processes touch the same rows; the write paths call
the cache after the database; `RunInTransaction` puts these calls off until the commit;
schema synchronisation runs at start-up, on its own connection.

What correctness means, part by part:

- *Conditional save*: a fence never goes back; an answer says what happened; what was
  acknowledged is not overwritten by an older version; giving up is reserved for real
  contention; a call returns.
- *Save*: the row equals the message when the call returns nil, or did at one instant of
  it; another row is never touched; a batch saves a prefix of its messages.
- *Cache*: only what was committed is cached; the cache disagrees with the database only
  for a documented reason, and not for ever; a reader of a newer schema never sees an
  entry that lacks its columns.
- *Read-modify-write*: no change of a column is lost among methods that go together; an
  answer says whether the effect came about; nobody waits for ever for a row lock or a
  connection.
- *Batches and walks*: a batch that fails leaves whole chunks and no cached row it has
  deleted; a walk misses no row that was there all the time.
- *Key migration*: no row is lost or cut however often a script is begun again, ids are
  not given out twice, the script ends in a table synchronisation accepts.
- *Files*: what was written last is at its place or in a backup; a report is true.
- *Schema synchronisation*: replicas take turns; the lock is released or its session
  dies; nothing destructive runs under `ExpandOnly`.

## Modules

    Fence ── FencedTable ── ConditionalSave ── MC_ConditionalSave   CS_*.cfg
                  │                └── ConditionalSave_proofs
                  └──────── FencedStore  (abstract)

    PlainTable ── SaveRow ── MC_SaveRow                    SR_*.cfg
         │           └── SaveRow_proofs
         └─────── RowStore  (abstract)

    CacheAside ── MC_CacheAside                            CA_all.cfg
         └── CacheAside_proofs

    ColumnTypes ── SchemaPlan ── SchemaSync ── MC_SchemaSync   SS_*.cfg
                      │              └── SchemaSync_proofs
                      └── KeyMigration ───────┐
                             └── KeyMigration_proofs
                                              ├── MC_Operations     OP_*.cfg
                          AtomicFiles ────────┘
                             └── AtomicFiles_proofs

    ReadModifyWrite ────┐
       └── ReadModifyWrite_proofs
                        ├── MC_RowAccess                   RA_all.cfg
            RowSets ────┘
               └── RowSets_proofs

Definitions with names like `…OneTooMany`, `…Forever`, `…TrustsDuplicate`,
`…ForgetsDeletions`, `ProceedsWithoutLock` or `Mutant…` are wrong variants of the
definition that follows them. No specification uses them: each stands for a mistake one
could make in the code, and replacing the real definition by it makes TLC report the
property named in `PROJECT.json`. They show that the properties can fail.

### Conditional save: `Fence`, `FencedTable`, `ConditionalSave`, `FencedStore`

`Fence` is the arithmetic: fences are functions from columns to numbers, `Older` is
`slices.Compare(stored, wanted) < 0`, `FencePredicate` the WHERE clause MySQL evaluates.
`FencedTable` is the data: a row is a fence and a body (all columns that are neither
primary key nor fence); one alternate UNIQUE column is a function `Alias` of the body;
`Coerce` is what an online column makes of a value (a `DATETIME(0)` drops fractions).
A request carries a mode: `"strict"` and `"equal"` are `FenceFields` without and with
`AllowEqual`; `"legacy"` is a program that lists the fence columns in `PreserveFields`.

`ConditionalSave` is `runConditionalSave`. `pc[c]` is the next statement of call `c`;
each action runs one statement and whatever the code decides from its result without a
further statement. `round`, `dup`, `seen`, `compared` are the local variables `round`,
`duplicateErr`, `lastStored`, `compared`. `StatementFails` is a statement that did not
run; `ReplyLost` one that the client gave up on and that stays on the server, where
`LateStatement` runs it at any later time. `HotWrite` is a stream of legacy writers that
are not worth a `pc`, `Delete` a physical DELETE. `effects`, `foreign` and `deleted` are
history variables; no guard reads them.

`FencedStore` says what a caller may rely on: one atomic step that checks the fence and
writes, or an answer justified by the row at one instant of the call. A call that ended
with an error may still take its one write later.

### Save: `PlainTable`, `SaveRow`, `RowStore`

The same for `saveByPrimaryKey` and the loop of `BatchSave`, in `DB` and in `GormDB`
(the statements are the same). `Save` is a batch of one. A batch is refused before its
first statement when a message of it is in `Unfit` (`validateKeyValues`), saves nothing
when it is empty, and stops at its first failing row. `RowStore` is the promise: the
messages are saved one after the other, each in one atomic step.

### Cache: `CacheAside`

One row and its entry: keys are independent. Each caller belongs to a process of some
schema version (`Schema[c]`, the code's `fieldNumbers`), and an entry is a function on
the columns its writer knew (the envelope's field numbers). A step is one request to the
database or to the cache. Every operation that touches a row by primary key, the writes
by WHERE (which delete no entry), and a transaction that saves and reads are kinds of
calls; `Outcomes` is what their statement does to the row, `Invalidates` whether the code
deletes the entry afterwards. The statements of `Save` are one step, which is what
`ImplementsRowStore` shows. `overtaken` and `tainted` record that a reader, or the cache,
holds something no deletion still to come will correct. A write is excused for that only
when it is one by WHERE (`docs/cache.md:155`), when its answer or that of the commit was
lost, or when its deletion failed: a `Save` or `Update` that forgot to delete the entry would
violate `StaleEntriesHaveACause`, in a transaction or not.

### Schema synchronisation: `ColumnTypes`, `SchemaPlan`, `SchemaSync`

`ColumnTypes` holds the comparisons of column types: a type is a family, a rank in it, a
size and a sign. `SchemaPlan` is the pure part: `Plan(v, t, expandOnly)` is
`planSchemaAlignment`, from a version of the program (fields with their numbers, keys,
indexes) and an online table to two ALTERs, each a set of clauses, or a refusal
(ambiguous numbers, unsafe conversions, drift, `ExpandOnly`). `Altered` and `Executes`
are MySQL's side: what an ALTER does, and the errors 1054, 1060, 1061, 1068, 1072 and
1075 that refuse it. A column carries, as history, the field and name it was added for.

`SchemaSync` is one synchronisation per caller, statement by statement: a connection of
the process's pool (`Borrow`), `GET_LOCK` with its outcomes, the existence check,
`CREATE TABLE`, the columns and the keys of the table in two reads, the plan, its ALTERs,
`RELEASE_LOCK`. All statements of a caller that has the lock run in its session (`Meta`,
the code's `meta()`): `lock = c` says that the session is alive and owns the lock. On a
server without `GET_LOCK` callers go on without it and borrow a connection per
statement. Sessions are killed, processes crash, the client of an ALTER gives up while
the server still runs it (`AlterAbandoned`, `OrphanRuns`); a discarded session keeps the
lock (`Dead`) until the server is done with it. `Start` stands for `SyncAllTables` with
one table, for `UpdateTableField` and for `CreateOrUpdateTable`. `awaitSchemaVisible`
changes nothing on a server whose metadata is up to date, and is left out.

### Migration of old string keys: `KeyMigration`

A string key column must be VARCHAR with the byte-wise collation; tables of an old release
have TEXT or CHAR there, which compare without case. `legacyKeyColumnError` refuses such a
table and prints a script:
`OffersScript` says when, `ScriptFor` which. `AlterScript` is `legacyKeyAlterSQL` (drop a
prefix index, fill NULLs, MODIFY or CHANGE, add the index), `RebuildScript` is
`legacyKeyRebuildSQL` (create the shadow table, copy, read and raise the counter, swap the
names). `ShadowDef`, `ShadowColumns`, `ShadowType` and `ShadowTypes` are the shadow table's
columns, which keep wider online types and give way to the index budget of 3072 bytes.

A table is a definition as in `SchemaPlan`, rows, and an AUTO_INCREMENT counter; a value
has a size, a word and a spelling, so that what is cut, and what is equal only without
case, shows. Each statement is an action (`CreateShadow`, `CopyRows`, `SwapNames`, …) that
takes effect or not and may lose its reply (`Run`). The operator restarts a script as its
comments say (`Restart`), puts it off, asks `SyncTable` for another (`AskForScript`), or
gets the table accepted (`Synchronise`); between windows replicas insert and delete rows.
`live` and `issued` are history: what the program last read as each field, and the highest
id.

### Files: `AtomicFiles`

`writeFilesAtomicWithOps` with `stageFile`, `backupTarget` and `rollbackStagedFiles`, and
`dumpSQLFileAtomic`, one file operation per action. `step` is the loop and `k` its index;
`backup[i]` and `installed[i]` are the fields `backup` and `new` of `staged[i]`. Every
operation may fail, the tool may die at any step (`ToolCrash`) and run again. A content is
the number of the run that wrote it. `debris` says that a file may have been left behind
by a removal whose error the code drops.

### One row changed by many: `ReadModifyWrite`

The methods of `docs/concurrency.md` on one row of gold and version, its cache entry, a
table of items and a pool of connections: `IncrByPK`, `DecrByPKIfEnough`,
`UpdateIfVersion`, `FindOneByPKForUpdate` with `UpdateFieldsByPK` in a transaction, the
unguarded read and write the document warns of, `Delete` with `FindOrCreate`, and a
purchase that pays and calls `InsertReturningID`, which also runs outside a transaction on
a connection of its own. A call uses one method and retries as the document says.
Statements fail or run late, commits are lost, callbacks return errors or panic
(`RollBack`), cache deletions fail, entries expire. `ledger`, `applied` and `missed` are
history. `MethodsAgree` names the mixtures of methods that protect each other.

### Many rows: `RowSets`

`BatchInsert` and `BatchDelete`, a statement per chunk, with what they refuse before the
first statement, chunks that fail or lose their reply, and the cache deletions of
`BatchDelete`; `FindPageByCursor` and a caller who walks a table with it. Keys have two
columns, messages two types, and two rows share a cursor value.

`MC_Operations` and `MC_RowAccess` each put two of these modules, which share nothing,
into one run: `part` says which of them moves in a behaviour, the other stays at its first
state.

## Runs

| Run | Instance | Distinct states | Shows |
|---|---|---|---|
| `CS_safety` | 2 calls, all modes, 2 fence columns of {0,1}, 2 bodies, 2 keys, legacy writers | 1 181 368 | fences never retreat, answers are true and last, `FencedStore` is implemented |
| `CS_hot` | 1 call, 4 bodies (one lossy), legacy writers and deletes without end | 48 815 | giving up needs two foreign changes; every call returns |
| `CS_conflict` | 1 legacy call, inserts and deletes | – | **violation** of `ConflictNamesAnotherRow`: first finding |
| `SR_safety` | 2 calls, single saves and batches of two rows, deletes of k1 | 54 894 | batches save a prefix, conflicts have a cause, `RowStore` is implemented |
| `SR_conflict` | 2 Saves of one row | – | **violation** of `ConflictNamesAnotherRow`: second finding |
| `CA_all` | 3 callers of 2 versions, every operation, 2 writes, entries expire | 848 023 | staleness has a documented cause and ends after the last write; entries and finds are whole and committed |
| `SS_locked` | 2 processes, 4 versions, 4 initial tables, 2 faults | 372 107 | under the lock, plans are current and executable, nothing is narrowed, renames keep their column, the lock never stays behind |
| `SS_rolling` | 2 callers, one connection, with and without `GET_LOCK`, 1 fault | 19 695 | every synchronisation returns; `ExpandOnly` only adds |
| `SS_rename` | 1 caller, a version that passes a name on | – | **violation** of `FieldsReadTheirOwnColumns`: third finding |
| `operations` | 10 tables with old keys, 2 failures, 4 ids; up to 3 files, 2 runs of the tools | 87 499 | migrated tables keep their rows, ids and readings, scripts can be created and end; files are replaced all or none, or it is said |
| `OP_reuse` | a table whose version passes a name on | – | **violation** of `ShadowMatchesSync`: fourth finding |
| `row_access` | 3 calls in 10 mixtures of methods, 2 connections; 2 batches of 9 kinds and a walk over 6 rows | 109 250 | no update is lost, answers are true, calls return; batches stop at a chunk, walks are complete |

Why the bounds are enough. The hazards of a row need two parties: a call and somebody who
changes its row between two of its statements; the second call of `CS_safety` and the
legacy writers give it both a careful and a careless one. Two fence columns are the least
with a lexicographic order that differs from the order of the first column; two values
give older, equal and newer; the proofs cover the rest. `MaxRounds = 2` is the code's
constant. k2 is there to hold the alternate UNIQUE value. `ForeignCap = 2` stops the
history counter where the property needs it. Batches of two have a first, a last and a
failing message, and contain the same row twice. In the cache, two writes let one of them
race with the other's deletion while a third caller fills; values start at 1 and
processes write 0, so that a value tells who wrote it. `MaxWrites` bounds the writes of a
behaviour; in `CA_all` it also is the assumption "writes cease". A caller whose
statement is still on the server starts nothing new: another caller can do it.
The calls of `CS_safety` and `SR_*` are symmetric; `CA_all`, which checks liveness, uses no symmetry.

The synchronisations need two processes: the lock is there for the second. Each takes any
of the versions each time: one that widens a column and adds an index on the
AUTO_INCREMENT key, one that renames, one that adds under `ExpandOnly`. The initial tables
are those the code has branches for: none, one without its key and key column, one
without comments that somebody widened by hand, one with an old string key; the first
synchronisation adds primary key and AUTO_INCREMENT column in the second ALTER. Two
faults let a crash follow a lost session, or an abandoned ALTER meet another; behaviours
without end make them meet any statement. No initial table of `SS_locked` has an
uncommented column that a version renames: the rename is then unknown by number
(README.md:201) and a second column with the same number appears. Renaming a column of
a primary key or index is refused as drift once its key exists.

The ten tables of `operations` are those `keycolumns.go` has branches for: a key that can be
altered in place (nullable TEXT under an old name, with a prefix index), one inside the
primary key (with a wider column, one the program does not know, and indexes nobody
declared), each with rows that fit, that are NULL, or that are too long; two keys at the
byte budget; two with reused field names; two old columns in one index; and nothing to
migrate. Two failures let a second one hit the script that was begun again. `MaxId` bounds
the ids ever given out; at first one to three are. Three files have a first, a
middle and a last; the second run starts from whatever a failed or dead first one left.

Three calls on one row let a third one act between a read and a write; two connections
are fewer than three transactions, so that one waits. The mixtures contain every method,
those that go together and three that do not: for these `NoUpdateIsLost` claims nothing
and `AnswersAreTrue` and `EveryCallReturns` still hold. Chunks and pages of two, with
batches of up to four and six rows, have a first, an inner and a short last chunk.

Deadlock checking is off in `CS_*`, `SR_*`, `CA_all`, `operations`, `OP_reuse` and `row_access`, where the
calls end (or the table is migrated, the runs are used up) and the system stops. It
is on in `SS_*`: there a deadlock would be a synchronisation that waits for a connection
its own process holds (a statement sent to the pool instead of the pinned connection
makes TLC report one in `SS_rolling`).

Fairness. `CS_hot` assumes that a call whose next statement can run gets a reply or an
error for it (weak fairness of `Reply(c)`): the loop has no other wait, and the driver
ends every statement. Nothing is assumed of the writers that get in its way. `CA_all`
assumes only that an entry that stays expires: `docs/concurrency.md` and `docs/cache.md`
demand a finite TTL. Without it `StalenessEnds` is false, as those documents say.

`SS_rolling` assumes strong fairness of `Step(c)`, the statements of one caller. Once sent,
a statement or a `GET_LOCK` with its timeout answers; strong, because a caller that waits
for a connection may see it come and go, and `database/sql` serves the requests that wait
before later ones. It is written with `CanStep`, which is ENABLED `Step(c)` spelled out
(TLC evaluates ENABLED over the plan too slowly). Faults, and the lock's coming free, are
not assumed: `GET_LOCK` times out.

`row_access` assumes that a goroutine runs: what it does next, or its error path, happens
(weak fairness of `Step(c) \/ RollBack(c)`), and that entries have a finite TTL (weak
fairness of `ExpireEntry`): a versioned update that is refused because of a stale entry
may find the same entry again until it expires. `operations` assumes of the operator that
a statement begun is answered and a failed rebuild is begun again (strong fairness of
`Restart`, as `PutOff` may come between), and that he calls `SyncTable` again and again.
Nothing is assumed of the failures but their number. The part `[](Migrates => IsNotStuck)`
of `MigrationEnds` says that this assumption can be met: there is always a script or an
alignment to go on with.

## Findings

1. `conditional_save.go:485` says that reading the row again after 1062 tells a
   concurrent insert from another row's UNIQUE value. It does not when the row is
   deleted in between: the call then answers "conflicts with a different unique row".
   Fenced tables exclude deletes; calls without fences do not. Where nothing is deleted
   the answer is right, which is proved (`ConflictsAreReal`).
2. `Save` returns `ErrDuplicateKey` "conflicts with a different unique row" to one of two
   concurrent Saves of the same row with no other row in the table: its row already held
   its values, so UPDATE and the retried UPDATE affected nothing and the INSERT met its
   own primary key; then the other Save changed the row before the classification.
   `docs/api-safety.md:15` promises a safe retry. No data is lost;
   `ConflictNeedsInterference` says exactly when it can happen.

3. A field keeps its column by its number only when no other column has its name:
   `buildColumnClauses` tries the name first, field by field. When a version renames two
   fields and one takes the other's old name, it takes that column along with its data,
   the synchronisation returns no error, two columns carry one number, and every later
   synchronisation is refused as ambiguous. `README.md:203` says that the recognition of
   renames always works on tables the library created.

4. `keycolumns.go:498` says that the shadow table of a migration must match fields and columns
   as `buildColumnClauses` does, and `string_key_columns_test.go:1461` that it does. It
   matches all fields by name first and only then by number; `buildColumnClauses` goes field
   by field. When a field is renamed and a field declared after it takes its name, the shadow
   table keeps the column for the name and synchronisation for the number, so that the rows
   are copied into another field than synchronisation would read them as. `ShadowMatchesSync`
   is the claim; `ShadowMatchesSyncWithoutReuse` is what holds, and `ReuseAlwaysDiffers` proves
   that it cannot be widened.

Also noted, without a run of their own; the properties name the exception where it
matters:

- `docs/schema-evolution.md` says that without the lock a synchronisation goes on, degraded;
  the code does so only on servers without `GET_LOCK` and returns an error when the lock
  is not obtained in time, as its own comment says.
- `keycolumns.go:810` says that after shrinking every key is within the budget. A numeric key
  column that is wider online keeps its width: `varchar(767)` beside a declared INT that is
  BIGINT online gives 3076 bytes and 1071 at the first statement (`NumericKeyIsWider`).
- When the reply of the RENAME is lost, "drop the shadow table and begin again" never gets
  past 1050, for the backup is there already. The migration is done, and
  `SyncTable` says so. An ALTER script that was interrupted is not re-runnable either
  (1091), but a new one from `SyncTable` goes on where it stopped.
- `IncrByPK` and `UpdateFieldsByPK` return no error when there is no row (`missed`).
  `IncrByPK`, `DecrByPKIfEnough` and `UpdateFieldsByPK` do not raise the version: beside
  `UpdateIfVersion` they lose updates, and so does a row deleted and created anew, whose
  version starts again (`MethodsAgree`).
- `WithContext` is said not to share pending cache deletions; it does, through `txOwner`,
  and `CacheAside` shows why it must.
- A `BatchInsert` of several message types fails only at the chunk that mixes them, after
  earlier chunks are written.
- `FindPage` has no ORDER BY and promises no order; a walk by a cursor that is not unique
  misses rows of equal value (`WalksAreComplete` says exactly which).

## Proofs

All parameters are arbitrary: any number of calls, keys, columns, connections, rounds,
messages and files, any versions of a message. Every invariant the runs check is a theorem,
but for `AlteredTablesAreAccepted` (below), and so are the two refinements.
In each module `IInv` is the inductive invariant; there is one lemma per action and, where
actions differ only in the call that moves, a lemma about the calls that stay.

- `ConditionalSave_proofs`: of fences, that `Older` is a strict order, and that the SQL
  predicate accepts the fences `conditionHolds` accepts (`PredicateIsConditionHolds`; the case
  split is on the first column that differs). Of calls, `TypeCorrect`; `FencesAdvance` (every step that changes a row
  goes through the predicate or keeps the fence, `TableStep`); then `IInv`.
  `AnsweredVersionsSurvive` is not inductive by itself: one must know
  that a pending call has had no effect, and that a statement outlives only a call that
  returned an error and wrote nothing (`CallInv`); else a late statement could write for
  a call that answered. `RereadInv` says that after 1062 on the primary key the row
  is there until it is deleted. From `IInv` follow `AnswersSurvive`, `AnswersAreHonest`
  and, if no key is deletable, `ConflictsAreReal`. `GivingUpTakesContention` has an invariant
  of its own, how many changes by others a call must have met to be where it is, and holds
  if the history counter reaches as far as the property looks (`ForeignCap` is the least of
  `MaxRounds` and 2, or less).
  `StatementsImplementStore`: the mapping to `FencedStore` is the identity
  but for `applied`, which is `effects[c] # 0`; every statement that changes nothing and
  decides nothing is a stutter, a `Put` is a `Write`, a decision an `Answer`.
- `SaveRow_proofs`: `TypeCorrect`, `PrefixSaved`, `ConflictsHaveACause`, and
  `RowStoreImplemented`. `Progress` relates the place of a call in its batch to what it has
  written and how often; `Seen` is why a duplicate has a cause: at the retried UPDATE the row is
  there, or another row refused the INSERT, or the row was disturbed (`Excused`). The retried
  UPDATE that affects nothing can then meet only the call's own values or an excuse.
- `CacheAside_proofs`: `TypeCorrect`, `StalenessExplained`, `EntriesCommitted`, `FindsWhole`,
  for any callers, versions of the schema and kinds of calls. The staleness of the entry is not
  inductive without that of what readers still hold: `HeldInv` says that a reader about to fill
  a row the database no longer has has been overtaken, or a deletion of the entry is due.
  `LockInv` (a transaction between its write and its commit holds the row lock) and
  `KindInv` (readers write nothing) say which statements can change the row meanwhile,
  `CommittedInv` that what a reader loads was committed.
- `ReadModifyWrite_proofs`: `UpdatesAreKept` and `AnswersHold`. `Place` and `Session` say what
  a call holds at each statement: which connection, whether the lock, a draft; `SessionsApart`
  that no two calls share a connection or the lock; `Effects` what a call has done to the
  counters so far and which items are its own; `Drafted` that what a transaction is going to
  write starts from the committed row, for the row cannot change under its lock; `Versions`
  that among versioned updates a copy, in the cache or in a caller's hands, that carries the
  row's version is the row. That the methods agree is used only where a statement is not
  guarded by itself.
- `RowSets_proofs`: `BatchesAreChunked` and `WalksMissOnlyTwins`, for any chunk and page sizes
  and any batches. `JobInv`: what is touched is what the chunks before the current one name, and
  the current one if it has run; the chunk arithmetic (a message is in exactly one chunk, the
  chunks end the batch) is proved for every length. `WalkInv`: every row that stayed and lies
  before the cursor was given, or another with its cursor value was. The last row of a page is
  the row with the greatest cursor (`LastRow`).
- `SchemaSync_proofs`, types of columns: what `alignedColumnType` writes holds what the column
  held (`AlignedNeverNarrows`) and what the field needs (`AlignedHoldsTarget`), and "holds" is
  transitive, so a chain of versions does not lose width.
- `SchemaSync_proofs`, synchronisation, for any callers, pools, versions and faults:
  `TypeCorrect`, `NoLockStaysBehind`, `FirstAltersAreCurrent`, `ExpandOnlyKeepsColumns`,
  `AltersOnlyWiden` and `NothingIsNarrowed`. That a plan is
  still current when it is sent is not inductive by itself: one must know that only the
  owner of the lock sends statements (`OwnerIsWorking`, `StatementsArePinned`), that an
  abandoned ALTER is still in the session that keeps the lock (`OrphansHoldTheLock`),
  and that what was read is still true (`SeenIsCurrent`). A pool's counter is what it lent
  (`Places`, `Balanced`). That nothing is narrowed needs `PendingFit`: every ALTER that can still
  run under the lock fits the table, clause by clause, though it was planned from an earlier
  read; the plan itself is unfolded as a recursive function over the fields (`PlansExist`,
  `PlansAreUnfolded`). `AltersOnlyWiden` is in terms of the code's own order of types;
  `NothingIsNarrowed` is about bytes and needs that order to be right about the declared types
  (`DeclaredTypes`): true of the versions of `SS_rolling`, not of a version that declares TINYTEXT
  beside a VARCHAR of more than 255 bytes, nor of the CHAR(255) key of `SS_locked`, which
  synchronisation refuses instead of altering.
- `SchemaSync_proofs`, what synchronisation achieves: `PlansStayCurrent` (also of the second
  ALTER), `PlansAlwaysExecute`, `SyncSettles`, `RenamesKeep`, and `NumbersAreIdentities`. Their
  hypothesis `NamesAreKept` says that no name is used for two fields, by any versions or initial
  table, and that an initial table has one column per field at most: `SS_rename` (finding 3) shows that they are false
  without it, and TLC evaluates it for the versions of `SS_locked` and `SS_rolling`. Then a field
  has at most one column, by name or number, so that the plan, a recursion over the fields that
  takes each column once, can be told field by field. After an ALTER each of these columns
  is what the field wants or what the next ALTER still changes: planning again leaves exactly the
  rest, and after both nothing. A new key's columns are there before it or come with it, so
  MySQL executes the plan. `Settling` carries this from the read to the reply, past lost sessions
  and ALTERs that run when their client has gone.
- `KeyMigration_proofs`: `IdsStayNew`, for messages with an AUTO_INCREMENT column, whatever
  tables, rows, failures and restarts. That the highest id given out is below the table's
  counter is not inductive, for the swap gives the table another counter: `Rebasing` says that
  from the statement that reads the counter to the swap nobody moves it on, and that at the swap
  the shadow table's is not below it. For this one must know which statement is where: every
  script the program prints is six statements in order, or statements of the other kinds only
  (`RebuildScriptShape`, `AlterScriptShape`). `ShadowFollowsSync`: where no name is
  reused, by the least field for which the two matchings differ. Where one is, the field declared
  first takes the other's column by its number, and only in one of them (`ReuseAlwaysDiffers`).
  It needs nothing of the online columns, not even that their numbers are unambiguous, only that
  the fields of a message differ in name and number.
  `ShadowsAreCreatable`: every key was within the budget as declared (`Registrable`). Shrinking a
  key leaves it within the budget or with all its string columns back at the declared
  width, where the numeric ones were all along; later keys only narrow columns further,
  which disturbs no key done before. That a column only changes towards its declared type is
  `Narrowed`; `OnlineInv` says what information_schema can show of the tables meanwhile.
  `RebuildsSettle`: whatever the old table was, the shadow table is as declared (`AsDeclared`, from
  `buildCreateTableSQL`), but for wider types and indexes nobody declared. Such a table is
  planned no change and offered no script, so that after the swap only the same rebuild, begun
  again, can still run on it, and can do nothing but swap in its like (`SettledInv`).
- `KeyMigration_proofs`, the rows: `RowsSurvive`. That the table holds what was read is not
  inductive, for the swap puts another table in its place and an ALTER other columns.
  `KeptInv` says what a script has done before its next statement (`IsOnItsWay`). A rebuild, of
  which one must know the order (`RebuildOrder`): that the shadow table is created, then that
  every row of the old table is in it with the same id and the same values (`Carried`). In place:
  that each column still to be changed is its key's, or is gone and nobody's (`IsAhead`): an ALTER of
  it touches that key alone, or fails. That nothing was cut needs
  `sql_mode`, set by the first statement of each session: a script begun again starts there. A
  rebuild run again on a rebuilt table finds the old one in the way of its RENAME, and the old one
  is dropped only between scripts (`IsRebuilt`). Of synchronisation it is shown that it plans
  one clause for the column a field is read from (`PlannedAsMatched`) and leaves it under the
  field's name (`Synchronised`), so both matchings read it again. Values are compared by `Same`:
  equal, or '' for NULL.

  The hypothesis `KeysAreClear`, which TLC evaluates for the cases of `OP_all`: of the columns
  online a string key has one at most with its name or its number, and that one has no other
  field's name or number. It is about the keys only; the other fields may have their
  names reused in any order, as in `ReusedNameCase`. It cannot be dropped. If a key was renamed and
  its old name given to a new field that is declared before it, the drift check still finds the
  old column by its number (proto2mysql.go:2042) and the script renames it to the key, while
  synchronisation matches it to the new field by name (as in finding 3): TLC finds
  `RowsSurviveMigration` violated for such a table, an `int64 id`, a key `account = 2` and a
  `string note = 7` over the columns `id` and `note` (`pb:2`), by the CHANGE COLUMN. So a key's
  old name must not be used again before the table is migrated.
- `AtomicFiles_proofs`: `NothingIsLost`, `ReportsHold` and `NothingLeft`, for batches of any
  size and any number of runs, failures and deaths. `NothingWrittenIsLost` is not
  inductive: one must know where the loop is (`Loops`), in which of five places each file
  is then (untouched, backed up, new, removed again, restored: `Places`), that a content is
  never at its target and in a backup at once (`InOnePlace`), and that a run's number is
  new (`Numbered`), so that removing what is new removes nothing that is owed.

The assumptions are those the modules name, which TLC evaluates in every run:
`FenceAssumption`; `TableAssumption` (coercion is idempotent and keeps the UNIQUE column);
`CallAssumption`, `CacheAssumption`, `AccessAssumption` (the shapes of the parameters, and that
"no call", "no connection", "no row" are none); `SyncAssumption` (a version is what `validateSchemaDefinition`
accepts, `IsVersion`; types are among the types; the keys of an initial table are over its
columns); `RowSetsAssumption` (finitely many keys);
`CasesAssumption` (a version's keys are registered, `Registrable`, and of string fields exactly
those in whole keys have key types, `HasKeyColumns`; fields differ in names and numbers, which
are positive; rows and indexes are finitely many; ids are unique and below the counter; a row has
a value for each column; a table is what information_schema can show, `IsOnline`); `NumFilesAssumption`.

Only model-checked:

- `EveryCallReturns`, `StalenessEnds`, `EverySyncReturns` and `MigrationEnds` are liveness
  under fairness, which the provers do not do.
- `AlteredTablesAreAccepted` of `KeyMigration`, which is about tables whose old keys are all that
  is wrong with them, as in the cases of the run: if something else has drifted, the script changes
  nothing about it.

What a fold or a recursive function yields for every input is not out of reach when it is
written as a function on numbers: the least number at which the claim fails replaces the
induction principle the provers cannot instantiate (`LeastNumber`, used for the chunks of a
batch, the plan of the columns, the matching of the shadow table and the greatest id).

## Not modelled

- `awaitSchemaVisible`: on TiDB the schema read after an ALTER may lag; the wait delays an
  answer and sends nothing, and past its deadline the code only logs a warning.
- The loop of `SyncAllTables` over several tables: it stops at the first error and keeps
  nothing between two tables.
- `InvalidateCache`, the escape in cache keys and the byte layout of an entry: a request,
  a pure function on strings, a format.
- SQL text, other queries, scanning, options, connection, `pbconv`: no state between
  calls. What conversion does to a value is `Coerce`, `Stored` and `Storable`.
- The check queries and the wording of the instructions beside a migration script; GORM's
  hooks and its own nested transactions; gap locks and error 1213 in transactions on
  several rows; generated code.

## Plan

1. Proofs: `AlteredTablesAreAccepted` for tables in which nothing else has drifted.
2. `SchemaSync`: a server whose metadata lags behind its DDL, a run for the note on the
   lock's timeout.
