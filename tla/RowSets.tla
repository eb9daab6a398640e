------------------------------ MODULE RowSets ------------------------------
(***************************************************************************)
(* Operations on many rows.  BatchInsert and BatchDelete send a statement  *)
(* per chunk of the batch and are not atomic: a failure leaves the chunks  *)
(* before it done.  FindPageByCursor reads a table page by page while      *)
(* others insert and delete.                                               *)
(*                                                                         *)
(* A message is [type, key, fits]: the table its type is registered for,   *)
(* its primary key, which may have several columns, and whether its key    *)
(* columns can hold their values.  Cursor gives the column a walk follows. *)
(***************************************************************************)
EXTENDS Integers, SequencesExt

CONSTANTS
  Types,       \* registered message types, with a table each
  Keys,        \* primary keys: sequences of column values
  Cursor,      \* Cursor[k]: the value of the cursor column in row k
  Jobs,        \* calls of BatchInsert and BatchDelete
  Plans,       \* what they may be asked: [op, batch]
  Walks,       \* walks over one table, a page at a time
  ChunkSize,   \* BatchInsertMaxSize
  PageSize,    \* pageSize of the walks
  WalkedType,  \* the type walked over
  NoCursor,    \* the nil cursorVal of a first page
  InitialRows  \* the rows found at first: functions from Types

Rows == [Types -> SUBSET Keys]
Messages == [type : Types, key : Keys, fits : BOOLEAN]

ASSUME RowSetsAssumption ==
  /\ Cursor \in [Keys -> Int] /\ IsFiniteSet(Keys)
  /\ \A p \in Plans : p.op \in {"insert", "delete"} /\ p.batch \in Seq(Messages)
  /\ ChunkSize \in Nat \ {0} /\ PageSize \in Nat \ {0}
  /\ WalkedType \in Types /\ NoCursor \notin Int
  /\ InitialRows \subseteq Rows

VARIABLES
  rows,      \* rows[t]: keys of the rows of table t
  cached,    \* cached[t]: keys of the rows of table t that have a cache entry
  plan,      \* plan[j]: what job j was asked
  chunk,     \* chunk[j]: the chunk it is at
  state,     \* state[j]: "idle", "running", "invalidating", or what it returned
  cursor,    \* cursor[w]: cursorVal of the next page; NoCursor is nil
  walk,      \* walk[w]: "idle", "walking", "done"
  seen,      \* seen[w]: how often walk w was given each row
  \* history:
  touched,   \* touched[j]: the rows the statements of job j inserted or deleted
  stayed,    \* stayed[w]: the rows there since walk w began
  unsent     \* unsent[t]: keys whose entry stayed because a deletion was lost or failed

jobs == <<plan, chunk, state, touched>>
walks == <<cursor, walk, seen, stayed>>
setsVars == <<rows, cached, jobs, walks, unsent>>

Row(m) == <<m.type, m.key>>
NoPlan == [op |-> "insert", batch |-> <<>>]

SetsInit ==
  /\ rows \in InitialRows
  /\ cached \in {[t \in Types |-> {}], rows}
  /\ plan = [j \in Jobs |-> NoPlan]
  /\ chunk = [j \in Jobs |-> 1]
  /\ state = [j \in Jobs |-> "idle"]
  /\ cursor = [w \in Walks |-> NoCursor]
  /\ walk = [w \in Walks |-> "idle"]
  /\ seen = [w \in Walks |-> [k \in Keys |-> 0]]
  /\ touched = [j \in Jobs |-> {}]
  /\ stayed = [w \in Walks |-> {}]
  /\ unsent = [t \in Types |-> {}]
-----------------------------------------------------------------------------
NumChunks(batch) == (Len(batch) + ChunkSize - 1) \div ChunkSize
ChunkOf(batch, i) ==
  SubSeq(batch, (i - 1) * ChunkSize + 1, IF i * ChunkSize < Len(batch) THEN i * ChunkSize
                                                                      ELSE Len(batch))

\* validateKeyValues, for the table of the first message: others are left to later checks.
Invalid(messages) ==
  \E i \in DOMAIN messages : messages[i].type = messages[1].type /\ ~messages[i].fits

\* BatchInsert validated chunk by chunk, each before its own statement.
MutantRefused(op, batch) ==
  IF op = "insert"
    THEN batch = <<>> \/ Invalid(ChunkOf(batch, 1))
    ELSE Invalid(batch) \/ \E i \in DOMAIN batch : batch[i].type # batch[1].type

\* What is refused before the first statement.
Refused(op, batch) ==
  IF op = "insert"
    THEN batch = <<>> \/ \E i \in 1..NumChunks(batch) : Invalid(ChunkOf(batch, i))
    ELSE Invalid(batch) \/ \E i \in DOMAIN batch : batch[i].type # batch[1].type

StartJob(j, p) ==
  /\ state[j] = "idle"
  /\ plan' = [plan EXCEPT ![j] = p]
  /\ state' = [state EXCEPT ![j] = CASE Refused(p.op, p.batch) -> "refused"
                                     [] p.batch = <<>> /\ ~Refused(p.op, p.batch) -> "done"
                                     [] OTHER -> "running"]
  /\ UNCHANGED <<rows, cached, chunk, touched, walks, unsent>>

Current(j) == ChunkOf(plan[j].batch, chunk[j])
TableOf(j) == Current(j)[1].type
Named(messages) == {m.key : m \in ToSet(messages)}

\* What changes in the table changes what the walks over it can be asked to see.
Writes(j, t, after) ==
  /\ rows' = [rows EXCEPT ![t] = after]
  /\ touched' = [touched EXCEPT ![j] = @ \cup ({t} \X ((rows[t] \ after) \cup (after \ rows[t])))]
  /\ stayed' = IF t = WalkedType THEN [w \in Walks |-> stayed[w] \cap after] ELSE stayed

Advance(j) ==
  IF chunk[j] < NumChunks(plan[j].batch)
    THEN chunk' = [chunk EXCEPT ![j] = @ + 1] /\ state' = [state EXCEPT ![j] = "running"]
    ELSE state' = [state EXCEPT ![j] = "done"] /\ UNCHANGED chunk

Running(j, op) == state[j] = "running" /\ plan[j].op = op

\* One INSERT of the chunk: all its rows or, with a key that is there or twice in it, none.
Insertable(j) ==
  /\ \A i \in DOMAIN Current(j) : Current(j)[i].type = TableOf(j) /\ Current(j)[i].fits
  /\ IsInjective([i \in DOMAIN Current(j) |-> Current(j)[i].key])
  /\ Named(Current(j)) \cap rows[TableOf(j)] = {}

InsertChunk(j) ==
  /\ Running(j, "insert")
  /\ Insertable(j)
  /\ Writes(j, TableOf(j), rows[TableOf(j)] \cup Named(Current(j)))
  /\ Advance(j)
  /\ UNCHANGED <<cached, plan, cursor, walk, seen, unsent>>

\* GetBatchInsertSQLWithArgs refuses a chunk of several types, the server a duplicate.
InsertChunkRefused(j) ==
  /\ Running(j, "insert")
  /\ ~Insertable(j)
  /\ state' = [state EXCEPT ![j] = "error"]
  /\ UNCHANGED <<rows, cached, plan, chunk, touched, walks, unsent>>

\* (pk1, ...) IN ((...), ...), the full key of every message.
Deleted(j) == rows[TableOf(j)] \cap Named(Current(j))

\* WHERE on the first column of the primary key.
MutantDeleteChunk(j) ==
  /\ Running(j, "delete")
  /\ Writes(j, TableOf(j), {k \in rows[TableOf(j)] : \A d \in Named(Current(j)) : k[1] # d[1]})
  /\ state' = [state EXCEPT ![j] = "invalidating"]
  /\ UNCHANGED <<cached, plan, chunk, cursor, walk, seen, unsent>>

DeleteChunk(j) ==
  /\ Running(j, "delete")
  /\ Writes(j, TableOf(j), rows[TableOf(j)] \ Deleted(j))
  /\ state' = [state EXCEPT ![j] = "invalidating"]
  /\ UNCHANGED <<cached, plan, chunk, cursor, walk, seen, unsent>>

\* Entries go with the last chunk only, for the whole batch.
MutantInvalidateChunk(j) ==
  /\ state[j] = "invalidating"
  /\ cached' = IF chunk[j] = NumChunks(plan[j].batch)
                 THEN [cached EXCEPT ![TableOf(j)] = @ \ Named(plan[j].batch)] ELSE cached
  /\ Advance(j)
  /\ UNCHANGED <<rows, plan, touched, walks, unsent>>

\* The entries of the chunk go before the next one is sent; a failure is only logged.
InvalidateChunk(j) ==
  /\ state[j] = "invalidating"
  /\ \/ /\ cached' = [cached EXCEPT ![TableOf(j)] = @ \ Named(Current(j))]
        /\ UNCHANGED unsent
     \/ /\ unsent' = [unsent EXCEPT ![TableOf(j)] = @ \cup Named(Current(j))]
        /\ UNCHANGED cached
  /\ Advance(j)
  /\ UNCHANGED <<rows, plan, touched, walks>>

\* The statement fails, or its reply is lost and it has been executed.
ChunkFails(j) ==
  /\ state[j] = "running"
  /\ state' = [state EXCEPT ![j] = "error"]
  /\ \/ UNCHANGED <<rows, touched, stayed, unsent>>
     \/ /\ Running(j, "delete")
        /\ Writes(j, TableOf(j), rows[TableOf(j)] \ Deleted(j))
        /\ unsent' = [unsent EXCEPT ![TableOf(j)] = @ \cup Named(Current(j))]
     \/ /\ Running(j, "insert") /\ Insertable(j)
        /\ Writes(j, TableOf(j), rows[TableOf(j)] \cup Named(Current(j)))
        /\ UNCHANGED unsent
  /\ UNCHANGED <<cached, plan, chunk, cursor, walk, seen>>
-----------------------------------------------------------------------------
StartWalk(w) ==
  /\ walk[w] = "idle"
  /\ walk' = [walk EXCEPT ![w] = "walking"]
  /\ stayed' = [stayed EXCEPT ![w] = rows[WalkedType]]
  /\ UNCHANGED <<rows, cached, jobs, cursor, seen, unsent>>

\* The first page asked for with the zero value.
MutantAfter(w) ==
  {k \in rows[WalkedType] : Cursor[k] > (IF cursor[w] = NoCursor THEN 0 ELSE cursor[w])}

\* WHERE cursor > ?; the first page has no condition.
After(w) ==
  {k \in rows[WalkedType] : cursor[w] = NoCursor \/ Cursor[k] > cursor[w]}

MutantPages(candidates) ==
  {page \in SUBSET candidates : Cardinality(page) = Min({PageSize, Cardinality(candidates)})}

\* ORDER BY cursor ASC LIMIT: rows of equal value come in any order.
Pages(candidates) ==
  {page \in SUBSET candidates :
     /\ Cardinality(page) = Min({PageSize, Cardinality(candidates)})
     /\ \A k \in page, other \in candidates \ page : Cursor[k] <= Cursor[other]}

\* FindPageByCursor; the caller goes on with the last row's value until a page is not full.
FindPageByCursor(w) ==
  /\ walk[w] = "walking"
  /\ \E page \in Pages(After(w)) :
       /\ seen' = [seen EXCEPT ![w] = [k \in Keys |-> IF k \in page THEN @[k] + 1 ELSE @[k]]]
       /\ IF Cardinality(page) < PageSize
            THEN walk' = [walk EXCEPT ![w] = "done"] /\ UNCHANGED cursor
            ELSE cursor' = [cursor EXCEPT ![w] = Max({Cursor[k] : k \in page})] /\ UNCHANGED walk
  /\ UNCHANGED <<rows, cached, jobs, stayed, unsent>>

SetsNext ==
  \/ \E j \in Jobs :
       \/ \E p \in Plans : StartJob(j, p)
       \/ InsertChunk(j) \/ InsertChunkRefused(j)
       \/ DeleteChunk(j) \/ InvalidateChunk(j) \/ ChunkFails(j)
  \/ \E w \in Walks : StartWalk(w) \/ FindPageByCursor(w)

SetsSpec == SetsInit /\ [][SetsNext]_setsVars
-----------------------------------------------------------------------------
NamedRows(messages) == {Row(m) : m \in ToSet(messages)}
FirstChunks(batch, n) == UNION {NamedRows(ChunkOf(batch, i)) : i \in 1..n}

\* A batch touches the rows it names and no other row of a composite key, and none when a
\* key value of its first table does not fit.
NamedRowsOnly(j) ==
  LET batch == plan[j].batch IN
  /\ touched[j] \subseteq NamedRows(batch)
  /\ Invalid(batch) =>
       touched[j] = {} \/ \E m \in ToSet(batch) : m.type # batch[1].type

\* What an insert leaves behind, however it ended, is whole chunks from the first on.
WholeChunks(j) ==
  plan[j].op = "insert" =>
    /\ \E n \in {chunk[j] - 1, chunk[j]} : touched[j] = FirstChunks(plan[j].batch, n)
    /\ state[j] = "done" => touched[j] = NamedRows(plan[j].batch)

\* A delete that stops halfway leaves no cache entry of the rows it has deleted, unless the
\* deletion of the entry itself failed or the reply of the statement was lost.
DeletedRowsAreNotCached ==
  \A t \in Types : \A k \in cached[t] \ rows[t] :
    \/ k \in unsent[t]
    \/ \E j \in Jobs : state[j] = "invalidating" /\ TableOf(j) = t /\ k \in Named(Current(j))

\* BatchInsert and BatchDelete are not atomic ("本方法不是原子的"), but whatever fails, whole
\* chunks of the named rows are done, nothing else, and the cache follows them.
BatchesStopAtAChunk ==
  /\ \A j \in Jobs : NamedRowsOnly(j) /\ WholeChunks(j)
  /\ DeletedRowsAreNotCached

\* A walk by cursor is given no row twice, and every row that was there all the time, while
\* others insert and delete; it misses one only when the cursor is not unique, and the row has
\* the same value as one it was given.
WalksAreComplete ==
  \A w \in Walks :
    /\ \A k \in Keys : seen[w][k] <= 1
    /\ walk[w] = "done" =>
         \A k \in stayed[w] : seen[w][k] = 0 =>
           \E other \in Keys \ {k} : Cursor[other] = Cursor[k] /\ seen[w][other] = 1
=============================================================================
