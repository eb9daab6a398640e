----------------------------- MODULE CacheAside -----------------------------
(***************************************************************************)
(* The cache-aside protocol of cache.go and of the by-primary-key          *)
(* operations of proto2mysql.go, for one row and its cache entry.          *)
(* Processes of different schema versions share the database and the       *)
(* cache; each knows some of the row's columns.  A step is one request to  *)
(* the database or to the cache.  The statements of Save are one step      *)
(* here: module SaveRow shows that they act as one.                        *)
(***************************************************************************)
EXTENDS Naturals, Functions

CONSTANTS
  Callers,    \* goroutines, in processes of any version
  Columns,    \* columns of the online table
  Counter,    \* the column that DecrByPKIfEnough counts down
  Values,     \* column values
  Schema,     \* Schema[c]: the columns the process of c knows (fieldNumbers)
  Messages,   \* Messages[c]: what the process of c may write
  Kinds,      \* the operations in use, a subset of AllKinds
  MaxWrites,  \* bound: operations other than FindOneByPK in a behaviour
  InitialRows, \* what the row may be at first
  None        \* no row, no entry, nobody

ReadKinds == {"find", "findOrCreate"}
\* "save": Save, BatchSave row;  "update": Update, UpdateFieldsByPK, UpdateKVByPK, IncrByPK;
\* "decr": DecrByPKIfEnough;  "cas": UpdateIfVersion, UpdateFieldsIfVersion, their version
\* matching or not;
\* "where": UpdateByWhereWithArgs, DeleteByWhereWithArgs, DeleteByKV;  "tx": a Save and a
\* FindOneByPK in RunInTransaction.
AllKinds == ReadKinds \cup
  {"save", "update", "decr", "cas", "delete", "conditional", "where", "insert", "tx"}

Rows == [Columns -> Values]
Entries == UNION {[s -> Values] : s \in SUBSET Columns}

ASSUME CacheAssumption ==
  /\ Values \subseteq Nat /\ 0 \in Values
  /\ \A v \in Values : v > 0 => v - 1 \in Values
  /\ Counter \in Columns
  /\ Schema \in [Callers -> SUBSET Columns]
  /\ \A c \in Callers : Counter \in Schema[c]
  /\ DOMAIN Messages = Callers
  /\ \A c \in Callers : Messages[c] \subseteq [Schema[c] -> Values]
  /\ Kinds \subseteq AllKinds
  /\ MaxWrites \in Nat
  /\ InitialRows \subseteq Rows \cup {None}
  /\ None \notin Rows /\ None \notin Entries /\ None \notin Callers

VARIABLES
  db,       \* the committed row
  cache,    \* the entry: the columns its writer knew, with their values
  lock,     \* the transaction that holds the row lock
  draft,    \* the row as that transaction has written it
  pc,       \* pc[c]: the request caller c sends next
  kind,     \* kind[c]: the operation of caller c
  message,  \* message[c]: the values it passes
  found,    \* found[c]: what the last FindOneByPK or FindOrCreate read
  late,     \* late[c]: a statement of c is on the server, its reply was lost
  writes,   \* operations other than FindOneByPK started so far
  \* history, read by no action's guard:
  committed, \* every row the database has committed
  overtaken, \* overtaken[c]: c holds a row that no deletion to come will correct
  tainted    \* no deletion to come will correct the entry

calls == <<pc, kind, message, found>>
history == <<committed, overtaken, tainted>>
vars == <<db, cache, lock, draft, calls, late, writes, history>>

Requests == {"get", "load", "fill", "exec", "del", "read", "commit"}

TypeOK ==
  /\ db \in Rows \cup {None}
  /\ cache \in Entries \cup {None}
  /\ lock \in Callers \cup {None}
  /\ draft \in Rows \cup {None}
  /\ pc \in [Callers -> Requests \cup {"idle"}]
  /\ kind \in [Callers -> AllKinds]
  /\ \A c \in Callers : message[c] \in [Schema[c] -> Values]
  /\ \A c \in Callers : found[c] \in [Schema[c] -> Values] \cup {None}
  /\ late \in [Callers -> BOOLEAN]
  /\ writes \in 0..MaxWrites
  /\ committed \subseteq Rows
  /\ overtaken \in [Callers -> BOOLEAN]
  /\ tainted \in BOOLEAN

Init ==
  /\ db \in InitialRows
  /\ cache = None
  /\ lock = None
  /\ draft = None
  /\ pc = [c \in Callers |-> "idle"]
  /\ kind = [c \in Callers |-> "find"]
  /\ message = [c \in Callers |-> [col \in Schema[c] |-> 0]]
  /\ found = [c \in Callers |-> None]
  /\ late = [c \in Callers |-> FALSE]
  /\ writes = 0
  /\ committed = {db} \ {None}
  /\ overtaken = [c \in Callers |-> FALSE]
  /\ tainted = FALSE
-----------------------------------------------------------------------------
Goto(c, request) == pc' = [pc EXCEPT ![c] = request]

Start(c, k, m) ==
  /\ pc[c] = "idle" /\ ~late[c]
  /\ k \in Kinds
  /\ k # "find" => writes < MaxWrites
  /\ writes' = IF k = "find" THEN writes ELSE writes + 1
  /\ kind' = [kind EXCEPT ![c] = k]
  /\ message' = IF k = "find" THEN message ELSE [message EXCEPT ![c] = m]
  /\ found' = [found EXCEPT ![c] = None]
  /\ Goto(c, IF k \in ReadKinds THEN "get" ELSE "exec")
  /\ UNCHANGED <<db, cache, lock, draft, late, history>>

-----------------------------------------------------------------------------
(***************************************************************************)
(* FindOneByPK                                                             *)
(***************************************************************************)

\* The entry was written by a process that knew at least the columns the reader knows.
Usable(entry, s) == entry # None /\ s \subseteq DOMAIN entry

HitAnyEntry(c) ==
  /\ pc[c] = "get" /\ cache # None
  /\ found' = [found EXCEPT ![c] =
                 [col \in Schema[c] |-> IF col \in DOMAIN cache THEN cache[col] ELSE 0]]
  /\ Goto(c, "idle")
  /\ UNCHANGED <<db, cache, lock, draft, kind, message, late, writes, history>>

HitAndRefresh(c) ==
  /\ pc[c] = "get" /\ Usable(cache, Schema[c])
  /\ found' = [found EXCEPT ![c] = Restrict(cache, Schema[c])]
  /\ Goto(c, "fill")
  /\ UNCHANGED <<db, cache, lock, draft, kind, message, late, writes, history>>

Hit(c) ==
  /\ pc[c] = "get" /\ Usable(cache, Schema[c])
  /\ found' = [found EXCEPT ![c] = Restrict(cache, Schema[c])]
  /\ Goto(c, "idle")
  /\ UNCHANGED <<db, cache, lock, draft, kind, message, late, writes, history>>

\* No entry, an entry of an older schema, or an error of the cache: all are misses.
Miss(c) ==
  /\ pc[c] = "get"
  /\ Goto(c, "load")
  /\ UNCHANGED <<db, cache, lock, draft, kind, message, found, late, writes, history>>

\* The SELECT, a read of committed data.  FindOrCreate inserts when there is no row.
Load(c) ==
  /\ pc[c] = "load"
  /\ \/ /\ db # None
        /\ found' = [found EXCEPT ![c] = Restrict(db, Schema[c])]
        /\ Goto(c, "fill")
     \/ /\ db = None
        /\ Goto(c, IF kind[c] = "findOrCreate" THEN "exec" ELSE "idle")
        /\ UNCHANGED found
  /\ overtaken' = [overtaken EXCEPT ![c] = FALSE]
  /\ UNCHANGED <<db, cache, lock, draft, kind, message, late, writes, committed, tainted>>

Fill(c) ==
  /\ pc[c] = "fill"
  /\ cache' = found[c]
  /\ tainted' = overtaken[c]
  /\ Goto(c, "idle")
  /\ UNCHANGED <<db, lock, draft, kind, message, found, late, writes, committed, overtaken>>

\* The SELECT fails, or the entry cannot be set: the call ends.
ReadStepFails(c) ==
  /\ pc[c] \in {"load", "fill"}
  /\ Goto(c, "idle")
  /\ UNCHANGED <<db, cache, lock, draft, kind, message, found, late, writes, history>>

-----------------------------------------------------------------------------
(***************************************************************************)
(* Writes                                                                  *)
(***************************************************************************)

\* An UPDATE writes the columns its process knows; an INSERT leaves the others to their
\* defaults.
Updated(row, m) == [col \in Columns |-> IF col \in DOMAIN m THEN m[col] ELSE row[col]]
NewRow(m) == [col \in Columns |-> IF col \in DOMAIN m THEN m[col] ELSE 0]
Saved(row, m) == IF row = None THEN NewRow(m) ELSE Updated(row, m)

\* UPDATE ... SET f = f - 1 WHERE pk = ? AND f >= 1.
DecrementedUnguarded(row) ==
  IF row # None THEN <<[row EXCEPT ![Counter] = @ - 1], TRUE>> ELSE <<row, FALSE>>

Decremented(row) ==
  IF row # None /\ row[Counter] > 0
    THEN <<[row EXCEPT ![Counter] = @ - 1], TRUE>>
    ELSE <<row, FALSE>>

\* The rows the statement of an operation may leave behind, and whether it affects rows.
Outcomes(k, row, m) ==
  CASE k \in {"save", "tx"} -> {<<Saved(row, m), TRUE>>}
    [] k = "update" -> {<<IF row = None THEN None ELSE Updated(row, m), row # None>>}
    [] k = "decr" -> {Decremented(row)}
    [] k = "cas" ->
         {<<row, FALSE>>} \cup IF row = None THEN {} ELSE {<<Updated(row, m), TRUE>>}
    [] k = "delete" -> {<<None, row # None>>}
    [] k = "where" -> {<<IF row = None THEN None ELSE Updated(row, m), TRUE>>, <<None, TRUE>>}
    [] k \in {"insert", "findOrCreate"} ->
         IF row = None THEN {<<NewRow(m), TRUE>>} ELSE {<<row, FALSE>>}
    [] k = "conditional" -> {<<Saved(row, m), TRUE>>, <<row, FALSE>>}

\* Whether the operation deletes the entry once its statement has returned.
Invalidates(k, affected) ==
  \/ k \in {"save", "update", "delete"}
  \/ k \in {"decr", "cas", "conditional"} /\ affected

\* Only SaveConditional deletes the entry when the outcome is unknown.
InvalidatesOnError(k) == k = "conditional"

Commits(row) ==
  /\ db' = row
  /\ committed' = committed \cup ({row} \ {None})

\* What an entry, or a row about to be set, says of the row is what the database says.
FreshFor(entry, row) ==
  entry # None => row # None /\ entry = Restrict(row, DOMAIN entry)

\* From here on no deletion corrects rows in the hands of readers that differ from row.
OvertakenBy(row) ==
  overtaken' = [d \in Callers |->
                  overtaken[d] \/ (pc[d] = "fill" /\ ~FreshFor(found[d], row))]

\* Nobody is going to delete what is now stale: the answer of a write was lost, or it is a
\* write by WHERE, which deletes no entry (docs/cache.md:155).
NoDeletionFollows ==
  /\ tainted' = (tainted \/ ~FreshFor(cache, db'))
  /\ OvertakenBy(db')

Exec(c) ==
  /\ pc[c] = "exec" /\ kind[c] # "tx" /\ lock = None
  /\ \E out \in Outcomes(kind[c], db, message[c]) :
       /\ Commits(out[1])
       /\ IF Invalidates(kind[c], out[2])
            THEN Goto(c, "del") /\ UNCHANGED <<overtaken, tainted>>
            ELSE /\ Goto(c, "idle")
                 /\ IF kind[c] = "where" THEN NoDeletionFollows
                                         ELSE UNCHANGED <<overtaken, tainted>>
  /\ UNCHANGED <<cache, lock, draft, kind, message, found, late, writes>>

\* The statement fails without running.
ExecFails(c) ==
  /\ pc[c] = "exec"
  /\ Goto(c, IF InvalidatesOnError(kind[c]) THEN "del" ELSE "idle")
  /\ UNCHANGED <<db, cache, lock, draft, kind, message, found, late, writes, history>>

\* The reply is lost; the statement may still run.
ExecLost(c) ==
  /\ pc[c] = "exec" /\ kind[c] # "tx"
  /\ late' = [late EXCEPT ![c] = TRUE]
  /\ Goto(c, IF InvalidatesOnError(kind[c]) THEN "del" ELSE "idle")
  /\ UNCHANGED <<db, cache, lock, draft, kind, message, found, writes, history>>

LateExec(c) ==
  /\ late[c] /\ lock = None
  /\ late' = [late EXCEPT ![c] = FALSE]
  /\ \/ \E out \in Outcomes(kind[c], db, message[c]) : Commits(out[1]) /\ NoDeletionFollows
     \/ UNCHANGED <<db, history>>
  /\ UNCHANGED <<cache, lock, draft, calls, writes>>

\* cacheDelKeys, after which only rows read before the write can make the entry stale.
Del(c) ==
  /\ pc[c] = "del"
  /\ cache' = None
  /\ tainted' = FALSE
  /\ OvertakenBy(db)
  /\ Goto(c, "idle")
  /\ UNCHANGED <<db, lock, draft, kind, message, found, late, writes, committed>>

\* The deletion fails, or the process stops before it.
DelFails(c) ==
  /\ pc[c] = "del"
  /\ tainted' = (tainted \/ ~FreshFor(cache, db))
  /\ OvertakenBy(db)
  /\ Goto(c, "idle")
  /\ UNCHANGED <<db, cache, lock, draft, kind, message, found, late, writes, committed>>

-----------------------------------------------------------------------------
(***************************************************************************)
(* RunInTransaction: Save, then FindOneByPK, in one transaction            *)
(***************************************************************************)

\* The write takes the row lock; the deletion of the entry is put off.
TxExec(c) ==
  /\ pc[c] = "exec" /\ kind[c] = "tx" /\ lock = None
  /\ lock' = c
  /\ draft' = Saved(db, message[c])
  /\ Goto(c, "read")
  /\ UNCHANGED <<db, cache, kind, message, found, late, writes, history>>

\* FindOneByPK inside the transaction neither reads nor sets the cache.
TxReadFills(c) ==
  /\ pc[c] = "read"
  /\ cache' = Restrict(draft, Schema[c])
  /\ Goto(c, "commit")
  /\ UNCHANGED <<db, lock, draft, kind, message, found, late, writes, history>>

TxRead(c) ==
  /\ pc[c] = "read"
  /\ Goto(c, "commit")
  /\ UNCHANGED <<db, cache, lock, draft, kind, message, found, late, writes, history>>

Unlock == lock' = None /\ draft' = None

\* The commit succeeds: the deletions put off are due.
CommitForgetsDeletions(c) ==
  /\ pc[c] = "commit"
  /\ Commits(draft)
  /\ Unlock
  /\ Goto(c, "idle")
  /\ UNCHANGED <<cache, kind, message, found, late, writes, overtaken, tainted>>

Commit(c) ==
  /\ pc[c] = "commit"
  /\ Commits(draft)
  /\ Unlock
  /\ Goto(c, "del")
  /\ UNCHANGED <<cache, kind, message, found, late, writes, overtaken, tainted>>

\* The reply of the commit is lost: an error, whatever the server did.
CommitLost(c) ==
  /\ pc[c] = "commit"
  /\ \/ Commits(draft) /\ NoDeletionFollows
     \/ UNCHANGED <<db, history>>
  /\ Unlock
  /\ Goto(c, "idle")
  /\ UNCHANGED <<cache, kind, message, found, late, writes>>

\* The callback returned an error or panicked: the entry stays.
Rollback(c) ==
  /\ pc[c] \in {"read", "commit"}
  /\ Unlock
  /\ Goto(c, "idle")
  /\ UNCHANGED <<db, cache, kind, message, found, late, writes, history>>

\* The TTL of the entry passes.
Expire ==
  /\ cache # None
  /\ cache' = None
  /\ tainted' = FALSE
  /\ UNCHANGED <<db, lock, draft, calls, late, writes, committed, overtaken>>

Next ==
  \/ \E c \in Callers : \E k \in AllKinds : \E m \in Messages[c] : Start(c, k, m)
  \/ \E c \in Callers :
       \/ Hit(c) \/ Miss(c) \/ Load(c) \/ Fill(c) \/ ReadStepFails(c)
       \/ Exec(c) \/ ExecFails(c) \/ ExecLost(c) \/ LateExec(c) \/ Del(c) \/ DelFails(c)
       \/ TxExec(c) \/ TxRead(c) \/ Commit(c) \/ CommitLost(c) \/ Rollback(c)
  \/ Expire

Spec == Init /\ [][Next]_vars

\* Entries have a finite TTL (cacheTTL > 0): one that stays expires.
FairSpec == Spec /\ WF_vars(Expire)
-----------------------------------------------------------------------------
(***************************************************************************)
(* Properties                                                              *)
(***************************************************************************)

Fresh == FreshFor(cache, db)

\* A stale entry has a cause the documentation names: a writer is about to delete it;
\* or it was set by a reader whose SELECT a writer had overtaken; or its deletion
\* failed, or was never sent (lost replies, WHERE writes).  Nothing else makes the
\* cache disagree with the database, transactions included.
StaleEntriesHaveACause ==
  ~Fresh => tainted \/ \E c \in Callers : pc[c] = "del"

\* What the cache holds was committed at some time, in one piece.
EntriesAreCommitted ==
  cache # None => \E row \in committed : cache = Restrict(row, DOMAIN cache)

\* What a reader gets was committed in one piece in all the columns it knows: no column
\* reads as zero because an older process, which does not know it, set the entry.
FindsAreWhole ==
  \A c \in Callers :
    found[c] # None => \E row \in committed : found[c] = Restrict(row, Schema[c])

\* Once writes cease, a finite TTL ends every staleness for good.
StalenessEnds == <>[]Fresh
=============================================================================
