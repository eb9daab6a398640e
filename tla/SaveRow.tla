------------------------------ MODULE SaveRow ------------------------------
(***************************************************************************)
(* DB.Save and DB.BatchSave (proto2mysql.go), statement by statement:      *)
(* saveByPrimaryKey sends UPDATE by primary key, then INSERT, and when the *)
(* INSERT meets 1062 the same UPDATE again and a FOR UPDATE comparison of  *)
(* the whole row.  BatchSave does so for one message after the other.      *)
(* Calls run concurrently outside explicit transactions, so each SQL       *)
(* statement is one atomic step on the table.                              *)
(***************************************************************************)
EXTENDS PlainTable

CONSTANTS
  Calls,          \* calls of Save (a batch of one) and BatchSave
  Batches,        \* the sequences of messages they may carry
  MaxBatch,       \* the longest of them
  Unfit,          \* messages whose key columns cannot hold their values
  FoundRows,      \* DSN option clientFoundRows: count matched rows, not changed rows
  InitialTables,  \* what the table may hold before the calls
  Deletable       \* keys whose row somebody may delete

ASSUME CallAssumption ==
  /\ MaxBatch \in Nat \ {0}
  /\ Batches \subseteq UNION {[1..n -> Messages] : n \in 0..MaxBatch}
  /\ Batches # {}
  /\ Unfit \subseteq Messages
  /\ FoundRows \in BOOLEAN
  /\ InitialTables \subseteq Tables
  /\ \A t \in InitialTables : Stored(t)
  /\ Deletable \subseteq Keys
  /\ None \notin Calls

VARIABLES
  table,     \* the rows
  batch,     \* batch[c]: the messages of call c
  at,        \* at[c]: the message being saved (the loop index of BatchSave)
  pc,        \* pc[c]: the statement call c sends next
  answer,    \* answer[c]: what the call returned
  late,      \* late[c]: statement on the server whose reply the client lost
  \* history, read by no action's guard:
  refusal,   \* refusal[c]: the UNIQUE key the INSERT for this message violated
  disturbed, \* disturbed[c]: the row was changed by others since that INSERT
  wrote      \* wrote[c][i]: how many statements for message i took effect

flow == <<batch, at, pc, answer>>
vars == <<table, flow, late, refusal, disturbed, wrote>>

Statements == {"update", "insert", "retry", "match"}
Answers == {"idle", "pending", "invalid", "saved", "conflict", "error"}

TypeOK ==
  /\ table \in Tables
  /\ batch \in [Calls -> Batches]
  /\ at \in [Calls -> 1..MaxBatch]
  /\ pc \in [Calls -> Statements \cup {"done"}]
  /\ answer \in [Calls -> Answers]
  /\ late \in [Calls -> {"none", "update", "insert"}]
  /\ refusal \in [Calls -> {"none", "pk", "alias"}]
  /\ disturbed \in [Calls -> BOOLEAN]
  /\ wrote \in [Calls -> [1..MaxBatch -> Nat]]
  /\ \A c \in Calls :
       answer[c] \in {"pending", "conflict", "error"} => at[c] \in DOMAIN batch[c]

Init ==
  /\ table \in InitialTables
  /\ batch = [c \in Calls |-> CHOOSE b \in Batches : TRUE]
  /\ at = [c \in Calls |-> 1]
  /\ pc = [c \in Calls |-> "done"]
  /\ answer = [c \in Calls |-> "idle"]
  /\ late = [c \in Calls |-> "none"]
  /\ refusal = [c \in Calls |-> "none"]
  /\ disturbed = [c \in Calls |-> FALSE]
  /\ wrote = [c \in Calls |-> [i \in 1..MaxBatch |-> 0]]
-----------------------------------------------------------------------------
Message(c) == batch[c][at[c]]
Row(c) == table[Message(c).key]
Taken(c) == AliasTaken(table, Message(c).key, Message(c).body)

\* RowsAffected > 0: the row is there and changes (or clientFoundRows counts matches).
Affects(c) ==
  /\ Row(c) # None
  /\ FoundRows \/ Coerce[Message(c).body] # Row(c)

Refused(b) == \E i \in DOMAIN b : b[i] \in Unfit

\* Up to the first statement: an empty batch is saved, and every message of the batch
\* has its key columns checked before any is written.
Start(c, b) ==
  /\ answer[c] = "idle"
  /\ batch' = [batch EXCEPT ![c] = b]
  /\ \/ /\ b = <<>>
        /\ answer' = [answer EXCEPT ![c] = "saved"]
        /\ UNCHANGED pc
     \/ /\ b # <<>> /\ Refused(b)
        /\ answer' = [answer EXCEPT ![c] = "invalid"]
        /\ UNCHANGED pc
     \/ /\ b # <<>> /\ ~Refused(b)
        /\ answer' = [answer EXCEPT ![c] = "pending"]
        /\ pc' = [pc EXCEPT ![c] = "update"]
  /\ UNCHANGED <<table, at, late, refusal, disturbed, wrote>>

Goto(c, statement) ==
  /\ pc' = [pc EXCEPT ![c] = statement]
  /\ UNCHANGED <<batch, at, answer>>

Return(c, a) ==
  /\ pc' = [pc EXCEPT ![c] = "done"]
  /\ answer' = [answer EXCEPT ![c] = a]
  /\ UNCHANGED <<batch, at>>

\* saveByPrimaryKey returned nil: the next message of the batch, if any.
RowSaved(c) ==
  IF at[c] < Len(batch[c])
    THEN /\ at' = [at EXCEPT ![c] = @ + 1]
         /\ pc' = [pc EXCEPT ![c] = "update"]
         /\ UNCHANGED <<batch, answer>>
    ELSE Return(c, "saved")

\* saveByPrimaryKey returned an error: BatchSave returns it, the rest is not saved.
SkipsToNextRow(c, a) == RowSaved(c)

RowFails(c, a) == Return(c, a)

\* Row k changes by a statement of writer (a call or None).
Disturb(writer, k) ==
  disturbed' = [c \in Calls |->
                  \/ disturbed[c]
                  \/ c # writer /\ answer[c] = "pending" /\ Message(c).key = k]

Put(c) ==
  /\ table' = [table EXCEPT ![Message(c).key] = Coerce[Message(c).body]]
  /\ wrote' = [wrote EXCEPT ![c][at[c]] = @ + 1]
  /\ Disturb(c, Message(c).key)

NoEffect == UNCHANGED <<table, wrote, disturbed>>

UpdateApplies(c) ==
  /\ pc[c] \in {"update", "retry"} /\ Affects(c) /\ ~Taken(c)
  /\ Put(c)
  /\ RowSaved(c)
  /\ UNCHANGED <<late, refusal>>

UpdateZeroRows(c) ==
  /\ pc[c] \in {"update", "retry"} /\ ~Affects(c)
  /\ Goto(c, IF pc[c] = "update" THEN "insert" ELSE "match")
  /\ NoEffect
  /\ UNCHANGED <<late, refusal>>

\* The new values collide with another row's alternate UNIQUE column.
UpdateDuplicate(c) ==
  /\ pc[c] \in {"update", "retry"} /\ Affects(c) /\ Taken(c)
  /\ RowFails(c, "error")
  /\ NoEffect
  /\ UNCHANGED <<late, refusal>>

InsertApplies(c) ==
  /\ pc[c] = "insert" /\ Row(c) = None /\ ~Taken(c)
  /\ Put(c)
  /\ RowSaved(c)
  /\ UNCHANGED <<late, refusal>>

\* 1062: the row was there all along or was inserted meanwhile, or another row holds
\* the alternate UNIQUE value.
InsertRefused(c, next) ==
  /\ pc[c] = "insert" /\ (Row(c) # None \/ Taken(c))
  /\ refusal' = [refusal EXCEPT ![c] = IF Row(c) # None THEN "pk" ELSE "alias"]
  /\ disturbed' = [disturbed EXCEPT ![c] = FALSE]
  /\ Goto(c, next)
  /\ UNCHANGED <<table, wrote, late>>

InsertDuplicateNoRetry(c) == InsertRefused(c, "match")

InsertDuplicate(c) == InsertRefused(c, "retry")

\* The classification: FOR UPDATE, every known column against the values sent.
MatchExistence(c) ==
  /\ pc[c] = "match"
  /\ IF Row(c) # None THEN RowSaved(c) ELSE RowFails(c, "conflict")
  /\ NoEffect
  /\ UNCHANGED <<late, refusal>>

Match(c) ==
  /\ pc[c] = "match"
  /\ IF IsTarget(Row(c), Message(c)) THEN RowSaved(c) ELSE RowFails(c, "conflict")
  /\ NoEffect
  /\ UNCHANGED <<late, refusal>>

\* A statement fails without running (connection refused, lock wait timeout, ...).
StatementFails(c) ==
  /\ pc[c] \in Statements
  /\ RowFails(c, "error")
  /\ NoEffect
  /\ UNCHANGED <<late, refusal>>

\* The client gives up on a write that the server still holds ...
ReplyLost(c) ==
  /\ pc[c] \in {"update", "insert", "retry"}
  /\ late' = [late EXCEPT ![c] = IF pc[c] = "insert" THEN "insert" ELSE "update"]
  /\ RowFails(c, "error")
  /\ NoEffect
  /\ UNCHANGED refusal

\* ... and runs later.
LateStatement(c) ==
  /\ late[c] # "none"
  /\ late' = [late EXCEPT ![c] = "none"]
  /\ LET runs == /\ ~Taken(c)
                 /\ IF late[c] = "update" THEN Affects(c) ELSE Row(c) = None
     IN \/ runs /\ Put(c)
        \/ ~runs /\ NoEffect
  /\ UNCHANGED <<flow, refusal>>

\* Somebody deletes the row physically.
Delete(k) ==
  /\ k \in Deletable
  /\ table[k] # None
  /\ table' = [table EXCEPT ![k] = None]
  /\ Disturb(None, k)
  /\ UNCHANGED <<flow, late, refusal, wrote>>

Next ==
  \/ \E c \in Calls : \E b \in Batches : Start(c, b)
  \/ \E c \in Calls :
       \/ UpdateApplies(c) \/ UpdateZeroRows(c) \/ UpdateDuplicate(c)
       \/ InsertApplies(c) \/ InsertDuplicate(c) \/ Match(c)
       \/ StatementFails(c) \/ ReplyLost(c) \/ LateStatement(c)
  \/ \E k \in Keys : Delete(k)

Spec == Init /\ [][Next]_vars
-----------------------------------------------------------------------------
(***************************************************************************)
(* Properties                                                              *)
(***************************************************************************)

\* BatchSave writes a prefix of its messages, each at most once: nothing beyond the
\* message it is at, or stopped at, is ever written, and that message itself only
\* when the call goes on or ends with it or fails with an error of unknown outcome.
\* A batch with a message that cannot be stored writes nothing at all.
BatchSavesAPrefix ==
  \A c \in Calls :
    /\ \A i \in 1..MaxBatch : wrote[c][i] <= 1
    /\ \A i \in 1..MaxBatch : wrote[c][i] = 1 => i <= at[c]
    /\ wrote[c][at[c]] = 1 => answer[c] \in {"saved", "error"}
    /\ answer[c] = "saved" /\ batch[c] # <<>> => at[c] = Len(batch[c])

\* With columns that store what is written, ErrDuplicateKey "conflicts with a different
\* unique row" is returned only if another row refused the INSERT, or others changed
\* the row again after the INSERT was refused: a row that another Save has just
\* inserted is overwritten by the second UPDATE and is no conflict.
ConflictNeedsInterference ==
  \A c \in Calls :
    answer[c] = "conflict" /\ Coerce[Message(c).body] = Message(c).body
      => refusal[c] = "alias" \/ disturbed[c]

\* ErrDuplicateKey "conflicts with a different unique row" is only returned when it
\* was another row that refused the INSERT.
ConflictNamesAnotherRow ==
  \A c \in Calls : answer[c] = "conflict" => refusal[c] = "alias"

\* The statements implement the atomic row-by-row save.
Abstract == INSTANCE RowStore
  WITH outlived <- [c \in Calls |-> answer[c] = "error" /\ wrote[c][at[c]] # 0]

ImplementsRowStore == Abstract!Spec
=============================================================================
