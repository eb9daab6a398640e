------------------------------ MODULE RowStore ------------------------------
(***************************************************************************)
(* What DB.Save and DB.BatchSave promise their callers, without their      *)
(* statements: the messages of a batch are saved one after the other, each *)
(* in one atomic step that leaves its row equal to the message, or finds   *)
(* it so; the first failure ends the batch.  A batch that failed with an   *)
(* error may still save the message it failed at: the server may run a     *)
(* statement whose reply the client lost.                                  *)
(***************************************************************************)
EXTENDS PlainTable

CONSTANTS
  Calls,          \* calls of Save (a batch of one) and BatchSave
  Batches,        \* the sequences of messages they may carry
  Unfit,          \* messages whose key columns cannot hold their values
  InitialTables,  \* what the table may hold before the calls
  Deletable       \* keys whose row somebody may delete

VARIABLES
  table,    \* the rows
  batch,    \* batch[c]: the messages of call c
  at,       \* at[c]: the message being saved
  answer,   \* answer[c]: what the call returned
  outlived  \* outlived[c]: the message a failed call stopped at was saved after all

vars == <<table, batch, at, answer, outlived>>

Init ==
  /\ table \in InitialTables
  /\ batch \in [Calls -> Batches]
  /\ at = [c \in Calls |-> 1]
  /\ answer = [c \in Calls |-> "idle"]
  /\ outlived = [c \in Calls |-> FALSE]

Refused(b) == \E i \in DOMAIN b : b[i] \in Unfit

Invoke(c, b) ==
  /\ answer[c] = "idle"
  /\ batch' = [batch EXCEPT ![c] = b]
  /\ answer' = [answer EXCEPT ![c] = IF b = <<>> THEN "saved"
                                     ELSE IF Refused(b) THEN "invalid" ELSE "pending"]
  /\ UNCHANGED <<table, at, outlived>>

\* The row of message m becomes the message, which no other row's UNIQUE value forbids.
Write(m) ==
  /\ ~AliasTaken(table, m.key, m.body)
  /\ table' = [table EXCEPT ![m.key] = Coerce[m.body]]

Advance(c) ==
  IF at[c] < Len(batch[c])
    THEN at' = [at EXCEPT ![c] = @ + 1] /\ UNCHANGED answer
    ELSE answer' = [answer EXCEPT ![c] = "saved"] /\ UNCHANGED at

SaveOne(c) ==
  LET m == batch[c][at[c]]
  IN /\ answer[c] = "pending"
     /\ \/ Write(m)
        \/ IsTarget(table[m.key], m) /\ UNCHANGED table
     /\ Advance(c)
     /\ UNCHANGED <<batch, outlived>>

Fail(c) ==
  /\ answer[c] = "pending"
  /\ \E a \in {"error", "conflict"} : answer' = [answer EXCEPT ![c] = a]
  /\ UNCHANGED <<table, batch, at, outlived>>

Outlive(c) ==
  /\ answer[c] = "error" /\ ~outlived[c]
  /\ Write(batch[c][at[c]])
  /\ outlived' = [outlived EXCEPT ![c] = TRUE]
  /\ UNCHANGED <<batch, at, answer>>

Delete(k) ==
  /\ k \in Deletable
  /\ table[k] # None
  /\ table' = [table EXCEPT ![k] = None]
  /\ UNCHANGED <<batch, at, answer, outlived>>

Next ==
  \/ \E c \in Calls : (\E b \in Batches : Invoke(c, b)) \/ SaveOne(c) \/ Fail(c) \/ Outlive(c)
  \/ \E k \in Keys : Delete(k)

Spec == Init /\ [][Next]_vars
=============================================================================
