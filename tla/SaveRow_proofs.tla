--------------------------- MODULE SaveRow_proofs ---------------------------
(***************************************************************************)
(* Proofs about the statements of Save and BatchSave (module SaveRow): the *)
(* inductive invariant IInv, what it implies, and that the statements      *)
(* implement the atomic row-by-row save of RowStore.                       *)
(***************************************************************************)
EXTENDS SaveRow, SequenceTheorems, TLAPS

\* What excuses the answer "conflict": another row refused the INSERT, or others have
\* changed the row since the INSERT was refused.
Excused(c) == refusal[c] = "alias" \/ disturbed[c]

\* The columns of the message of call c read back as they are written.
Stores(c) == Coerce[Message(c).body] = Message(c).body

\* How far call c is through its batch, and what it has written of it.
Progress(c) ==
  /\ pc[c] = "done" <=> answer[c] # "pending"
  /\ answer[c] = "idle" => at[c] = 1
  /\ late[c] # "none" => answer[c] = "error" /\ wrote[c][at[c]] = 0
  /\ \A i \in 1..MaxBatch : wrote[c][i] <= 1
  /\ \A i \in 1..MaxBatch : i > at[c] => wrote[c][i] = 0
  /\ wrote[c][at[c]] # 0 => answer[c] \in {"saved", "error"}
  /\ answer[c] = "saved" /\ batch[c] # <<>> => at[c] = Len(batch[c])

\* What call c knows of its row: the one the INSERT met is there, the one the second
\* UPDATE left alone is the message, unless others interfered.
Seen(c) ==
  /\ answer[c] = "pending" /\ pc[c] = "retry" => Row(c) # None \/ Excused(c)
  /\ answer[c] = "pending" /\ pc[c] = "match" /\ Stores(c)
       => Row(c) = Message(c).body \/ Excused(c)
  /\ answer[c] = "conflict" /\ Stores(c) => Excused(c)

IInv == TypeOK /\ \A c \in Calls : Progress(c) /\ Seen(c)
-----------------------------------------------------------------------------
\* A batch is a sequence of messages no longer than MaxBatch.
LEMMA BatchFacts ==
  ASSUME NEW b \in Batches
  PROVE  /\ b \in Seq(Messages) /\ Len(b) \in 0..MaxBatch
         /\ b # <<>> => Len(b) >= 1
<1>1. PICK n \in 0..MaxBatch : b \in [1..n -> Messages]
  BY CallAssumption
<1>2. b \in Seq(Messages)
  BY <1>1, CallAssumption, SeqDef
<1>3. Len(b) = n
  BY <1>1, <1>2, CallAssumption, LenProperties
<1>4. b # <<>> => Len(b) >= 1
  BY <1>2, EmptySeq, LenProperties
<1> QED
  BY <1>2, <1>3, <1>4

\* The message a call that has started is at, or stopped at, and its row.
LEMMA CallFacts ==
  ASSUME TypeOK, NEW c \in Calls, answer[c] \in {"pending", "conflict", "error"}
  PROVE  /\ at[c] \in 1..Len(batch[c])
         /\ Message(c) \in Messages
         /\ Message(c).key \in Keys
         /\ Coerce[Message(c).body] \in Bodies
         /\ Row(c) \in Bodies \cup {None}
<1>1. batch[c] \in Batches /\ at[c] \in DOMAIN batch[c]
  BY DEF TypeOK
<1>2. batch[c] \in Seq(Messages)
  BY <1>1, BatchFacts
<1>3. at[c] \in 1..Len(batch[c])
  BY <1>1, <1>2, LenProperties
<1>4. Message(c) \in Messages
  BY <1>2, <1>3, ElementOfSeq DEF Message
<1>5. Message(c).key \in Keys /\ Message(c).body \in Bodies
  BY <1>4 DEF Messages
<1> QED
  BY <1>3, <1>4, <1>5, TableAssumption DEF TypeOK, Tables, Row

\* The counters as numbers.
LEMMA Counters ==
  ASSUME TypeOK, NEW c \in Calls
  PROVE  /\ MaxBatch \in Nat
         /\ at[c] \in Nat /\ at[c] >= 1 /\ at[c] <= MaxBatch
         /\ \A i \in 1..MaxBatch : wrote[c][i] \in Nat
<1>1. MaxBatch \in Nat /\ at[c] \in 1..MaxBatch
  BY CallAssumption DEF TypeOK
<1>2. wrote[c] \in [1..MaxBatch -> Nat]
  BY Zenon DEF TypeOK
<1>3. \A i \in 1..MaxBatch : wrote[c][i] \in Nat
  BY <1>2, Zenon
<1> QED
  BY <1>1, <1>3

\* Before the first call nothing is written and nothing is known.
LEMMA InitInv == Init => IInv
<1> SUFFICES ASSUME Init PROVE IInv
  OBVIOUS
<1>1. TypeOK
  <2>1. (CHOOSE b \in Batches : TRUE) \in Batches
    BY CallAssumption
  <2> QED
    BY <2>1, CallAssumption DEF Init, TypeOK, Answers
<1>2. ASSUME NEW c \in Calls PROVE Progress(c) /\ Seen(c)
  BY CallAssumption DEF Init, Progress, Seen
<1> QED
  BY <1>1, <1>2 DEF IInv
-----------------------------------------------------------------------------
\* Going on to the next message keeps the types of what a call goes through.
LEMMA RowSavedTypes ==
  ASSUME TypeOK, NEW c \in Calls, answer[c] = "pending", RowSaved(c)
  PROVE  /\ batch' \in [Calls -> Batches]
         /\ at' \in [Calls -> 1..MaxBatch]
         /\ pc' \in [Calls -> Statements \cup {"done"}]
         /\ answer' \in [Calls -> Answers]
         /\ \A d \in Calls : answer'[d] \in {"pending", "conflict", "error"}
                               => at'[d] \in DOMAIN batch'[d]
<1>1. at[c] \in 1..Len(batch[c]) /\ batch[c] \in Seq(Messages) /\ Len(batch[c]) \in 0..MaxBatch
  BY CallFacts, BatchFacts DEF TypeOK
<1>2. CASE at[c] < Len(batch[c])
  <2>1. at[c] + 1 \in 1..MaxBatch /\ at[c] + 1 \in DOMAIN batch[c]
    BY <1>1, <1>2, CallAssumption, LenProperties
  <2> QED
    BY <1>2, <2>1 DEF RowSaved, TypeOK, Statements
<1>3. CASE ~(at[c] < Len(batch[c]))
  BY <1>3 DEF RowSaved, Return, TypeOK, Answers
<1> QED
  BY <1>2, <1>3

\* So does ending with an error.
LEMMA ReturnTypes ==
  ASSUME TypeOK, NEW c \in Calls, answer[c] = "pending",
         NEW a \in {"error", "conflict"}, Return(c, a)
  PROVE  /\ batch' \in [Calls -> Batches]
         /\ at' \in [Calls -> 1..MaxBatch]
         /\ pc' \in [Calls -> Statements \cup {"done"}]
         /\ answer' \in [Calls -> Answers]
         /\ \A d \in Calls : answer'[d] \in {"pending", "conflict", "error"}
                               => at'[d] \in DOMAIN batch'[d]
BY DEF Return, TypeOK, Answers

\* A statement that takes effect keeps the types of the table and of the history.
LEMMA PutTypes ==
  ASSUME TypeOK, NEW c \in Calls, answer[c] \in {"pending", "error"}, Put(c)
  PROVE  /\ table' \in Tables
         /\ wrote' \in [Calls -> [1..MaxBatch -> Nat]]
         /\ disturbed' \in [Calls -> BOOLEAN]
<1>1. table' \in Tables
  BY CallFacts DEF Put, Tables, TypeOK
<1>2. wrote' \in [Calls -> [1..MaxBatch -> Nat]]
  <2>1. wrote[c] \in [1..MaxBatch -> Nat] /\ at[c] \in 1..MaxBatch
    BY DEF TypeOK
  <2>2. wrote[c][at[c]] + 1 \in Nat
    <3>1. wrote[c][at[c]] \in Nat
      BY <2>1, Zenon
    <3> QED
      BY <3>1
  <2>3. [wrote[c] EXCEPT ![at[c]] = @ + 1] \in [1..MaxBatch -> Nat]
    BY <2>1, <2>2, Zenon
  <2>4. wrote' = [wrote EXCEPT ![c] = [wrote[c] EXCEPT ![at[c]] = @ + 1]]
    BY DEF Put
  <2> QED
    BY <2>3, <2>4, Zenon DEF TypeOK
<1>3. disturbed' \in [Calls -> BOOLEAN]
  BY DEF Put, Disturb, TypeOK
<1> QED
  BY <1>1, <1>2, <1>3

\* Every step keeps the types.
LEMMA NextTypes == TypeOK /\ (\A c \in Calls : Progress(c)) /\ [Next]_vars => TypeOK'
<1> SUFFICES ASSUME TypeOK, \A c \in Calls : Progress(c), [Next]_vars PROVE TypeOK'
  OBVIOUS
<1>0. \A c \in Calls : pc[c] # "done" => answer[c] = "pending"
  BY DEF Progress
<1>1. ASSUME NEW c \in Calls, NEW b \in Batches, Start(c, b)
      PROVE  TypeOK'
  <2>1. at[c] = 1 /\ at \in [Calls -> 1..MaxBatch]
    BY <1>1 DEF Start, Progress, TypeOK
  <2>2. b # <<>> => 1 \in DOMAIN b
    BY BatchFacts, LenProperties
  <2> QED
    BY <1>1, <2>1, <2>2 DEF Start, TypeOK, Answers, Statements
<1>2. ASSUME NEW c \in Calls, UpdateApplies(c) \/ InsertApplies(c)
      PROVE  TypeOK'
  <2>1. answer[c] = "pending" /\ RowSaved(c) /\ Put(c) /\ UNCHANGED <<late, refusal>>
    BY <1>0, <1>2 DEF UpdateApplies, InsertApplies
  <2> QED
    BY <2>1, RowSavedTypes, PutTypes DEF TypeOK
<1>3. ASSUME NEW c \in Calls, UpdateZeroRows(c)
      PROVE  TypeOK'
  BY <1>3 DEF UpdateZeroRows, Goto, NoEffect, TypeOK, Statements
<1>4. ASSUME NEW c \in Calls, UpdateDuplicate(c) \/ StatementFails(c)
      PROVE  TypeOK'
  <2>1. answer[c] = "pending" /\ Return(c, "error")
        /\ UNCHANGED <<table, wrote, disturbed, late, refusal>>
    BY <1>0, <1>4 DEF UpdateDuplicate, StatementFails, RowFails, NoEffect, Statements
  <2> QED
    BY <2>1, ReturnTypes DEF TypeOK
<1>5. ASSUME NEW c \in Calls, ReplyLost(c)
      PROVE  TypeOK'
  <2>1. answer[c] = "pending" /\ Return(c, "error")
        /\ UNCHANGED <<table, wrote, disturbed, refusal>>
    BY <1>0, <1>5 DEF ReplyLost, RowFails, NoEffect
  <2>2. late' \in [Calls -> {"none", "update", "insert"}]
    BY <1>5 DEF ReplyLost, TypeOK
  <2> QED
    BY <2>1, <2>2, ReturnTypes DEF TypeOK
<1>6. ASSUME NEW c \in Calls, InsertDuplicate(c)
      PROVE  TypeOK'
  BY <1>6 DEF InsertDuplicate, InsertRefused, Goto, TypeOK, Statements
<1>7. ASSUME NEW c \in Calls, Match(c)
      PROVE  TypeOK'
  <2>1. answer[c] = "pending" /\ (RowSaved(c) \/ Return(c, "conflict"))
        /\ UNCHANGED <<table, wrote, disturbed, late, refusal>>
    BY <1>0, <1>7 DEF Match, RowFails, NoEffect
  <2> QED
    BY <2>1, RowSavedTypes, ReturnTypes DEF TypeOK
<1>8. ASSUME NEW c \in Calls, LateStatement(c)
      PROVE  TypeOK'
  <2>1. answer[c] = "error" /\ UNCHANGED flow /\ UNCHANGED refusal
    BY <1>8 DEF LateStatement, Progress
  <2>2. late' \in [Calls -> {"none", "update", "insert"}]
    BY <1>8 DEF LateStatement, TypeOK
  <2>3. Put(c) \/ NoEffect
    BY <1>8 DEF LateStatement
  <2> QED
    BY <2>1, <2>2, <2>3, PutTypes DEF TypeOK, NoEffect, flow
<1>9. ASSUME NEW k \in Keys, Delete(k)
      PROVE  TypeOK'
  BY <1>9 DEF Delete, Disturb, TypeOK, Tables, flow
<1>10. CASE UNCHANGED vars
  BY <1>10 DEF vars, flow, TypeOK
<1> QED
  BY <1>1, <1>2, <1>3, <1>4, <1>5, <1>6, <1>7, <1>8, <1>9, <1>10 DEF Next
-----------------------------------------------------------------------------
\* What the statement of call c writes, value by value.
LEMMA PutFacts ==
  ASSUME TypeOK, NEW c \in Calls, Put(c)
  PROVE  /\ \A i \in 1..MaxBatch :
              wrote'[c][i] = IF i = at[c] THEN wrote[c][i] + 1 ELSE wrote[c][i]
         /\ \A d \in Calls \ {c} : wrote'[d] = wrote[d]
         /\ \A k \in Keys \ {Message(c).key} : table'[k] = table[k]
<1>1. wrote' = [wrote EXCEPT ![c] = [wrote[c] EXCEPT ![at[c]] = @ + 1]]
  BY DEF Put
<1>2. wrote'[c] = [wrote[c] EXCEPT ![at[c]] = @ + 1]
  BY <1>1 DEF TypeOK
<1>3. \A d \in Calls \ {c} : wrote'[d] = wrote[d]
  BY <1>1 DEF TypeOK
<1>4. \A k \in Keys \ {Message(c).key} : table'[k] = table[k]
  BY DEF Put, TypeOK, Tables
<1>5. ASSUME NEW i \in 1..MaxBatch
      PROVE  wrote'[c][i] = IF i = at[c] THEN wrote[c][i] + 1 ELSE wrote[c][i]
  <2>1. wrote[c] \in [1..MaxBatch -> Nat]
    BY Zenon DEF TypeOK
  <2> QED
    BY <1>2, <2>1, Zenon
<1> QED
  BY <1>3, <1>4, <1>5

\* The step is not one of call d: it leaves what d keeps alone, and marks d disturbed if
\* it changes the row d is at.
Spares(d) ==
  /\ batch'[d] = batch[d] /\ at'[d] = at[d] /\ pc'[d] = pc[d] /\ answer'[d] = answer[d]
  /\ late'[d] = late[d] /\ refusal'[d] = refusal[d] /\ wrote'[d] = wrote[d]
  /\ disturbed[d] => disturbed'[d]
  /\ answer[d] = "pending" => table'[Message(d).key] = Row(d) \/ disturbed'[d]

\* A call that a step spares keeps its part of the invariant.
LEMMA SparedKeep ==
  ASSUME NEW d \in Calls, Progress(d), Seen(d), Spares(d)
  PROVE  Progress(d)' /\ Seen(d)'
BY DEF Spares, Progress, Seen, Row, Message, Excused, Stores

\* A statement that takes effect marks every other pending call that is at the row.
LEMMA PutSpares ==
  ASSUME TypeOK, NEW c \in Calls, Put(c), NEW d \in Calls \ {c}
  PROVE  /\ wrote'[d] = wrote[d]
         /\ disturbed[d] => disturbed'[d]
         /\ answer[d] = "pending" => table'[Message(d).key] = Row(d) \/ disturbed'[d]
<1>1. wrote'[d] = wrote[d]
  BY PutFacts
<1>2. disturbed'[d] <=> disturbed[d] \/ (answer[d] = "pending" /\ Message(d).key = Message(c).key)
  BY DEF Put, Disturb
<1>3. ASSUME answer[d] = "pending", Message(d).key # Message(c).key
      PROVE  table'[Message(d).key] = Row(d)
  BY <1>3, PutFacts, CallFacts DEF Row
<1> QED
  BY <1>1, <1>2, <1>3
-----------------------------------------------------------------------------
\* The message is saved: the call goes on to the next one, or ends.
LEMMA RowSavedKeeps ==
  ASSUME TypeOK, NEW c \in Calls, answer[c] = "pending", Progress(c), RowSaved(c),
         late' = late,
         \A i \in 1..MaxBatch :
           wrote'[c][i] = wrote[c][i] \/ (i = at[c] /\ wrote'[c][i] = wrote[c][i] + 1)
  PROVE  Progress(c)' /\ Seen(c)'
<1>1. Len(batch[c]) \in Nat /\ at[c] <= Len(batch[c]) /\ Len(batch[c]) <= MaxBatch
  BY CallFacts, BatchFacts, Counters DEF TypeOK
<1>2. wrote[c][at[c]] = 0 /\ late[c] = "none"
  BY DEF Progress
<1>3. /\ \A i \in 1..MaxBatch : wrote'[c][i] <= 1
      /\ \A i \in 1..MaxBatch : i > at[c] => wrote'[c][i] = 0
  <2>1. /\ \A i \in 1..MaxBatch : wrote[c][i] <= 1
        /\ \A i \in 1..MaxBatch : i > at[c] => wrote[c][i] = 0
    BY DEF Progress
  <2> QED
    BY <1>2, <2>1, Counters
<1>4. CASE at[c] < Len(batch[c])
  <2>1. /\ at'[c] = at[c] + 1 /\ pc'[c] = "update" /\ answer'[c] = "pending"
        /\ batch'[c] = batch[c]
    BY <1>4 DEF RowSaved, TypeOK
  <2>2. wrote'[c][at'[c]] = 0 /\ \A i \in 1..MaxBatch : i > at'[c] => wrote'[c][i] = 0
    BY <1>1, <1>3, <1>4, <2>1, Counters
  <2> QED
    BY <1>2, <1>3, <2>1, <2>2, Zenon DEF Progress, Seen
<1>5. CASE ~(at[c] < Len(batch[c]))
  <2>1. /\ at'[c] = at[c] /\ pc'[c] = "done" /\ answer'[c] = "saved" /\ batch'[c] = batch[c]
    BY <1>5 DEF RowSaved, Return, TypeOK
  <2>2. at[c] = Len(batch[c])
    BY <1>1, <1>5, Counters
  <2> QED
    BY <1>2, <1>3, <2>1, <2>2 DEF Progress, Seen
<1> QED
  BY <1>4, <1>5

\* The call ends with an error.
LEMMA RowFailsKeeps ==
  ASSUME TypeOK, NEW c \in Calls, answer[c] = "pending", Progress(c),
         NEW a \in {"error", "conflict"}, Return(c, a),
         wrote' = wrote, table' = table, disturbed' = disturbed, refusal' = refusal,
         late'[c] # "none" => a = "error",
         a = "conflict" /\ Stores(c) => Excused(c)
  PROVE  Progress(c)' /\ Seen(c)'
<1>1. /\ at'[c] = at[c] /\ pc'[c] = "done" /\ answer'[c] = a /\ batch'[c] = batch[c]
  BY DEF Return, TypeOK
<1>2. wrote[c][at[c]] = 0
  BY DEF Progress
<1>3. Progress(c)'
  BY <1>1, <1>2 DEF Progress
<1> QED
  BY <1>1, <1>3 DEF Seen, Stores, Excused, Message
-----------------------------------------------------------------------------
\* The steps of call c, from its start to a statement that outlives it.
CallStep(c) ==
  \/ \E b \in Batches : Start(c, b)
  \/ UpdateApplies(c) \/ UpdateZeroRows(c) \/ UpdateDuplicate(c)
  \/ InsertApplies(c) \/ InsertDuplicate(c) \/ Match(c)
  \/ StatementFails(c) \/ ReplyLost(c) \/ LateStatement(c)

\* A step of call c leaves every other call alone, its row apart.
LEMMA OthersSpared ==
  ASSUME IInv, NEW c \in Calls, NEW d \in Calls \ {c}, CallStep(c)
  PROVE  Spares(d)
<1>0. TypeOK
  BY DEF IInv
<1>1. CASE \E b \in Batches : Start(c, b)
  BY <1>0, <1>1 DEF Start, Spares, TypeOK, Row
<1>2. CASE UpdateApplies(c) \/ InsertApplies(c)
  <2>1. Put(c) /\ RowSaved(c) /\ UNCHANGED <<late, refusal>>
    BY <1>2 DEF UpdateApplies, InsertApplies
  <2>2. batch'[d] = batch[d] /\ at'[d] = at[d] /\ pc'[d] = pc[d] /\ answer'[d] = answer[d]
    BY <1>0, <2>1 DEF RowSaved, Return, TypeOK
  <2> QED
    BY <1>0, <2>1, <2>2, PutSpares DEF Spares
<1>3. CASE UpdateZeroRows(c) \/ UpdateDuplicate(c) \/ StatementFails(c) \/ ReplyLost(c)
  BY <1>0, <1>3 DEF UpdateZeroRows, UpdateDuplicate, StatementFails, ReplyLost, Goto, RowFails,
                    Return, NoEffect, Spares, TypeOK, Row
<1>4. CASE InsertDuplicate(c)
  BY <1>0, <1>4 DEF InsertDuplicate, InsertRefused, Goto, Spares, TypeOK, Row
<1>5. CASE Match(c)
  BY <1>0, <1>5 DEF Match, RowSaved, RowFails, Return, NoEffect, Spares, TypeOK, Row
<1>6. CASE LateStatement(c)
  <2>1. late'[d] = late[d] /\ UNCHANGED <<flow, refusal>> /\ (Put(c) \/ NoEffect)
    BY <1>0, <1>6 DEF LateStatement, TypeOK
  <2>2. CASE Put(c)
    BY <1>0, <2>1, <2>2, PutSpares DEF Spares, flow
  <2>3. CASE NoEffect
    BY <2>1, <2>3 DEF NoEffect, Spares, flow, Row
  <2> QED
    BY <2>1, <2>2, <2>3
<1> QED
  BY <1>1, <1>2, <1>3, <1>4, <1>5, <1>6 DEF CallStep

\* A deleted row is marked at every call that is at it.
LEMMA DeleteSpares ==
  ASSUME TypeOK, NEW k \in Keys, Delete(k), NEW d \in Calls
  PROVE  Spares(d)
<1>1. disturbed'[d] <=> disturbed[d] \/ (answer[d] = "pending" /\ Message(d).key = k)
  BY CallAssumption DEF Delete, Disturb
<1>2. \A j \in Keys \ {k} : table'[j] = table[j]
  BY DEF Delete, TypeOK, Tables
<1> QED
  BY <1>1, <1>2, CallFacts DEF Spares, Delete, flow, Row

\* Each statement of a call keeps what is known of the call itself.
LEMMA OwnStep ==
  ASSUME IInv, NEW c \in Calls, CallStep(c)
  PROVE  Progress(c)' /\ Seen(c)'
<1>0. TypeOK /\ Progress(c) /\ Seen(c) /\ (pc[c] # "done" => answer[c] = "pending")
  BY DEF IInv, Progress
<1>1. ASSUME NEW b \in Batches, Start(c, b)
      PROVE  Progress(c)' /\ Seen(c)'
  <2>1. /\ answer[c] = "idle" /\ pc[c] = "done" /\ at[c] = 1 /\ wrote[c][1] = 0
        /\ late[c] = "none"
    BY <1>0, <1>1 DEF Start, Progress
  <2>2. \/ b = <<>> /\ answer'[c] = "saved" /\ pc'[c] = "done"
        \/ answer'[c] = "invalid" /\ pc'[c] = "done"
        \/ answer'[c] = "pending" /\ pc'[c] = "update"
    BY <1>0, <1>1, <2>1 DEF Start, TypeOK
  <2>3. batch'[c] = b /\ at' = at /\ wrote' = wrote /\ late' = late
    BY <1>0, <1>1 DEF Start, TypeOK
  <2> QED
    BY <1>0, <2>1, <2>2, <2>3 DEF Progress, Seen
<1>2. CASE UpdateApplies(c) \/ InsertApplies(c)
  <2>1. answer[c] = "pending" /\ Put(c) /\ RowSaved(c) /\ UNCHANGED late
    BY <1>0, <1>2 DEF UpdateApplies, InsertApplies
  <2>2. \A i \in 1..MaxBatch :
          wrote'[c][i] = wrote[c][i] \/ (i = at[c] /\ wrote'[c][i] = wrote[c][i] + 1)
    BY <1>0, <2>1, PutFacts
  <2> QED
    BY <1>0, <2>1, <2>2, RowSavedKeeps
<1>3. CASE UpdateZeroRows(c)
  <2>1. /\ answer[c] = "pending" /\ ~Affects(c) /\ UNCHANGED <<batch, at, answer, late, refusal>>
        /\ UNCHANGED <<table, wrote, disturbed>>
        /\ \/ pc[c] = "update" /\ pc'[c] = "insert"
           \/ pc[c] = "retry" /\ pc'[c] = "match"
    BY <1>0, <1>3 DEF UpdateZeroRows, Goto, NoEffect, TypeOK
  <2>2. Progress(c)'
    BY <1>0, <2>1 DEF Progress
  <2>3. pc[c] = "retry" /\ Stores(c) => Row(c) = Message(c).body \/ Excused(c)
    BY <1>0, <2>1 DEF Seen, Affects, Stores
  <2> QED
    BY <2>1, <2>2, <2>3 DEF Seen, Stores, Excused, Message, Row
<1>4. CASE UpdateDuplicate(c) \/ StatementFails(c) \/ ReplyLost(c)
  <2>1. answer[c] = "pending" /\ Return(c, "error")
        /\ UNCHANGED <<table, wrote, disturbed, refusal>>
    BY <1>0, <1>4 DEF UpdateDuplicate, StatementFails, ReplyLost, RowFails, NoEffect, Statements
  <2> QED
    BY <1>0, <2>1, RowFailsKeeps
<1>5. CASE InsertDuplicate(c)
  <2>1. /\ answer[c] = "pending" /\ pc'[c] = "retry" /\ UNCHANGED <<batch, at, answer, late>>
        /\ UNCHANGED <<table, wrote>> /\ (Row(c) = None => refusal'[c] = "alias")
    BY <1>0, <1>5 DEF InsertDuplicate, InsertRefused, Goto, TypeOK
  <2>2. Progress(c)'
    BY <1>0, <2>1 DEF Progress
  <2> QED
    BY <2>1, <2>2 DEF Seen, Excused, Message, Row
<1>6. CASE Match(c)
  <2>1. /\ answer[c] = "pending" /\ pc[c] = "match"
        /\ UNCHANGED <<table, wrote, disturbed, late, refusal>>
        /\ \/ RowSaved(c)
           \/ Row(c) # Message(c).body /\ Return(c, "conflict")
    BY <1>0, <1>6 DEF Match, RowFails, NoEffect, IsTarget
  <2>2. late[c] = "none"
    BY <1>0, <2>1 DEF Progress
  <2>3. CASE RowSaved(c)
    BY <1>0, <2>1, <2>3, RowSavedKeeps
  <2>4. CASE Row(c) # Message(c).body /\ Return(c, "conflict")
    <3>1. Stores(c) => Excused(c)
      BY <1>0, <2>1, <2>4 DEF Seen
    <3> QED
      BY <1>0, <2>1, <2>2, <2>4, <3>1, RowFailsKeeps
  <2> QED
    BY <2>1, <2>3, <2>4
<1>7. CASE LateStatement(c)
  <2>1. /\ answer[c] = "error" /\ wrote[c][at[c]] = 0
        /\ UNCHANGED <<batch, at, pc, answer, refusal>> /\ late'[c] = "none"
        /\ (Put(c) \/ NoEffect)
    BY <1>0, <1>7 DEF LateStatement, Progress, TypeOK, flow
  <2>2. \A i \in 1..MaxBatch :
          wrote'[c][i] = wrote[c][i] \/ (i = at[c] /\ wrote'[c][i] = wrote[c][i] + 1)
    BY <1>0, <2>1, PutFacts DEF NoEffect
  <2>3. /\ \A i \in 1..MaxBatch : wrote'[c][i] <= 1
        /\ \A i \in 1..MaxBatch : i > at[c] => wrote'[c][i] = 0
    <3>1. /\ \A i \in 1..MaxBatch : wrote[c][i] <= 1
          /\ \A i \in 1..MaxBatch : i > at[c] => wrote[c][i] = 0
      BY <1>0 DEF Progress
    <3> QED
      BY <1>0, <2>1, <2>2, <3>1, Counters
  <2> QED
    BY <1>0, <2>1, <2>3 DEF Progress, Seen
<1> QED
  BY <1>1, <1>2, <1>3, <1>4, <1>5, <1>6, <1>7 DEF CallStep

\* Every step keeps the invariant: the call's own part by its statements, the parts of
\* the other calls because a step only touches their row by marking them disturbed.
LEMMA NextInv == IInv /\ [Next]_vars => IInv'
<1> SUFFICES ASSUME IInv, [Next]_vars PROVE IInv'
  OBVIOUS
<1>1. TypeOK'
  BY NextTypes DEF IInv
<1>2. ASSUME NEW d \in Calls PROVE Progress(d)' /\ Seen(d)'
  <2>1. CASE UNCHANGED vars
    <3>1. Spares(d)
      BY <2>1 DEF vars, flow, Spares, Row
    <3> QED
      BY <3>1, SparedKeep DEF IInv
  <2>2. CASE \E k \in Keys : Delete(k)
    <3>1. Spares(d)
      BY <2>2, DeleteSpares DEF IInv
    <3> QED
      BY <3>1, SparedKeep DEF IInv
  <2>3. ASSUME NEW c \in Calls, CallStep(c)
        PROVE  Progress(d)' /\ Seen(d)'
    <3>1. CASE c = d
      BY <2>3, <3>1, OwnStep
    <3>2. CASE c # d
      <4>1. Spares(d)
        BY <2>3, <3>2, OthersSpared
      <4> QED
        BY <4>1, SparedKeep DEF IInv
    <3> QED
      BY <3>1, <3>2
  <2> QED
    BY <2>1, <2>2, <2>3 DEF Next, CallStep
<1> QED
  BY <1>1, <1>2 DEF IInv
-----------------------------------------------------------------------------
\* The inductive invariant holds in every reachable state.
THEOREM SpecInv == Spec => []IInv
BY InitInv, NextInv, PTL DEF Spec

\* The variables have their types; a call that is at a message, or stopped at one, is
\* within its batch (the loop index of BatchSave never runs past the messages).
THEOREM TypeCorrect == Spec => []TypeOK
<1>1. IInv => TypeOK
  BY DEF IInv
<1> QED
  BY <1>1, SpecInv, PTL

\* BatchSave writes each message of a prefix at most once and nothing beyond it, whatever
\* the other calls, the deletions and the lost replies do in between.
THEOREM PrefixSaved == Spec => []BatchSavesAPrefix
<1>1. IInv => BatchSavesAPrefix
  <2> SUFFICES ASSUME IInv, NEW c \in Calls
               PROVE  /\ \A i \in 1..MaxBatch : wrote[c][i] <= 1
                      /\ \A i \in 1..MaxBatch : wrote[c][i] = 1 => i <= at[c]
                      /\ wrote[c][at[c]] = 1 => answer[c] \in {"saved", "error"}
                      /\ answer[c] = "saved" /\ batch[c] # <<>> => at[c] = Len(batch[c])
    BY DEF BatchSavesAPrefix
  <2>1. Progress(c) /\ TypeOK
    BY DEF IInv
  <2>2. /\ wrote[c][at[c]] # 0 => answer[c] \in {"saved", "error"}
        /\ answer[c] = "saved" /\ batch[c] # <<>> => at[c] = Len(batch[c])
    BY <2>1 DEF Progress
  <2>3. /\ \A i \in 1..MaxBatch : wrote[c][i] <= 1
        /\ \A i \in 1..MaxBatch : i > at[c] => wrote[c][i] = 0
    BY <2>1 DEF Progress
  <2>4. \A i \in 1..MaxBatch : wrote[c][i] = 1 => i <= at[c]
    BY <2>1, <2>3, Counters
  <2> QED
    BY <2>2, <2>3, <2>4
<1> QED
  BY <1>1, SpecInv, PTL

\* ErrDuplicateKey of Save has a cause outside the call: another row refused the INSERT,
\* or the row was changed again between the INSERT and the comparison.
THEOREM ConflictsHaveACause == Spec => []ConflictNeedsInterference
<1>1. IInv => ConflictNeedsInterference
  BY DEF IInv, Seen, Stores, Excused, ConflictNeedsInterference
<1> QED
  BY <1>1, SpecInv, PTL
-----------------------------------------------------------------------------
(***************************************************************************)
(* The statements implement RowStore.                                      *)
(***************************************************************************)

\* The table of the store is the table of the statements.
LEMMA SameTable ==
  /\ \A t, k, b : Abstract!AliasTaken(t, k, b) <=> AliasTaken(t, k, b)
  /\ \A row, m : Abstract!IsTarget(row, m) <=> IsTarget(row, m)
  /\ \A b : Abstract!Refused(b) <=> Refused(b)
BY DEF Abstract!AliasTaken, AliasTaken, Abstract!IsTarget, IsTarget, Abstract!Refused, Refused

\* outlived of the store, which the history gives.
outlived == [c \in Calls |-> answer[c] = "error" /\ wrote[c][at[c]] # 0]

\* What a step leaves of outlived.
LEMMA OutlivedKept ==
  ASSUME \A d \in Calls : (answer[d] = "error" /\ wrote[d][at[d]] # 0)
                            <=> (answer'[d] = "error" /\ wrote'[d][at'[d]] # 0)
  PROVE  outlived' = outlived
<1>1. \A d \in Calls : (answer[d] = "error" /\ wrote[d][at[d]] # 0)
                          = (answer'[d] = "error" /\ wrote'[d][at'[d]] # 0)
  BY Zenon
<1> QED
  BY <1>1, Zenon DEF outlived

\* The initial states map to initial states.
LEMMA InitRefines == Init => Abstract!Init
<1> SUFFICES ASSUME Init PROVE Abstract!Init
  OBVIOUS
<1>1. (CHOOSE b \in Batches : TRUE) \in Batches
  BY CallAssumption
<1>2. [c \in Calls |-> answer[c] = "error" /\ wrote[c][at[c]] # 0] = [c \in Calls |-> FALSE]
  <2>1. \A c \in Calls : answer[c] # "error"
    BY DEF Init
  <2>2. \A c \in Calls : (answer[c] = "error" /\ wrote[c][at[c]] # 0) = FALSE
    BY <2>1, Zenon
  <2> QED
    BY <2>2, Zenon
<1> QED
  BY <1>1, <1>2 DEF Init, Abstract!Init

\* The message is saved: by the statement, or because the row was found to be it.
LEMMA RowSavedRefines ==
  ASSUME IInv, NEW c \in Calls, answer[c] = "pending", RowSaved(c),
         \A d \in Calls \ {c} : wrote'[d] = wrote[d],
         \/ Put(c) /\ ~Taken(c)
         \/ IsTarget(Row(c), Message(c)) /\ UNCHANGED table
  PROVE  Abstract!Next
<1>0. TypeOK
  BY DEF IInv
<1>1. \A d \in Calls \ {c} : at'[d] = at[d] /\ answer'[d] = answer[d]
  BY <1>0 DEF RowSaved, Return, TypeOK
<1>2. answer'[c] # "error"
  BY <1>0 DEF RowSaved, Return, TypeOK
<1>3. outlived' = outlived
  BY <1>1, <1>2, OutlivedKept
<1>4. Abstract!Advance(c) /\ UNCHANGED batch
  BY DEF RowSaved, Return, Abstract!Advance
<1>5. \/ Abstract!Write(batch[c][at[c]])
      \/ /\ Abstract!IsTarget(table[batch[c][at[c]].key], batch[c][at[c]])
         /\ UNCHANGED table
  <2>1. CASE Put(c) /\ ~Taken(c)
    BY <2>1, SameTable DEF Put, Taken, Message, Abstract!Write
  <2>2. CASE IsTarget(Row(c), Message(c)) /\ UNCHANGED table
    BY <2>2, SameTable DEF Row, Message
  <2> QED
    BY <2>1, <2>2
<1>6. Abstract!SaveOne(c)
  BY <1>3, <1>4, <1>5 DEF Abstract!SaveOne, outlived
<1> QED
  BY <1>6 DEF Abstract!Next

\* The call ends with an error.
LEMMA RowFailsRefines ==
  ASSUME IInv, NEW c \in Calls, answer[c] = "pending", NEW a \in {"error", "conflict"},
         Return(c, a), UNCHANGED <<table, wrote>>
  PROVE  Abstract!Next
<1>0. TypeOK
  BY DEF IInv
<1>1. wrote[c][at[c]] = 0
  BY DEF IInv, Progress
<1>2. \A d \in Calls \ {c} : answer'[d] = answer[d]
  BY <1>0 DEF Return, TypeOK
<1>3. outlived' = outlived
  BY <1>1, <1>2, OutlivedKept DEF Return
<1>4. Abstract!Fail(c)
  BY <1>3 DEF Return, Abstract!Fail, outlived
<1> QED
  BY <1>4 DEF Abstract!Next

\* A statement runs after its call has failed.
LEMMA LateRefines ==
  ASSUME IInv, NEW c \in Calls, LateStatement(c), ~NoEffect
  PROVE  Abstract!Next
<1>0. TypeOK
  BY DEF IInv
<1>1. /\ answer[c] = "error" /\ wrote[c][at[c]] = 0 /\ UNCHANGED <<batch, at, answer>>
      /\ Put(c) /\ ~Taken(c)
  BY DEF IInv, Progress, LateStatement, flow
<1>2. at[c] \in 1..MaxBatch
  BY <1>0 DEF TypeOK
<1>3. wrote'[c][at[c]] # 0
  BY <1>0, <1>1, <1>2, PutFacts
<1>4. outlived' = [outlived EXCEPT ![c] = TRUE]
  <2>1. \A d \in Calls : (answer'[d] = "error" /\ wrote'[d][at'[d]] # 0)
                          <=> (IF d = c THEN TRUE ELSE answer[d] = "error" /\ wrote[d][at[d]] # 0)
    BY <1>0, <1>1, <1>3, PutFacts
  <2>2. \A d \in Calls : (answer'[d] = "error" /\ wrote'[d][at'[d]] # 0)
                          = (IF d = c THEN TRUE ELSE answer[d] = "error" /\ wrote[d][at[d]] # 0)
    BY <2>1, Zenon
  <2> QED
    BY <2>2, Zenon DEF outlived
<1>5. ~outlived[c]
  BY <1>1 DEF outlived
<1>6. Abstract!Write(batch[c][at[c]])
  BY <1>1, SameTable DEF Put, Taken, Message, Abstract!Write
<1>7. Abstract!Outlive(c)
  BY <1>1, <1>4, <1>5, <1>6 DEF Abstract!Outlive, outlived
<1> QED
  BY <1>7 DEF Abstract!Next

\* Every step of the statements is a step of the store or changes nothing of it.
LEMMA NextRefines == IInv /\ [Next]_vars => [Abstract!Next]_(Abstract!vars)
<1> SUFFICES ASSUME IInv, [Next]_vars PROVE [Abstract!Next]_(Abstract!vars)
  OBVIOUS
<1>0. TypeOK /\ \A c \in Calls : pc[c] # "done" => answer[c] = "pending"
  BY DEF IInv, Progress
<1>1. ASSUME NEW c \in Calls, NEW b \in Batches, Start(c, b)
      PROVE  Abstract!Next
  <2>1. \A d \in Calls \ {c} : answer'[d] = answer[d]
    BY <1>0, <1>1 DEF Start, TypeOK
  <2>2. answer[c] # "error" /\ answer'[c] # "error" /\ UNCHANGED <<at, wrote>>
    BY <1>0, <1>1 DEF Start, TypeOK
  <2>3. outlived' = outlived
    BY <2>1, <2>2, OutlivedKept
  <2>4. Abstract!Invoke(c, b)
    BY <1>1, <2>3, SameTable DEF Start, Abstract!Invoke, outlived
  <2> QED
    BY <2>4 DEF Abstract!Next
<1>2. ASSUME NEW c \in Calls, UpdateApplies(c) \/ InsertApplies(c)
      PROVE  Abstract!Next
  <2>1. answer[c] = "pending" /\ RowSaved(c) /\ Put(c) /\ ~Taken(c)
    BY <1>0, <1>2 DEF UpdateApplies, InsertApplies
  <2> QED
    BY <1>0, <2>1, PutFacts, RowSavedRefines
<1>3. ASSUME NEW c \in Calls, UpdateZeroRows(c) \/ InsertDuplicate(c)
      PROVE  UNCHANGED Abstract!vars
  <2>1. UNCHANGED <<table, batch, at, answer, wrote>>
    BY <1>3 DEF UpdateZeroRows, InsertDuplicate, InsertRefused, Goto, NoEffect
  <2> QED
    BY <2>1 DEF Abstract!vars
<1>4. ASSUME NEW c \in Calls, UpdateDuplicate(c) \/ StatementFails(c) \/ ReplyLost(c)
      PROVE  Abstract!Next
  <2>1. answer[c] = "pending" /\ Return(c, "error") /\ UNCHANGED <<table, wrote>>
    BY <1>0, <1>4 DEF UpdateDuplicate, StatementFails, ReplyLost, RowFails, NoEffect, Statements
  <2> QED
    BY <2>1, RowFailsRefines
<1>5. ASSUME NEW c \in Calls, Match(c)
      PROVE  Abstract!Next
  <2>1. answer[c] = "pending" /\ UNCHANGED <<table, wrote>>
    BY <1>0, <1>5 DEF Match, NoEffect
  <2>2. (IsTarget(Row(c), Message(c)) /\ RowSaved(c)) \/ Return(c, "conflict")
    BY <1>5 DEF Match, RowFails
  <2> QED
    BY <2>1, <2>2, RowSavedRefines, RowFailsRefines
<1>6. ASSUME NEW c \in Calls, LateStatement(c)
      PROVE  [Abstract!Next]_(Abstract!vars)
  <2>1. CASE NoEffect
    <3>1. UNCHANGED <<table, batch, at, answer, wrote>>
      BY <1>6, <2>1 DEF LateStatement, NoEffect, flow
    <3> QED
      BY <3>1 DEF Abstract!vars
  <2> QED
    BY <1>6, <2>1, LateRefines
<1>7. ASSUME NEW k \in Keys, Delete(k)
      PROVE  Abstract!Next
  <2>1. UNCHANGED <<batch, at, answer, wrote>>
    BY <1>7 DEF Delete, flow
  <2>2. Abstract!Delete(k)
    BY <1>7, <2>1 DEF Delete, Abstract!Delete
  <2> QED
    BY <2>2 DEF Abstract!Next
<1>8. CASE UNCHANGED vars
  BY <1>8 DEF vars, flow, Abstract!vars
<1> QED
  BY <1>1, <1>2, <1>3, <1>4, <1>5, <1>6, <1>7, <1>8 DEF Next

\* UPDATE, INSERT, UPDATE and comparison, interleaved with those of other calls, are one
\* atomic save of the message; an error may leave one more such save behind.
THEOREM RowStoreImplemented == Spec => ImplementsRowStore
<1>1. Spec => Abstract!Init /\ [][Abstract!Next]_(Abstract!vars)
  BY InitRefines, NextRefines, SpecInv, PTL DEF Spec
<1> QED
  BY <1>1 DEF ImplementsRowStore, Abstract!Spec
=============================================================================
