----------------------- MODULE ConditionalSave_proofs -----------------------
(***************************************************************************)
(* Proofs about ConditionalSave for every value of its constants: any      *)
(* number of calls, keys, fence columns, rounds and fence values.          *)
(***************************************************************************)
EXTENDS ConditionalSave, TLAPS

-----------------------------------------------------------------------------
(***************************************************************************)
(* Fences are totally ordered, and the predicate MySQL evaluates agrees    *)
(* with the comparison the client makes on the fence it read.              *)
(***************************************************************************)
\* A fence is not older than itself: replaying a version is never an advance.
LEMMA OlderIrreflexive ==
  ASSUME NEW a \in Fences
  PROVE  ~Older(a, a)
<1>1. \A i \in Columns : a[i] \in Nat
  BY FenceAssumption DEF Fences
<1>2. \A i \in Columns : ~(a[i] < a[i])
  BY <1>1
<1> QED
  BY <1>2 DEF Older

\* Two fences are not each older than the other.
LEMMA OlderAsymmetric ==
  ASSUME NEW a \in Fences, NEW b \in Fences, Older(a, b)
  PROVE  ~Older(b, a)
<1>1. PICK i \in Columns : a[i] < b[i] /\ \A j \in 1..(i - 1) : a[j] = b[j]
  BY DEF Older
<1>2. SUFFICES ASSUME NEW m \in Columns,
                      b[m] < a[m], \A j \in 1..(m - 1) : b[j] = a[j]
               PROVE  FALSE
  BY DEF Older
<1>3. i \in Nat /\ m \in Nat /\ i >= 1 /\ m >= 1
  BY FenceAssumption DEF Columns
<1>4. a[i] \in Nat /\ b[i] \in Nat /\ a[m] \in Nat /\ b[m] \in Nat
  BY FenceAssumption DEF Fences
<1>5. CASE i < m
  <2>1. i \in 1..(m - 1)
    BY <1>3, <1>5
  <2> QED
    BY <2>1, <1>1, <1>2, <1>4
<1>6. CASE m < i
  <2>1. m \in 1..(i - 1)
    BY <1>3, <1>6
  <2> QED
    BY <2>1, <1>1, <1>2, <1>4
<1>7. CASE i = m
  BY <1>7, <1>1, <1>2, <1>4
<1> QED
  BY <1>3, <1>5, <1>6, <1>7

\* Age is transitive: a chain of writes, each allowed by its fence, only advances.
LEMMA OlderTransitive ==
  ASSUME NEW a \in Fences, NEW b \in Fences, NEW d \in Fences,
         Older(a, b), Older(b, d)
  PROVE  Older(a, d)
<1>1. PICK i \in Columns : a[i] < b[i] /\ \A j \in 1..(i - 1) : a[j] = b[j]
  BY DEF Older
<1>2. PICK m \in Columns : b[m] < d[m] /\ \A j \in 1..(m - 1) : b[j] = d[j]
  BY DEF Older
<1>3. i \in Nat /\ m \in Nat /\ i >= 1 /\ m >= 1
  BY FenceAssumption DEF Columns
<1>4. /\ a[i] \in Nat /\ b[i] \in Nat /\ d[i] \in Nat
      /\ a[m] \in Nat /\ b[m] \in Nat /\ d[m] \in Nat
  BY FenceAssumption DEF Fences
<1>5. CASE i < m
  <2>1. i \in 1..(m - 1)
    BY <1>3, <1>5
  <2>2. a[i] < d[i]
    BY <2>1, <1>1, <1>2, <1>4
  <2>3. \A j \in 1..(i - 1) : a[j] = d[j]
    <3>1. \A j \in 1..(i - 1) : j \in 1..(m - 1)
      BY <1>3, <1>5
    <3> QED
      BY <3>1, <1>1, <1>2
  <2> QED
    BY <2>2, <2>3 DEF Older
<1>6. CASE m <= i
  <2>1. a[m] < d[m]
    <3>1. CASE m = i
      BY <3>1, <1>1, <1>2, <1>4
    <3>2. CASE m < i
      <4>1. m \in 1..(i - 1)
        BY <1>3, <3>2
      <4> QED
        BY <4>1, <1>1, <1>2, <1>4
    <3> QED
      BY <1>3, <1>6, <3>1, <3>2
  <2>2. \A j \in 1..(m - 1) : a[j] = d[j]
    <3>1. \A j \in 1..(m - 1) : j \in 1..(i - 1)
      BY <1>3, <1>6
    <3> QED
      BY <3>1, <1>1, <1>2
  <2> QED
    BY <2>1, <2>2 DEF Older
<1> QED
  BY <1>3, <1>5, <1>6

\* MySQL's predicate and conditionHolds accept the same stored fences, for every
\* number of fence columns: a fence the client calls writable is one the UPDATE takes.
LEMMA PredicateIsConditionHolds ==
  ASSUME NEW stored \in Fences, NEW wanted \in Fences, NEW allowEqual \in BOOLEAN
  PROVE  FencePredicate(stored, wanted, allowEqual)
           <=> ConditionHolds(stored, wanted, allowEqual)
<1>1. ASSUME FencePredicate(stored, wanted, allowEqual)
      PROVE  ConditionHolds(stored, wanted, allowEqual)
  <2>1. PICK i \in Columns :
          /\ \A j \in 1..(i - 1) : stored[j] = wanted[j]
          /\ \/ stored[i] < wanted[i]
             \/ allowEqual /\ i = FenceWidth /\ stored[i] = wanted[i]
    BY <1>1 DEF FencePredicate
  <2>2. CASE stored[i] < wanted[i]
    BY <2>1, <2>2 DEF ConditionHolds, Older
  <2>3. CASE allowEqual /\ i = FenceWidth /\ stored[i] = wanted[i]
    <3>1. \A j \in Columns : j \in 1..(FenceWidth - 1) \/ j = FenceWidth
      BY FenceAssumption DEF Columns
    <3>2. \A j \in Columns : stored[j] = wanted[j]
      BY <2>1, <2>3, <3>1
    <3>3. stored = wanted
      BY <3>2 DEF Fences
    <3> QED
      BY <2>3, <3>3 DEF ConditionHolds
  <2> QED
    BY <2>1, <2>2, <2>3
<1>2. ASSUME ConditionHolds(stored, wanted, allowEqual)
      PROVE  FencePredicate(stored, wanted, allowEqual)
  <2>1. CASE Older(stored, wanted)
    BY <2>1 DEF FencePredicate, Older
  <2>2. CASE allowEqual /\ stored = wanted
    <3>1. FenceWidth \in Columns
      BY FenceAssumption DEF Columns
    <3> QED
      BY <2>2, <3>1 DEF FencePredicate
  <2> QED
    BY <1>2, <2>1, <2>2 DEF ConditionHolds
<1> QED
  BY <1>1, <1>2

-----------------------------------------------------------------------------
\* Type correctness: the values the statements leave in the table and in the calls.

\* What an UPDATE and an INSERT of a request put in a row is a row.
LEMMA RowTypes ==
  ASSUME NEW r \in Request, NEW row \in Rows
  PROVE  Written(row, r) \in Rows /\ Inserted(r) \in Rows
BY TableAssumption DEF Written, Inserted, Rows, Request

\* The fence of a row that is there, and the request a call carries.
LEMMA CallTypes ==
  ASSUME TypeOK, NEW c \in Calls
  PROVE  /\ req[c] \in Request
         /\ req[c].key \in Keys
         /\ req[c].fence \in Fences
         /\ AllowEqual(req[c]) \in BOOLEAN
         /\ Row(c) \in Rows \cup {None}
         /\ Row(c) # None => Row(c) \in Rows /\ Row(c).fence \in Fences
<1>1. req[c] \in Request
  BY CallAssumption DEF TypeOK
<1>2. req[c].key \in Keys /\ req[c].fence \in Fences
  BY <1>1 DEF Request
<1>3. Row(c) \in Rows \cup {None}
  BY <1>2 DEF TypeOK, Tables, Row
<1> QED
  BY <1>1, <1>2, <1>3 DEF AllowEqual, Rows

\* The zero fence, which legacy writers store and calls start from, is a fence.
LEMMA ZeroFenceType == ZeroFence \in Fences
BY FenceAssumption DEF ZeroFence, Fences

\* Counting a disturbance keeps the counters within their cap.
LEMMA DisturbType ==
  ASSUME TypeOK, NEW writer, NEW k, Disturb(writer, k)
  PROVE  foreign' \in [Calls -> 0..ForeignCap]
<1>1. \A c \in Calls : foreign[c] \in 0..ForeignCap
  BY DEF TypeOK
<1>2. \A c \in Calls : foreign[c] < ForeignCap => foreign[c] + 1 \in 0..ForeignCap
  BY <1>1, CallAssumption
<1> QED
  BY <1>1, <1>2 DEF Disturb

\* A statement that takes effect leaves a table of rows and counts itself once.
LEMMA PutType ==
  ASSUME TypeOK, NEW c \in Calls, NEW row \in Rows, Put(c, row)
  PROVE  /\ table' \in Tables
         /\ effects' \in [Calls -> Nat]
         /\ foreign' \in [Calls -> 0..ForeignCap]
         /\ deleted' \in SUBSET Keys
<1>1. table' \in Tables
  BY CallTypes DEF Put, Tables, TypeOK
<1>2. effects' \in [Calls -> Nat]
  BY DEF Put, TypeOK
<1>3. foreign' \in [Calls -> 0..ForeignCap]
  BY DisturbType DEF Put
<1> QED
  BY <1>1, <1>2, <1>3 DEF Put, TypeOK

\* Both ways to leave a statement, and the end of a round, keep the flow typed.
LEMMA FlowType ==
  ASSUME TypeOK, NEW c \in Calls,
         \/ \E s \in Statements : Goto(c, s)
         \/ \E a \in Answers : Return(c, a)
         \/ NextRound(c)
  PROVE  /\ pc' \in [Calls -> Statements \cup {"done"}]
         /\ answer' \in [Calls -> Answers]
         /\ round' \in [Calls -> 1..MaxRounds]
<1>1. CASE \E s \in Statements : Goto(c, s)
  BY <1>1 DEF Goto, TypeOK
<1>2. CASE \E a \in Answers : Return(c, a)
  BY <1>2 DEF Return, TypeOK
<1>3. CASE NextRound(c)
  <2>1. CASE round[c] < MaxRounds
    <3>1. round[c] + 1 \in 1..MaxRounds
      BY <2>1, CallAssumption DEF TypeOK
    <3> QED
      BY <1>3, <2>1, <3>1 DEF NextRound, TypeOK, Statements
  <2>2. CASE ~(round[c] < MaxRounds)
    BY <1>3, <2>2 DEF NextRound, Return, TypeOK, Answers, Inconclusive
  <2> QED
    BY <2>1, <2>2
<1> QED
  BY <1>1, <1>2, <1>3

\* The decision on a state that was read keeps the flow typed.
LEMMA ClassifyType ==
  ASSUME TypeOK, NEW c \in Calls, Row(c) # None, Classify(c)
  PROVE  /\ pc' \in [Calls -> Statements \cup {"done"}]
         /\ answer' \in [Calls -> Answers]
         /\ round' \in [Calls -> 1..MaxRounds]
         /\ seen' \in [Calls -> Fences]
         /\ compared' \in [Calls -> Fences \cup {None}]
<1>1. seen' \in [Calls -> Fences]
  BY CallTypes, ZeroFenceType DEF Classify, TypeOK
<1>2. compared' \in [Calls -> Fences \cup {None}]
  BY DEF Classify, TypeOK
<1>3. \/ \E s \in Statements : Goto(c, s)
      \/ \E a \in Answers : Return(c, a)
      \/ NextRound(c)
  BY DEF Classify, Statements, Answers
<1> QED
  BY <1>1, <1>2, <1>3, FlowType

\* The initial states are typed.
LEMMA InitTypeOK == Init => TypeOK
<1> SUFFICES ASSUME Init PROVE TypeOK
  OBVIOUS
<1>1. table \in Tables
  BY CallAssumption DEF Init
<1>2. (CHOOSE r \in Requests : TRUE) \in Requests
  BY CallAssumption
<1> QED
  BY <1>1, <1>2, ZeroFenceType, CallAssumption DEF Init, TypeOK, Answers

\* Every step keeps the state typed.
LEMMA NextTypeOK == TypeOK /\ [Next]_vars => TypeOK'
<1> SUFFICES ASSUME TypeOK, [Next]_vars PROVE TypeOK'
  OBVIOUS
<1>1. ASSUME NEW c \in Calls, NEW r \in Requests, Start(c, r)
      PROVE  TypeOK'
  BY <1>1 DEF Start, TypeOK, Answers, Statements
<1>2. ASSUME NEW c \in Calls, UpdateApplies(c)
      PROVE  TypeOK'
  <2>1. Written(Row(c), req[c]) \in Rows
    BY <1>2, CallTypes, RowTypes DEF UpdateApplies, Affects, Matches
  <2>2. \E a \in Answers : Return(c, a)
    BY <1>2 DEF UpdateApplies, Answers, Saved
  <2> QED
    BY <1>2, <2>1, <2>2, PutType, FlowType DEF UpdateApplies, TypeOK
<1>3. ASSUME NEW c \in Calls, UpdateZeroRows(c)
      PROVE  TypeOK'
  <2>1. \E s \in Statements : Goto(c, s)
    BY <1>3 DEF UpdateZeroRows, Statements
  <2> QED
    BY <1>3, <2>1, FlowType DEF UpdateZeroRows, NoEffect, TypeOK
<1>4. ASSUME NEW c \in Calls, UpdateDuplicate(c)
      PROVE  TypeOK'
  <2>1. \E a \in Answers : Return(c, a)
    BY <1>4 DEF UpdateDuplicate, Answers
  <2> QED
    BY <1>4, <2>1, FlowType DEF UpdateDuplicate, NoEffect, TypeOK
<1>5. ASSUME NEW c \in Calls, ReadState(c)
      PROVE  TypeOK'
  <2>1. CASE Row(c) # None /\ Classify(c)
    BY <1>5, <2>1, ClassifyType DEF ReadState, NoEffect, TypeOK
  <2>2. CASE UNCHANGED <<seen, compared>> /\ (Return(c, "disappeared") \/ Goto(c, "insert"))
    <3>1. (\E a \in Answers : Return(c, a)) \/ (\E s \in Statements : Goto(c, s))
      BY <2>2 DEF Answers, Statements
    <3> QED
      BY <1>5, <2>2, <3>1, FlowType DEF ReadState, NoEffect, TypeOK
  <2> QED
    BY <1>5, <2>1, <2>2 DEF ReadState
<1>6. ASSUME NEW c \in Calls, InsertApplies(c)
      PROVE  TypeOK'
  <2>1. Inserted(req[c]) \in Rows
    BY CallTypes, TableAssumption DEF Inserted, Rows, Request
  <2>2. \E a \in Answers : Return(c, a)
    BY <1>6 DEF InsertApplies, Answers, Saved
  <2> QED
    BY <1>6, <2>1, <2>2, PutType, FlowType DEF InsertApplies, TypeOK
<1>7. ASSUME NEW c \in Calls, InsertDuplicate(c)
      PROVE  TypeOK'
  <2>1. \E s \in Statements : Goto(c, s)
    BY <1>7 DEF InsertDuplicate, Statements
  <2>2. dup' \in [Calls -> {"none", "pk", "alias"}]
    BY <1>7 DEF InsertDuplicate, TypeOK
  <2> QED
    BY <1>7, <2>1, <2>2, FlowType DEF InsertDuplicate, NoEffect, TypeOK
<1>8. ASSUME NEW c \in Calls, Reread(c)
      PROVE  TypeOK'
  <2>1. CASE Row(c) # None /\ Classify(c)
    BY <1>8, <2>1, ClassifyType DEF Reread, NoEffect, TypeOK
  <2>2. CASE UNCHANGED <<seen, compared>> /\ Return(c, "conflict")
    <3>1. \E a \in Answers : Return(c, a)
      BY <2>2 DEF Answers
    <3> QED
      BY <1>8, <2>2, <3>1, FlowType DEF Reread, NoEffect, TypeOK
  <2> QED
    BY <1>8, <2>1, <2>2 DEF Reread
<1>9. ASSUME NEW c \in Calls, Match(c)
      PROVE  TypeOK'
  <2>1. compared' \in [Calls -> Fences \cup {None}]
    BY <1>9 DEF Match, TypeOK
  <2>2. (\E a \in Answers : Return(c, a)) \/ NextRound(c)
    BY <1>9 DEF Match, Answers, Saved, Inconclusive
  <2> QED
    BY <1>9, <2>1, <2>2, FlowType DEF Match, NoEffect, TypeOK
<1>10. ASSUME NEW c \in Calls, StatementFails(c)
       PROVE  TypeOK'
  <2>1. \E a \in Answers : Return(c, a)
    BY <1>10 DEF StatementFails, Answers
  <2> QED
    BY <1>10, <2>1, FlowType DEF StatementFails, NoEffect, TypeOK
<1>11. ASSUME NEW c \in Calls, ReplyLost(c)
       PROVE  TypeOK'
  <2>1. \E a \in Answers : Return(c, a)
    BY <1>11 DEF ReplyLost, Answers
  <2>2. late' \in [Calls -> {"none", "update", "insert"}]
    BY <1>11 DEF ReplyLost, TypeOK
  <2> QED
    BY <1>11, <2>1, <2>2, FlowType DEF ReplyLost, NoEffect, TypeOK
<1>12. ASSUME NEW c \in Calls, LateStatement(c)
       PROVE  TypeOK'
  <2>1. Inserted(req[c]) \in Rows
    BY CallTypes, TableAssumption DEF Inserted, Rows, Request
  <2>2. Affects(c) => Written(Row(c), req[c]) \in Rows
    BY CallTypes, RowTypes DEF Affects, Matches
  <2>3. NoEffect \/ \E row \in Rows : Put(c, row)
    BY <1>12, <2>1, <2>2 DEF LateStatement
  <2>4. /\ table' \in Tables
        /\ effects' \in [Calls -> Nat]
        /\ foreign' \in [Calls -> 0..ForeignCap]
        /\ deleted' \in SUBSET Keys
    BY <2>3, PutType DEF NoEffect, TypeOK
  <2> QED
    BY <1>12, <2>4 DEF LateStatement, flow, TypeOK
<1>13. ASSUME NEW k \in Keys, HotWrite(k)
       PROVE  TypeOK'
  <2>1. table' \in Tables
    <3>1. table[k] # None => table[k].fence \in Fences
      BY DEF TypeOK, Tables, Rows
    <3>2. PICK b \in Bodies :
            table' = [table EXCEPT ![k] =
                        [fence |-> IF @ = None THEN ZeroFence ELSE @.fence,
                         body  |-> Coerce[b]]]
      BY <1>13 DEF HotWrite
    <3> QED
      BY <3>1, <3>2, ZeroFenceType, TableAssumption DEF TypeOK, Tables, Rows
  <2>2. foreign' \in [Calls -> 0..ForeignCap]
    BY <1>13, DisturbType DEF HotWrite
  <2> QED
    BY <1>13, <2>1, <2>2 DEF HotWrite, flow, TypeOK
<1>14. ASSUME NEW k \in Keys, Delete(k)
       PROVE  TypeOK'
  <2>1. foreign' \in [Calls -> 0..ForeignCap]
    BY <1>14, DisturbType DEF Delete
  <2>2. table' \in Tables
    BY <1>14 DEF Delete, TypeOK, Tables
  <2> QED
    BY <1>14, <2>1, <2>2 DEF Delete, flow, TypeOK
<1>15. CASE UNCHANGED vars
  BY <1>15 DEF vars, flow, TypeOK
<1> QED
  BY <1>1, <1>2, <1>3, <1>4, <1>5, <1>6, <1>7, <1>8, <1>9, <1>10, <1>11, <1>12,
     <1>13, <1>14, <1>15 DEF Next, Reply

\* Every reachable state of the statements is typed; in particular no call runs more
\* than MaxRounds rounds.
THEOREM TypeCorrect == Spec => []TypeOK
<1> QED
  BY InitTypeOK, NextTypeOK, PTL DEF Spec

-----------------------------------------------------------------------------
\* The fence of a row only advances.

\* The ways a step can change the table: one call's UPDATE or INSERT, on the call's
\* own row, with the row it found there; a legacy writer; a deletion.
TableStep ==
  \/ UNCHANGED table
  \/ \E c \in Calls : /\ Matches(Row(c), req[c])
                      /\ table' = [table EXCEPT ![req[c].key] = Written(Row(c), req[c])]
  \/ \E c \in Calls : /\ Row(c) = None
                      /\ table' = [table EXCEPT ![req[c].key] = Inserted(req[c])]
  \/ \E k \in Keys : HotWrite(k)
  \/ \E k \in Keys : Delete(k)

\* Every step changes the table in one of these ways.
LEMMA StepTable == [Next]_vars => TableStep
<1> SUFFICES ASSUME [Next]_vars PROVE TableStep
  OBVIOUS
<1>1. ASSUME NEW c \in Calls, UpdateApplies(c)
      PROVE  TableStep
  BY <1>1 DEF UpdateApplies, Affects, Put, TableStep
<1>2. ASSUME NEW c \in Calls, InsertApplies(c)
      PROVE  TableStep
  BY <1>2 DEF InsertApplies, Put, TableStep
<1>3. ASSUME NEW c \in Calls, LateStatement(c)
      PROVE  TableStep
  BY <1>3 DEF LateStatement, Affects, Put, NoEffect, TableStep
<1>4. ASSUME NEW c \in Calls,
             \/ UpdateZeroRows(c) \/ UpdateDuplicate(c) \/ ReadState(c)
             \/ InsertDuplicate(c) \/ Reread(c) \/ Match(c)
             \/ StatementFails(c) \/ ReplyLost(c)
      PROVE  UNCHANGED table
  BY <1>4 DEF UpdateZeroRows, UpdateDuplicate, ReadState, InsertDuplicate, Reread, Match,
              StatementFails, ReplyLost, NoEffect
<1>5. ASSUME NEW c \in Calls, NEW r \in Requests, Start(c, r)
      PROVE  UNCHANGED table
  BY <1>5 DEF Start
<1>6. CASE UNCHANGED vars
  BY <1>6 DEF vars, TableStep
<1> QED
  BY <1>1, <1>2, <1>3, <1>4, <1>5, <1>6 DEF Next, Reply, TableStep

\* An UPDATE whose predicate held leaves the fence as it was or newer.
LEMMA WrittenAdvances ==
  ASSUME NEW row \in Rows, NEW r \in Request, Matches(row, r)
  PROVE  \/ Written(row, r).fence = row.fence
         \/ Older(row.fence, Written(row, r).fence)
<1>1. row.fence \in Fences /\ r.fence \in Fences /\ AllowEqual(r) \in BOOLEAN
  BY DEF Rows, Request, AllowEqual
<1>2. CASE Fenced(r)
  <2>1. ConditionHolds(row.fence, r.fence, AllowEqual(r))
    BY <1>1, <1>2, PredicateIsConditionHolds DEF Matches
  <2> QED
    BY <1>2, <2>1 DEF ConditionHolds, Written
<1>3. CASE ~Fenced(r)
  BY <1>3 DEF Written
<1> QED
  BY <1>2, <1>3

\* No step makes the fence of a row that stays older.
LEMMA StepAdvances ==
  ASSUME TypeOK, [Next]_vars, NEW k \in Keys, table[k] # None, table'[k] # None
  PROVE  \/ table'[k].fence = table[k].fence
         \/ Older(table[k].fence, table'[k].fence)
<1>1. TableStep
  BY StepTable
<1>2. CASE UNCHANGED table
  BY <1>2
<1>3. ASSUME NEW c \in Calls, Matches(Row(c), req[c]),
             table' = [table EXCEPT ![req[c].key] = Written(Row(c), req[c])]
      PROVE  \/ table'[k].fence = table[k].fence
             \/ Older(table[k].fence, table'[k].fence)
  <2>1. CASE k = req[c].key
    <3>1. table'[k] = Written(Row(c), req[c])
      BY <1>3, <2>1 DEF TypeOK, Tables
    <3>2. Row(c) = table[k] /\ Row(c) \in Rows /\ req[c] \in Request
      BY <2>1, CallTypes DEF Row
    <3> QED
      BY <1>3, <3>1, <3>2, WrittenAdvances
  <2>2. CASE k # req[c].key
    BY <1>3, <2>2 DEF TypeOK, Tables
  <2> QED
    BY <2>1, <2>2
<1>4. ASSUME NEW c \in Calls, Row(c) = None,
             table' = [table EXCEPT ![req[c].key] = Inserted(req[c])]
      PROVE  table'[k] = table[k]
  BY <1>4 DEF Row, TypeOK, Tables
<1>5. ASSUME NEW h \in Keys, HotWrite(h)
      PROVE  table'[k].fence = table[k].fence
  BY <1>5 DEF HotWrite, TypeOK, Tables
<1>6. ASSUME NEW d \in Keys, Delete(d)
      PROVE  table'[k] = table[k]
  BY <1>6 DEF Delete, TypeOK, Tables
<1> QED
  BY <1>1, <1>2, <1>3, <1>4, <1>5, <1>6 DEF TableStep

\* The fence of a row never retreats, whatever calls, late statements and legacy
\* writers do, for any number of them and any number of fence columns.
THEOREM FencesAdvance == Spec => FenceNeverRetreats
<1>1. ASSUME TypeOK, [Next]_vars
      PROVE  [\A k \in Keys : table[k] # None /\ table'[k] # None
                 => ~Older(table'[k].fence, table[k].fence)]_vars
  <2>1. SUFFICES ASSUME NEW k \in Keys, table[k] # None, table'[k] # None
                 PROVE  ~Older(table'[k].fence, table[k].fence)
    OBVIOUS
  <2>2. TypeOK'
    BY <1>1, NextTypeOK
  <2>3. table[k].fence \in Fences /\ table'[k].fence \in Fences
    BY <1>1, <2>1, <2>2 DEF TypeOK, Tables, Rows
  <2>4. \/ table'[k].fence = table[k].fence
        \/ Older(table[k].fence, table'[k].fence)
    BY <1>1, <2>1, StepAdvances
  <2> QED
    BY <2>3, <2>4, OlderIrreflexive, OlderAsymmetric
<1> QED
  BY <1>1, TypeCorrect, PTL DEF Spec, FenceNeverRetreats

-----------------------------------------------------------------------------
\* The inductive invariant, one conjunct at a time.

\* A step that returns an answer, without a statement that takes effect, from a call
\* under way keeps the books of every call.
LEMMA QuietReply ==
  ASSUME TypeOK, CallInv, AnswersMatchEffects, NEW c \in Calls, pc[c] # "done",
         \/ \E s \in Statements : Goto(c, s)
         \/ \E a \in Answers \ {"idle", "pending", "updated", "inserted"} : Return(c, a)
         \/ NextRound(c),
         UNCHANGED <<effects, late>>
  PROVE  CallInv' /\ AnswersMatchEffects'
<1>1. answer[c] = "pending" /\ effects[c] = 0 /\ late[c] = "none"
  BY DEF CallInv, TypeOK
<1>2. ASSUME pc' = [pc EXCEPT ![c] = pc'[c]], pc'[c] # "done", UNCHANGED answer
      PROVE  CallInv' /\ AnswersMatchEffects'
  BY <1>1, <1>2 DEF CallInv, AnswersMatchEffects, TypeOK
<1>3. ASSUME NEW a \in Answers \ {"idle", "pending", "updated", "inserted"}, Return(c, a)
      PROVE  CallInv' /\ AnswersMatchEffects'
  BY <1>1, <1>3 DEF Return, CallInv, AnswersMatchEffects, TypeOK
<1>4. CASE \E s \in Statements : Goto(c, s)
  BY <1>2, <1>4 DEF Goto, Statements, TypeOK
<1>5. CASE NextRound(c)
  <2>1. CASE round[c] < MaxRounds
    BY <1>2, <1>5, <2>1 DEF NextRound, TypeOK
  <2>2. CASE ~(round[c] < MaxRounds)
    BY <1>3, <1>5, <2>2 DEF NextRound, Answers, Inconclusive
  <2> QED
    BY <2>1, <2>2
<1> QED
  BY <1>3, <1>4, <1>5

\* Both reads leave their call through one of the quiet exits.
LEMMA ClassifyExits ==
  ASSUME NEW c \in Calls, Classify(c)
  PROVE  \/ \E s \in Statements : Goto(c, s)
         \/ \E a \in Answers \ {"idle", "pending", "updated", "inserted"} : Return(c, a)
         \/ NextRound(c)
BY DEF Classify, Statements, Answers

\* Every step keeps the books: what is on the server and what was answered agree.
LEMMA NextBooks ==
  ASSUME TypeOK, CallInv, AnswersMatchEffects, [Next]_vars
  PROVE  CallInv' /\ AnswersMatchEffects'
<1>1. ASSUME NEW c \in Calls, NEW r \in Requests, Start(c, r)
      PROVE  CallInv' /\ AnswersMatchEffects'
  BY <1>1 DEF Start, CallInv, AnswersMatchEffects, TypeOK
<1>2. ASSUME NEW c \in Calls, NEW row, NEW a \in {"updated", "inserted"},
             pc[c] # "done", Put(c, row), Return(c, a), UNCHANGED late
      PROVE  CallInv' /\ AnswersMatchEffects'
  BY <1>2 DEF Put, Return, CallInv, AnswersMatchEffects, TypeOK
<1>3. ASSUME NEW c \in Calls, UpdateApplies(c) \/ InsertApplies(c)
      PROVE  CallInv' /\ AnswersMatchEffects'
  BY <1>2, <1>3 DEF UpdateApplies, InsertApplies
<1>4. ASSUME NEW c \in Calls, UpdateZeroRows(c) \/ UpdateDuplicate(c) \/ InsertDuplicate(c)
      PROVE  CallInv' /\ AnswersMatchEffects'
  BY <1>4, QuietReply DEF UpdateZeroRows, UpdateDuplicate, InsertDuplicate, NoEffect,
                          Statements, Answers
<1>5. ASSUME NEW c \in Calls, ReadState(c) \/ Reread(c)
      PROVE  CallInv' /\ AnswersMatchEffects'
  <2>1. \/ \E s \in Statements : Goto(c, s)
        \/ \E a \in Answers \ {"idle", "pending", "updated", "inserted"} : Return(c, a)
        \/ NextRound(c)
    BY <1>5, ClassifyExits DEF ReadState, Reread, Statements, Answers
  <2> QED
    BY <1>5, <2>1, QuietReply DEF ReadState, Reread, NoEffect
<1>6. ASSUME NEW c \in Calls, Match(c)
      PROVE  CallInv' /\ AnswersMatchEffects'
  <2>1. \/ \E a \in Answers \ {"idle", "pending", "updated", "inserted"} : Return(c, a)
        \/ NextRound(c)
    BY <1>6 DEF Match, Answers, Saved, Inconclusive
  <2> QED
    BY <1>6, <2>1, QuietReply DEF Match, NoEffect
<1>7. ASSUME NEW c \in Calls, StatementFails(c)
      PROVE  CallInv' /\ AnswersMatchEffects'
  BY <1>7, QuietReply DEF StatementFails, NoEffect, Statements, Answers
<1>8. ASSUME NEW c \in Calls, ReplyLost(c)
      PROVE  CallInv' /\ AnswersMatchEffects'
  BY <1>8 DEF ReplyLost, Return, NoEffect, CallInv, AnswersMatchEffects, TypeOK
<1>9. ASSUME NEW c \in Calls, LateStatement(c)
      PROVE  CallInv' /\ AnswersMatchEffects'
  <2>1. answer[c] = "error" /\ effects[c] = 0
    BY <1>9 DEF LateStatement, CallInv
  <2>2. effects' = effects \/ effects' = [effects EXCEPT ![c] = @ + 1]
    BY <1>9 DEF LateStatement, NoEffect, Put
  <2> QED
    BY <1>9, <2>1, <2>2 DEF LateStatement, flow, CallInv, AnswersMatchEffects, TypeOK
<1>10. CASE (\E k \in Keys : HotWrite(k) \/ Delete(k)) \/ UNCHANGED vars
  BY <1>10 DEF HotWrite, Delete, vars, flow, CallInv, AnswersMatchEffects
<1> QED
  BY <1>1, <1>3, <1>4, <1>5, <1>6, <1>7, <1>8, <1>9, <1>10 DEF Next, Reply

\* A row goes away only by a deletion, which is remembered; nothing else is forgotten.
LEMMA StepKeepsRows ==
  ASSUME TypeOK, [Next]_vars, NEW k \in Keys
  PROVE  /\ k \in deleted => k \in deleted'
         /\ table[k] # None => table'[k] # None \/ k \in deleted'
<1>1. deleted \subseteq deleted'
  BY DEF Next, vars, flow, Reply, Start, UpdateApplies, UpdateZeroRows, UpdateDuplicate,
         ReadState, InsertApplies, InsertDuplicate, Reread, Match, StatementFails,
         ReplyLost, LateStatement, HotWrite, Delete, NoEffect, Put
<1>2. TableStep
  BY StepTable
<1>3. None \notin Rows
  BY TableAssumption DEF Rows
<1>4. ASSUME NEW c \in Calls, NEW row \in Rows, table[k] # None,
             table' = [table EXCEPT ![req[c].key] = row]
      PROVE  table'[k] # None
  BY <1>3, <1>4 DEF TypeOK, Tables
<1>5. ASSUME NEW c \in Calls
      PROVE  /\ Matches(Row(c), req[c]) => Written(Row(c), req[c]) \in Rows
             /\ Inserted(req[c]) \in Rows
  BY CallTypes, RowTypes, TableAssumption DEF Matches, Inserted, Rows, Request
<1>6. ASSUME NEW h \in Keys, HotWrite(h), table[k] # None
      PROVE  table'[k] # None
  <2>1. PICK b \in Bodies :
          table' = [table EXCEPT ![h] =
                      [fence |-> IF @ = None THEN ZeroFence ELSE @.fence,
                       body  |-> Coerce[b]]]
    BY <1>6 DEF HotWrite
  <2>2. table[h] # None => table[h].fence \in Fences
    BY DEF TypeOK, Tables, Rows
  <2>3. [fence |-> IF table[h] = None THEN ZeroFence ELSE table[h].fence,
         body  |-> Coerce[b]] \in Rows
    BY <2>2, ZeroFenceType, TableAssumption DEF Rows
  <2> QED
    BY <1>3, <1>6, <2>1, <2>3 DEF TypeOK, Tables
<1>7. ASSUME NEW d \in Keys, Delete(d), table[k] # None
      PROVE  table'[k] # None \/ k \in deleted'
  BY <1>7 DEF Delete, TypeOK, Tables
<1>8. table[k] # None => table'[k] # None \/ k \in deleted'
  BY <1>2, <1>4, <1>5, <1>6, <1>7 DEF TableStep
<1> QED
  BY <1>1, <1>8

\* The request of a call is fixed once the call has started.
LEMMA StepKeepsRequests ==
  ASSUME TypeOK, [Next]_vars, NEW c \in Calls, answer[c] # "idle"
  PROVE  req'[c] = req[c]
<1>1. ASSUME NEW d \in Calls, NEW r \in Requests, Start(d, r)
      PROVE  req'[c] = req[c]
  BY <1>1 DEF Start, TypeOK
<1>2. ASSUME NEW d \in Calls, Reply(d) \/ StatementFails(d) \/ ReplyLost(d) \/ LateStatement(d)
      PROVE  req' = req
  BY <1>2 DEF Reply, UpdateApplies, UpdateZeroRows, UpdateDuplicate, ReadState, InsertApplies,
              InsertDuplicate, Reread, Match, StatementFails, ReplyLost, LateStatement, flow
<1>3. CASE (\E k \in Keys : HotWrite(k) \/ Delete(k)) \/ UNCHANGED vars
  BY <1>3 DEF HotWrite, Delete, vars, flow
<1> QED
  BY <1>1, <1>2, <1>3 DEF Next

\* A call that says something about its row says so of the row as it is at that step.
LEMMA AnswerIsTrueWhenGiven ==
  ASSUME TypeOK, [Next]_vars, NEW c \in Calls,
         answer'[c] \in Saved \cup {"rejected"}, answer'[c] # answer[c], Fenced(req'[c])
  PROVE  Row(c)' # None /\ ~Older(Row(c)'.fence, req'[c].fence)
<1> DEFINE Goal == Row(c)' # None /\ ~Older(Row(c)'.fence, req'[c].fence)
<1>1. None \notin Rows
  BY TableAssumption DEF Rows
<1>2. ~Older(req[c].fence, req[c].fence)
  BY CallTypes, OlderIrreflexive
<1>3. ASSUME NEW d \in Calls, UpdateApplies(d) \/ InsertApplies(d)
      PROVE  Goal
  <2>1. c = d /\ req' = req
    BY <1>3 DEF UpdateApplies, InsertApplies, Return, TypeOK
  <2>2. CASE UpdateApplies(d)
    <3>1. Row(c)' = Written(Row(c), req[c])
      BY <2>1, <2>2, CallTypes DEF UpdateApplies, Put, Row, TypeOK, Tables
    <3>2. Written(Row(c), req[c]) \in Rows
      BY <2>1, <2>2, CallTypes, RowTypes DEF UpdateApplies, Affects, Matches
    <3> QED
      BY <1>1, <1>2, <2>1, <3>1, <3>2 DEF Written
  <2>3. CASE InsertApplies(d)
    <3>1. Row(c)' = Inserted(req[c])
      BY <2>1, <2>3, CallTypes DEF InsertApplies, Put, Row, TypeOK, Tables
    <3>2. Inserted(req[c]) \in Rows
      BY CallTypes, TableAssumption DEF Inserted, Rows, Request
    <3> QED
      BY <1>1, <1>2, <2>1, <3>1, <3>2 DEF Inserted
  <2> QED
    BY <1>3, <2>2, <2>3
<1>4. ASSUME NEW d \in Calls, ReadState(d) \/ Reread(d)
      PROVE  Goal
  <2>1. req' = req /\ table' = table
    BY <1>4 DEF ReadState, Reread, NoEffect
  <2>2. c = d /\ Row(c) # None /\ ~ConditionHolds(Row(c).fence, req[c].fence, AllowEqual(req[c]))
    BY <1>4, <2>1 DEF ReadState, Reread, Classify, Goto, Return, NextRound, TypeOK, Saved
  <2> QED
    BY <2>1, <2>2 DEF ConditionHolds, Row
<1>5. ASSUME NEW d \in Calls, Match(d)
      PROVE  Goal
  <2>1. req' = req /\ table' = table
    BY <1>5 DEF Match, NoEffect
  <2>2. c = d /\ IsTarget(Row(c), req[c])
    BY <1>5, <2>1 DEF Match, Return, NextRound, TypeOK, Saved
  <2> QED
    BY <1>2, <2>1, <2>2 DEF IsTarget, Row
<1>6. ASSUME NEW d \in Calls,
             \/ UpdateZeroRows(d) \/ UpdateDuplicate(d) \/ InsertDuplicate(d)
             \/ StatementFails(d) \/ ReplyLost(d)
             \/ LateStatement(d) \/ \E r \in Requests : Start(d, r)
      PROVE  FALSE
  BY <1>6 DEF UpdateZeroRows, UpdateDuplicate, InsertDuplicate, StatementFails, ReplyLost,
              LateStatement, Start, Goto, Return, flow, Saved, TypeOK
<1>7. CASE (\E k \in Keys : HotWrite(k) \/ Delete(k)) \/ UNCHANGED vars
  BY <1>7 DEF HotWrite, Delete, vars, flow
<1> QED
  BY <1>3, <1>4, <1>5, <1>6, <1>7 DEF Next, Reply

\* Whatever was answered about a version stays true of the row.
LEMMA NextSurvive ==
  ASSUME TypeOK, AnsweredVersionsSurvive, [Next]_vars
  PROVE  AnsweredVersionsSurvive'
<1> SUFFICES ASSUME NEW c \in Calls, answer'[c] \in Saved \cup {"rejected"},
                    Fenced(req'[c]), req'[c].key \notin deleted'
             PROVE  Row(c)' # None /\ ~Older(Row(c)'.fence, req'[c].fence)
  BY DEF AnsweredVersionsSurvive
<1>1. CASE answer'[c] # answer[c]
  BY <1>1, AnswerIsTrueWhenGiven
<1>2. CASE answer'[c] = answer[c]
  <2>1. req'[c] = req[c]
    BY <1>2, StepKeepsRequests DEF Saved
  <2> DEFINE k == req[c].key
  <2>2. k \in Keys /\ req[c].fence \in Fences
    BY CallTypes
  <2>3. k \notin deleted
    BY <2>1, <2>2, StepKeepsRows
  <2>4. table[k] # None /\ ~Older(table[k].fence, req[c].fence)
    BY <1>2, <2>1, <2>3 DEF AnsweredVersionsSurvive, Row
  <2>5. table'[k] # None
    BY <2>1, <2>2, <2>4, StepKeepsRows
  <2>6. TypeOK'
    BY NextTypeOK
  <2>7. table[k].fence \in Fences /\ table'[k].fence \in Fences
    BY <2>2, <2>4, <2>5, <2>6 DEF TypeOK, Tables, Rows
  <2>8. \/ table'[k].fence = table[k].fence
        \/ Older(table[k].fence, table'[k].fence)
    BY <2>2, <2>4, <2>5, StepAdvances
  <2>9. ~Older(table'[k].fence, req[c].fence)
    BY <2>2, <2>4, <2>7, <2>8, OlderTransitive
  <2> QED
    BY <2>1, <2>5, <2>9 DEF Row
<1> QED
  BY <1>1, <1>2

\* While a call is about to reread, what refused its INSERT is as recorded.
LEMMA NextReread ==
  ASSUME TypeOK, CallInv, RereadInv, [Next]_vars
  PROVE  RereadInv'
<1> SUFFICES ASSUME NEW c \in Calls, pc'[c] = "reread"
             PROVE  \/ dup'[c] = "alias"
                    \/ dup'[c] = "pk" /\ (Row(c)' # None \/ req'[c].key \in deleted')
  BY DEF RereadInv
<1>1. CASE pc[c] # "reread"
  <2>1. InsertDuplicate(c)
    <3>1. ASSUME NEW d \in Calls, NEW r \in Requests, Start(d, r)
          PROVE  FALSE
      BY <1>1, <3>1 DEF Start, TypeOK
    <3>2. ASSUME NEW d \in Calls,
                 \/ UpdateApplies(d) \/ UpdateZeroRows(d) \/ UpdateDuplicate(d)
                 \/ ReadState(d) \/ InsertApplies(d) \/ Reread(d) \/ Match(d)
                 \/ StatementFails(d) \/ ReplyLost(d)
          PROVE  FALSE
      BY <1>1, <3>2 DEF UpdateApplies, UpdateZeroRows, UpdateDuplicate, ReadState, Classify,
             InsertApplies, Reread, Match, StatementFails, ReplyLost, Goto, Return, NextRound,
             TypeOK
    <3>3. ASSUME NEW d \in Calls, InsertDuplicate(d)
          PROVE  c = d
      BY <1>1, <3>3 DEF InsertDuplicate, Goto, TypeOK
    <3>4. ASSUME \/ \E d \in Calls : LateStatement(d)
                 \/ \E k \in Keys : HotWrite(k) \/ Delete(k)
                 \/ UNCHANGED vars
          PROVE  FALSE
      BY <1>1, <3>4 DEF LateStatement, HotWrite, Delete, vars, flow
    <3> QED
      BY <3>1, <3>2, <3>3, <3>4 DEF Next, Reply
  <2> QED
    BY <2>1 DEF InsertDuplicate, NoEffect, Row, TypeOK
<1>2. CASE pc[c] = "reread"
  <2>1. answer[c] = "pending"
    BY <1>2 DEF CallInv
  <2>2. req'[c] = req[c]
    BY <2>1, StepKeepsRequests
  <2>3. dup'[c] = dup[c]
    <3>1. ASSUME NEW d \in Calls, InsertDuplicate(d)
          PROVE  dup'[c] = dup[c]
      BY <1>2, <3>1 DEF InsertDuplicate, TypeOK
    <3>2. ASSUME NEW d \in Calls, NEW r \in Requests, Start(d, r)
          PROVE  dup' = dup
      BY <3>2 DEF Start
    <3>3. ASSUME NEW d \in Calls,
                 \/ UpdateApplies(d) \/ UpdateZeroRows(d) \/ UpdateDuplicate(d)
                 \/ ReadState(d) \/ InsertApplies(d) \/ Reread(d) \/ Match(d)
                 \/ StatementFails(d) \/ ReplyLost(d) \/ LateStatement(d)
          PROVE  dup' = dup
      BY <3>3 DEF UpdateApplies, UpdateZeroRows, UpdateDuplicate, ReadState, InsertApplies,
             Reread, Match, StatementFails, ReplyLost, LateStatement, flow
    <3>4. ASSUME (\E k \in Keys : HotWrite(k) \/ Delete(k)) \/ UNCHANGED vars
          PROVE  dup' = dup
      BY <3>4 DEF HotWrite, Delete, vars, flow
    <3> QED
      BY <3>1, <3>2, <3>3, <3>4 DEF Next, Reply
  <2>4. req[c].key \in Keys
    BY CallTypes
  <2> QED
    BY <1>2, <2>2, <2>3, <2>4, StepKeepsRows DEF RereadInv, Row
<1> QED
  BY <1>1, <1>2

\* Only keys that may be deleted are ever recorded as deleted.
LEMMA NextDeleted ==
  ASSUME deleted \subseteq Deletable, [Next]_vars
  PROVE  deleted' \subseteq Deletable
BY DEF Next, vars, flow, Reply, Start, UpdateApplies, UpdateZeroRows, UpdateDuplicate,
       ReadState, InsertApplies, InsertDuplicate, Reread, Match, StatementFails,
       ReplyLost, LateStatement, HotWrite, Delete, NoEffect, Put

\* The invariant holds at first, and every step keeps it.
LEMMA InitIInv == Init => IInv
<1> SUFFICES ASSUME Init PROVE IInv
  OBVIOUS
<1>1. TypeOK
  BY InitTypeOK
<1>2. CallInv /\ AnswersMatchEffects
  BY DEF Init, CallInv, AnswersMatchEffects
<1>3. RereadInv /\ AnsweredVersionsSurvive /\ deleted \subseteq Deletable
  BY DEF Init, RereadInv, AnsweredVersionsSurvive, Saved
<1> QED
  BY <1>1, <1>2, <1>3 DEF IInv

\* The invariant is inductive.
LEMMA NextIInv == IInv /\ [Next]_vars => IInv'
BY NextTypeOK, NextBooks, NextReread, NextSurvive, NextDeleted DEF IInv

\* It holds in every reachable state.
LEMMA Inductive == Spec => []IInv
BY InitIInv, NextIInv, PTL DEF Spec

\* A version that SaveConditional has answered for is never lost to an older one.
THEOREM AnswersSurvive == Spec => []AnsweredVersionsSurvive
<1>1. IInv => AnsweredVersionsSurvive
  BY DEF IInv
<1> QED
  BY <1>1, Inductive, PTL

\* Every answer agrees with what the call did to the table, late statements included.
THEOREM AnswersAreHonest == Spec => []AnswersMatchEffects
<1>1. IInv => AnswersMatchEffects
  BY DEF IInv
<1> QED
  BY <1>1, Inductive, PTL

\* Where nothing is deleted, only another row can be the reason of a conflict.
LEMMA NextConflict ==
  ASSUME IInv, ConflictNamesAnotherRow, Deletable = {}, [Next]_vars
  PROVE  ConflictNamesAnotherRow'
<1>0. TypeOK /\ CallInv /\ RereadInv /\ deleted = {}
  BY DEF IInv
<1> SUFFICES ASSUME NEW c \in Calls, answer'[c] = "conflict"
             PROVE  dup'[c] = "alias"
  BY DEF ConflictNamesAnotherRow
<1>1. ASSUME NEW d \in Calls, Reread(d)
      PROVE  dup'[c] = "alias"
  <2>1. dup' = dup
    BY <1>1 DEF Reread
  <2>2. CASE answer'[c] = answer[c]
    BY <2>1, <2>2 DEF ConflictNamesAnotherRow
  <2>3. CASE answer'[c] # answer[c]
    <3>1. c = d /\ Row(c) = None
      BY <1>0, <1>1, <2>3 DEF Reread, Classify, Goto, Return, NextRound, TypeOK
    <3>2. pc[c] = "reread"
      BY <1>1, <3>1 DEF Reread
    <3> QED
      BY <1>0, <2>1, <3>1, <3>2 DEF RereadInv
  <2> QED
    BY <2>2, <2>3
<1>2. ASSUME NEW d \in Calls,
             \/ UpdateApplies(d) \/ UpdateZeroRows(d) \/ UpdateDuplicate(d) \/ ReadState(d)
             \/ InsertApplies(d) \/ Match(d) \/ StatementFails(d) \/ ReplyLost(d)
      PROVE  dup'[c] = "alias"
  <2>1. answer[c] = "conflict"
    BY <1>0, <1>2 DEF UpdateApplies, UpdateZeroRows, UpdateDuplicate, ReadState, Classify,
           InsertApplies, Match, StatementFails, ReplyLost, Goto, Return, NextRound, TypeOK
  <2>2. dup' = dup
    BY <1>2 DEF UpdateApplies, UpdateZeroRows, UpdateDuplicate, ReadState, InsertApplies,
           Match, StatementFails, ReplyLost
  <2> QED
    BY <2>1, <2>2 DEF ConflictNamesAnotherRow
<1>3. ASSUME NEW d \in Calls, InsertDuplicate(d)
      PROVE  dup'[c] = "alias"
  <2>1. answer[c] = "conflict" /\ answer[d] = "pending"
    BY <1>0, <1>3 DEF InsertDuplicate, Goto, CallInv
  <2>2. c # d
    BY <2>1
  <2> QED
    BY <1>0, <1>3, <2>1, <2>2 DEF InsertDuplicate, ConflictNamesAnotherRow, TypeOK
<1>4. ASSUME NEW d \in Calls, NEW r \in Requests, Start(d, r)
      PROVE  dup'[c] = "alias"
  BY <1>0, <1>4 DEF Start, ConflictNamesAnotherRow, TypeOK
<1>5. ASSUME \/ \E d \in Calls : LateStatement(d)
             \/ \E k \in Keys : HotWrite(k) \/ Delete(k)
             \/ UNCHANGED vars
      PROVE  dup'[c] = "alias"
  BY <1>5 DEF LateStatement, HotWrite, Delete, vars, flow, ConflictNamesAnotherRow
<1> QED
  BY <1>1, <1>2, <1>3, <1>4, <1>5 DEF Next, Reply

\* On tables whose rows are never deleted physically, "conflicts with a different unique
\* row" is always true.
THEOREM ConflictsAreReal ==
  ASSUME Deletable = {}
  PROVE  Spec => []ConflictNamesAnotherRow
<1>1. Init => ConflictNamesAnotherRow
  BY DEF Init, ConflictNamesAnotherRow
<1>2. IInv /\ ConflictNamesAnotherRow /\ [Next]_vars => ConflictNamesAnotherRow'
  BY NextConflict
<1> QED
  BY <1>1, <1>2, Inductive, PTL DEF Spec
-----------------------------------------------------------------------------
\* Giving up takes contention.

\* Others changed the row of the call n times while it ran, or as often as is counted.
Changed(c, n) == foreign[c] >= n \/ foreign[c] = ForeignCap

Lossless(c) == Coerce[req[c].body] = req[c].body

\* What the statements of this round have seen still holds of the row.
Undisturbed(c) ==
  \/ pc[c] = "update"
  \/ pc[c] = "read" /\ ~Affects(c)
  \/ pc[c] \in {"insert", "reread"} /\ Row(c) = None
  \/ pc[c] = "match" /\ IsTarget(Row(c), req[c])

\* Every round before this one met a change of its own, and so did this one unless what it
\* has seen still holds; a comparison failed in an earlier round only.
RoundsMetChanges(c) ==
  /\ answer[c] = "idle" => round[c] = 1 /\ compared[c] = None
  /\ answer[c] = "pending" /\ compared[c] # None => round[c] >= 2
  /\ answer[c] = "pending" /\ Lossless(c) =>
       Changed(c, round[c] - 1) /\ (Changed(c, round[c]) \/ Undisturbed(c))
  /\ answer[c] \in Inconclusive /\ Lossless(c) => foreign[c] = ForeignCap

\* The counters of a call are numbers.
LEMMA Counters ==
  ASSUME TypeOK, NEW c \in Calls
  PROVE  /\ round[c] \in 1..MaxRounds /\ foreign[c] \in 0..ForeignCap
         /\ MaxRounds \in Nat \ {0} /\ ForeignCap \in Nat
BY CallAssumption DEF TypeOK

\* A row the UPDATE left alone, and whose fence the request may write, is the target.
LEMMA UnaffectedIsTarget ==
  ASSUME TypeOK, NEW c \in Calls, Row(c) # None, ~Affects(c), Lossless(c),
         Fenced(req[c]) => ConditionHolds(Row(c).fence, req[c].fence, AllowEqual(req[c]))
  PROVE  IsTarget(Row(c), req[c])
<1>1. Row(c) \in Rows /\ req[c] \in Request /\ AllowEqual(req[c]) \in BOOLEAN
  BY CallTypes
<1>2. Matches(Row(c), req[c])
  BY <1>1, PredicateIsConditionHolds DEF Matches, Rows, Request
<1>3. Written(Row(c), req[c]) = Row(c)
  BY <1>2 DEF Affects
<1>4. /\ Written(Row(c), req[c]).body = req[c].body
      /\ Fenced(req[c]) => Written(Row(c), req[c]).fence = req[c].fence
  BY DEF Written, Lossless
<1> QED
  BY <1>3, <1>4 DEF IsTarget

\* The end of a round that met a change.
LEMMA RoundEnds ==
  ASSUME TypeOK, NEW c \in Calls, RoundsMetChanges(c), answer[c] = "pending",
         NextRound(c), UNCHANGED <<foreign, req>>, ForeignCap <= MaxRounds,
         Lossless(c) => Changed(c, round[c])
  PROVE  RoundsMetChanges(c)'
<1>1. /\ round[c] \in 1..MaxRounds /\ foreign[c] \in 0..ForeignCap
      /\ MaxRounds \in Nat \ {0} /\ ForeignCap \in Nat
  BY Counters
<1>2. Lossless(c)' <=> Lossless(c)
  BY DEF Lossless
<1>3. CASE round[c] < MaxRounds
  <2>1. /\ round'[c] = round[c] + 1 /\ pc'[c] = "update" /\ answer'[c] = "pending"
        /\ foreign'[c] = foreign[c]
    BY <1>3 DEF NextRound, TypeOK
  <2>2. round'[c] >= 2 /\ round'[c] - 1 = round[c]
    BY <1>1, <2>1
  <2>3. Undisturbed(c)'
    BY <2>1 DEF Undisturbed
  <2>4. Lossless(c) => Changed(c, round[c] - 1)'
    BY <2>1, <2>2 DEF Changed
  <2> QED
    BY <1>2, <2>1, <2>2, <2>3 DEF RoundsMetChanges, Changed, Inconclusive
<1>4. CASE ~(round[c] < MaxRounds)
  <2>1. answer'[c] = "race" /\ foreign'[c] = foreign[c]
    BY <1>4 DEF NextRound, Return, TypeOK
  <2>2. Lossless(c) => foreign[c] = ForeignCap
    BY <1>1, <1>4 DEF Changed
  <2> QED
    BY <1>2, <2>1, <2>2 DEF RoundsMetChanges, Inconclusive
<1> QED
  BY <1>3, <1>4

\* A round that goes on to its next statement, of whose result something is known.
LEMMA RoundGoesOn ==
  ASSUME TypeOK, NEW c \in Calls, RoundsMetChanges(c), answer[c] = "pending",
         NEW s, Goto(c, s), UNCHANGED <<foreign, req, compared>>,
         Lossless(c) => Changed(c, round[c]) \/ Undisturbed(c)'
  PROVE  RoundsMetChanges(c)'
<1>1. round'[c] = round[c] /\ answer'[c] = "pending"
  BY DEF Goto
<1>2. Lossless(c)' <=> Lossless(c)
  BY DEF Lossless
<1> QED
  BY <1>1, <1>2 DEF RoundsMetChanges, Changed, Inconclusive

\* A call that returns anything but that it gives up.
LEMMA Returned ==
  ASSUME TypeOK, NEW c \in Calls, NEW a \in Answers \ ({"idle", "pending"} \cup Inconclusive),
         Return(c, a)
  PROVE  RoundsMetChanges(c)'
<1>1. answer'[c] = a
  BY DEF Return, TypeOK
<1> QED
  BY <1>1 DEF RoundsMetChanges

\* The decision on a state that was read: unless the row changed in this round, the state is
\* the one the UPDATE left alone.
LEMMA ClassifyMetChanges ==
  ASSUME TypeOK, NEW c \in Calls, RoundsMetChanges(c), answer[c] = "pending",
         Row(c) # None, Classify(c), UNCHANGED <<foreign, req, table>>,
         ForeignCap <= MaxRounds,
         Lossless(c) => Changed(c, round[c]) \/ ~Affects(c)
  PROVE  RoundsMetChanges(c)'
<1> DEFINE holds == Fenced(req[c]) =>
                      ConditionHolds(Row(c).fence, req[c].fence, AllowEqual(req[c]))
<1>1. holds /\ Lossless(c) => Changed(c, round[c]) \/ IsTarget(Row(c), req[c])
  BY UnaffectedIsTarget
<1>2. CASE Return(c, "rejected")
  BY <1>2, Returned DEF Answers, Inconclusive
<1>3. CASE /\ holds /\ Fenced(req[c]) /\ Row(c).fence # req[c].fence
           /\ compared' = [compared EXCEPT ![c] = None]
           /\ NextRound(c)
  <2>1. ~IsTarget(Row(c), req[c])
    BY <1>3 DEF IsTarget
  <2> QED
    BY <1>1, <1>3, <2>1, RoundEnds
<1>4. CASE holds /\ Goto(c, "match") /\ UNCHANGED compared
  <2>1. IsTarget(Row(c), req[c]) => Undisturbed(c)'
    <3>1. pc'[c] = "match"
      BY <1>4 DEF Goto, TypeOK
    <3>2. Row(c)' = Row(c) /\ req'[c] = req[c]
      BY DEF Row
    <3> QED
      BY <3>1, <3>2 DEF Undisturbed, IsTarget, Fenced
  <2> QED
    BY <1>1, <1>4, <2>1, RoundGoesOn
<1> QED
  BY <1>2, <1>3, <1>4 DEF Classify

\* Every statement of the call itself.
LEMMA OwnStepMetChanges ==
  ASSUME IInv, NEW c \in Calls, RoundsMetChanges(c),
         ForeignCap <= MaxRounds, ForeignCap <= 2,
         Reply(c) \/ StatementFails(c) \/ ReplyLost(c)
  PROVE  RoundsMetChanges(c)'
<1>0. TypeOK /\ CallInv
  BY DEF IInv
<1>1. answer[c] = "pending"
  BY <1>0 DEF CallInv, Reply, UpdateApplies, UpdateZeroRows, UpdateDuplicate, ReadState,
              InsertApplies, InsertDuplicate, Reread, Match, StatementFails, ReplyLost,
              Statements
<1>2. Lossless(c) => Changed(c, round[c]) \/ Undisturbed(c)
  BY <1>1 DEF RoundsMetChanges
<1>3. CASE \/ UpdateApplies(c) \/ UpdateDuplicate(c) \/ InsertApplies(c)
           \/ StatementFails(c) \/ ReplyLost(c)
  <2>1. Return(c, "updated") \/ Return(c, "inserted") \/ Return(c, "error")
    BY <1>3 DEF UpdateApplies, UpdateDuplicate, InsertApplies, StatementFails, ReplyLost
  <2> QED
    BY <1>0, <2>1, Returned DEF Answers, Saved, Inconclusive
<1>4. CASE UpdateZeroRows(c)
  <2>1. Goto(c, "read") /\ UNCHANGED <<foreign, req, compared, table>> /\ ~Affects(c)
    BY <1>4 DEF UpdateZeroRows, NoEffect
  <2>2. Undisturbed(c)'
    <3>1. pc'[c] = "read"
      BY <1>0, <2>1 DEF Goto, TypeOK
    <3>2. ~Affects(c)'
      BY <2>1 DEF Affects, Row, Matches, Written, FencePredicate, Fenced, AllowEqual
    <3> QED
      BY <3>1, <3>2 DEF Undisturbed
  <2> QED
    BY <1>0, <1>1, <2>1, <2>2, RoundGoesOn
<1>5. CASE ReadState(c)
  <2>1. pc[c] = "read" /\ UNCHANGED <<foreign, req, table>>
    BY <1>5 DEF ReadState, NoEffect
  <2>2. CASE Return(c, "disappeared")
    BY <1>0, <2>2, Returned DEF Answers, Inconclusive
  <2>3. CASE Row(c) = None /\ Goto(c, "insert") /\ UNCHANGED compared
    <3>1. pc'[c] = "insert" /\ Row(c)' = None
      BY <1>0, <2>1, <2>3 DEF Goto, TypeOK, Row
    <3> QED
      BY <1>0, <1>1, <2>1, <2>3, <3>1, RoundGoesOn DEF Undisturbed
  <2>4. CASE Row(c) # None /\ Classify(c)
    BY <1>0, <1>1, <1>2, <2>1, <2>4, ClassifyMetChanges DEF Undisturbed
  <2> QED
    BY <1>5, <2>2, <2>3, <2>4 DEF ReadState
<1>6. CASE InsertDuplicate(c)
  <2>1. /\ pc[c] = "insert" /\ Goto(c, "reread")
        /\ UNCHANGED <<foreign, req, compared, table>>
    BY <1>6 DEF InsertDuplicate, NoEffect
  <2>2. pc'[c] = "reread" /\ Row(c)' = Row(c)
    BY <1>0, <2>1 DEF Goto, TypeOK, Row
  <2> QED
    BY <1>0, <1>1, <1>2, <2>1, <2>2, RoundGoesOn DEF Undisturbed
<1>7. CASE Reread(c)
  <2>1. pc[c] = "reread" /\ UNCHANGED <<foreign, req, table>>
    BY <1>7 DEF Reread, NoEffect
  <2>2. CASE Return(c, "conflict")
    BY <1>0, <2>2, Returned DEF Answers, Inconclusive
  <2>3. CASE Row(c) # None /\ Classify(c)
    BY <1>0, <1>1, <1>2, <2>1, <2>3, ClassifyMetChanges DEF Undisturbed
  <2> QED
    BY <1>7, <2>2, <2>3 DEF Reread
<1>8. CASE Match(c)
  <2>1. pc[c] = "match" /\ UNCHANGED <<foreign, req, table, seen>>
    BY <1>8 DEF Match, NoEffect
  <2>2. CASE Return(c, "unchanged")
    BY <1>0, <2>2, Returned DEF Answers, Saved, Inconclusive
  <2>3. ~IsTarget(Row(c), req[c]) /\ Lossless(c) => Changed(c, round[c])
    BY <1>2, <2>1 DEF Undisturbed
  <2>4. CASE ~IsTarget(Row(c), req[c]) /\ compared[c] = seen[c] /\ Return(c, "mismatch")
    <3>1. compared[c] # None
      BY <1>0, <2>4, TableAssumption DEF TypeOK
    <3>2. round[c] >= 2
      BY <1>1, <3>1 DEF RoundsMetChanges
    <3>3. Lossless(c) => foreign[c] = ForeignCap
      BY <1>0, <2>3, <2>4, <3>2, Counters DEF Changed
    <3>4. answer'[c] = "mismatch" /\ foreign'[c] = foreign[c] /\ (Lossless(c)' <=> Lossless(c))
      BY <1>0, <2>1, <2>4 DEF Return, TypeOK, Lossless
    <3> QED
      BY <3>3, <3>4 DEF RoundsMetChanges
  <2>5. CASE ~IsTarget(Row(c), req[c]) /\ NextRound(c)
    BY <1>0, <1>1, <2>1, <2>3, <2>5, RoundEnds
  <2> QED
    BY <1>8, <2>2, <2>4, <2>5 DEF Match
<1> QED
  BY <1>3, <1>4, <1>5, <1>6, <1>7, <1>8 DEF Reply

\* What a step that is not the call's own may do to it: count, and it does count a change of
\* the row of a call under way.
Spares(c) ==
  /\ pc'[c] = pc[c] /\ round'[c] = round[c] /\ answer'[c] = answer[c]
  /\ compared'[c] = compared[c] /\ req'[c] = req[c]
  /\ foreign'[c] >= foreign[c]
  /\ answer[c] = "pending" =>
       Row(c)' = Row(c) \/ foreign'[c] = foreign[c] + 1 \/ foreign'[c] = ForeignCap

\* Such a step keeps what is known of the call.
LEMMA SparedMetChanges ==
  ASSUME TypeOK, TypeOK', NEW c \in Calls, RoundsMetChanges(c), Spares(c)
  PROVE  RoundsMetChanges(c)'
<1>1. /\ round[c] \in 1..MaxRounds /\ foreign[c] \in 0..ForeignCap
      /\ MaxRounds \in Nat \ {0} /\ ForeignCap \in Nat
  BY Counters
<1>2. foreign'[c] \in 0..ForeignCap
  BY DEF TypeOK
<1>3. Lossless(c)' <=> Lossless(c)
  BY DEF Lossless, Spares
<1>4. foreign[c] = ForeignCap => foreign'[c] = ForeignCap
  BY <1>1, <1>2 DEF Spares
<1>5. CASE answer[c] # "pending"
  BY <1>3, <1>4, <1>5 DEF RoundsMetChanges, Spares
<1>6. CASE answer[c] = "pending" /\ ~Lossless(c)
  BY <1>3, <1>6 DEF RoundsMetChanges, Spares, Inconclusive
<1>7. CASE answer[c] = "pending" /\ Lossless(c)
  <2>1. Changed(c, round[c] - 1) => Changed(c, round[c] - 1)'
    BY <1>1, <1>2, <1>4 DEF Changed, Spares
  <2>2. Changed(c, round[c]) => Changed(c, round[c])'
    BY <1>1, <1>2, <1>4 DEF Changed, Spares
  <2>3. CASE Row(c)' = Row(c)
    <3>1. Undisturbed(c) => Undisturbed(c)'
      BY <2>3 DEF Undisturbed, Affects, Matches, Written, FencePredicate, Fenced, AllowEqual,
                  IsTarget, Spares
    <3> QED
      BY <1>3, <1>7, <2>1, <2>2, <3>1 DEF RoundsMetChanges, Spares, Inconclusive
  <2>4. CASE Row(c)' # Row(c)
    <3>1. Changed(c, round[c] - 1) => Changed(c, round[c])'
      BY <1>1, <1>2, <1>4, <1>7, <2>4 DEF Changed, Spares
    <3> QED
      BY <1>3, <1>7, <2>1, <3>1 DEF RoundsMetChanges, Spares, Inconclusive
  <2> QED
    BY <2>3, <2>4
<1> QED
  BY <1>5, <1>6, <1>7

\* A change of row k by another writer counts against the calls under way there.
LEMMA DisturbCounts ==
  ASSUME TypeOK, NEW writer, NEW k, Disturb(writer, k), NEW c \in Calls, c # writer,
         \A other \in Keys \ {k} : table'[other] = table[other], UNCHANGED req
  PROVE  /\ foreign'[c] >= foreign[c]
         /\ answer[c] = "pending" =>
              Row(c)' = Row(c) \/ foreign'[c] = foreign[c] + 1 \/ foreign'[c] = ForeignCap
<1>1. foreign[c] \in 0..ForeignCap /\ ForeignCap \in Nat
  BY Counters
<1>2. foreign'[c] = IF /\ c # writer /\ answer[c] = "pending" /\ req[c].key = k
                       /\ foreign[c] < ForeignCap
                      THEN foreign[c] + 1 ELSE foreign[c]
  BY DEF Disturb
<1>3. foreign'[c] >= foreign[c]
  BY <1>1, <1>2
<1>4. CASE req[c].key # k
  BY <1>3, <1>4, CallTypes DEF Row
<1>5. CASE req[c].key = k
  BY <1>1, <1>2, <1>3, <1>5
<1> QED
  BY <1>4, <1>5

\* Every step but the statements of the call itself spares it.
LEMMA OthersSpare ==
  ASSUME IInv, [Next]_vars, NEW c \in Calls,
         ~(Reply(c) \/ StatementFails(c) \/ ReplyLost(c)), \A r \in Requests : ~Start(c, r)
  PROVE  Spares(c)
<1>0. TypeOK /\ CallInv
  BY DEF IInv
<1>1. foreign[c] \in Nat
  BY <1>0, Counters
<1>2. ASSUME UNCHANGED <<table, foreign>>,
             pc'[c] = pc[c] /\ round'[c] = round[c] /\ answer'[c] = answer[c],
             compared'[c] = compared[c] /\ req'[c] = req[c]
      PROVE  Spares(c)
  BY <1>1, <1>2 DEF Spares, Row
<1>3. ASSUME NEW d \in Calls, d # c, NEW r \in Requests, Start(d, r)
      PROVE  Spares(c)
  BY <1>0, <1>2, <1>3 DEF Start, TypeOK
<1>4. ASSUME NEW d \in Calls, d # c,
             \/ UpdateZeroRows(d) \/ UpdateDuplicate(d) \/ ReadState(d)
             \/ InsertDuplicate(d) \/ Reread(d) \/ Match(d)
             \/ StatementFails(d) \/ ReplyLost(d)
      PROVE  Spares(c)
  <2>1. UNCHANGED <<table, foreign, req>>
    BY <1>4 DEF UpdateZeroRows, UpdateDuplicate, ReadState, InsertDuplicate, Reread, Match,
                StatementFails, ReplyLost, NoEffect
  <2>2. compared'[c] = compared[c]
    BY <1>0, <1>4 DEF UpdateZeroRows, UpdateDuplicate, ReadState, InsertDuplicate, Reread,
                Match, StatementFails, ReplyLost, Classify, TypeOK
  <2>3. pc'[c] = pc[c] /\ round'[c] = round[c] /\ answer'[c] = answer[c]
    BY <1>0, <1>4 DEF UpdateZeroRows, UpdateDuplicate, ReadState, InsertDuplicate, Reread,
                Match, StatementFails, ReplyLost, Classify, Goto, Return, NextRound, TypeOK
  <2> QED
    BY <1>2, <2>1, <2>2, <2>3
<1>5. ASSUME NEW d \in Calls, NEW row, Put(d, row), d # c, UNCHANGED <<req, compared>>,
             pc'[c] = pc[c] /\ round'[c] = round[c] /\ answer'[c] = answer[c]
      PROVE  Spares(c)
  <2>1. \A other \in Keys \ {req[d].key} : table'[other] = table[other]
    BY <1>0, <1>5 DEF Put, TypeOK, Tables
  <2>2. Disturb(d, req[d].key)
    BY <1>5 DEF Put
  <2> QED
    BY <1>0, <1>5, <2>1, <2>2, DisturbCounts DEF Spares
<1>6. ASSUME NEW d \in Calls, d # c, UpdateApplies(d) \/ InsertApplies(d)
      PROVE  Spares(c)
  <2>1. /\ UNCHANGED <<req, compared>>
        /\ pc'[c] = pc[c] /\ round'[c] = round[c] /\ answer'[c] = answer[c]
    BY <1>0, <1>6 DEF UpdateApplies, InsertApplies, Return, TypeOK
  <2> QED
    BY <1>5, <1>6, <2>1 DEF UpdateApplies, InsertApplies
<1>7. ASSUME NEW d \in Calls, LateStatement(d)
      PROVE  Spares(c)
  <2>1. UNCHANGED <<pc, round, answer, compared, req>>
    BY <1>7 DEF LateStatement, flow
  <2>2. CASE NoEffect
    BY <1>2, <2>1, <2>2 DEF NoEffect
  <2>3. ASSUME NEW row, Put(d, row), d # c
        PROVE  Spares(c)
    BY <1>5, <2>1, <2>3
  <2>4. ASSUME NEW row, Put(c, row), d = c
        PROVE  Spares(c)
    <3>1. answer[c] # "pending"
      BY <1>0, <1>7, <2>4 DEF LateStatement, CallInv
    <3>2. foreign'[c] = foreign[c]
      BY <2>4 DEF Put, Disturb
    <3> QED
      BY <1>1, <2>1, <3>1, <3>2 DEF Spares
  <2> QED
    BY <1>7, <2>2, <2>3, <2>4 DEF LateStatement
<1>8. ASSUME NEW k \in Keys, HotWrite(k) \/ Delete(k)
      PROVE  Spares(c)
  <2>1. Disturb(None, k) /\ UNCHANGED flow
    BY <1>8 DEF HotWrite, Delete
  <2>2. \A other \in Keys \ {k} : table'[other] = table[other]
    BY <1>0, <1>8 DEF HotWrite, Delete, TypeOK, Tables
  <2>3. c # None
    BY CallAssumption
  <2> QED
    BY <1>0, <2>1, <2>2, <2>3, DisturbCounts DEF Spares, flow
<1>9. CASE UNCHANGED vars
  BY <1>2, <1>9 DEF vars, flow
<1> QED
  BY <1>3, <1>4, <1>6, <1>7, <1>8, <1>9 DEF Next, Reply

\* Every step keeps what is known of every call.
LEMMA NextMetChanges ==
  ASSUME IInv, \A c \in Calls : RoundsMetChanges(c), [Next]_vars,
         ForeignCap <= MaxRounds, ForeignCap <= 2
  PROVE  \A c \in Calls : RoundsMetChanges(c)'
<1>0. TypeOK /\ TypeOK'
  BY NextTypeOK DEF IInv
<1> SUFFICES ASSUME NEW c \in Calls PROVE RoundsMetChanges(c)'
  OBVIOUS
<1>1. CASE Reply(c) \/ StatementFails(c) \/ ReplyLost(c)
  BY <1>1, OwnStepMetChanges
<1>2. ASSUME NEW r \in Requests, Start(c, r)
      PROVE  RoundsMetChanges(c)'
  <2>1. /\ answer[c] = "idle" /\ round'[c] = round[c] /\ compared'[c] = compared[c]
        /\ answer'[c] = "invalid" \/ (answer'[c] = "pending" /\ pc'[c] = "update")
    BY <1>0, <1>2 DEF Start, TypeOK
  <2>2. round'[c] = 1 /\ compared'[c] = None
    BY <2>1 DEF RoundsMetChanges
  <2>3. foreign'[c] >= round'[c] - 1
    BY <1>0, <2>2 DEF TypeOK
  <2> QED
    BY <2>1, <2>2, <2>3 DEF RoundsMetChanges, Changed, Undisturbed, Inconclusive
<1>3. CASE /\ ~(Reply(c) \/ StatementFails(c) \/ ReplyLost(c))
           /\ \A r \in Requests : ~Start(c, r)
  BY <1>0, <1>3, OthersSpare, SparedMetChanges
<1> QED
  BY <1>1, <1>2, <1>3

\* With MaxRounds rounds, no call answers that it lost a race, or that its write left another
\* row than it asked for, unless others changed the row twice while it ran (once if there is
\* one round only).
THEOREM GivingUpTakesContention ==
  ASSUME ForeignCap <= MaxRounds, ForeignCap <= 2
  PROVE  Spec => []GivesUpOnlyUnderContention
<1> DEFINE Met == \A c \in Calls : RoundsMetChanges(c)
<1>1. Init => Met
  BY DEF Init, RoundsMetChanges, Inconclusive
<1>2. IInv /\ Met /\ [Next]_vars => Met'
  BY NextMetChanges
<1>3. Met => GivesUpOnlyUnderContention
  BY DEF RoundsMetChanges, GivesUpOnlyUnderContention, Lossless
<1> HIDE DEF Met
<1> QED
  BY <1>1, <1>2, <1>3, Inductive, PTL DEF Spec

-----------------------------------------------------------------------------
(***************************************************************************)
(* The statements of SaveConditional implement the atomic fenced write of  *)
(* FencedStore: a statement that takes effect is the one write, the last   *)
(* statement of a call is its answer, and every other statement stutters.  *)
(***************************************************************************)
\* The table of the abstract store is the table of the statements, and so is what its
\* operators say of a row.
LEMMA SameTable ==
  ASSUME NEW row, NEW r
  PROVE  /\ Abstract!Matches(row, r) <=> Matches(row, r)
         /\ Abstract!Written(row, r) = Written(row, r)
         /\ Abstract!Inserted(r) = Inserted(r)
         /\ Abstract!IsTarget(row, r) <=> IsTarget(row, r)
         /\ Abstract!Fenced(r) <=> Fenced(r)
         /\ Abstract!InvalidOptions(r) <=> InvalidOptions(r)
         /\ Abstract!AllowEqual(r) = AllowEqual(r)
         /\ Abstract!ConditionHolds(row.fence, r.fence, AllowEqual(r))
              <=> ConditionHolds(row.fence, r.fence, AllowEqual(r))
BY DEF Abstract!Matches, Matches, Abstract!Written, Written, Abstract!Inserted, Inserted,
       Abstract!IsTarget, IsTarget, Abstract!Fenced, Fenced, Abstract!InvalidOptions,
       InvalidOptions, Abstract!ZeroFence, ZeroFence, Abstract!Columns, Columns,
       Abstract!AllowEqual, AllowEqual, Abstract!ConditionHolds, ConditionHolds,
       Abstract!Older, Older, Abstract!FencePredicate, FencePredicate

\* The abstract store asks the same of the alternate key.
LEMMA SameAlias ==
  ASSUME NEW t, NEW k, NEW b
  PROVE  Abstract!AliasTaken(t, k, b) <=> AliasTaken(t, k, b)
BY DEF Abstract!AliasTaken, AliasTaken

\* The initial states map to initial states.
LEMMA InitRefines == Init => Abstract!Init
<1> SUFFICES ASSUME Init PROVE Abstract!Init
  OBVIOUS
<1>1. (CHOOSE r \in Requests : TRUE) \in Requests
  BY CallAssumption
<1> QED
  BY <1>1 DEF Init, Abstract!Init

\* A step that leaves table, requests and effects alone, and returns from one pending
\* call with a refusal or an error, is an answer of the abstract store.
LEMMA RefusalRefines ==
  ASSUME NEW c \in Calls, answer[c] = "pending",
         NEW a \in Inconclusive \cup {"conflict", "disappeared", "error"},
         Return(c, a), UNCHANGED <<table, req, effects>>
  PROVE  Abstract!Next
<1>1. a \in Abstract!Refused \cup {"error"}
  BY DEF Inconclusive, Abstract!Refused
<1>2. Abstract!Answer(c)
  BY <1>1 DEF Abstract!Answer, Return
<1> QED
  BY <1>2 DEF Abstract!Next

\* The end of a round is invisible, or the answer "race".
LEMMA NextRoundRefines ==
  ASSUME NEW c \in Calls, answer[c] = "pending", NextRound(c),
         UNCHANGED <<table, req, effects>>
  PROVE  [Abstract!Next]_(Abstract!vars)
<1>1. CASE round[c] < MaxRounds
  BY <1>1 DEF NextRound, Abstract!vars
<1>2. CASE ~(round[c] < MaxRounds)
  BY <1>2, RefusalRefines DEF NextRound, Inconclusive
<1> QED
  BY <1>1, <1>2

\* The decision on a state that was read: a rejection, or nothing yet.
LEMMA ClassifyRefines ==
  ASSUME NEW c \in Calls, answer[c] = "pending", Row(c) # None, Classify(c),
         UNCHANGED <<table, req, effects>>
  PROVE  [Abstract!Next]_(Abstract!vars)
<1>1. CASE /\ Fenced(req[c])
           /\ ~ConditionHolds(Row(c).fence, req[c].fence, AllowEqual(req[c]))
           /\ Return(c, "rejected")
  <2>1. Abstract!Answer(c)
    BY <1>1, SameTable DEF Abstract!Answer, Return, Row
  <2> QED
    BY <2>1 DEF Abstract!Next
<1>2. CASE NextRound(c)
  BY <1>2, NextRoundRefines
<1>3. CASE Goto(c, "match")
  BY <1>3 DEF Goto, Abstract!vars
<1> QED
  BY <1>1, <1>2, <1>3 DEF Classify

\* A statement that takes effect is the one write of its call.
LEMMA EffectRefines ==
  ASSUME TypeOK, NEW c \in Calls, answer[c] \in {"pending", "error"}, effects[c] = 0,
         ~Taken(c), UNCHANGED req,
         \/ /\ Matches(Row(c), req[c])
            /\ Put(c, Written(Row(c), req[c]))
            /\ \/ answer[c] = "pending" /\ answer' = [answer EXCEPT ![c] = "updated"]
               \/ answer[c] = "error" /\ UNCHANGED answer
         \/ /\ Row(c) = None
            /\ Put(c, Inserted(req[c]))
            /\ \/ answer[c] = "pending" /\ answer' = [answer EXCEPT ![c] = "inserted"]
               \/ answer[c] = "error" /\ UNCHANGED answer
  PROVE  Abstract!Next
<1> DEFINE applied == [d \in Calls |-> effects[d] # 0]
<1>1. applied' = [applied EXCEPT ![c] = TRUE]
  <2>1. effects' = [effects EXCEPT ![c] = 1]
    BY DEF Put, TypeOK
  <2>2. \A d \in Calls : (effects'[d] # 0) = (IF d = c THEN TRUE ELSE effects[d] # 0)
    <3>1. \A d \in Calls : effects'[d] # 0 <=> d = c \/ effects[d] # 0
      BY <2>1 DEF TypeOK
    <3> QED
      BY <3>1, Zenon
  <2>3. applied' = [d \in Calls |-> effects'[d] # 0]
    OBVIOUS
  <2>4. @ = [d \in Calls |-> IF d = c THEN TRUE ELSE effects[d] # 0]
    BY <2>2, Zenon
  <2>5. @ = [applied EXCEPT ![c] = TRUE]
    BY Zenon
  <2> QED
    BY <2>3, <2>4, <2>5, Zenon
<1>2. ~applied[c]
  OBVIOUS
<1>3. ~Abstract!AliasTaken(table, req[c].key, req[c].body)
  BY SameAlias DEF Taken
<1>4. \/ /\ Abstract!Matches(table[req[c].key], req[c])
         /\ table' = [table EXCEPT ![req[c].key] = Abstract!Written(@, req[c])]
         /\ \/ answer[c] = "pending" /\ answer' = [answer EXCEPT ![c] = "updated"]
            \/ answer[c] = "error" /\ UNCHANGED answer
      \/ /\ table[req[c].key] = None
         /\ table' = [table EXCEPT ![req[c].key] = Abstract!Inserted(req[c])]
         /\ \/ answer[c] = "pending" /\ answer' = [answer EXCEPT ![c] = "inserted"]
            \/ answer[c] = "error" /\ UNCHANGED answer
  BY SameTable DEF Put, Row
<1>5. Abstract!Write(c)
  BY <1>1, <1>2, <1>3, <1>4 DEF Abstract!Write
<1> QED
  BY <1>5 DEF Abstract!Next

\* Every step of the statements is a step of the store or changes nothing of it.
LEMMA NextRefines ==
  ASSUME TypeOK, CallInv, [Next]_vars
  PROVE  [Abstract!Next]_(Abstract!vars)
<1>0. \A c \in Calls : pc[c] # "done" => answer[c] = "pending" /\ effects[c] = 0
  BY DEF CallInv
<1>1. ASSUME NEW c \in Calls, NEW r \in Requests, Start(c, r)
      PROVE  [Abstract!Next]_(Abstract!vars)
  <2>1. Abstract!Invoke(c, r)
    BY <1>1, SameTable DEF Start, Abstract!Invoke
  <2> QED
    BY <2>1 DEF Abstract!Next
<1>2. ASSUME NEW c \in Calls, UpdateApplies(c)
      PROVE  Abstract!Next
  BY <1>0, <1>2, EffectRefines DEF UpdateApplies, Affects, Return
<1>3. ASSUME NEW c \in Calls, InsertApplies(c)
      PROVE  Abstract!Next
  BY <1>0, <1>3, EffectRefines DEF InsertApplies, Return
<1>4. ASSUME NEW c \in Calls, UpdateZeroRows(c) \/ InsertDuplicate(c)
      PROVE  UNCHANGED Abstract!vars
  BY <1>4 DEF UpdateZeroRows, InsertDuplicate, Goto, NoEffect, Abstract!vars
<1>5. ASSUME NEW c \in Calls, UpdateDuplicate(c) \/ StatementFails(c) \/ ReplyLost(c)
      PROVE  Abstract!Next
  BY <1>0, <1>5, RefusalRefines DEF UpdateDuplicate, StatementFails, ReplyLost, NoEffect,
                                    Statements
<1>6. ASSUME NEW c \in Calls, ReadState(c) \/ Reread(c)
      PROVE  [Abstract!Next]_(Abstract!vars)
  <2>1. answer[c] = "pending" /\ UNCHANGED <<table, req, effects>>
    BY <1>0, <1>6 DEF ReadState, Reread, NoEffect
  <2>2. CASE Return(c, "disappeared") \/ Return(c, "conflict")
    BY <2>1, <2>2, RefusalRefines
  <2>3. CASE Goto(c, "insert")
    BY <2>1, <2>3 DEF Goto, Abstract!vars
  <2>4. CASE Row(c) # None /\ Classify(c)
    BY <2>1, <2>4, ClassifyRefines
  <2> QED
    BY <1>6, <2>2, <2>3, <2>4 DEF ReadState, Reread
<1>7. ASSUME NEW c \in Calls, Match(c)
      PROVE  [Abstract!Next]_(Abstract!vars)
  <2>1. answer[c] = "pending" /\ UNCHANGED <<table, req, effects>>
    BY <1>0, <1>7 DEF Match, NoEffect
  <2>2. CASE IsTarget(Row(c), req[c]) /\ Return(c, "unchanged")
    <3>1. Abstract!Answer(c)
      BY <2>1, <2>2, SameTable DEF Abstract!Answer, Return, Row
    <3> QED
      BY <3>1 DEF Abstract!Next
  <2>3. CASE Return(c, "mismatch")
    BY <2>1, <2>3, RefusalRefines DEF Inconclusive
  <2>4. CASE NextRound(c)
    BY <2>1, <2>4, NextRoundRefines
  <2> QED
    BY <1>7, <2>2, <2>3, <2>4 DEF Match
<1>8. ASSUME NEW c \in Calls, LateStatement(c)
      PROVE  [Abstract!Next]_(Abstract!vars)
  <2>1. answer[c] = "error" /\ effects[c] = 0 /\ UNCHANGED <<req, answer>>
    BY <1>8 DEF LateStatement, CallInv, flow
  <2>2. CASE NoEffect
    BY <2>1, <2>2 DEF NoEffect, Abstract!vars
  <2>3. CASE ~Taken(c) /\ ~NoEffect
    BY <1>8, <2>1, <2>3, EffectRefines DEF LateStatement, Affects
  <2> QED
    BY <1>8, <2>2, <2>3 DEF LateStatement
<1>9. ASSUME NEW k \in Keys, HotWrite(k)
      PROVE  Abstract!Next
  <2>1. Abstract!HotWrite(k)
    BY <1>9, SameAlias DEF HotWrite, flow, Abstract!HotWrite, ZeroFence, Abstract!ZeroFence,
                           Columns, Abstract!Columns
  <2> QED
    BY <2>1 DEF Abstract!Next
<1>10. ASSUME NEW k \in Keys, Delete(k)
       PROVE  Abstract!Next
  <2>1. Abstract!Delete(k)
    BY <1>10 DEF Delete, flow, Abstract!Delete
  <2> QED
    BY <2>1 DEF Abstract!Next
<1>11. CASE UNCHANGED vars
  BY <1>11 DEF vars, flow, Abstract!vars
<1> QED
  BY <1>1, <1>2, <1>3, <1>4, <1>5, <1>6, <1>7, <1>8, <1>9, <1>10, <1>11 DEF Next, Reply

\* For any number of calls and any interleaving of their statements with late statements,
\* legacy writers and deletions, SaveConditional is an atomic fenced write.
THEOREM StatementsImplementStore == Spec => ImplementsFencedStore
<1>1. IInv => TypeOK /\ CallInv
  BY DEF IInv
<1> QED
  BY <1>1, InitRefines, NextRefines, Inductive, PTL
     DEF Spec, ImplementsFencedStore, Abstract!Spec
=============================================================================
