--------------------------- MODULE RowSets_proofs ---------------------------
(***************************************************************************)
(* RowSets, proved for any number of batches and walks, and any sizes of   *)
(* tables, batches, chunks and pages.  BatchInsert and BatchDelete, however *)
(* they end, have done whole chunks of the rows they name, and the cache   *)
(* follows them.  A walk by cursor misses a row that stays only when       *)
(* another row has the same cursor value.                                  *)
(***************************************************************************)
EXTENDS RowSets, FiniteSetTheorems, SequenceTheorems, WellFoundedInduction, TLAPS

(***************************************************************************)
(* Arithmetic of chunks                                                    *)
(***************************************************************************)
\* What a quotient says of its dividend.
LEMMA Quotient ==
  ASSUME NEW a \in Nat, NEW b \in Nat \ {0}
  PROVE  a \div b \in Nat /\ (a \div b) * b <= a /\ a < (a \div b) * b + b
<1>1. a = b * (a \div b) + (a % b) /\ a % b \in 0..(b - 1)
  BY SMTT(60)
<1>2. a \div b \in Int
  BY SMT
<1> QED
  BY <1>1, <1>2, SMTT(60)

\* Chunks are counted by multiples of the chunk size.
LEMMA ProductsAreOrdered ==
  ASSUME NEW a \in Int, NEW b \in Int, NEW c \in Nat, a <= b
  PROVE  a * c \in Int /\ b * c \in Int /\ a * c <= b * c
BY SMTT(60)

\* The chunks are as many as it takes: the last one is not empty, and ends the batch.
LEMMA ChunksEndTheBatch ==
  ASSUME NEW batch \in Seq(Messages)
  PROVE  /\ NumChunks(batch) \in Nat
         /\ NumChunks(batch) * ChunkSize \in Int
         /\ NumChunks(batch) * ChunkSize < Len(batch) + ChunkSize
         /\ Len(batch) <= NumChunks(batch) * ChunkSize
<1>1. Len(batch) \in Nat /\ ChunkSize \in Nat \ {0}
  BY RowSetsAssumption
<1>2. Len(batch) + ChunkSize - 1 \in Nat
  BY <1>1
<1> DEFINE n == NumChunks(batch)
<1>3. /\ n \in Nat /\ n * ChunkSize <= Len(batch) + ChunkSize - 1
      /\ Len(batch) + ChunkSize - 1 < n * ChunkSize + ChunkSize
  BY <1>1, <1>2, Quotient DEF NumChunks
<1>4. n * ChunkSize \in Int
  BY <1>1, <1>3, ProductsAreOrdered
<1> HIDE DEF n
<1>5. n * ChunkSize < Len(batch) + ChunkSize /\ Len(batch) <= n * ChunkSize
  BY <1>1, <1>3, <1>4
<1> QED
  BY <1>3, <1>4, <1>5 DEF n

\* Where a chunk begins and how long it is.
LEMMA ChunkIsAPiece ==
  ASSUME NEW batch \in Seq(Messages), NEW m \in 1..NumChunks(batch)
  PROVE  LET before == (m - 1) * ChunkSize
             piece == ChunkOf(batch, m)
         IN /\ before \in Nat /\ before < Len(batch)
            /\ piece \in Seq(Messages) /\ Len(piece) >= 1
            /\ \A k \in 1..Len(piece) : before + k \in 1..Len(batch) /\ piece[k] = batch[before + k]
            /\ \A i \in 1..Len(batch) :
                 before < i /\ i <= m * ChunkSize => i - before \in 1..Len(piece)
<1> DEFINE before == (m - 1) * ChunkSize
           piece == ChunkOf(batch, m)
           n == NumChunks(batch)
           end == IF m * ChunkSize < Len(batch) THEN m * ChunkSize ELSE Len(batch)
<1>1. Len(batch) \in Nat /\ ChunkSize \in Nat \ {0} /\ n \in Nat
  BY RowSetsAssumption, ChunksEndTheBatch
<1>2. n * ChunkSize < Len(batch) + ChunkSize /\ n * ChunkSize \in Int
  BY ChunksEndTheBatch
<1>3. m * ChunkSize \in Int /\ m * ChunkSize <= n * ChunkSize
  BY <1>1, ProductsAreOrdered
<1>4. before = m * ChunkSize - ChunkSize
  BY <1>1, SMTT(60)
<1>5. before \in Nat
  <2>1. 0 * ChunkSize <= before /\ before \in Int
    BY <1>1, ProductsAreOrdered
  <2> QED
    BY <1>1, <2>1
<1>6. piece = SubSeq(batch, before + 1, end)
  BY DEF ChunkOf
<1> HIDE DEF before, piece, n
<1>7. before < Len(batch) /\ end \in Int /\ before + 1 <= end /\ end <= Len(batch)
  BY <1>1, <1>2, <1>3, <1>4, <1>5
<1>8. end <= m * ChunkSize /\ (end = m * ChunkSize \/ end = Len(batch))
  BY <1>1, <1>3
<1> HIDE DEF end
<1>9. \A i \in (before + 1)..end : batch[i] \in Messages
  BY <1>1, <1>5, <1>7
<1>10. /\ piece \in Seq(Messages)
       /\ Len(piece) = end - before
       /\ \A k \in 1..(end - before) : piece[k] = batch[before + k]
  <2>1. before + 1 \in Int /\ before + 1 <= end /\ end - (before + 1) + 1 = end - before
    BY <1>5, <1>7
  <2>2. /\ SubSeq(batch, before + 1, end) \in Seq(Messages)
        /\ Len(SubSeq(batch, before + 1, end)) = end - (before + 1) + 1
        /\ \A k \in 1..(end - (before + 1) + 1) :
             SubSeq(batch, before + 1, end)[k] = batch[(before + 1) + k - 1]
    BY <1>7, <1>9, <2>1, SubSeqProperties
  <2>3. \A k \in 1..(end - before) : (before + 1) + k - 1 = before + k
    BY <1>5, <1>7
  <2> QED
    BY <1>6, <2>1, <2>2, <2>3
<1>11. \A k \in 1..Len(piece) : before + k \in 1..Len(batch)
  BY <1>1, <1>5, <1>7, <1>10
<1>12. \A i \in 1..Len(batch) : before < i /\ i <= m * ChunkSize => i - before \in 1..Len(piece)
  BY <1>1, <1>3, <1>5, <1>7, <1>8, <1>10
<1> QED
  BY <1>5, <1>7, <1>10, <1>11, <1>12 DEF before, piece

\* Every message of a batch is in a chunk.
LEMMA EveryMessageIsInAChunk ==
  ASSUME NEW batch \in Seq(Messages), NEW i \in 1..Len(batch)
  PROVE  \E m \in 1..NumChunks(batch) : \E k \in 1..Len(ChunkOf(batch, m)) :
           ChunkOf(batch, m)[k] = batch[i]
<1> DEFINE m == (i - 1) \div ChunkSize + 1
           n == NumChunks(batch)
<1>1. Len(batch) \in Nat /\ ChunkSize \in Nat \ {0} /\ i - 1 \in Nat /\ n \in Nat
  BY RowSetsAssumption, ChunksEndTheBatch
<1>2. /\ m - 1 \in Nat /\ (m - 1) * ChunkSize <= i - 1
      /\ i - 1 < (m - 1) * ChunkSize + ChunkSize
  BY <1>1, Quotient
<1>3. Len(batch) <= n * ChunkSize /\ n * ChunkSize \in Int
  BY ChunksEndTheBatch
<1> HIDE DEF m, n
<1>4. m \in Nat /\ m >= 1
  <2>1. m \in Int
    BY <1>1 DEF m
  <2> QED
    BY <1>2, <2>1
<1>5. (m - 1) * ChunkSize \in Int /\ m * ChunkSize = (m - 1) * ChunkSize + ChunkSize
  BY <1>1, <1>4, SMTT(60)
<1>6. m <= n
  <2> SUFFICES ASSUME n <= m - 1 PROVE FALSE
    BY <1>1, <1>4
  <2>1. n * ChunkSize <= (m - 1) * ChunkSize
    BY <1>1, <1>4, ProductsAreOrdered
  <2> QED
    BY <1>1, <1>2, <1>3, <1>5, <2>1
<1>7. m \in 1..NumChunks(batch)
  BY <1>1, <1>4, <1>6 DEF n
<1> DEFINE k == i - (m - 1) * ChunkSize
<1>8. (m - 1) * ChunkSize < i /\ i <= m * ChunkSize
  BY <1>1, <1>2, <1>5
<1>9. k \in 1..Len(ChunkOf(batch, m))
  BY <1>7, <1>8, ChunkIsAPiece
<1>10. ChunkOf(batch, m)[k] = batch[(m - 1) * ChunkSize + k]
  BY <1>7, <1>9, ChunkIsAPiece
<1>11. (m - 1) * ChunkSize + k = i
  BY <1>1, <1>5
<1> QED
  BY <1>7, <1>9, <1>10, <1>11

-----------------------------------------------------------------------------
(***************************************************************************)
(* The rows chunks name                                                    *)
(***************************************************************************)
LEMMA ChunkNamesRowsOfTheBatch ==
  ASSUME NEW batch \in Seq(Messages), NEW m \in 1..NumChunks(batch)
  PROVE  /\ ToSet(ChunkOf(batch, m)) \subseteq ToSet(batch)
         /\ ChunkOf(batch, m)[1] \in ToSet(ChunkOf(batch, m))
         /\ NamedRows(ChunkOf(batch, m)) \subseteq NamedRows(batch)
<1>1. /\ ChunkOf(batch, m) \in Seq(Messages) /\ Len(ChunkOf(batch, m)) >= 1
      /\ \A k \in 1..Len(ChunkOf(batch, m)) :
           /\ (m - 1) * ChunkSize + k \in 1..Len(batch)
           /\ ChunkOf(batch, m)[k] = batch[(m - 1) * ChunkSize + k]
  BY ChunkIsAPiece
<1>2. \A k \in 1..Len(ChunkOf(batch, m)) : ChunkOf(batch, m)[k] \in ToSet(batch)
  BY <1>1 DEF ToSet
<1>3. ToSet(ChunkOf(batch, m)) \subseteq ToSet(batch)
  <2>1. DOMAIN ChunkOf(batch, m) = 1..Len(ChunkOf(batch, m))
    BY <1>1
  <2> HIDE DEF ChunkOf
  <2> QED
    BY <1>2, <2>1 DEF ToSet
<1>4. ChunkOf(batch, m)[1] \in ToSet(ChunkOf(batch, m))
  BY <1>1 DEF ToSet
<1> QED
  BY <1>3, <1>4 DEF NamedRows

\* One more chunk adds the rows it names.
LEMMA FirstChunksGrow ==
  ASSUME NEW batch, NEW n \in Nat \ {0}
  PROVE  FirstChunks(batch, n) = FirstChunks(batch, n - 1) \cup NamedRows(ChunkOf(batch, n))
<1>1. 1..n = (1..(n - 1)) \cup {n}
  OBVIOUS
<1> QED
  BY <1>1 DEF FirstChunks

\* No chunk names no row.
LEMMA NoChunks == \A batch : FirstChunks(batch, 0) = {}
<1>1. 1..0 = {}
  OBVIOUS
<1> QED
  BY <1>1 DEF FirstChunks

\* All chunks together name the rows of the batch.
LEMMA AllChunks ==
  ASSUME NEW batch \in Seq(Messages)
  PROVE  FirstChunks(batch, NumChunks(batch)) = NamedRows(batch)
<1>1. \A m \in 1..NumChunks(batch) : NamedRows(ChunkOf(batch, m)) \subseteq NamedRows(batch)
  BY ChunkNamesRowsOfTheBatch
<1>2. ASSUME NEW x \in NamedRows(batch)
      PROVE  \E m \in 1..NumChunks(batch) : x \in NamedRows(ChunkOf(batch, m))
  <2>1. PICK i \in 1..Len(batch) : x = Row(batch[i])
    BY DEF NamedRows, ToSet
  <2>2. PICK m \in 1..NumChunks(batch) : \E k \in 1..Len(ChunkOf(batch, m)) :
          ChunkOf(batch, m)[k] = batch[i]
    BY EveryMessageIsInAChunk
  <2>3. ChunkOf(batch, m) \in Seq(Messages)
    BY ChunkIsAPiece
  <2>4. batch[i] \in ToSet(ChunkOf(batch, m))
    BY <2>2, <2>3 DEF ToSet
  <2> QED
    BY <2>1, <2>4 DEF NamedRows
<1> QED
  BY <1>1, <1>2 DEF FirstChunks

\* The rows of messages of one type.
LEMMA RowsOfOneTable ==
  ASSUME NEW t, NEW messages, \A m \in ToSet(messages) : m.type = t
  PROVE  {t} \X Named(messages) = NamedRows(messages)
<1>1. \A m \in ToSet(messages) : Row(m) = <<t, m.key>>
  BY DEF Row
<1> QED
  BY <1>1 DEF Named, NamedRows

\* What BatchInsert lets pass chunk by chunk would pass as a whole, if it is of one type.
LEMMA NotRefusedIsValid ==
  ASSUME NEW op \in {"insert", "delete"}, NEW batch \in Seq(Messages), ~Refused(op, batch)
  PROVE  Invalid(batch) => \E m \in ToSet(batch) : m.type # batch[1].type
<1>1. CASE op = "delete"
  BY <1>1 DEF Refused
<1>2. CASE op = "insert"
  <2> SUFFICES ASSUME NEW i \in 1..Len(batch), ~batch[i].fits,
                      \A m \in ToSet(batch) : m.type = batch[1].type
               PROVE  FALSE
    BY DEF Invalid
  <2> PICK m \in 1..NumChunks(batch) : \E k \in 1..Len(ChunkOf(batch, m)) :
        ChunkOf(batch, m)[k] = batch[i]
    BY EveryMessageIsInAChunk
  <2>1. PICK k \in 1..Len(ChunkOf(batch, m)) : ChunkOf(batch, m)[k] = batch[i]
    OBVIOUS
  <2>2. /\ ToSet(ChunkOf(batch, m)) \subseteq ToSet(batch)
        /\ ChunkOf(batch, m)[1] \in ToSet(ChunkOf(batch, m))
        /\ ChunkOf(batch, m) \in Seq(Messages)
    BY ChunkNamesRowsOfTheBatch, ChunkIsAPiece
  <2>3. k \in DOMAIN ChunkOf(batch, m) /\ ChunkOf(batch, m)[k] \in ToSet(ChunkOf(batch, m))
    BY <2>2 DEF ToSet
  <2>4. ChunkOf(batch, m)[k].type = ChunkOf(batch, m)[1].type
    BY <2>2, <2>3
  <2>5. Invalid(ChunkOf(batch, m))
    BY <2>1, <2>3, <2>4 DEF Invalid
  <2> QED
    BY <1>2, <2>5 DEF Refused
<1> QED
  BY <1>1, <1>2

-----------------------------------------------------------------------------
(***************************************************************************)
(* Batches.  At every step of a job: it has touched the rows of the chunks *)
(* before this one, with those of this one once its statement has run.     *)
(***************************************************************************)
Underway(j) ==
  /\ plan[j] \in Plans
  /\ ~Refused(plan[j].op, plan[j].batch)
  /\ chunk[j] \in 1..NumChunks(plan[j].batch)

JobInv(j) ==
  /\ state[j] \in {"idle", "refused", "running", "invalidating", "done", "error"}
  /\ plan[j] \in Plans \cup {NoPlan}
  /\ state[j] \in {"idle", "refused"} => touched[j] = {} /\ chunk[j] = 1
  /\ state[j] \in {"running", "invalidating"} => Underway(j)
  /\ state[j] = "running" /\ plan[j].op = "insert"
       => touched[j] = FirstChunks(plan[j].batch, chunk[j] - 1)
  /\ state[j] = "invalidating" => plan[j].op = "delete"
  /\ touched[j] \subseteq NamedRows(plan[j].batch)
  /\ touched[j] # {} => ~Refused(plan[j].op, plan[j].batch)
  /\ chunk[j] \in Nat \ {0}
  /\ WholeChunks(j)

Tables ==
  /\ rows \in [Types -> SUBSET Keys]
  /\ cached \in [Types -> SUBSET Keys]
  /\ unsent \in [Types -> SUBSET Keys]
  /\ DOMAIN plan = Jobs /\ DOMAIN chunk = Jobs /\ DOMAIN state = Jobs /\ DOMAIN touched = Jobs

JobsInv == Tables /\ (\A j \in Jobs : JobInv(j)) /\ DeletedRowsAreNotCached

\* What a planned batch is.
LEMMA PlanTypes ==
  ASSUME NEW p \in Plans \cup {NoPlan}
  PROVE  p.op \in {"insert", "delete"} /\ p.batch \in Seq(Messages)
<1>1. NoPlan.op = "insert" /\ NoPlan.batch = <<>> /\ <<>> \in Seq(Messages)
  BY DEF NoPlan
<1> QED
  BY <1>1, RowSetsAssumption

\* The table a chunk goes to, and what a job under way may write there.
LEMMA ChunkTypes ==
  ASSUME NEW j \in Jobs, Underway(j)
  PROVE  /\ TableOf(j) \in Types
         /\ Named(Current(j)) \subseteq Keys
         /\ NamedRows(Current(j)) \subseteq NamedRows(plan[j].batch)
         /\ plan[j].op = "delete" => \A m \in ToSet(Current(j)) : m.type = TableOf(j)
<1> DEFINE batch == plan[j].batch
<1>1. batch \in Seq(Messages) /\ chunk[j] \in 1..NumChunks(batch)
  BY PlanTypes DEF Underway
<1>2. /\ ToSet(Current(j)) \subseteq ToSet(batch)
      /\ Current(j)[1] \in ToSet(Current(j))
      /\ NamedRows(Current(j)) \subseteq NamedRows(batch)
  BY <1>1, ChunkNamesRowsOfTheBatch DEF Current
<1>3. ToSet(batch) \subseteq Messages
  BY <1>1 DEF ToSet
<1>4. TableOf(j) \in Types
  BY <1>2, <1>3 DEF TableOf, Messages
<1>5. Named(Current(j)) \subseteq Keys
  BY <1>2, <1>3 DEF Named, Messages
<1>6. plan[j].op = "delete" => \A m \in ToSet(Current(j)) : m.type = TableOf(j)
  <2> SUFFICES ASSUME plan[j].op = "delete" PROVE \A m \in ToSet(batch) : m.type = batch[1].type
    BY <1>2 DEF TableOf
  <2>1. \A i \in DOMAIN batch : batch[i].type = batch[1].type
    BY DEF Underway, Refused
  <2> QED
    BY <2>1 DEF ToSet
<1> QED
  BY <1>2, <1>4, <1>5, <1>6

\* A job that does nothing in a step.
LEMMA IdleJobKeeps ==
  ASSUME NEW i \in Jobs, JobInv(i), plan'[i] = plan[i], chunk'[i] = chunk[i],
         state'[i] = state[i], touched'[i] = touched[i]
  PROVE  JobInv(i)'
BY DEF JobInv, Underway, WholeChunks

\* Why a row that is not there may have an entry.
Invalidates(j, t, k) == state[j] = "invalidating" /\ TableOf(j) = t /\ k \in Named(Current(j))
Excused(t, k) == k \in unsent[t] \/ \E j \in Jobs : Invalidates(j, t, k)

\* A step of one job keeps the excuses the others give.
LEMMA ExcusesStay ==
  ASSUME DeletedRowsAreNotCached, NEW j \in Jobs,
         \A i \in Jobs \ {j} : plan'[i] = plan[i] /\ chunk'[i] = chunk[i] /\ state'[i] = state[i],
         \A t \in Types : \A k \in cached'[t] \ rows'[t] :
           \/ k \in unsent'[t]
           \/ Invalidates(j, t, k)'
           \/ /\ k \in cached[t] \ rows[t] /\ ~Invalidates(j, t, k)
              /\ k \in unsent[t] => k \in unsent'[t]
  PROVE  DeletedRowsAreNotCached'
<1> SUFFICES ASSUME NEW t \in Types, NEW k \in cached'[t] \ rows'[t]
             PROVE  k \in unsent'[t] \/ \E i \in Jobs : Invalidates(i, t, k)'
  BY DEF DeletedRowsAreNotCached, Invalidates
<1>1. CASE /\ k \in cached[t] \ rows[t] /\ ~Invalidates(j, t, k)
           /\ k \in unsent[t] => k \in unsent'[t]
  <2>1. k \in unsent[t] \/ \E i \in Jobs : Invalidates(i, t, k)
    BY <1>1 DEF DeletedRowsAreNotCached, Invalidates
  <2>2. ASSUME NEW i \in Jobs, Invalidates(i, t, k)
        PROVE  Invalidates(i, t, k)'
    <3>1. plan'[i] = plan[i] /\ chunk'[i] = chunk[i] /\ state'[i] = state[i]
      BY <1>1, <2>2
    <3>2. Current(i)' = Current(i) /\ TableOf(i)' = TableOf(i)
      BY <3>1 DEF Current, TableOf
    <3> QED
      BY <2>2, <3>1, <3>2 DEF Invalidates
  <2> QED
    BY <1>1, <2>1, <2>2
<1> QED
  BY <1>1

\* What a statement does to the tables.
LEMMA WritesOneTable ==
  ASSUME Tables, NEW j \in Jobs, NEW t \in Types, NEW after \in SUBSET Keys, Writes(j, t, after)
  PROVE  /\ rows' \in [Types -> SUBSET Keys]
         /\ rows'[t] = after /\ \A u \in Types \ {t} : rows'[u] = rows[u]
         /\ DOMAIN touched' = Jobs
         /\ touched'[j] = touched[j] \cup ({t} \X ((rows[t] \ after) \cup (after \ rows[t])))
         /\ \A i \in Jobs \ {j} : touched'[i] = touched[i]
BY DEF Tables, Writes

\* After a chunk a job goes to the next, or is done after the last.
LEMMA AdvanceMoves ==
  ASSUME Tables, NEW j \in Jobs, Advance(j)
  PROVE  /\ DOMAIN chunk' = Jobs /\ DOMAIN state' = Jobs
         /\ \A i \in Jobs \ {j} : chunk'[i] = chunk[i] /\ state'[i] = state[i]
         /\ \/ /\ chunk[j] < NumChunks(plan[j].batch)
               /\ chunk'[j] = chunk[j] + 1 /\ state'[j] = "running"
            \/ /\ ~(chunk[j] < NumChunks(plan[j].batch))
               /\ chunk'[j] = chunk[j] /\ state'[j] = "done"
BY DEF Tables, Advance

\* The parts of the jobs' invariant, action by action: a job that starts has touched nothing,
LEMMA StepStartJob ==
  ASSUME JobsInv, NEW j \in Jobs, NEW p \in Plans, StartJob(j, p)
  PROVE  JobsInv'
<1> USE DEF JobsInv
<1>1. /\ state[j] = "idle" /\ plan' = [plan EXCEPT ![j] = p]
      /\ state' = [state EXCEPT ![j] = CASE Refused(p.op, p.batch) -> "refused"
                                         [] p.batch = <<>> /\ ~Refused(p.op, p.batch) -> "done"
                                         [] OTHER -> "running"]
      /\ UNCHANGED <<rows, cached, chunk, touched, unsent>>
  BY DEF StartJob
<1>2. Tables'
  BY <1>1 DEF Tables
<1>3. \A i \in Jobs \ {j} : plan'[i] = plan[i] /\ chunk'[i] = chunk[i] /\ state'[i] = state[i]
                              /\ touched'[i] = touched[i]
  BY <1>1 DEF Tables
<1>4. plan'[j] = p /\ chunk'[j] = 1 /\ touched'[j] = {}
  BY <1>1 DEF Tables, JobInv
<1>5. \/ Refused(p.op, p.batch) /\ state'[j] = "refused"
      \/ ~Refused(p.op, p.batch) /\ p.batch = <<>> /\ state'[j] = "done"
      \/ ~Refused(p.op, p.batch) /\ p.batch # <<>> /\ state'[j] = "running"
  BY <1>1 DEF Tables
<1>6. p.op \in {"insert", "delete"} /\ p.batch \in Seq(Messages)
  BY PlanTypes
<1>7. p.batch # <<>> => 1 \in 1..NumChunks(p.batch)
  <2>1. NumChunks(p.batch) \in Nat /\ Len(p.batch) <= NumChunks(p.batch) * ChunkSize
    BY <1>6, ChunksEndTheBatch
  <2>2. p.batch # <<>> => Len(p.batch) >= 1 /\ Len(p.batch) \in Nat
    BY <1>6
  <2>3. NumChunks(p.batch) = 0 => NumChunks(p.batch) * ChunkSize = 0
    BY RowSetsAssumption
  <2> QED
    BY <2>1, <2>2, <2>3
<1>8. p.op = "insert" => Refused(p.op, <<>>)
  BY DEF Refused
<1>9. FirstChunks(p.batch, 0) = {} /\ 1 - 1 = 0
  BY NoChunks
<1>10. JobInv(j)'
  <2>1. WholeChunks(j)'
    BY <1>4, <1>5, <1>8, <1>9 DEF WholeChunks
  <2> QED
    BY <1>4, <1>5, <1>7, <1>9, <2>1 DEF JobInv, Underway
<1>11. \A i \in Jobs : JobInv(i)'
  BY <1>3, <1>10, IdleJobKeeps
<1>12. DeletedRowsAreNotCached'
  <2>1. \A t, k : ~Invalidates(j, t, k)
    BY <1>1 DEF Invalidates
  <2>2. \A t \in Types : \A k \in cached'[t] \ rows'[t] :
          k \in cached[t] \ rows[t] /\ (k \in unsent[t] => k \in unsent'[t])
    BY <1>1
  <2> QED
    BY <1>3, <2>1, <2>2, ExcusesStay
<1> QED
  BY <1>2, <1>11, <1>12

\* The INSERT of a chunk takes effect; next(j) is what becomes of the job.
LEMMA InsertTouchesTheChunk ==
  ASSUME JobsInv, NEW j \in Jobs, Running(j, "insert"), Insertable(j),
         Writes(j, TableOf(j), rows[TableOf(j)] \cup Named(Current(j)))
  PROVE  /\ Underway(j)
         /\ rows' \in [Types -> SUBSET Keys]
         /\ \A t \in Types : rows[t] \subseteq rows'[t]
         /\ DOMAIN touched' = Jobs
         /\ touched'[j] = FirstChunks(plan[j].batch, chunk[j])
         /\ touched'[j] \subseteq NamedRows(plan[j].batch)
         /\ \A i \in Jobs \ {j} : touched'[i] = touched[i]
<1> USE DEF JobsInv
<1> DEFINE t == TableOf(j)
           after == rows[t] \cup Named(Current(j))
<1>1. Underway(j) /\ plan[j].op = "insert" /\ touched[j] = FirstChunks(plan[j].batch, chunk[j] - 1)
  BY DEF JobInv, Running
<1>2. /\ t \in Types /\ Named(Current(j)) \subseteq Keys
      /\ NamedRows(Current(j)) \subseteq NamedRows(plan[j].batch)
  BY <1>1, ChunkTypes
<1>3. after \in SUBSET Keys
  BY <1>2 DEF Tables
<1>4. Named(Current(j)) \cap rows[t] = {}
  BY DEF Insertable
<1>5. (rows[t] \ after) \cup (after \ rows[t]) = Named(Current(j))
  BY <1>4
<1>6. \A m \in ToSet(Current(j)) : m.type = t
  BY DEF Insertable, ToSet
<1>7. {t} \X Named(Current(j)) = NamedRows(Current(j))
  BY <1>6, RowsOfOneTable
<1> HIDE DEF t, after
<1>8. /\ rows' \in [Types -> SUBSET Keys]
      /\ rows'[t] = after /\ \A u \in Types \ {t} : rows'[u] = rows[u]
      /\ DOMAIN touched' = Jobs
      /\ touched'[j] = touched[j] \cup ({t} \X ((rows[t] \ after) \cup (after \ rows[t])))
      /\ \A i \in Jobs \ {j} : touched'[i] = touched[i]
  <2>1. Writes(j, t, after)
    BY DEF t, after
  <2> QED
    BY <1>2, <1>3, <2>1, WritesOneTable
<1>9. touched'[j] = touched[j] \cup NamedRows(Current(j))
  BY <1>5, <1>7, <1>8
<1>10. chunk[j] \in Nat \ {0}
  BY DEF JobInv
<1>11. touched'[j] = FirstChunks(plan[j].batch, chunk[j])
  BY <1>1, <1>9, <1>10, FirstChunksGrow DEF Current
<1>12. touched'[j] \subseteq NamedRows(plan[j].batch)
  BY <1>2, <1>9 DEF JobInv
<1>13. \A u \in Types : rows[u] \subseteq rows'[u]
  BY <1>8 DEF after
<1> QED
  BY <1>1, <1>8, <1>11, <1>12, <1>13

\* a chunk that is inserted is the one after those that are there,
LEMMA StepInsertChunk ==
  ASSUME JobsInv, NEW j \in Jobs, InsertChunk(j)
  PROVE  JobsInv'
<1> USE DEF JobsInv
<1>1. /\ Running(j, "insert") /\ Insertable(j) /\ Advance(j) /\ UNCHANGED <<cached, plan, unsent>>
      /\ Writes(j, TableOf(j), rows[TableOf(j)] \cup Named(Current(j)))
  BY DEF InsertChunk
<1>2. /\ Underway(j)
      /\ rows' \in [Types -> SUBSET Keys] /\ \A t \in Types : rows[t] \subseteq rows'[t]
      /\ DOMAIN touched' = Jobs
      /\ touched'[j] = FirstChunks(plan[j].batch, chunk[j])
      /\ touched'[j] \subseteq NamedRows(plan[j].batch)
      /\ \A i \in Jobs \ {j} : touched'[i] = touched[i]
  BY <1>1, InsertTouchesTheChunk
<1>3. /\ DOMAIN chunk' = Jobs /\ DOMAIN state' = Jobs
      /\ \A i \in Jobs \ {j} : chunk'[i] = chunk[i] /\ state'[i] = state[i]
      /\ \/ /\ chunk[j] < NumChunks(plan[j].batch)
            /\ chunk'[j] = chunk[j] + 1 /\ state'[j] = "running"
         \/ /\ ~(chunk[j] < NumChunks(plan[j].batch))
            /\ chunk'[j] = chunk[j] /\ state'[j] = "done"
  BY <1>1, AdvanceMoves
<1>4. Tables'
  BY <1>1, <1>2, <1>3 DEF Tables
<1>5. /\ plan[j].op = "insert" /\ plan[j].batch \in Seq(Messages)
      /\ chunk[j] \in Nat \ {0} /\ NumChunks(plan[j].batch) \in Nat
      /\ chunk[j] \in 1..NumChunks(plan[j].batch)
  BY <1>1, <1>2, PlanTypes, ChunksEndTheBatch DEF Running, Underway
<1>6. ASSUME chunk[j] < NumChunks(plan[j].batch)
      PROVE  JobInv(j)'
  <2>1. /\ chunk'[j] = chunk[j] + 1 /\ state'[j] = "running" /\ chunk'[j] - 1 = chunk[j]
        /\ chunk'[j] \in 1..NumChunks(plan[j].batch)
    BY <1>3, <1>5, <1>6
  <2>2. state'[j] = "running" /\ Underway(j)' /\ WholeChunks(j)'
    BY <1>1, <1>2, <1>5, <2>1 DEF Underway, WholeChunks
  <2>3. plan[j] \in Plans /\ ~Refused(plan[j].op, plan[j].batch)
    BY <1>1, <1>2 DEF Underway
  <2>4. chunk'[j] \in Nat \ {0}
    BY <1>5, <2>1
  <2>5. UNCHANGED plan /\ touched'[j] = FirstChunks(plan[j].batch, chunk[j])
    BY <1>1, <1>2
  <2> QED
    BY <1>2, <2>1, <2>2, <2>3, <2>4, <2>5 DEF JobInv
<1>7. ASSUME ~(chunk[j] < NumChunks(plan[j].batch))
      PROVE  JobInv(j)'
  <2>1. chunk'[j] = chunk[j] /\ state'[j] = "done" /\ chunk[j] = NumChunks(plan[j].batch)
    BY <1>3, <1>5, <1>7
  <2>2. touched'[j] = NamedRows(plan[j].batch)
    BY <1>2, <1>5, <2>1, AllChunks
  <2> QED
    BY <1>1, <1>2, <1>5, <2>1, <2>2 DEF JobInv, Underway, WholeChunks
<1>8. \A i \in Jobs : JobInv(i)'
  BY <1>1, <1>2, <1>3, <1>6, <1>7, IdleJobKeeps
<1>9. DeletedRowsAreNotCached'
  <2>1. \A t, k : ~Invalidates(j, t, k)
    BY <1>1 DEF Invalidates, Running
  <2>2. \A t \in Types : \A k \in cached'[t] \ rows'[t] :
          k \in cached[t] \ rows[t] /\ (k \in unsent[t] => k \in unsent'[t])
    BY <1>1, <1>2
  <2> QED
    BY <1>1, <1>3, <2>1, <2>2, ExcusesStay
<1> QED
  BY <1>4, <1>8, <1>9

\* A job that stops without a statement.
LEMMA StoppedJobKeeps ==
  ASSUME JobsInv, NEW j \in Jobs, state[j] = "running",
         state' = [state EXCEPT ![j] = "error"],
         UNCHANGED <<rows, cached, plan, chunk, touched, unsent>>
  PROVE  JobsInv'
<1> USE DEF JobsInv
<1>1. Tables'
  BY DEF Tables
<1>2. \A i \in Jobs \ {j} : state'[i] = state[i]
  BY DEF Tables
<1>3. state'[j] = "error"
  BY DEF Tables
<1>4. JobInv(j)'
  BY <1>3 DEF JobInv, WholeChunks
<1>5. DeletedRowsAreNotCached'
  <2>1. \A t, k : ~Invalidates(j, t, k)
    BY DEF Invalidates
  <2> QED
    BY <1>2, <2>1, ExcusesStay
<1> QED
  BY <1>1, <1>2, <1>4, <1>5, IdleJobKeeps

\* The DELETE of a chunk takes effect.
LEMMA DeleteTouchesTheChunk ==
  ASSUME JobsInv, NEW j \in Jobs, Running(j, "delete"),
         Writes(j, TableOf(j), rows[TableOf(j)] \ Deleted(j))
  PROVE  /\ Underway(j) /\ TableOf(j) \in Types /\ Named(Current(j)) \subseteq Keys
         /\ rows' \in [Types -> SUBSET Keys]
         /\ \A t \in Types : \A k \in rows[t] \ rows'[t] :
              t = TableOf(j) /\ k \in Named(Current(j))
         /\ DOMAIN touched' = Jobs
         /\ touched'[j] \subseteq NamedRows(plan[j].batch)
         /\ \A i \in Jobs \ {j} : touched'[i] = touched[i]
<1> USE DEF JobsInv
<1> DEFINE t == TableOf(j)
           after == rows[t] \ Deleted(j)
<1>1. Underway(j) /\ plan[j].op = "delete"
  BY DEF JobInv, Running
<1>2. /\ t \in Types /\ Named(Current(j)) \subseteq Keys
      /\ NamedRows(Current(j)) \subseteq NamedRows(plan[j].batch)
      /\ \A m \in ToSet(Current(j)) : m.type = t
  BY <1>1, ChunkTypes
<1>3. after \in SUBSET Keys
  BY <1>2 DEF Tables
<1>4. (rows[t] \ after) \cup (after \ rows[t]) \subseteq Named(Current(j))
  BY DEF Deleted
<1>5. {t} \X Named(Current(j)) = NamedRows(Current(j))
  BY <1>2, RowsOfOneTable
<1> HIDE DEF t, after
<1>6. /\ rows' \in [Types -> SUBSET Keys]
      /\ rows'[t] = after /\ \A u \in Types \ {t} : rows'[u] = rows[u]
      /\ DOMAIN touched' = Jobs
      /\ touched'[j] = touched[j] \cup ({t} \X ((rows[t] \ after) \cup (after \ rows[t])))
      /\ \A i \in Jobs \ {j} : touched'[i] = touched[i]
  <2>1. Writes(j, t, after)
    BY DEF t, after
  <2> QED
    BY <1>2, <1>3, <2>1, WritesOneTable
<1>7. touched'[j] \subseteq touched[j] \cup NamedRows(Current(j))
  <2>1. {t} \X ((rows[t] \ after) \cup (after \ rows[t])) \subseteq {t} \X Named(Current(j))
    BY <1>4
  <2> QED
    BY <1>5, <1>6, <2>1
<1>8. touched'[j] \subseteq NamedRows(plan[j].batch)
  BY <1>2, <1>7 DEF JobInv
<1>9. \A u \in Types : \A k \in rows[u] \ rows'[u] : u = t /\ k \in Named(Current(j))
  BY <1>4, <1>6
<1> QED
  BY <1>1, <1>2, <1>6, <1>8, <1>9 DEF t

\* a chunk that is deleted leaves its cached rows to be invalidated,
LEMMA StepDeleteChunk ==
  ASSUME JobsInv, NEW j \in Jobs, DeleteChunk(j)
  PROVE  JobsInv'
<1> USE DEF JobsInv
<1>1. /\ Running(j, "delete") /\ state' = [state EXCEPT ![j] = "invalidating"]
      /\ UNCHANGED <<cached, plan, chunk, unsent>>
      /\ Writes(j, TableOf(j), rows[TableOf(j)] \ Deleted(j))
  BY DEF DeleteChunk
<1>2. /\ Underway(j) /\ rows' \in [Types -> SUBSET Keys]
      /\ \A t \in Types : \A k \in rows[t] \ rows'[t] : t = TableOf(j) /\ k \in Named(Current(j))
      /\ DOMAIN touched' = Jobs
      /\ touched'[j] \subseteq NamedRows(plan[j].batch)
      /\ \A i \in Jobs \ {j} : touched'[i] = touched[i]
  BY <1>1, DeleteTouchesTheChunk
<1>3. Tables'
  BY <1>1, <1>2 DEF Tables
<1>4. state'[j] = "invalidating" /\ plan[j].op = "delete"
  BY <1>1 DEF Tables, Running
<1>5. \A i \in Jobs \ {j} : state'[i] = state[i]
  BY <1>1 DEF Tables
<1>6. JobInv(j)'
  BY <1>1, <1>2, <1>4 DEF JobInv, Underway, WholeChunks
<1>7. \A i \in Jobs : JobInv(i)'
  BY <1>1, <1>2, <1>5, <1>6, IdleJobKeeps
<1>8. DeletedRowsAreNotCached'
  <2>1. \A t, k : ~Invalidates(j, t, k)
    BY <1>1 DEF Invalidates, Running
  <2>2. Current(j)' = Current(j) /\ TableOf(j)' = TableOf(j)
    BY <1>1 DEF Current, TableOf
  <2>3. \A t \in Types : \A k \in rows[t] \ rows'[t] : Invalidates(j, t, k)'
    BY <1>2, <1>4, <2>2 DEF Invalidates
  <2> QED
    BY <1>1, <1>5, <2>1, <2>3, ExcusesStay
<1> QED
  BY <1>3, <1>7, <1>8

\* the invalidation removes them,
LEMMA StepInvalidateChunk ==
  ASSUME JobsInv, NEW j \in Jobs, InvalidateChunk(j)
  PROVE  JobsInv'
<1> USE DEF JobsInv
<1>1. /\ state[j] = "invalidating" /\ Advance(j) /\ UNCHANGED <<rows, plan, touched>>
      /\ \/ /\ cached' = [cached EXCEPT ![TableOf(j)] = @ \ Named(Current(j))]
            /\ UNCHANGED unsent
         \/ /\ unsent' = [unsent EXCEPT ![TableOf(j)] = @ \cup Named(Current(j))]
            /\ UNCHANGED cached
  BY DEF InvalidateChunk, walks
<1>2. Underway(j) /\ plan[j].op = "delete"
  BY <1>1 DEF JobInv
<1>3. TableOf(j) \in Types /\ Named(Current(j)) \subseteq Keys
  BY <1>2, ChunkTypes
<1>4. /\ DOMAIN chunk' = Jobs /\ DOMAIN state' = Jobs
      /\ \A i \in Jobs \ {j} : chunk'[i] = chunk[i] /\ state'[i] = state[i]
      /\ \/ /\ chunk[j] < NumChunks(plan[j].batch)
            /\ chunk'[j] = chunk[j] + 1 /\ state'[j] = "running"
         \/ /\ ~(chunk[j] < NumChunks(plan[j].batch))
            /\ chunk'[j] = chunk[j] /\ state'[j] = "done"
  BY <1>1, AdvanceMoves
<1>5. Tables'
  BY <1>1, <1>3, <1>4 DEF Tables
<1>6. NumChunks(plan[j].batch) \in Nat /\ chunk[j] \in 1..NumChunks(plan[j].batch)
  BY <1>2, PlanTypes, ChunksEndTheBatch DEF Underway
<1>7. JobInv(j)'
  <2>1. /\ chunk'[j] \in 1..NumChunks(plan[j].batch)
        /\ chunk'[j] \in Nat \ {0} /\ state'[j] \in {"running", "done"}
    BY <1>4, <1>6
  <2> QED
    BY <1>1, <1>2, <2>1 DEF JobInv, Underway, WholeChunks
<1>8. \A i \in Jobs : JobInv(i)'
  BY <1>1, <1>4, <1>7, IdleJobKeeps
<1>9. DeletedRowsAreNotCached'
  <2>1. ASSUME NEW t \in Types, NEW k \in cached'[t] \ rows'[t]
        PROVE  /\ k \in cached[t] \ rows[t]
               /\ k \in unsent[t] => k \in unsent'[t]
               /\ Invalidates(j, t, k) => k \in unsent'[t]
    BY <1>1, <1>3, <2>1 DEF Tables, Invalidates
  <2> QED
    BY <1>1, <1>4, <2>1, ExcusesStay
<1> QED
  BY <1>5, <1>8, <1>9

\* and a chunk that fails is there or not.
LEMMA StepChunkFails ==
  ASSUME JobsInv, NEW j \in Jobs, ChunkFails(j)
  PROVE  JobsInv'
<1> USE DEF JobsInv
<1>1. /\ state[j] = "running" /\ state' = [state EXCEPT ![j] = "error"]
      /\ UNCHANGED <<cached, plan, chunk>>
  BY DEF ChunkFails
<1>2. state'[j] = "error" /\ \A i \in Jobs \ {j} : state'[i] = state[i]
  BY <1>1 DEF Tables
<1>3. \A t, k : ~Invalidates(j, t, k)
  BY <1>1 DEF Invalidates
<1>4. CASE UNCHANGED <<rows, touched, stayed, unsent>>
  BY <1>1, <1>4, StoppedJobKeeps
<1>5. CASE /\ Running(j, "delete")
           /\ Writes(j, TableOf(j), rows[TableOf(j)] \ Deleted(j))
           /\ unsent' = [unsent EXCEPT ![TableOf(j)] = @ \cup Named(Current(j))]
  <2>1. /\ Underway(j) /\ TableOf(j) \in Types /\ Named(Current(j)) \subseteq Keys
        /\ rows' \in [Types -> SUBSET Keys]
        /\ \A t \in Types : \A k \in rows[t] \ rows'[t] :
             t = TableOf(j) /\ k \in Named(Current(j))
        /\ DOMAIN touched' = Jobs
        /\ touched'[j] \subseteq NamedRows(plan[j].batch)
        /\ \A i \in Jobs \ {j} : touched'[i] = touched[i]
    BY <1>5, DeleteTouchesTheChunk
  <2>2. Tables'
    BY <1>1, <1>5, <2>1 DEF Tables
  <2>3. JobInv(j)'
    BY <1>1, <1>2, <1>5, <2>1 DEF JobInv, Underway, WholeChunks, Running
  <2>4. ASSUME NEW t \in Types, NEW k \in cached'[t] \ rows'[t]
        PROVE  /\ k \in unsent'[t] \/ k \in cached[t] \ rows[t]
               /\ k \in unsent[t] => k \in unsent'[t]
    BY <1>1, <1>5, <2>1, <2>4 DEF Tables
  <2>5. DeletedRowsAreNotCached'
    BY <1>1, <1>2, <1>3, <2>4, ExcusesStay
  <2> QED
    BY <1>1, <1>2, <2>1, <2>2, <2>3, <2>5, IdleJobKeeps
<1>6. CASE /\ Running(j, "insert") /\ Insertable(j)
           /\ Writes(j, TableOf(j), rows[TableOf(j)] \cup Named(Current(j)))
           /\ UNCHANGED unsent
  <2>1. /\ Underway(j)
        /\ rows' \in [Types -> SUBSET Keys] /\ \A t \in Types : rows[t] \subseteq rows'[t]
        /\ DOMAIN touched' = Jobs
        /\ touched'[j] = FirstChunks(plan[j].batch, chunk[j])
        /\ touched'[j] \subseteq NamedRows(plan[j].batch)
        /\ \A i \in Jobs \ {j} : touched'[i] = touched[i]
    BY <1>6, InsertTouchesTheChunk
  <2>2. Tables'
    BY <1>1, <1>6, <2>1 DEF Tables
  <2>3. JobInv(j)'
    BY <1>1, <1>2, <1>6, <2>1 DEF JobInv, Underway, WholeChunks, Running
  <2>4. \A t \in Types : \A k \in cached'[t] \ rows'[t] :
          k \in cached[t] \ rows[t] /\ (k \in unsent[t] => k \in unsent'[t])
    BY <1>1, <1>6, <2>1
  <2>5. DeletedRowsAreNotCached'
    BY <1>1, <1>2, <1>3, <2>4, ExcusesStay
  <2> QED
    BY <1>1, <1>2, <2>1, <2>2, <2>3, <2>5, IdleJobKeeps
<1> QED
  BY <1>4, <1>5, <1>6 DEF ChunkFails

\* The jobs' invariant is inductive,
LEMMA NextJobsInv == JobsInv /\ [SetsNext]_setsVars => JobsInv'
<1> SUFFICES ASSUME JobsInv, [SetsNext]_setsVars PROVE JobsInv'
  OBVIOUS
<1>1. ASSUME UNCHANGED <<rows, cached, jobs, unsent>>
      PROVE  JobsInv'
  <2>1. UNCHANGED <<plan, chunk, state, touched>>
    BY <1>1 DEF jobs
  <2>2. Tables' /\ DeletedRowsAreNotCached'
    BY <1>1, <2>1 DEF JobsInv, Tables, DeletedRowsAreNotCached, TableOf, Current
  <2> QED
    BY <1>1, <2>1, <2>2, IdleJobKeeps DEF JobsInv
<1>2. ASSUME NEW w \in Walks, StartWalk(w) \/ FindPageByCursor(w)
      PROVE  UNCHANGED <<rows, cached, jobs, unsent>>
  BY <1>2 DEF StartWalk, FindPageByCursor
<1>3. ASSUME NEW j \in Jobs, InsertChunkRefused(j)
      PROVE  JobsInv'
  BY <1>3, StoppedJobKeeps DEF InsertChunkRefused, Running
<1> QED
  BY <1>1, <1>2, <1>3, StepStartJob, StepInsertChunk, StepDeleteChunk, StepInvalidateChunk,
     StepChunkFails DEF SetsNext, setsVars

\* and holds at first.
LEMMA InitJobsInv == SetsInit => JobsInv
<1> SUFFICES ASSUME SetsInit PROVE JobsInv
  OBVIOUS
<1>1. rows \in Rows /\ cached \in {[t \in Types |-> {}], rows}
  BY RowSetsAssumption DEF SetsInit
<1>2. Tables
  BY <1>1 DEF SetsInit, Tables, Rows
<1>3. DeletedRowsAreNotCached
  BY <1>1 DEF DeletedRowsAreNotCached, Rows
<1>4. ASSUME NEW j \in Jobs
      PROVE  JobInv(j)
  <2>1. state[j] = "idle" /\ plan[j] = NoPlan /\ chunk[j] = 1 /\ touched[j] = {}
    BY DEF SetsInit
  <2>2. FirstChunks(NoPlan.batch, 0) = {} /\ 1 - 1 = 0
    BY NoChunks
  <2> QED
    BY <2>1, <2>2 DEF JobInv, WholeChunks
<1> QED
  BY <1>2, <1>3, <1>4 DEF JobsInv

\* However a batch ends and whatever fails, whole chunks of the rows it names are done and
\* nothing else, and no row it has deleted keeps a cache entry whose deletion was not lost
\* (BatchInsert, BatchDelete).
THEOREM BatchesAreChunked == SetsSpec => []BatchesStopAtAChunk
<1>1. JobsInv => BatchesStopAtAChunk
  <2> SUFFICES ASSUME JobsInv, NEW j \in Jobs PROVE NamedRowsOnly(j)
    BY DEF BatchesStopAtAChunk, JobsInv, JobInv
  <2>1. JobInv(j)
    BY DEF JobsInv
  <2>2. plan[j].op \in {"insert", "delete"} /\ plan[j].batch \in Seq(Messages)
    BY <2>1, PlanTypes DEF JobInv
  <2> QED
    BY <2>1, <2>2, NotRefusedIsValid DEF JobInv, NamedRowsOnly
<1> QED
  BY <1>1, InitJobsInv, NextJobsInv, PTL DEF SetsSpec
-----------------------------------------------------------------------------
(***************************************************************************)
(* Walks.  Between two pages, a walk has been given the rows that stayed   *)
(* up to its cursor, but for those that share their value with another it  *)
(* was given.                                                              *)
(***************************************************************************)
\* Every set of numbers has a least one.
LEMMA LeastNumber ==
  ASSUME NEW T \in SUBSET Nat, T # {}
  PROVE  \E x \in T : \A y \in T : x <= y
<1> DEFINE R == OpToRel(<, Nat)
<1>1. IsWellFoundedOn(R, Nat)
  BY NatLessThanWellFounded
<1>2. R = {ss \in Nat \X Nat : ss[1] < ss[2]}
  BY DEF OpToRel
<1> HIDE DEF R
<1>3. \E x \in T : \A y \in T : ~(<<y, x>> \in R)
  BY <1>1, WFMin
<1>4. \A x, y \in Nat : ~(<<y, x>> \in R) => x <= y
  <2> TAKE x, y \in Nat
  <2>1. <<y, x>> \in R <=> y < x
    BY <1>2, SMT
  <2> QED
    BY <2>1
<1> QED
  BY <1>3, <1>4

IsLast(k, page) == k \in page /\ \A other \in page : Cursor[other] <= Cursor[k]

\* A page that is not empty has a last row: the smallest set without one would be one with
\* all but one of its rows.
LEMMA LastRow ==
  ASSUME NEW page \in SUBSET Keys, page # {}
  PROVE  \E k \in page : IsLast(k, page)
<1> DEFINE Lacks(T) == T # {} /\ \A k \in T : ~IsLast(k, T)
           sizes == {n \in Nat : \E T \in SUBSET Keys : Cardinality(T) = n /\ Lacks(T)}
<1>1. \A T \in SUBSET Keys : IsFiniteSet(T) /\ Cardinality(T) \in Nat
  BY RowSetsAssumption, FS_Subset, FS_CardinalityType
<1>2. SUFFICES ASSUME Lacks(page) PROVE FALSE
  OBVIOUS
<1>3. Cardinality(page) \in sizes
  BY <1>1, <1>2
<1>4. sizes \subseteq Nat /\ sizes # {}
  BY <1>3
<1>5. PICK n \in sizes : \A m \in sizes : n <= m
  BY <1>4, LeastNumber
<1>6. PICK T \in SUBSET Keys : Cardinality(T) = n /\ Lacks(T)
  OBVIOUS
<1>7. PICK x \in T : TRUE
  BY <1>6
<1> DEFINE rest == T \ {x}
<1>8. Cardinality(rest) = n - 1 /\ n - 1 \in Nat /\ rest \in SUBSET Keys
  <2>1. Cardinality(rest) = n - 1
    BY <1>1, <1>6, <1>7, FS_RemoveElement
  <2> QED
    BY <1>1, <2>1
<1>9. ~Lacks(rest)
  <2> SUFFICES ASSUME Lacks(rest) PROVE FALSE
    OBVIOUS
  <2>1. n - 1 \in sizes
    BY <1>8
  <2>2. n <= n - 1 /\ n \in Nat
    BY <1>4, <1>5, <2>1
  <2> QED
    BY <2>2
<1>10. \A k \in T : Cursor[k] \in Int
  BY RowSetsAssumption
<1>11. CASE rest = {}
  BY <1>6, <1>7, <1>10, <1>11 DEF IsLast
<1>12. ASSUME NEW y \in rest, IsLast(y, rest)
       PROVE  IsLast(x, T) \/ IsLast(y, T)
  BY <1>7, <1>10, <1>12 DEF IsLast
<1> QED
  BY <1>6, <1>7, <1>9, <1>11, <1>12

\* The value a full page leaves in the cursor is that of its last row.
LEMMA CursorOfPage ==
  ASSUME NEW page \in SUBSET Keys, page # {}
  PROVE  \E k \in page : IsLast(k, page) /\ Max({Cursor[x] : x \in page}) = Cursor[k]
<1> DEFINE values == {Cursor[x] : x \in page}
<1>1. PICK k \in page : IsLast(k, page)
  BY LastRow
<1>2. values \subseteq Int
  BY RowSetsAssumption
<1>3. Cursor[k] \in values /\ \A v \in values : Cursor[k] >= v
  BY <1>1, <1>2 DEF IsLast
<1>4. Max(values) \in values /\ \A v \in values : Max(values) >= v
  BY <1>3 DEF Max
<1>5. Max(values) = Cursor[k]
  <2> DEFINE top == Max(values)
  <2>1. top \in Int /\ Cursor[k] \in Int
    BY <1>2, <1>3, <1>4
  <2>2. top >= Cursor[k] /\ Cursor[k] >= top
    BY <1>3, <1>4
  <2> HIDE DEF top
  <2>3. top = Cursor[k]
    BY <2>1, <2>2
  <2> QED
    BY <2>3 DEF top
<1> QED
  BY <1>1, <1>5

\* A page has rows to give unless none are left, and one that is not full has all of them.
LEMMA PageFacts ==
  ASSUME NEW candidates \in SUBSET Keys, NEW page \in Pages(candidates)
  PROVE  /\ page \in SUBSET candidates
         /\ \A k \in page, other \in candidates \ page : Cursor[k] <= Cursor[other]
         /\ Cardinality(page) < PageSize => page = candidates
         /\ ~(Cardinality(page) < PageSize) => page # {}
<1> DEFINE least == Min({PageSize, Cardinality(candidates)})
<1>1. /\ page \in SUBSET candidates /\ Cardinality(page) = least
      /\ \A k \in page, other \in candidates \ page : Cursor[k] <= Cursor[other]
  BY DEF Pages
<1>2. IsFiniteSet(candidates) /\ Cardinality(candidates) \in Nat /\ PageSize \in Nat \ {0}
  BY RowSetsAssumption, FS_Subset, FS_CardinalityType
<1>3. least \in {PageSize, Cardinality(candidates)}
  <2>1. \E x \in {PageSize, Cardinality(candidates)} :
          \A y \in {PageSize, Cardinality(candidates)} : x <= y
    BY <1>2
  <2> QED
    BY <2>1 DEF Min
<1> HIDE DEF least
<1>4. Cardinality(page) < PageSize => page = candidates
  <2> SUFFICES ASSUME Cardinality(page) < PageSize PROVE page = candidates
    OBVIOUS
  <2>1. Cardinality(page) = Cardinality(candidates)
    BY <1>1, <1>2, <1>3
  <2> QED
    BY <1>1, <1>2, <2>1, FS_Subset
<1>5. ~(Cardinality(page) < PageSize) => page # {}
  BY <1>2, FS_EmptySet
<1> QED
  BY <1>1, <1>4, <1>5

Twin(w, k) == \E other \in Keys \ {k} : Cursor[other] = Cursor[k] /\ seen[w][other] = 1

WalkInv(w) ==
  /\ walk[w] \in {"idle", "walking", "done"}
  /\ seen[w] \in [Keys -> {0, 1}]
  /\ cursor[w] \in Int \cup {NoCursor}
  /\ walk[w] = "idle" => cursor[w] = NoCursor
  /\ walk[w] # "done" /\ cursor[w] = NoCursor => \A k \in Keys : seen[w][k] = 0
  /\ walk[w] = "walking" /\ cursor[w] # NoCursor =>
       /\ \A k \in Keys : seen[w][k] = 1 => Cursor[k] <= cursor[w]
       /\ \A k \in stayed[w] : Cursor[k] <= cursor[w] /\ seen[w][k] = 0 => Twin(w, k)
  /\ stayed[w] \in SUBSET Keys
  /\ walk[w] = "walking" => stayed[w] \subseteq rows[WalkedType]
  /\ walk[w] = "done" => \A k \in stayed[w] : seen[w][k] = 0 => Twin(w, k)

WalkTables ==
  /\ DOMAIN cursor = Walks /\ DOMAIN walk = Walks /\ DOMAIN seen = Walks /\ DOMAIN stayed = Walks
  /\ rows \in [Types -> SUBSET Keys]

WalksInv == WalkTables /\ \A w \in Walks : WalkInv(w)

\* What others do to the table takes rows away from those that stayed.
LEMMA OthersKeepWalks ==
  ASSUME WalksInv, rows' \in [Types -> SUBSET Keys], UNCHANGED <<cursor, walk, seen>>,
         DOMAIN stayed' = Walks,
         \A w \in Walks : /\ stayed'[w] \subseteq stayed[w]
                          /\ stayed[w] \subseteq rows[WalkedType]
                               => stayed'[w] \subseteq rows'[WalkedType]
  PROVE  WalksInv'
<1>1. WalkTables'
  BY DEF WalksInv, WalkTables
<1>2. ASSUME NEW w \in Walks
      PROVE  WalkInv(w)'
  <2>1. WalkInv(w)
    BY DEF WalksInv
  <2>2. \A k : Twin(w, k) => Twin(w, k)'
    BY DEF Twin
  <2> QED
    BY <2>1, <2>2 DEF WalkInv
<1> QED
  BY <1>1, <1>2 DEF WalksInv

\* A batch's writes take rows from those that stayed, or give new ones, and move no walk.
LEMMA WritesKeepWalks ==
  ASSUME WalksInv, NEW j, NEW t, NEW after, Writes(j, t, after),
         rows' \in [Types -> SUBSET Keys], UNCHANGED <<cursor, walk, seen>>
  PROVE  WalksInv'
<1>1. DOMAIN stayed' = Walks
  BY DEF Writes, WalksInv, WalkTables
<1>2. ASSUME NEW w \in Walks
      PROVE  /\ stayed'[w] \subseteq stayed[w]
             /\ stayed[w] \subseteq rows[WalkedType] => stayed'[w] \subseteq rows'[WalkedType]
  <2>1. WalkedType \in Types /\ rows \in [Types -> SUBSET Keys]
    BY RowSetsAssumption DEF WalksInv, WalkTables
  <2>2. CASE t = WalkedType
    BY <2>1, <2>2 DEF Writes
  <2>3. CASE t # WalkedType
    BY <2>1, <2>3 DEF Writes
  <2> QED
    BY <2>2, <2>3
<1> QED
  BY <1>1, <1>2, OthersKeepWalks

\* A walk that starts has seen nothing.
LEMMA StepStartWalk ==
  ASSUME WalksInv, NEW w \in Walks, StartWalk(w)
  PROVE  WalksInv'
<1>1. /\ walk[w] = "idle" /\ walk' = [walk EXCEPT ![w] = "walking"]
      /\ stayed' = [stayed EXCEPT ![w] = rows[WalkedType]] /\ UNCHANGED <<rows, cursor, seen>>
  BY DEF StartWalk
<1>2. WalkTables /\ WalkTables'
  BY <1>1 DEF WalksInv, WalkTables
<1>3. \A v \in Walks : \A k : Twin(v, k) => Twin(v, k)'
  BY <1>1 DEF Twin
<1>4. WalkInv(w)'
  <2>1. walk'[w] = "walking" /\ stayed'[w] = rows[WalkedType] /\ rows[WalkedType] \in SUBSET Keys
    BY <1>1, <1>2, RowSetsAssumption DEF WalkTables
  <2>2. WalkInv(w)
    BY DEF WalksInv
  <2> QED
    BY <1>1, <2>1, <2>2 DEF WalkInv
<1>5. ASSUME NEW v \in Walks \ {w}
      PROVE  WalkInv(v)'
  <2>1. walk'[v] = walk[v] /\ stayed'[v] = stayed[v] /\ WalkInv(v)
    BY <1>1, <1>2 DEF WalkTables, WalksInv
  <2> QED
    BY <1>1, <1>3, <2>1 DEF WalkInv
<1> QED
  BY <1>2, <1>4, <1>5 DEF WalksInv

\* A page goes on where the last one ended.
LEMMA StepFindPage ==
  ASSUME WalksInv, NEW w \in Walks, FindPageByCursor(w)
  PROVE  WalksInv'
<1>1. walk[w] = "walking" /\ UNCHANGED <<rows, stayed>>
  BY DEF FindPageByCursor
<1>2. PICK page \in Pages(After(w)) :
       /\ seen' = [seen EXCEPT ![w] = [k \in Keys |-> IF k \in page THEN @[k] + 1 ELSE @[k]]]
       /\ IF Cardinality(page) < PageSize
            THEN walk' = [walk EXCEPT ![w] = "done"] /\ UNCHANGED cursor
            ELSE cursor' = [cursor EXCEPT ![w] = Max({Cursor[k] : k \in page})] /\ UNCHANGED walk
  BY DEF FindPageByCursor
<1>3. WalkTables /\ WalkInv(w)
  BY DEF WalksInv
<1> DEFINE now == seen[w]
           new == seen'[w]
<1>4. /\ After(w) \in SUBSET Keys /\ After(w) \subseteq rows[WalkedType]
      /\ \A k \in rows[WalkedType] :
           k \in After(w) <=> cursor[w] = NoCursor \/ Cursor[k] > cursor[w]
  BY <1>3, RowSetsAssumption DEF After, WalkTables
<1>5. /\ page \in SUBSET After(w)
      /\ \A k \in page, other \in After(w) \ page : Cursor[k] <= Cursor[other]
      /\ Cardinality(page) < PageSize => page = After(w)
      /\ ~(Cardinality(page) < PageSize) => page # {}
  BY <1>4, PageFacts
<1>6. \A k \in Keys : Cursor[k] \in Int
  BY RowSetsAssumption
<1>7. /\ now \in [Keys -> {0, 1}] /\ cursor[w] \in Int \cup {NoCursor} /\ NoCursor \notin Int
      /\ stayed[w] \in SUBSET Keys /\ stayed[w] \subseteq rows[WalkedType]
      /\ cursor[w] = NoCursor => \A k \in Keys : now[k] = 0
      /\ cursor[w] # NoCursor =>
           /\ \A k \in Keys : now[k] = 1 => Cursor[k] <= cursor[w]
           /\ \A k \in stayed[w] : Cursor[k] <= cursor[w] /\ now[k] = 0 => Twin(w, k)
  BY <1>1, <1>3, RowSetsAssumption DEF WalkInv
<1>8. \A k \in page : now[k] = 0
  <2> SUFFICES ASSUME NEW k \in page, now[k] = 1 PROVE FALSE
    BY <1>4, <1>5, <1>7
  <2>1. cursor[w] # NoCursor /\ Cursor[k] <= cursor[w] /\ Cursor[k] > cursor[w]
    BY <1>4, <1>5, <1>7
  <2> QED
    BY <1>4, <1>5, <1>6, <1>7, <2>1
<1>9. /\ new = [k \in Keys |-> IF k \in page THEN 1 ELSE now[k]]
      /\ DOMAIN seen' = Walks /\ \A v \in Walks \ {w} : seen'[v] = seen[v]
  <2>1. new = [k \in Keys |-> IF k \in page THEN now[k] + 1 ELSE now[k]]
    BY <1>2, <1>3 DEF WalkTables
  <2>2. \A k \in page : now[k] + 1 = 1
    BY <1>8
  <2> HIDE DEF now, new
  <2>3. new = [k \in Keys |-> IF k \in page THEN 1 ELSE now[k]]
    BY <2>1, <2>2
  <2> QED
    BY <1>2, <1>3, <2>3 DEF WalkTables
<1>10. /\ new \in [Keys -> {0, 1}]
       /\ \A k \in Keys : (k \in page => new[k] = 1) /\ (k \notin page => new[k] = now[k])
  <2> HIDE DEF now, new
  <2> QED
    BY <1>7, <1>9
<1>11. \A k : Twin(w, k) => Twin(w, k)'
  BY <1>8, <1>10 DEF Twin
<1>12. WalkTables'
  BY <1>1, <1>2, <1>3, <1>9 DEF WalkTables
<1>13. ASSUME Cardinality(page) < PageSize
       PROVE  WalkInv(w)' /\ \A v \in Walks \ {w} : walk'[v] = walk[v] /\ cursor'[v] = cursor[v]
  <2>1. /\ walk'[w] = "done" /\ cursor'[w] = cursor[w]
        /\ \A v \in Walks \ {w} : walk'[v] = walk[v] /\ cursor'[v] = cursor[v]
    BY <1>2, <1>3, <1>13 DEF WalkTables
  <2>2. ASSUME NEW k \in stayed[w], new[k] = 0
        PROVE  Twin(w, k)'
    <3>1. k \notin After(w) /\ now[k] = 0 /\ k \in Keys
      BY <1>5, <1>7, <1>10, <1>13, <2>2
    <3>2. cursor[w] # NoCursor /\ Cursor[k] <= cursor[w]
      BY <1>4, <1>6, <1>7, <3>1
    <3> QED
      BY <1>7, <1>11, <3>1, <3>2
  <2> QED
    BY <1>1, <1>7, <1>10, <2>1, <2>2 DEF WalkInv
<1>14. ASSUME ~(Cardinality(page) < PageSize)
       PROVE  WalkInv(w)' /\ \A v \in Walks \ {w} : walk'[v] = walk[v] /\ cursor'[v] = cursor[v]
  <2>1. page \in SUBSET Keys /\ page # {}
    BY <1>4, <1>5, <1>14
  <2>2. PICK last \in page : IsLast(last, page) /\ Max({Cursor[x] : x \in page}) = Cursor[last]
    BY <2>1, CursorOfPage
  <2>3. /\ walk'[w] = "walking" /\ cursor'[w] = Cursor[last]
        /\ \A v \in Walks \ {w} : walk'[v] = walk[v] /\ cursor'[v] = cursor[v]
    BY <1>1, <1>2, <1>3, <1>14, <2>2 DEF WalkTables
  <2>4. /\ last \in Keys /\ Cursor[last] \in Int /\ Cursor[last] # NoCursor /\ new[last] = 1
        /\ \A k \in page : Cursor[k] <= Cursor[last]
        /\ cursor[w] # NoCursor => Cursor[last] > cursor[w]
    BY <1>4, <1>5, <1>6, <1>7, <1>10, <2>1, <2>2 DEF IsLast
  <2>5. ASSUME NEW k \in Keys, new[k] = 1
        PROVE  Cursor[k] <= Cursor[last]
    <3>1. CASE k \in page
      BY <2>4, <3>1
    <3>2. CASE k \notin page
      <4>1. now[k] = 1
        BY <1>10, <2>5, <3>2
      <4>2. cursor[w] # NoCursor /\ cursor[w] \in Int /\ Cursor[k] <= cursor[w]
        BY <1>7, <4>1
      <4> QED
        BY <1>6, <2>4, <4>2
    <3> QED
      BY <3>1, <3>2
  <2>6. ASSUME NEW k \in stayed[w], Cursor[k] <= Cursor[last], new[k] = 0
        PROVE  Twin(w, k)'
    <3>1. k \in Keys /\ k \notin page /\ now[k] = 0 /\ k # last
      BY <1>7, <1>10, <2>4, <2>6
    <3>2. CASE k \in After(w)
      <4>1. Cursor[last] <= Cursor[k]
        BY <1>5, <3>1, <3>2
      <4>2. Cursor[last] = Cursor[k]
        BY <1>6, <2>4, <2>6, <3>1, <4>1
      <4> QED
        BY <2>4, <3>1, <4>2 DEF Twin
    <3>3. CASE k \notin After(w)
      <4>1. cursor[w] # NoCursor /\ Cursor[k] <= cursor[w]
        BY <1>4, <1>6, <1>7, <3>1, <3>3
      <4> QED
        BY <1>7, <1>11, <3>1, <4>1
    <3> QED
      BY <3>2, <3>3
  <2> QED
    BY <1>1, <1>7, <1>10, <2>3, <2>4, <2>5, <2>6 DEF WalkInv
<1>15. ASSUME NEW v \in Walks \ {w}
       PROVE  WalkInv(v)'
  <2>1. /\ walk'[v] = walk[v] /\ cursor'[v] = cursor[v] /\ seen'[v] = seen[v]
        /\ WalkInv(v)
    BY <1>9, <1>13, <1>14 DEF WalksInv
  <2>2. \A k : Twin(v, k) => Twin(v, k)'
    BY <2>1 DEF Twin
  <2> QED
    BY <1>1, <2>1, <2>2 DEF WalkInv
<1> QED
  BY <1>12, <1>13, <1>14, <1>15 DEF WalksInv

\* The walks' invariant is inductive,
LEMMA NextWalksInv == JobsInv /\ JobsInv' /\ WalksInv /\ [SetsNext]_setsVars => WalksInv'
<1> SUFFICES ASSUME JobsInv, JobsInv', WalksInv, [SetsNext]_setsVars PROVE WalksInv'
  OBVIOUS
<1>1. rows' \in [Types -> SUBSET Keys]
  BY DEF JobsInv, Tables
<1>2. ASSUME UNCHANGED <<rows, walks>>
      PROVE  WalksInv'
  <2>1. UNCHANGED <<rows, cursor, walk, seen, stayed>>
    BY <1>2 DEF walks
  <2> QED
    BY <1>1, <2>1, OthersKeepWalks DEF WalksInv, WalkTables
<1>3. ASSUME NEW j \in Jobs, NEW p \in Plans, StartJob(j, p)
      PROVE  WalksInv'
  BY <1>2, <1>3 DEF StartJob
<1>4. ASSUME NEW j \in Jobs, InsertChunkRefused(j) \/ InvalidateChunk(j)
      PROVE  WalksInv'
  BY <1>2, <1>4 DEF InsertChunkRefused, InvalidateChunk
<1>5. ASSUME NEW j \in Jobs, InsertChunk(j)
      PROVE  WalksInv'
  BY <1>1, <1>5, WritesKeepWalks DEF InsertChunk
<1>6. ASSUME NEW j \in Jobs, DeleteChunk(j)
      PROVE  WalksInv'
  BY <1>1, <1>6, WritesKeepWalks DEF DeleteChunk
<1>7. ASSUME NEW j \in Jobs, ChunkFails(j)
      PROVE  WalksInv'
  <2>1. UNCHANGED <<cursor, walk, seen>>
    BY <1>7 DEF ChunkFails
  <2>2. CASE UNCHANGED <<rows, touched, stayed, unsent>>
    BY <1>2, <2>1, <2>2 DEF walks
  <2>3. CASE Writes(j, TableOf(j), rows[TableOf(j)] \ Deleted(j))
    BY <1>1, <2>1, <2>3, WritesKeepWalks
  <2>4. CASE Writes(j, TableOf(j), rows[TableOf(j)] \cup Named(Current(j)))
    BY <1>1, <2>1, <2>4, WritesKeepWalks
  <2> QED
    BY <1>7, <2>2, <2>3, <2>4 DEF ChunkFails
<1> QED
  BY <1>2, <1>3, <1>4, <1>5, <1>6, <1>7, StepStartWalk, StepFindPage DEF SetsNext, setsVars

\* and holds at first.
LEMMA InitWalksInv == SetsInit => WalksInv
<1> SUFFICES ASSUME SetsInit PROVE WalksInv
  OBVIOUS
<1>1. WalkTables
  BY RowSetsAssumption DEF SetsInit, WalkTables, Rows
<1>2. ASSUME NEW w \in Walks
      PROVE  WalkInv(w)
  <2>1. /\ walk[w] = "idle" /\ cursor[w] = NoCursor /\ stayed[w] = {}
        /\ seen[w] = [k \in Keys |-> 0]
    BY DEF SetsInit
  <2> QED
    BY <2>1 DEF WalkInv
<1> QED
  BY <1>1, <1>2 DEF WalksInv

\* A walk by cursor is given no row twice, whatever others insert and delete, and when it has
\* ended it was given every row that stayed, but one with the cursor value of another
\* (FindPageByCursor: WHERE cursor > ?).
THEOREM WalksMissOnlyTwins == SetsSpec => []WalksAreComplete
<1>1. WalksInv => WalksAreComplete
  BY DEF WalksInv, WalkInv, WalksAreComplete, Twin
<1> QED
  BY <1>1, InitJobsInv, NextJobsInv, InitWalksInv, NextWalksInv, PTL DEF SetsSpec
=============================================================================
