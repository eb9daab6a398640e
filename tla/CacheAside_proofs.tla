-------------------------- MODULE CacheAside_proofs --------------------------
(***************************************************************************)
(* Proofs about the cache-aside protocol (module CacheAside): the          *)
(* inductive invariant IInv and the safety properties it implies.          *)
(***************************************************************************)
EXTENDS CacheAside, TLAPS

\* The calls pass their values in functions over the callers.
Shape ==
  /\ message = [c \in Callers |-> message[c]]
  /\ found = [c \in Callers |-> found[c]]

\* Only the transaction that holds the row lock is between its write and its commit,
\* and it has a row to commit.
LockInv ==
  /\ \A c \in Callers : pc[c] \in {"read", "commit"} => lock = c
  /\ lock # None => draft \in Rows

\* A statement is on its way only for an operation that writes.
KindInv == \A c \in Callers : pc[c] = "exec" \/ late[c] => kind[c] # "find"

\* The row was committed.
CommittedInv == db # None => db \in committed

\* Somebody is about to delete the entry.
DeletionDue == \E c \in Callers : pc[c] = "del"

\* A reader about to set a row that is no longer the row has been overtaken, or the
\* deletion that follows its entry is still to come.
HeldInv ==
  \A c \in Callers : pc[c] = "fill" /\ ~FreshFor(found[c], db) => overtaken[c] \/ DeletionDue

IInv ==
  /\ TypeOK /\ Shape /\ LockInv /\ KindInv /\ CommittedInv
  /\ EntriesAreCommitted /\ FindsAreWhole
  /\ HeldInv /\ StaleEntriesHaveACause
-----------------------------------------------------------------------------
(***************************************************************************)
(* The operators                                                           *)
(***************************************************************************)

\* What a row restricted to the columns of a schema is.
LEMMA RestrictRow ==
  ASSUME NEW row \in Rows, NEW s \in SUBSET Columns
  PROVE  /\ Restrict(row, s) \in [s -> Values]
         /\ DOMAIN Restrict(row, s) = s
         /\ Restrict(row, s) \in Entries
         /\ Restrict(row, s) # None
<1>1. Restrict(row, s) \in [s -> Values]
  BY DEF Restrict, Rows
<1>2. Restrict(row, s) \in Entries
  BY <1>1, Zenon DEF Entries
<1> QED
  BY <1>1, <1>2, CacheAssumption

\* An entry usable by a reader gives it all the columns it knows, as the row had them.
LEMMA RestrictEntry ==
  ASSUME NEW entry \in Entries, NEW row, entry = Restrict(row, DOMAIN entry),
         NEW s, s \subseteq DOMAIN entry
  PROVE  Restrict(entry, s) = Restrict(row, s)
<1>1. \A col \in DOMAIN entry : entry[col] = row[col]
  BY Zenon DEF Restrict
<1> QED
  BY <1>1, Zenon DEF Restrict

\* A row as its writer reads it back is fresh.
LEMMA RestrictFresh ==
  ASSUME NEW row \in Rows, NEW s \in SUBSET Columns
  PROVE  FreshFor(Restrict(row, s), row)
BY RestrictRow, CacheAssumption DEF FreshFor

\* The values of a message in the columns its process knows, the row's or zeros in the others.
LEMMA SavedRow ==
  ASSUME NEW row \in Rows \cup {None}, NEW s \in SUBSET Columns, NEW m \in [s -> Values]
  PROVE  /\ Saved(row, m) \in Rows
         /\ NewRow(m) \in Rows
         /\ row # None => Updated(row, m) \in Rows
<1>1. NewRow(m) \in Rows
  BY CacheAssumption DEF NewRow, Rows
<1>2. row # None => Updated(row, m) \in Rows
  BY DEF Updated, Rows
<1> QED
  BY <1>1, <1>2 DEF Saved

\* The counter of a row never leaves its values: the decrement has its guard.
LEMMA DecrementedRow ==
  ASSUME NEW row \in Rows \cup {None}
  PROVE  Decremented(row)[1] \in Rows \cup {None}
<1>1. CASE row # None /\ row[Counter] > 0
  <2>1. row \in [Columns -> Values]
    BY <1>1 DEF Rows
  <2>2. row[Counter] \in Values
    BY <2>1, CacheAssumption
  <2>3. row[Counter] - 1 \in Values
    BY <1>1, <2>2, CacheAssumption
  <2>4. [row EXCEPT ![Counter] = @ - 1] \in Rows
    BY <2>1, <2>3, Zenon DEF Rows
  <2> QED
    BY <1>1, <2>4 DEF Decremented
<1> QED
  BY <1>1 DEF Decremented

\* Every write leaves a row of the table, or none.
LEMMA OutcomeRow ==
  ASSUME NEW k \in AllKinds \ {"find"}, NEW row \in Rows \cup {None},
         NEW s \in SUBSET Columns, NEW m \in [s -> Values], NEW out \in Outcomes(k, row, m)
  PROVE  out[1] \in Rows \cup {None}
<1>0. /\ Saved(row, m) \in Rows /\ NewRow(m) \in Rows
      /\ row # None => Updated(row, m) \in Rows
  BY SavedRow
<1>1. CASE k \in {"save", "tx"}
  <2>1. out = <<Saved(row, m), TRUE>>
    BY <1>1, Zenon DEF Outcomes
  <2> QED
    BY <1>0, <2>1
<1>2. CASE k = "update"
  BY <1>0, <1>2 DEF Outcomes
<1>3. CASE k = "decr"
  BY <1>3, DecrementedRow DEF Outcomes
<1>4. CASE k = "cas"
  <2>1. CASE out = <<row, FALSE>>
    BY <2>1
  <2>2. CASE row # None /\ out = <<Updated(row, m), TRUE>>
    BY <1>0, <2>2
  <2> QED
    BY <1>4, <2>1, <2>2 DEF Outcomes
<1>5. CASE k = "delete"
  BY <1>5 DEF Outcomes
<1>6. CASE k = "where"
  <2>1. CASE out = <<IF row = None THEN None ELSE Updated(row, m), TRUE>>
    BY <1>0, <2>1
  <2>2. CASE out = <<None, TRUE>>
    BY <2>2
  <2> QED
    BY <1>6, <2>1, <2>2 DEF Outcomes
<1>7. CASE k \in {"insert", "findOrCreate"}
  <2>1. CASE out = <<NewRow(m), TRUE>>
    BY <1>0, <2>1
  <2>2. CASE out = <<row, FALSE>>
    BY <2>2
  <2> QED
    BY <1>7, <2>1, <2>2 DEF Outcomes
<1>8. CASE k = "conditional"
  <2>1. CASE out = <<Saved(row, m), TRUE>>
    BY <1>0, <2>1
  <2>2. CASE out = <<row, FALSE>>
    BY <2>2
  <2> QED
    BY <1>8, <2>1, <2>2 DEF Outcomes
<1> QED
  BY <1>1, <1>2, <1>3, <1>4, <1>5, <1>6, <1>7, <1>8 DEF AllKinds, ReadKinds

\* A write after which the entry is not deleted, but for those by WHERE, left the row as it
\* was or created it.
LEMMA UnseenWrite ==
  ASSUME NEW k \in AllKinds \ {"find", "tx", "where"}, NEW row, NEW m,
         NEW out \in Outcomes(k, row, m), ~Invalidates(k, out[2])
  PROVE  out[1] = row \/ row = None
<1>0. \A x, y : <<x, y>>[1] = x /\ <<x, y>>[2] = y
  OBVIOUS
<1>1. k \in {"decr", "cas", "insert", "findOrCreate", "conditional"}
  BY DEF AllKinds, ReadKinds, Invalidates
<1>2. CASE k = "decr"
  <2>1. out = Decremented(row) /\ ~out[2]
    BY <1>2 DEF Outcomes, Invalidates
  <2> QED
    BY <2>1 DEF Decremented
<1>3. CASE k = "cas"
  <2>1. Outcomes(k, row, m) =
          {<<row, FALSE>>} \cup IF row = None THEN {} ELSE {<<Updated(row, m), TRUE>>}
    BY <1>3 DEF Outcomes
  <2>2. out[2] # TRUE
    BY <1>3 DEF Invalidates
  <2>3. CASE out = <<row, FALSE>>
    BY <1>0, <2>3
  <2>4. CASE out = <<Updated(row, m), TRUE>>
    BY <1>0, <2>2, <2>4
  <2> QED
    BY <2>1, <2>3, <2>4
<1>4. CASE k \in {"insert", "findOrCreate"}
  <2>1. Outcomes(k, row, m) = IF row = None THEN {<<NewRow(m), TRUE>>} ELSE {<<row, FALSE>>}
    BY <1>4 DEF Outcomes
  <2>2. CASE out = <<row, FALSE>>
    BY <1>0, <2>2
  <2> QED
    BY <2>1, <2>2
<1>5. CASE k = "conditional"
  <2>1. Outcomes(k, row, m) = {<<Saved(row, m), TRUE>>, <<row, FALSE>>}
    BY <1>5 DEF Outcomes
  <2>2. out[2] # TRUE
    BY <1>5 DEF Invalidates
  <2>3. CASE out = <<row, FALSE>>
    BY <1>0, <2>3
  <2>4. CASE out = <<Saved(row, m), TRUE>>
    BY <1>0, <2>2, <2>4
  <2> QED
    BY <2>1, <2>3, <2>4
<1> QED
  BY <1>1, <1>2, <1>3, <1>4, <1>5

\* What a caller passes and holds, by its schema.
LEMMA CallerFacts ==
  ASSUME TypeOK, NEW c \in Callers
  PROVE  /\ Schema[c] \in SUBSET Columns
         /\ message[c] \in [Schema[c] -> Values]
         /\ found[c] \in [Schema[c] -> Values] \cup {None}
         /\ found[c] \in Entries \cup {None}
<1>1. /\ Schema[c] \in SUBSET Columns
      /\ message[c] \in [Schema[c] -> Values]
      /\ found[c] \in [Schema[c] -> Values] \cup {None}
  BY CacheAssumption DEF TypeOK
<1> QED
  BY <1>1, Zenon DEF Entries

\* A commit of a row of the table, or of none, is on record.
LEMMA CommitsFacts ==
  ASSUME TypeOK, NEW row \in Rows \cup {None}, Commits(row)
  PROVE  /\ db' \in Rows \cup {None}
         /\ committed' \subseteq Rows
         /\ committed \subseteq committed'
         /\ CommittedInv'
BY DEF TypeOK, Commits, CommittedInv
-----------------------------------------------------------------------------
\* At first nobody holds anything and there is no entry.
LEMMA InitInv == Init => IInv
<1> SUFFICES ASSUME Init PROVE IInv
  OBVIOUS
<1>1. TypeOK
  <2>1. /\ db \in Rows \cup {None} /\ cache = None /\ lock = None /\ draft = None
        /\ committed \subseteq Rows /\ tainted = FALSE
    BY CacheAssumption DEF Init
  <2>2. /\ pc \in [Callers -> Requests \cup {"idle"}] /\ kind \in [Callers -> AllKinds]
        /\ late \in [Callers -> BOOLEAN] /\ overtaken \in [Callers -> BOOLEAN]
    BY DEF Init, AllKinds, ReadKinds
  <2>3. writes \in 0..MaxWrites
    BY CacheAssumption DEF Init
  <2>4. \A c \in Callers : message[c] \in [Schema[c] -> Values] /\ found[c] = None
    BY CacheAssumption DEF Init
  <2> QED
    BY <2>1, <2>2, <2>3, <2>4, Zenon DEF TypeOK
<1>2. Shape
  BY DEF Init, Shape
<1>3. LockInv /\ KindInv /\ CommittedInv
  BY DEF Init, LockInv, KindInv, CommittedInv
<1>4. EntriesAreCommitted /\ FindsAreWhole /\ HeldInv /\ StaleEntriesHaveACause
  BY DEF Init, EntriesAreCommitted, FindsAreWhole, HeldInv, StaleEntriesHaveACause, Fresh, FreshFor
<1> QED
  BY <1>1, <1>2, <1>3, <1>4 DEF IInv
-----------------------------------------------------------------------------
(***************************************************************************)
(* What a step may do to each part of the invariant                        *)
(***************************************************************************)

\* What was committed stays on record; a step that reads nothing new stays covered by it.
LEMMA CommittedGrows ==
  ASSUME EntriesAreCommitted, FindsAreWhole, committed \subseteq committed',
         cache' \in {cache, None},
         \A c \in Callers : found'[c] \in {found[c], None}
  PROVE  EntriesAreCommitted' /\ FindsAreWhole'
BY DEF EntriesAreCommitted, FindsAreWhole

\* The caller moves to another request and no other caller does.
LEMMA GotoFacts ==
  ASSUME TypeOK, NEW c \in Callers, NEW request \in Requests \cup {"idle"}, Goto(c, request)
  PROVE  /\ pc' \in [Callers -> Requests \cup {"idle"}]
         /\ pc'[c] = request
         /\ \A d \in Callers \ {c} : pc'[d] = pc[d]
BY DEF Goto, TypeOK

\* What nobody is going to delete is marked.
LEMMA MarkedStale ==
  ASSUME TypeOK, NoDeletionFollows, cache' = cache, found' = found,
         \A d \in Callers : pc'[d] = "fill" => pc[d] = "fill"
  PROVE  /\ overtaken' \in [Callers -> BOOLEAN] /\ tainted' \in BOOLEAN
         /\ HeldInv' /\ StaleEntriesHaveACause'
<1>1. overtaken' \in [Callers -> BOOLEAN] /\ tainted' \in BOOLEAN
  BY DEF NoDeletionFollows, OvertakenBy, TypeOK
<1>2. ASSUME NEW d \in Callers, pc'[d] = "fill", ~FreshFor(found'[d], db')
      PROVE  overtaken'[d]
  BY <1>2 DEF NoDeletionFollows, OvertakenBy
<1>3. ~FreshFor(cache', db') => tainted'
  BY DEF NoDeletionFollows
<1> QED
  BY <1>1, <1>2, <1>3 DEF HeldInv, StaleEntriesHaveACause, Fresh

\* So is what the caller that deleted the entry, or failed to, leaves in other hands.
LEMMA MarkedHeld ==
  ASSUME TypeOK, OvertakenBy(db), db' = db, found' = found,
         \A d \in Callers : pc'[d] = "fill" => pc[d] = "fill"
  PROVE  overtaken' \in [Callers -> BOOLEAN] /\ HeldInv'
<1>1. overtaken' \in [Callers -> BOOLEAN]
  BY DEF OvertakenBy, TypeOK
<1>2. ASSUME NEW d \in Callers, pc'[d] = "fill", ~FreshFor(found'[d], db')
      PROVE  overtaken'[d]
  BY <1>2 DEF OvertakenBy
<1> QED
  BY <1>1, <1>2 DEF HeldInv

\* With a deletion on its way nothing needs to be marked.
LEMMA DeletionCorrects ==
  ASSUME DeletionDue'
  PROVE  HeldInv' /\ StaleEntriesHaveACause'
BY DEF HeldInv, DeletionDue, StaleEntriesHaveACause

\* A step that leaves the row and the entry alone, and whose callers hold no more than they
\* did, changes nothing as long as no deletion is forgotten.
LEMMA NothingStales ==
  ASSUME HeldInv, StaleEntriesHaveACause, UNCHANGED <<db, cache, overtaken, tainted>>,
         \A d \in Callers : pc'[d] = "fill" => pc[d] = "fill" /\ found'[d] = found[d],
         \A d \in Callers : pc[d] = "del" => pc'[d] = "del"
  PROVE  HeldInv' /\ StaleEntriesHaveACause'
BY DEF HeldInv, DeletionDue, StaleEntriesHaveACause, Fresh

\* A row that is created makes nothing stale that was not stale before.
LEMMA NothingNewStales ==
  ASSUME HeldInv, StaleEntriesHaveACause, UNCHANGED <<cache, found, overtaken, tainted>>,
         db' = db \/ db = None,
         \A d \in Callers : pc'[d] = "fill" => pc[d] = "fill",
         \A d \in Callers : pc[d] = "del" => pc'[d] = "del"
  PROVE  HeldInv' /\ StaleEntriesHaveACause'
<1>1. \A entry : FreshFor(entry, db) => FreshFor(entry, db')
  BY DEF FreshFor
<1>2. DeletionDue => DeletionDue'
  BY DEF DeletionDue
<1> QED
  BY <1>1, <1>2 DEF HeldInv, DeletionDue, StaleEntriesHaveACause, Fresh
-----------------------------------------------------------------------------
(***************************************************************************)
(* The actions                                                             *)
(***************************************************************************)

\* A step in which caller c sends or skips a request, and nothing but its own record of
\* the call changes.
LEMMA CallerMoves ==
  ASSUME IInv, NEW c \in Callers, NEW request \in Requests \cup {"idle"}, Goto(c, request),
         UNCHANGED <<db, cache, lock, draft, committed, overtaken, tainted>>,
         writes' \in 0..MaxWrites,
         kind' \in [Callers -> AllKinds], late' \in [Callers -> BOOLEAN],
         message' = [d \in Callers |-> message'[d]],
         \A d \in Callers : message'[d] \in [Schema[d] -> Values],
         found' = [d \in Callers |-> found'[d]],
         found'[c] \in {found[c], None},
         request \in {"read", "commit"} => lock = c,
         \A d \in Callers \ {c} : kind'[d] = kind[d] /\ late'[d] = late[d] /\ found'[d] = found[d],
         request = "exec" \/ late'[c] => kind'[c] # "find",
         request # "fill", pc[c] # "del"
  PROVE  IInv'
<1>0. TypeOK /\ Shape /\ LockInv /\ KindInv
  BY DEF IInv
<1>1. /\ pc' \in [Callers -> Requests \cup {"idle"}] /\ pc'[c] = request
      /\ \A d \in Callers \ {c} : pc'[d] = pc[d]
  BY <1>0, GotoFacts
<1>2. TypeOK'
  <2>1. \A d \in Callers : found'[d] \in [Schema[d] -> Values] \cup {None}
    BY <1>0, CallerFacts
  <2> QED
    BY <1>0, <1>1, <2>1, Zenon DEF TypeOK
<1>3. Shape' /\ CommittedInv' /\ EntriesAreCommitted' /\ FindsAreWhole'
  BY CommittedGrows DEF IInv, Shape, CommittedInv
<1>4. LockInv' /\ KindInv'
  BY <1>0, <1>1 DEF LockInv, KindInv
<1>5. HeldInv' /\ StaleEntriesHaveACause'
  BY <1>1, NothingStales DEF IInv
<1> QED
  BY <1>2, <1>3, <1>4, <1>5 DEF IInv

\* The new call forgets what the last one found.
LEMMA StartKeeps ==
  ASSUME IInv, NEW c \in Callers, NEW k \in AllKinds, NEW m \in Messages[c], Start(c, k, m)
  PROVE  IInv'
<1>0. TypeOK /\ Shape /\ LockInv /\ KindInv
  BY DEF IInv
<1>1. m \in [Schema[c] -> Values]
  BY CacheAssumption
<1>2. writes' \in 0..MaxWrites
  BY <1>0, CacheAssumption DEF Start, TypeOK
<1>3. /\ kind' = [kind EXCEPT ![c] = k]
      /\ found' = [found EXCEPT ![c] = None]
      /\ message' = message \/ message' = [message EXCEPT ![c] = m]
      /\ UNCHANGED <<db, cache, lock, draft, late, committed, overtaken, tainted>>
      /\ pc[c] = "idle" /\ ~late[c]
  BY DEF Start, history
<1>4. message' = [d \in Callers |-> message'[d]]
      /\ \A d \in Callers : message'[d] \in [Schema[d] -> Values]
  <2>1. CASE message' = message
    BY <1>0, <2>1 DEF TypeOK, Shape
  <2>2. CASE message' = [message EXCEPT ![c] = m]
    BY <1>0, <1>1, <2>2 DEF TypeOK, Shape
  <2> QED
    BY <1>3, <2>1, <2>2
<1>5. found' = [d \in Callers |-> found'[d]] /\ found'[c] = None
      /\ \A d \in Callers \ {c} : found'[d] = found[d]
  BY <1>0, <1>3 DEF Shape
<1>6. /\ kind' \in [Callers -> AllKinds] /\ kind'[c] = k
      /\ \A d \in Callers \ {c} : kind'[d] = kind[d]
  BY <1>0, <1>3 DEF TypeOK
<1>7. CASE k \in ReadKinds
  BY <1>0, <1>2, <1>3, <1>4, <1>5, <1>6, <1>7, CallerMoves DEF Start, TypeOK, Requests
<1>8. CASE k \notin ReadKinds
  BY <1>0, <1>2, <1>3, <1>4, <1>5, <1>6, <1>8, CallerMoves DEF Start, TypeOK, Requests, ReadKinds
<1> QED
  BY <1>7, <1>8

\* Requests that fail, that miss, or whose reply is lost.
LEMMA FailuresKeep ==
  ASSUME IInv, NEW c \in Callers,
         Miss(c) \/ ReadStepFails(c) \/ ExecFails(c) \/ ExecLost(c) \/ TxRead(c)
  PROVE  IInv'
<1>0. TypeOK /\ Shape /\ LockInv /\ KindInv
  BY DEF IInv
<1>1. /\ UNCHANGED <<db, cache, lock, draft, kind, message, found, writes>>
      /\ UNCHANGED <<committed, overtaken, tainted>>
  BY DEF Miss, ReadStepFails, ExecFails, ExecLost, TxRead, history
<1>2. /\ writes' \in 0..MaxWrites /\ kind' \in [Callers -> AllKinds]
      /\ message' = [d \in Callers |-> message'[d]]
      /\ \A d \in Callers : message'[d] \in [Schema[d] -> Values]
      /\ found' = [d \in Callers |-> found'[d]]
  BY <1>0, <1>1 DEF TypeOK, Shape
<1>3. CASE Miss(c)
  BY <1>0, <1>1, <1>2, <1>3, CallerMoves DEF Miss, TypeOK, Requests, KindInv
<1>4. CASE ReadStepFails(c)
  BY <1>0, <1>1, <1>2, <1>4, CallerMoves DEF ReadStepFails, TypeOK, Requests, KindInv
<1>5. CASE ExecFails(c)
  BY <1>0, <1>1, <1>2, <1>5, CallerMoves DEF ExecFails, TypeOK, Requests, KindInv
<1>6. CASE ExecLost(c)
  BY <1>0, <1>1, <1>2, <1>6, CallerMoves DEF ExecLost, TypeOK, Requests, KindInv
<1>7. CASE TxRead(c)
  BY <1>0, <1>1, <1>2, <1>7, CallerMoves DEF TxRead, TypeOK, Requests, KindInv, LockInv
<1> QED
  BY <1>3, <1>4, <1>5, <1>6, <1>7

\* A hit gives the reader its columns of a committed row.
LEMMA HitKeeps ==
  ASSUME IInv, NEW c \in Callers, Hit(c)
  PROVE  IInv'
<1>0. TypeOK /\ Shape /\ LockInv /\ KindInv
  BY DEF IInv
<1>1. /\ found' = [found EXCEPT ![c] = Restrict(cache, Schema[c])] /\ Goto(c, "idle")
      /\ UNCHANGED <<db, cache, lock, draft, kind, message, late, writes>>
      /\ UNCHANGED <<committed, overtaken, tainted>>
      /\ pc[c] = "get" /\ cache # None /\ Schema[c] \subseteq DOMAIN cache
  BY DEF Hit, Usable, history
<1>2. /\ pc' \in [Callers -> Requests \cup {"idle"}] /\ pc'[c] = "idle"
      /\ \A d \in Callers \ {c} : pc'[d] = pc[d]
  BY <1>0, <1>1, GotoFacts
<1>3. /\ found'[c] = Restrict(cache, Schema[c])
      /\ \A d \in Callers \ {c} : found'[d] = found[d]
  BY <1>0, <1>1 DEF Shape
<1>4. PICK row \in committed : cache = Restrict(row, DOMAIN cache)
  BY <1>1 DEF IInv, EntriesAreCommitted
<1>5. Restrict(cache, Schema[c]) = Restrict(row, Schema[c])
  BY <1>0, <1>1, <1>4, RestrictEntry DEF TypeOK
<1>6. Restrict(row, Schema[c]) \in [Schema[c] -> Values]
  BY <1>0, <1>4, CallerFacts, RestrictRow DEF TypeOK
<1>7. TypeOK'
  <2>1. \A d \in Callers : found'[d] \in [Schema[d] -> Values] \cup {None}
    BY <1>0, <1>3, <1>5, <1>6, CallerFacts
  <2> QED
    BY <1>0, <1>1, <1>2, <2>1, Zenon DEF TypeOK
<1>8. Shape'
  BY <1>0, <1>1 DEF Shape
<1>9. CommittedInv' /\ EntriesAreCommitted'
  BY <1>1 DEF IInv, CommittedInv, EntriesAreCommitted
<1>10. FindsAreWhole'
  BY <1>1, <1>3, <1>4, <1>5 DEF IInv, FindsAreWhole
<1>11. LockInv' /\ KindInv'
  BY <1>0, <1>1, <1>2 DEF LockInv, KindInv
<1>12. HeldInv' /\ StaleEntriesHaveACause'
  BY <1>1, <1>2, <1>3, NothingStales DEF IInv
<1> QED
  BY <1>7, <1>8, <1>9, <1>10, <1>11, <1>12 DEF IInv

\* What a reader loads is fresh, and stays so in its hands until somebody commits.
LEMMA LoadKeeps ==
  ASSUME IInv, NEW c \in Callers, Load(c)
  PROVE  IInv'
<1>0. TypeOK /\ Shape /\ LockInv /\ KindInv
  BY DEF IInv
<1>1. /\ UNCHANGED <<db, cache, lock, draft, kind, message, late, writes, committed, tainted>>
      /\ overtaken' = [overtaken EXCEPT ![c] = FALSE]
      /\ pc[c] = "load"
  BY DEF Load
<1>2. PICK request \in {"fill", "exec", "idle"} :
        /\ Goto(c, request)
        /\ \/ /\ db # None /\ request = "fill"
              /\ found' = [found EXCEPT ![c] = Restrict(db, Schema[c])]
           \/ request # "fill" /\ found' = found /\ (request = "exec" => kind[c] = "findOrCreate")
  BY DEF Load
<1>3. /\ pc' \in [Callers -> Requests \cup {"idle"}] /\ pc'[c] = request
      /\ \A d \in Callers \ {c} : pc'[d] = pc[d]
  BY <1>0, <1>2, GotoFacts DEF Requests
<1>4. /\ found' = [d \in Callers |-> found'[d]]
      /\ \A d \in Callers \ {c} : found'[d] = found[d]
      /\ \/ request # "fill" /\ found'[c] = found[c]
         \/ db # None /\ found'[c] = Restrict(db, Schema[c])
  BY <1>0, <1>2 DEF Shape
<1>5. db # None => /\ Restrict(db, Schema[c]) \in [Schema[c] -> Values]
                   /\ FreshFor(Restrict(db, Schema[c]), db)
  BY <1>0, CallerFacts, RestrictRow, RestrictFresh DEF TypeOK
<1>6. TypeOK'
  <2>1. \A d \in Callers : found'[d] \in [Schema[d] -> Values] \cup {None}
    BY <1>0, <1>4, <1>5, CallerFacts
  <2>2. overtaken' \in [Callers -> BOOLEAN]
    BY <1>0, <1>1 DEF TypeOK
  <2> QED
    BY <1>0, <1>1, <1>3, <2>1, <2>2, Zenon DEF TypeOK
<1>7. Shape'
  BY <1>0, <1>1, <1>4 DEF Shape
<1>8. CommittedInv' /\ EntriesAreCommitted'
  BY <1>1 DEF IInv, CommittedInv, EntriesAreCommitted
<1>9. FindsAreWhole'
  BY <1>1, <1>4 DEF IInv, FindsAreWhole, CommittedInv
<1>10. LockInv' /\ KindInv'
  BY <1>0, <1>1, <1>2, <1>3 DEF LockInv, KindInv
<1>11. DeletionDue => DeletionDue'
  BY <1>1, <1>3 DEF DeletionDue
<1>12. HeldInv'
  <2> SUFFICES ASSUME NEW d \in Callers, pc'[d] = "fill", ~FreshFor(found'[d], db')
               PROVE  overtaken'[d] \/ DeletionDue'
    BY DEF HeldInv
  <2>1. d # c
    BY <1>1, <1>3, <1>4, <1>5
  <2>2. pc[d] = "fill" /\ ~FreshFor(found[d], db) /\ overtaken'[d] = overtaken[d]
    BY <1>0, <1>1, <1>3, <1>4, <2>1 DEF TypeOK
  <2> QED
    BY <1>11, <2>2 DEF IInv, HeldInv
<1>13. StaleEntriesHaveACause'
  BY <1>1, <1>11 DEF IInv, StaleEntriesHaveACause, DeletionDue, Fresh
<1> QED
  BY <1>6, <1>7, <1>8, <1>9, <1>10, <1>12, <1>13 DEF IInv

\* A reader sets what it found: an entry that is stale exactly when the reader was overtaken.
LEMMA FillKeeps ==
  ASSUME IInv, NEW c \in Callers, Fill(c)
  PROVE  IInv'
<1>0. TypeOK /\ Shape /\ LockInv /\ KindInv
  BY DEF IInv
<1>1. /\ pc[c] = "fill" /\ cache' = found[c] /\ tainted' = overtaken[c] /\ Goto(c, "idle")
      /\ UNCHANGED <<db, lock, draft, kind, message, found, late, writes, committed, overtaken>>
  BY DEF Fill
<1>2. /\ pc' \in [Callers -> Requests \cup {"idle"}] /\ pc'[c] = "idle"
      /\ \A d \in Callers \ {c} : pc'[d] = pc[d]
  BY <1>0, <1>1, GotoFacts
<1>3. TypeOK'
  <2>1. cache' \in Entries \cup {None} /\ tainted' \in BOOLEAN
    BY <1>0, <1>1, CallerFacts DEF TypeOK
  <2> QED
    BY <1>0, <1>1, <1>2, <2>1, Zenon DEF TypeOK
<1>4. Shape' /\ CommittedInv' /\ FindsAreWhole'
  BY <1>1 DEF IInv, Shape, CommittedInv, FindsAreWhole
<1>5. EntriesAreCommitted'
  <2> SUFFICES ASSUME found[c] # None
               PROVE  \E row \in committed : found[c] = Restrict(row, DOMAIN found[c])
    BY <1>1 DEF EntriesAreCommitted
  <2>1. PICK row \in committed : found[c] = Restrict(row, Schema[c])
    BY DEF IInv, FindsAreWhole
  <2>2. DOMAIN found[c] = Schema[c]
    BY <1>0, CallerFacts
  <2> QED
    BY <2>1, <2>2
<1>6. LockInv' /\ KindInv'
  BY <1>0, <1>1, <1>2 DEF LockInv, KindInv
<1>7. DeletionDue => DeletionDue'
  BY <1>1, <1>2 DEF DeletionDue
<1>8. HeldInv'
  BY <1>1, <1>2, <1>7 DEF IInv, HeldInv
<1>9. StaleEntriesHaveACause'
  <2> SUFFICES ASSUME ~FreshFor(found[c], db)
               PROVE  overtaken[c] \/ DeletionDue'
    BY <1>1 DEF StaleEntriesHaveACause, Fresh, DeletionDue
  <2> QED
    BY <1>1, <1>7 DEF IInv, HeldInv
<1> QED
  BY <1>3, <1>4, <1>5, <1>6, <1>8, <1>9 DEF IInv

\* A step that commits a row, or leaves it alone, and touches neither the entry nor what
\* the callers found.
LEMMA CommitKeeps ==
  ASSUME IInv, NEW row \in Rows \cup {None}, Commits(row) \/ UNCHANGED <<db, committed>>,
         NEW c \in Callers, NEW request \in {"idle", "del"},
         pc' = [pc EXCEPT ![c] = request] \/ pc' = pc,
         UNCHANGED <<cache, kind, message, found, writes>>,
         \/ UNCHANGED <<lock, draft>>
         \/ lock = c /\ lock' = None /\ draft' = None /\ pc'[c] = request,
         late' \in [Callers -> BOOLEAN], \A d \in Callers : late'[d] => late[d],
         overtaken' \in [Callers -> BOOLEAN], tainted' \in BOOLEAN,
         HeldInv', StaleEntriesHaveACause'
  PROVE  IInv'
<1>0. TypeOK /\ Shape /\ LockInv /\ KindInv
  BY DEF IInv
<1>1. /\ pc' \in [Callers -> Requests \cup {"idle"}]
      /\ pc'[c] \in {pc[c], "idle", "del"}
      /\ \A d \in Callers \ {c} : pc'[d] = pc[d]
  BY <1>0 DEF TypeOK, Requests
<1>2. /\ db' \in Rows \cup {None} /\ committed' \subseteq Rows
      /\ committed \subseteq committed' /\ CommittedInv'
  <2>1. CASE Commits(row)
    BY <1>0, <2>1, CommitsFacts
  <2>2. CASE UNCHANGED <<db, committed>>
    BY <1>0, <2>2 DEF TypeOK, IInv, CommittedInv
  <2> QED
    BY <2>1, <2>2
<1>3. TypeOK'
  <2>1. lock' \in Callers \cup {None} /\ draft' \in Rows \cup {None}
    BY <1>0 DEF TypeOK
  <2> QED
    BY <1>0, <1>1, <1>2, <2>1, Zenon DEF TypeOK
<1>4. Shape'
  BY <1>0 DEF Shape
<1>5. EntriesAreCommitted' /\ FindsAreWhole'
  BY <1>2, CommittedGrows DEF IInv
<1>6. LockInv'
  <2>1. CASE UNCHANGED <<lock, draft>>
    BY <1>0, <1>1, <2>1 DEF LockInv
  <2>2. CASE lock = c /\ lock' = None /\ draft' = None /\ pc'[c] = request
    BY <1>0, <1>1, <2>2 DEF LockInv
  <2> QED
    BY <2>1, <2>2
<1>7. KindInv'
  BY <1>0, <1>1 DEF KindInv
<1> QED
  BY <1>2, <1>3, <1>4, <1>5, <1>6, <1>7 DEF IInv

\* A write commits; either its deletion follows, or what is stale is marked.
LEMMA ExecKeeps ==
  ASSUME IInv, NEW c \in Callers, Exec(c)
  PROVE  IInv'
<1>0. TypeOK /\ KindInv
  BY DEF IInv
<1>1. /\ pc[c] = "exec" /\ UNCHANGED <<cache, lock, draft, kind, message, found, late, writes>>
      /\ late' \in [Callers -> BOOLEAN]
  BY <1>0 DEF Exec, TypeOK
<1>2. PICK out \in Outcomes(kind[c], db, message[c]) :
        /\ Commits(out[1])
        /\ \/ Goto(c, "del") /\ UNCHANGED <<overtaken, tainted>>
           \/ Goto(c, "idle") /\ NoDeletionFollows
           \/ /\ Goto(c, "idle") /\ UNCHANGED <<overtaken, tainted>>
              /\ kind[c] \notin {"tx", "where"} /\ ~Invalidates(kind[c], out[2])
  BY DEF Exec
<1>3. out[1] \in Rows \cup {None}
  <2>1. kind[c] \in AllKinds \ {"find"}
    BY <1>0, <1>1 DEF KindInv, TypeOK
  <2>2. /\ db \in Rows \cup {None}
        /\ Schema[c] \in SUBSET Columns /\ message[c] \in [Schema[c] -> Values]
    BY <1>0, CallerFacts DEF TypeOK
  <2> QED
    BY <2>1, <2>2, OutcomeRow
<1>4. CASE Goto(c, "del") /\ UNCHANGED <<overtaken, tainted>>
  <2>1. DeletionDue'
    BY <1>0, <1>4, GotoFacts DEF DeletionDue, Requests
  <2>2. HeldInv' /\ StaleEntriesHaveACause' /\ overtaken' \in [Callers -> BOOLEAN]
        /\ tainted' \in BOOLEAN
    BY <1>0, <1>4, <2>1, DeletionCorrects DEF TypeOK
  <2> QED
    BY <1>1, <1>2, <1>3, <1>4, <2>2, CommitKeeps DEF Goto
<1>5. CASE Goto(c, "idle") /\ NoDeletionFollows
  <2>1. \A d \in Callers : pc'[d] = "fill" => pc[d] = "fill"
    BY <1>0, <1>5, GotoFacts
  <2>2. HeldInv' /\ StaleEntriesHaveACause' /\ overtaken' \in [Callers -> BOOLEAN]
        /\ tainted' \in BOOLEAN
    BY <1>0, <1>1, <1>5, <2>1, MarkedStale
  <2> QED
    BY <1>1, <1>2, <1>3, <1>5, <2>2, CommitKeeps DEF Goto
<1>6. CASE /\ Goto(c, "idle") /\ UNCHANGED <<overtaken, tainted>>
           /\ kind[c] \notin {"tx", "where"} /\ ~Invalidates(kind[c], out[2])
  <2>1. db' = db \/ db = None
    <3>1. kind[c] \in AllKinds \ {"find"}
      BY <1>0, <1>1 DEF KindInv, TypeOK
    <3> QED
      BY <1>2, <1>6, <3>1, UnseenWrite DEF Commits
  <2>2. /\ \A d \in Callers : pc'[d] = "fill" => pc[d] = "fill"
        /\ \A d \in Callers : pc[d] = "del" => pc'[d] = "del"
    BY <1>0, <1>1, <1>6, GotoFacts
  <2>3. HeldInv' /\ StaleEntriesHaveACause'
    BY <1>1, <1>6, <2>1, <2>2, NothingNewStales DEF IInv
  <2>4. overtaken' \in [Callers -> BOOLEAN] /\ tainted' \in BOOLEAN
    BY <1>0, <1>6 DEF TypeOK
  <2> QED
    BY <1>1, <1>2, <1>3, <1>6, <2>3, <2>4, CommitKeeps DEF Goto
<1> QED
  BY <1>2, <1>4, <1>5, <1>6

\* A write whose reply was lost runs, or never does.
LEMMA LateExecKeeps ==
  ASSUME IInv, NEW c \in Callers, LateExec(c)
  PROVE  IInv'
<1>0. TypeOK /\ KindInv
  BY DEF IInv
<1>1. /\ late[c] /\ UNCHANGED <<cache, lock, draft, pc, kind, message, found, writes>>
      /\ late' \in [Callers -> BOOLEAN] /\ \A d \in Callers : late'[d] => late[d]
  BY <1>0 DEF LateExec, TypeOK, calls
<1>2. CASE UNCHANGED <<db, history>>
  <2>1. HeldInv' /\ StaleEntriesHaveACause'
    BY <1>1, <1>2, NothingStales DEF IInv, history
  <2>2. db \in Rows \cup {None} /\ overtaken' \in [Callers -> BOOLEAN] /\ tainted' \in BOOLEAN
    BY <1>0, <1>2 DEF TypeOK, history
  <2> QED
    BY <1>1, <1>2, <2>1, <2>2, CommitKeeps DEF history
<1>3. ASSUME NEW out \in Outcomes(kind[c], db, message[c]), Commits(out[1]), NoDeletionFollows
      PROVE  IInv'
  <2>1. kind[c] \in AllKinds \ {"find"}
    BY <1>0, <1>1 DEF KindInv, TypeOK
  <2>2. /\ db \in Rows \cup {None}
        /\ Schema[c] \in SUBSET Columns /\ message[c] \in [Schema[c] -> Values]
    BY <1>0, CallerFacts DEF TypeOK
  <2>3. out[1] \in Rows \cup {None}
    BY <2>1, <2>2, OutcomeRow
  <2>4. HeldInv' /\ StaleEntriesHaveACause' /\ overtaken' \in [Callers -> BOOLEAN]
        /\ tainted' \in BOOLEAN
    BY <1>0, <1>1, <1>3, MarkedStale
  <2> QED
    BY <1>1, <1>3, <2>3, <2>4, CommitKeeps
<1> QED
  BY <1>2, <1>3 DEF LateExec

\* The entry is deleted, or the deletion fails; the readers it came too early for are marked.
LEMMA DelKeeps ==
  ASSUME IInv, NEW c \in Callers, Del(c) \/ DelFails(c)
  PROVE  IInv'
<1>0. TypeOK /\ Shape /\ LockInv /\ KindInv
  BY DEF IInv
<1>1. /\ pc[c] = "del" /\ Goto(c, "idle") /\ OvertakenBy(db)
      /\ UNCHANGED <<db, lock, draft, kind, message, found, late, writes, committed>>
      /\ \/ cache' = None /\ tainted' = FALSE
         \/ cache' = cache /\ tainted' = (tainted \/ ~FreshFor(cache, db))
  BY DEF Del, DelFails
<1>2. /\ pc' \in [Callers -> Requests \cup {"idle"}] /\ pc'[c] = "idle"
      /\ \A d \in Callers \ {c} : pc'[d] = pc[d]
  BY <1>0, <1>1, GotoFacts
<1>3. overtaken' \in [Callers -> BOOLEAN] /\ HeldInv'
  BY <1>0, <1>1, <1>2, MarkedHeld
<1>4. ~FreshFor(cache', db') => tainted'
  BY <1>1 DEF FreshFor
<1>5. TypeOK'
  <2>1. cache' \in Entries \cup {None} /\ tainted' \in BOOLEAN
    BY <1>0, <1>1 DEF TypeOK
  <2> QED
    BY <1>0, <1>1, <1>2, <1>3, <2>1, Zenon DEF TypeOK
<1>6. Shape' /\ CommittedInv' /\ EntriesAreCommitted' /\ FindsAreWhole'
  BY <1>1, CommittedGrows DEF IInv, Shape, CommittedInv
<1>7. LockInv' /\ KindInv'
  BY <1>0, <1>1, <1>2 DEF LockInv, KindInv
<1> QED
  BY <1>3, <1>4, <1>5, <1>6, <1>7 DEF IInv, StaleEntriesHaveACause, Fresh

\* The write of a transaction is nobody else's row yet.
LEMMA TxExecKeeps ==
  ASSUME IInv, NEW c \in Callers, TxExec(c)
  PROVE  IInv'
<1>0. TypeOK /\ Shape /\ LockInv /\ KindInv
  BY DEF IInv
<1>1. /\ pc[c] = "exec" /\ lock = None /\ lock' = c /\ draft' = Saved(db, message[c])
      /\ Goto(c, "read")
      /\ UNCHANGED <<db, cache, kind, message, found, late, writes, committed, overtaken, tainted>>
  BY DEF TxExec, history
<1>2. /\ pc' \in [Callers -> Requests \cup {"idle"}] /\ pc'[c] = "read"
      /\ \A d \in Callers \ {c} : pc'[d] = pc[d]
  BY <1>0, <1>1, GotoFacts DEF Requests
<1>3. draft' \in Rows
  <2>1. /\ db \in Rows \cup {None}
        /\ Schema[c] \in SUBSET Columns /\ message[c] \in [Schema[c] -> Values]
    BY <1>0, CallerFacts DEF TypeOK
  <2> QED
    BY <1>1, <2>1, SavedRow
<1>4. TypeOK'
  <2>1. lock' \in Callers \cup {None} /\ draft' \in Rows \cup {None}
    BY <1>1, <1>3
  <2> QED
    BY <1>0, <1>1, <1>2, <2>1, Zenon DEF TypeOK
<1>5. Shape' /\ CommittedInv' /\ EntriesAreCommitted' /\ FindsAreWhole'
  BY <1>1, CommittedGrows DEF IInv, Shape, CommittedInv
<1>6. LockInv' /\ KindInv'
  BY <1>0, <1>1, <1>2, <1>3, CacheAssumption DEF LockInv, KindInv
<1>7. HeldInv' /\ StaleEntriesHaveACause'
  BY <1>1, <1>2, NothingStales DEF IInv
<1> QED
  BY <1>4, <1>5, <1>6, <1>7 DEF IInv

\* A transaction ends: by its commit, a commit of unknown outcome, or a rollback.
LEMMA TxEndKeeps ==
  ASSUME IInv, NEW c \in Callers, Commit(c) \/ CommitLost(c) \/ Rollback(c)
  PROVE  IInv'
<1>0. TypeOK /\ LockInv
  BY DEF IInv
<1>1. /\ lock = c /\ draft \in Rows /\ lock' = None /\ draft' = None
      /\ UNCHANGED <<cache, kind, message, found, late, writes>>
      /\ late' \in [Callers -> BOOLEAN]
  BY <1>0, CacheAssumption DEF Commit, CommitLost, Rollback, Unlock, LockInv, TypeOK
<1>2. CASE Commit(c)
  <2>1. Commits(draft) /\ Goto(c, "del") /\ UNCHANGED <<overtaken, tainted>>
    BY <1>2 DEF Commit
  <2>2. pc'[c] = "del"
    BY <1>0, <2>1, GotoFacts DEF Requests
  <2>3. DeletionDue'
    BY <2>2 DEF DeletionDue
  <2>4. HeldInv' /\ StaleEntriesHaveACause' /\ overtaken' \in [Callers -> BOOLEAN]
        /\ tainted' \in BOOLEAN
    BY <1>0, <2>1, <2>3, DeletionCorrects DEF TypeOK
  <2> QED
    BY <1>1, <2>1, <2>2, <2>4, CommitKeeps DEF Goto
<1>3. CASE ~Commit(c)
  <2>1. /\ Goto(c, "idle") /\ pc[c] # "del"
        /\ \/ Commits(draft) /\ NoDeletionFollows
           \/ UNCHANGED <<db, committed, overtaken, tainted>>
    BY <1>3 DEF CommitLost, Rollback, history
  <2>2. /\ pc'[c] = "idle" /\ \A d \in Callers \ {c} : pc'[d] = pc[d]
    BY <1>0, <2>1, GotoFacts
  <2>3. CASE Commits(draft) /\ NoDeletionFollows
    <3>1. HeldInv' /\ StaleEntriesHaveACause' /\ overtaken' \in [Callers -> BOOLEAN]
          /\ tainted' \in BOOLEAN
      BY <1>0, <1>1, <2>2, <2>3, MarkedStale
    <3> QED
      BY <1>1, <2>1, <2>2, <2>3, <3>1, CommitKeeps DEF Goto
  <2>4. CASE UNCHANGED <<db, committed, overtaken, tainted>>
    <3>1. HeldInv' /\ StaleEntriesHaveACause' /\ overtaken' \in [Callers -> BOOLEAN]
          /\ tainted' \in BOOLEAN
      BY <1>0, <1>1, <2>1, <2>2, <2>4, NothingStales DEF IInv, TypeOK
    <3> QED
      BY <1>1, <2>1, <2>2, <2>4, <3>1, CommitKeeps DEF Goto
  <2> QED
    BY <2>1, <2>3, <2>4
<1> QED
  BY <1>2, <1>3

\* An entry that is gone is not stale.
LEMMA ExpireKeeps == IInv /\ Expire => IInv'
<1> SUFFICES ASSUME IInv, Expire PROVE IInv'
  OBVIOUS
<1>1. /\ cache' = None /\ tainted' = FALSE
      /\ UNCHANGED <<db, lock, draft, pc, kind, message, found, late, writes, committed, overtaken>>
  BY DEF Expire, calls
<1>2. TypeOK'
  BY <1>1, Zenon DEF IInv, TypeOK
<1>3. Shape' /\ CommittedInv' /\ EntriesAreCommitted' /\ FindsAreWhole' /\ LockInv' /\ KindInv'
  BY <1>1, CommittedGrows DEF IInv, Shape, CommittedInv, LockInv, KindInv
<1>4. HeldInv'
  BY <1>1 DEF IInv, HeldInv, DeletionDue
<1>5. StaleEntriesHaveACause'
  BY <1>1 DEF StaleEntriesHaveACause, Fresh, FreshFor
<1> QED
  BY <1>2, <1>3, <1>4, <1>5 DEF IInv

\* Every step keeps the invariant, action by action.
LEMMA NextInv == IInv /\ [Next]_vars => IInv'
<1>1. IInv /\ UNCHANGED vars => IInv'
  BY DEF vars, calls, history, IInv, TypeOK, Shape, LockInv, KindInv, CommittedInv,
         EntriesAreCommitted, FindsAreWhole, HeldInv, DeletionDue, StaleEntriesHaveACause, Fresh
<1> QED
  BY <1>1, StartKeeps, FailuresKeep, HitKeeps, LoadKeeps, FillKeeps, ExecKeeps, LateExecKeeps,
     DelKeeps, TxExecKeeps, TxEndKeeps, ExpireKeeps DEF Next
-----------------------------------------------------------------------------
\* The inductive invariant holds in every reachable state.
THEOREM SpecInv == Spec => []IInv
BY InitInv, NextInv, PTL DEF Spec

\* The variables have their types: every statement leaves a row of the table or none, and
\* whatever a reader is handed has exactly the columns its process knows.
THEOREM TypeCorrect == Spec => []TypeOK
<1>1. IInv => TypeOK
  BY DEF IInv
<1> QED
  BY <1>1, SpecInv, PTL

\* The cache disagrees with the database only for one of the documented reasons, with any
\* number of readers, writers, transactions and schema versions.
THEOREM StalenessExplained == Spec => []StaleEntriesHaveACause
<1>1. IInv => StaleEntriesHaveACause
  BY DEF IInv
<1> QED
  BY <1>1, SpecInv, PTL

\* No entry mixes two rows, nor holds a row that was rolled back.
THEOREM EntriesCommitted == Spec => []EntriesAreCommitted
<1>1. IInv => EntriesAreCommitted
  BY DEF IInv
<1> QED
  BY <1>1, SpecInv, PTL

\* No reader gets a column as zero because an older process set the entry.
THEOREM FindsWhole == Spec => []FindsAreWhole
<1>1. IInv => FindsAreWhole
  BY DEF IInv
<1> QED
  BY <1>1, SpecInv, PTL
=============================================================================
