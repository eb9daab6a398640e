------------------------ MODULE ReadModifyWrite_proofs ------------------------
(***************************************************************************)
(* Proofs about ReadModifyWrite for any number of calls, connections and   *)
(* mixes of methods: no update is lost among methods that go together, and *)
(* every call tells its caller the truth.                                  *)
(*                                                                         *)
(* The argument: only the transaction with the row lock changes the row,   *)
(* so its draft is the committed row with one change; where versions are   *)
(* used, a copy with the row's version is the row; and the connection of a *)
(* call is its own until it has read LAST_INSERT_ID() there.               *)
(***************************************************************************)
EXTENDS ReadModifyWrite, FiniteSetTheorems, TLAPS

-----------------------------------------------------------------------------
\* The inductive invariant.

GoldRow == [gold : Int, version : Nat]
ItemRow == [id : Nat, by : Calls]
Single == Methods \ (InTransaction \cup {"insert"})

Typed ==
  /\ row \in GoldRow \cup {None}
  /\ items \in SUBSET ItemRow /\ IsFiniteSet(items)
  /\ nextId \in Nat
  /\ entry \in GoldRow \cup {None}
  /\ lock \in Calls \cup {None}
  /\ draft \in [row : GoldRow \cup {None}, items : SUBSET ItemRow]
  /\ conn \in [Calls -> Connections \cup {None}]
  /\ lastId \in [Connections -> Nat]
  /\ method \in [Calls -> Methods]
  /\ pc \in [Calls -> {"start", "get", "load", "fill", "exec", "del", "begin", "lock", "write",
                       "pay", "item", "id", "commit", "rollback", "end"}]
  /\ base \in [Calls -> GoldRow \cup {None}]
  /\ id \in [Calls -> Nat]
  /\ answer \in [Calls -> {"none", "missing", "found", "refused", "done", "error"}]
  /\ late \in [Calls -> BOOLEAN]
  /\ ledger \in Int
  /\ applied \in [Calls -> Nat]
  /\ missed \in [Calls -> BOOLEAN]

\* The requests of each method, and the row it has read when a request needs one.
Place(c) ==
  /\ pc[c] \in {"get", "load", "fill"} => method[c] \in Versioned \cup {"overwrite", "findOrCreate"}
  /\ pc[c] = "exec" => method[c] \in Single
  /\ pc[c] = "del" => method[c] \notin {"findOrCreate", "insert"}
  /\ pc[c] = "begin" => method[c] \in InTransaction \cup {"insert"}
  /\ pc[c] \in {"lock", "write"} => method[c] = "locked"
  /\ pc[c] = "pay" => method[c] = "purchase"
  /\ pc[c] \in {"item", "id"} => method[c] \in {"purchase", "insert"}
  /\ pc[c] \in {"commit", "rollback"} => method[c] \in InTransaction
  /\ late[c] => pc[c] = "end" /\ method[c] \in Single
  /\ pc[c] = "fill" => base[c] # None
  /\ (pc[c] = "exec" \/ late[c]) /\ method[c] \in Versioned \cup {"overwrite"} => base[c] # None
  /\ late[c] /\ method[c] = "spendIfVersion" => base[c].gold > 0

\* A transaction has a connection of its own and, from its first statement on, the row lock.
InSession == {"lock", "write", "pay", "item", "id", "commit", "rollback"}

Session(c) ==
  /\ pc[c] \in InSession => conn[c] \in Connections
  /\ lock = c => /\ method[c] \in InTransaction
                 /\ pc[c] \in {"write", "item", "id", "commit", "rollback"}
  /\ pc[c] \in {"write", "item", "id", "commit"} /\ method[c] \in InTransaction => lock = c

SessionsApart ==
  \A c, d \in Calls : conn[c] = conn[d] /\ conn[c] # None => c = d

Own(c) == {i \in items : i.by = c}
ItemOf(c, n) == [id |-> n, by |-> c]

\* What the call has done so far, by the request it sends next.
Effects(c) ==
  /\ pc[c] # "end" => answer[c] = "none"
  /\ pc[c] \notin {"id", "del", "end"} => applied[c] = 0 /\ Own(c) = {}
  /\ pc[c] = "id" /\ method[c] = "insert" =>
       applied[c] = 1 /\ Own(c) = {ItemOf(c, lastId[conn[c]])}
  /\ pc[c] = "id" /\ method[c] # "insert" => applied[c] = 0 /\ Own(c) = {}
  /\ pc[c] = "del" =>
       /\ applied[c] <= 1 /\ (applied[c] = 1 \/ missed[c])
       /\ method[c] = "purchase" => Own(c) = {ItemOf(c, id[c])}
  /\ pc[c] = "end" =>
       /\ applied[c] <= 1
       /\ late[c] => applied[c] = 0 /\ answer[c] = "error"
       /\ answer[c] = "done" => applied[c] = 1 \/ missed[c]
       /\ answer[c] \in {"refused", "missing", "found"} => applied[c] = 0 /\ Own(c) = {}
       /\ answer[c] = "done" /\ method[c] \in {"insert", "purchase"} =>
            Own(c) = {ItemOf(c, id[c])}

\* What the transaction that has the row lock will leave: the committed row, changed.
PaidFor == row # None /\ row.gold >= 1 /\ draft.row = [row EXCEPT !.gold = @ - 1]

Drafted(c) ==
  lock = c =>
    /\ pc[c] = "write" =>
         row # None /\ draft.row = row /\ base[c] = row /\ draft.items = {}
    /\ pc[c] = "item" => PaidFor /\ draft.items = {}
    /\ pc[c] = "id" => PaidFor /\ draft.items = {ItemOf(c, lastId[conn[c]])}
    /\ pc[c] = "commit" /\ method[c] = "purchase" =>
         PaidFor /\ draft.items = {ItemOf(c, id[c])}
    /\ pc[c] = "commit" /\ method[c] = "locked" =>
         row # None /\ draft.row = [row EXCEPT !.gold = @ + 1] /\ draft.items = {}

CallInv(c) == Place(c) /\ Session(c) /\ Effects(c) /\ Drafted(c)

\* A copy of the row with the row's version is the row.
Fresh(copy) ==
  copy # None /\ row # None =>
    copy.version <= row.version /\ (copy.version = row.version => copy.gold = row.gold)

\* Where versions are used, every copy is fresh, and before the row is there nobody has one.
Versions ==
  MethodsAgree /\ (\E c \in Calls : method[c] \in Versioned) =>
    /\ Fresh(entry) /\ \A c \in Calls : Fresh(base[c])
    /\ row = None /\ (\A c \in Calls : method[c] # "delete") =>
         entry = None /\ \A c \in Calls : base[c] = None

IInv ==
  /\ Typed
  /\ \A c \in Calls : CallInv(c)
  /\ SessionsApart
  /\ NoUpdateIsLost
  /\ Versions
-----------------------------------------------------------------------------
(***************************************************************************)
(* Small facts                                                             *)
(***************************************************************************)
USE DEF store, tx, caller, books

\* The values of one call.
LEMMA CallTypes ==
  ASSUME Typed, NEW c \in Calls
  PROVE  /\ method[c] \in Methods
         /\ conn[c] \in Connections \cup {None}
         /\ base[c] \in GoldRow \cup {None}
         /\ id[c] \in Nat /\ applied[c] \in Nat
         /\ late[c] \in BOOLEAN /\ missed[c] \in BOOLEAN
BY DEF Typed

\* A row has numbers, and "no row" is not one.
LEMMA RowTypes ==
  ASSUME NEW r \in GoldRow
  PROVE  /\ r # None /\ r.gold \in Int /\ r.version \in Nat
         /\ r = [gold |-> r.gold, version |-> r.version]
         /\ \A n \in Int : [r EXCEPT !.gold = n] = [gold |-> n, version |-> r.version]
BY AccessAssumption DEF GoldRow

\* There is a number of items paid for.
LEMMA PaidCount ==
  ASSUME Typed
  PROVE  IsFiniteSet(Paid) /\ Cardinality(Paid) \in Nat
<1>1. Paid \in SUBSET items /\ IsFiniteSet(items)
  BY DEF Paid, Typed
<1> QED
  BY <1>1, FS_Subset, FS_CardinalityType

\* What it means for the methods that they go together.
LEMMA AgreeingMethods ==
  ASSUME MethodsAgree, NEW c \in Calls
  PROVE  /\ method[c] # "overwrite"
         /\ (\E v \in Calls : method[v] \in Versioned) =>
              /\ method[c] \notin {"incr", "decr", "locked", "purchase"}
              /\ \A d \in Calls : ~(method[c] = "delete" /\ method[d] = "findOrCreate")
BY DEF MethodsAgree

\* Whether they do is settled when the calls are made.
LEMMA SameMethods ==
  ASSUME UNCHANGED method
  PROVE  MethodsAgree' <=> MethodsAgree
BY DEF MethodsAgree

\* While the row, the items and the ledger stay, they agree as before.
LEMMA BooksStay ==
  ASSUME NoUpdateIsLost, UNCHANGED <<row, items, ledger, method>>
  PROVE  NoUpdateIsLost'
BY SameMethods DEF NoUpdateIsLost, Paid

\* Copying the row, the entry and what calls have read makes no stale version.
LEMMA CopiesStayFresh ==
  ASSUME Typed, Versions, UNCHANGED <<row, method>>,
         entry' \in {None, entry} \/ \E c \in Calls : entry' = base[c],
         \A c \in Calls : base'[c] \in {base[c], row, entry}
  PROVE  Versions'
<1> SUFFICES ASSUME MethodsAgree, \E c \in Calls : method[c] \in Versioned
             PROVE  /\ Fresh(entry)' /\ \A c \in Calls : Fresh(base[c])'
                    /\ row' = None /\ (\A c \in Calls : method'[c] # "delete") =>
                         entry' = None /\ \A c \in Calls : base'[c] = None
  BY SameMethods DEF Versions
<1>1. Fresh(entry) /\ \A c \in Calls : Fresh(base[c])
  BY DEF Versions
<1>2. Fresh(row) /\ Fresh(None)
  BY RowTypes DEF Fresh, Typed
<1>3. Fresh(entry)' /\ \A c \in Calls : Fresh(base[c])'
  BY <1>1, <1>2 DEF Fresh
<1>4. ASSUME row' = None, \A c \in Calls : method'[c] # "delete"
      PROVE  entry' = None /\ \A c \in Calls : base'[c] = None
  BY <1>4 DEF Versions
<1> QED
  BY <1>3, <1>4

\* What the step of one call leaves of another: its requests and results, its items, its
\* session, and, when it has the row lock, the row and the draft.
Spares(d) ==
  /\ pc'[d] = pc[d] /\ method'[d] = method[d] /\ base'[d] = base[d] /\ id'[d] = id[d]
  /\ answer'[d] = answer[d] /\ late'[d] = late[d]
  /\ applied'[d] = applied[d] /\ missed'[d] = missed[d]
  /\ conn'[d] = conn[d] /\ Own(d)' = Own(d)
  /\ pc[d] = "id" => lastId'[conn[d]] = lastId[conn[d]]
  /\ lock' = d <=> lock = d
  /\ lock = d => row' = row /\ draft' = draft

\* The invariant of a call that is spared.
LEMMA SparedCall ==
  ASSUME NEW d \in Calls, CallInv(d), Spares(d)
  PROVE  CallInv(d)'
<1>1. Place(d)'
  BY DEF CallInv, Spares, Place
<1>2. Session(d)'
  BY DEF CallInv, Spares, Session
<1>3. Effects(d)'
  BY DEF CallInv, Spares, Effects, ItemOf
<1>4. Drafted(d)'
  <2>1. CASE lock = d
    BY <2>1 DEF CallInv, Spares, Drafted, PaidFor, ItemOf
  <2>2. CASE lock # d
    BY <2>2 DEF Spares, Drafted
  <2> QED
    BY <2>1, <2>2
<1> QED
  BY <1>1, <1>2, <1>3, <1>4 DEF CallInv

\* A step that stays on the client or reads: the store, the transactions and the books are
\* as they were, and so are the other calls.
Quiet(c) ==
  /\ UNCHANGED <<store, tx, method, books>>
  /\ \A d \in Calls \ {c} : /\ pc'[d] = pc[d] /\ base'[d] = base[d] /\ id'[d] = id[d]
                            /\ answer'[d] = answer[d] /\ late'[d] = late[d]

\* A step that touches neither the row nor what others hold keeps the invariant if it keeps its
\* call's part.
LEMMA QuietStep ==
  ASSUME IInv, NEW c \in Calls, Quiet(c), Typed', CallInv(c)', Versions'
  PROVE  IInv'
<1>1. ASSUME NEW d \in Calls, d # c
      PROVE  CallInv(d)'
  <2>1. Spares(d)
    BY <1>1 DEF Quiet, Spares, Own
  <2> QED
    BY <2>1, SparedCall DEF IInv
<1>2. SessionsApart'
  BY DEF IInv, Quiet, SessionsApart
<1>3. NoUpdateIsLost'
  BY BooksStay DEF IInv, Quiet
<1> QED
  BY <1>1, <1>2, <1>3 DEF IInv

\* No statement runs for a call that has the row lock, whose requests are others.
LEMMA NotInTransaction ==
  ASSUME NEW c \in Calls, CallInv(c),
         pc[c] \in {"start", "get", "load", "fill", "exec", "del", "begin", "lock", "pay", "end"}
  PROVE  lock # c
BY DEF CallInv, Session
-----------------------------------------------------------------------------
(***************************************************************************)
(* Calls outside transactions                                              *)
(***************************************************************************)

\* A call begins.
LEMMA StartStep ==
  ASSUME IInv, NEW c \in Calls, StartCall(c)
  PROVE  IInv'
<1>0. Typed /\ CallInv(c) /\ Versions /\ method[c] \in Methods
  BY CallTypes DEF IInv
<1>1. /\ pc[c] = "start" /\ pc' = [pc EXCEPT ![c] = pc'[c]]
      /\ UNCHANGED <<store, entry, tx, method, base, id, answer, late, books>>
  <2>1. PICK r : Next(c, r)
    BY DEF StartCall
  <2>2. pc' = [pc EXCEPT ![c] = pc'[c]]
    BY <1>0, <2>1 DEF Next, Typed
  <2> QED
    BY <2>2 DEF StartCall
<1>2. \/ method[c] \in {"incr", "decr", "delete"} /\ pc'[c] = "exec"
      \/ method[c] \in Versioned \cup {"overwrite", "findOrCreate"} /\ pc'[c] = "get"
      \/ method[c] \in InTransaction \cup {"insert"} /\ pc'[c] = "begin"
  BY <1>0 DEF StartCall, Next, Typed, Methods, Versioned, InTransaction
<1>3. Typed'
  BY <1>0, <1>1, <1>2 DEF Typed
<1>4. CallInv(c)'
  <2>1. Place(c)'
    BY <1>0, <1>1, <1>2 DEF CallInv, Place, Single, Methods, Versioned, InTransaction
  <2>2. Session(c)' /\ Drafted(c)'
    BY <1>0, <1>1, <1>2, NotInTransaction DEF Session, Drafted, InSession
  <2>3. Effects(c)'
    BY <1>0, <1>1, <1>2 DEF CallInv, Effects, Own
  <2> QED
    BY <2>1, <2>2, <2>3 DEF CallInv
<1>5. Versions'
  BY <1>0, <1>1, CopiesStayFresh
<1> QED
  BY <1>0, <1>1, <1>3, <1>4, <1>5, QuietStep DEF Quiet, Typed

\* A step of FindOneByPK: the call has a row at most, and none of the effects yet.
LEMMA FindStep ==
  ASSUME IInv, NEW c \in Calls,
         HitEntry(c) \/ MissEntry(c) \/ LoadRow(c) \/ FillEntry(c)
  PROVE  IInv'
<1>0. Typed /\ CallInv(c) /\ Versions
  BY DEF IInv
<1>1. /\ pc[c] \in {"get", "load", "fill"}
      /\ UNCHANGED <<store, tx, method, id, late, books>>
  BY DEF HitEntry, MissEntry, LoadRow, FillEntry
<1>2. \/ pc'[c] \in {"load", "fill", "exec"} /\ UNCHANGED answer
      \/ pc'[c] = "end" /\ answer'[c] \in {"found", "missing"}
  BY <1>0 DEF HitEntry, MissEntry, LoadRow, FillEntry, AfterFind, Next, Returns, Typed
<1>3. /\ pc' = [pc EXCEPT ![c] = pc'[c]] /\ base' = [base EXCEPT ![c] = base'[c]]
      /\ answer' = [answer EXCEPT ![c] = answer'[c]]
  BY <1>0 DEF HitEntry, MissEntry, LoadRow, FillEntry, AfterFind, Next, Returns, Typed
<1>4. entry' \in {entry, base[c]} /\ base'[c] \in {base[c], row, entry}
  BY <1>0 DEF HitEntry, MissEntry, LoadRow, FillEntry, Typed
<1>5. pc'[c] = "fill" => base'[c] # None
  BY <1>0 DEF HitEntry, MissEntry, LoadRow, FillEntry, AfterFind, Next, Returns, Typed
<1>6. pc'[c] = "exec" => base'[c] # None \/ method[c] = "findOrCreate"
  BY <1>0 DEF HitEntry, MissEntry, LoadRow, FillEntry, AfterFind, Next, Returns, Typed,
              CallInv, Place
<1>7. /\ row \in GoldRow \cup {None} /\ entry \in GoldRow \cup {None}
      /\ base[c] \in GoldRow \cup {None}
  BY <1>0 DEF Typed
<1>8. Typed'
  <2>1. entry' \in GoldRow \cup {None} /\ base' \in [Calls -> GoldRow \cup {None}]
    BY <1>0, <1>3, <1>4, <1>7 DEF Typed
  <2>2. answer' \in [Calls -> {"none", "missing", "found", "refused", "done", "error"}]
    BY <1>0, <1>2, <1>3 DEF Typed
  <2>3. pc' \in [Calls -> {"start", "get", "load", "fill", "exec", "del", "begin", "lock",
                           "write", "pay", "item", "id", "commit", "rollback", "end"}]
    BY <1>0, <1>2, <1>3 DEF Typed
  <2> QED
    BY <1>0, <1>1, <2>1, <2>2, <2>3 DEF Typed
<1>9. CallInv(c)'
  <2>1. method[c] \in Versioned \cup {"overwrite", "findOrCreate"} /\ ~late[c]
    BY <1>0, <1>1 DEF CallInv, Place
  <2>2. Place(c)'
    BY <1>1, <1>2, <1>5, <1>6, <2>1 DEF Place, Single, Methods, Versioned, InTransaction
  <2>3. Session(c)' /\ Drafted(c)'
    BY <1>0, <1>1, <1>2, NotInTransaction DEF Session, Drafted, InSession
  <2>4. Effects(c)'
    BY <1>0, <1>1, <1>2, <2>1 DEF CallInv, Effects, Own
  <2> QED
    BY <2>2, <2>3, <2>4 DEF CallInv
<1>10. Versions'
  <2>1. \A d \in Calls : base'[d] \in {base[d], row, entry}
    BY <1>0, <1>3, <1>4 DEF Typed
  <2> QED
    BY <1>0, <1>1, <1>4, <2>1, CopiesStayFresh
<1> QED
  BY <1>0, <1>1, <1>3, <1>8, <1>9, <1>10, QuietStep DEF Quiet, Typed

\* The client ends the call: nothing to spend, an error, or the entry is deleted.
LEMMA EndStep ==
  ASSUME IInv, NEW c \in Calls,
         NothingToSpend(c) \/ StatementFails(c) \/ DeleteEntry(c)
  PROVE  IInv'
<1>0. Typed /\ CallInv(c) /\ Versions
  BY DEF IInv
<1>1. /\ pc[c] \in {"load", "exec", "del"} /\ pc' = [pc EXCEPT ![c] = "end"]
      /\ UNCHANGED <<store, tx, method, base, id, books>>
      /\ entry' \in {None, entry}
  BY DEF NothingToSpend, StatementFails, DeleteEntry, Returns, Next
<1>2. \/ pc[c] = "exec" /\ answer' = [answer EXCEPT ![c] = "refused"] /\ late' = late
      \/ /\ pc[c] \in {"load", "exec"} /\ answer' = [answer EXCEPT ![c] = "error"]
         /\ \/ late' = late
            \/ pc[c] = "exec" /\ CanSpend(c) /\ late' = [late EXCEPT ![c] = TRUE]
      \/ pc[c] = "del" /\ answer' = [answer EXCEPT ![c] = "done"] /\ late' = late
  BY DEF NothingToSpend, StatementFails, DeleteEntry, Returns
<1>3. Typed'
  <2>1. late' \in [Calls -> BOOLEAN]
    BY <1>0, <1>2 DEF Typed
  <2>2. answer' \in [Calls -> {"none", "missing", "found", "refused", "done", "error"}]
    BY <1>0, <1>2 DEF Typed
  <2>3. entry' \in GoldRow \cup {None}
    BY <1>0, <1>1 DEF Typed
  <2> QED
    BY <1>0, <1>1, <2>1, <2>2, <2>3 DEF Typed
<1>4. CallInv(c)'
  <2>1. ~late[c] /\ (pc[c] = "exec" => method[c] \in Single) /\ pc'[c] = "end"
    BY <1>0, <1>1 DEF CallInv, Place, Typed
  <2>2. \/ pc[c] = "exec" /\ answer'[c] = "refused" /\ ~late'[c]
        \/ pc[c] \in {"load", "exec"} /\ answer'[c] = "error"
        \/ pc[c] = "del" /\ answer'[c] = "done" /\ ~late'[c]
    BY <1>0, <1>2, <2>1 DEF Typed
  <2>3. late'[c] => pc[c] = "exec" /\ CanSpend(c) /\ answer'[c] = "error"
    BY <1>0, <1>2, <2>1 DEF Typed
  <2>4. Place(c)'
    BY <1>0, <1>1, <2>1, <2>3 DEF CallInv, Place, CanSpend
  <2>5. Session(c)' /\ Drafted(c)'
    BY <1>0, <1>1, <2>1, NotInTransaction DEF Session, Drafted, InSession
  <2>6. Effects(c)'
    <3>1. Own(c)' = Own(c) /\ applied'[c] = applied[c] /\ missed'[c] = missed[c]
          /\ id'[c] = id[c] /\ method'[c] = method[c]
      BY <1>1 DEF Own
    <3>2. CASE pc[c] = "del"
      BY <1>0, <2>1, <2>2, <3>1, <3>2 DEF CallInv, Place, Effects, ItemOf
    <3>3. CASE pc[c] # "del"
      BY <1>0, <1>1, <2>1, <2>2, <2>3, <3>1, <3>3 DEF CallInv, Effects
    <3> QED
      BY <3>2, <3>3
  <2> QED
    BY <2>4, <2>5, <2>6 DEF CallInv
<1>5. Versions'
  BY <1>0, <1>1, CopiesStayFresh
<1>6. Quiet(c)
  BY <1>0, <1>1, <1>2 DEF Quiet, Typed
<1> QED
  BY <1>3, <1>4, <1>5, <1>6, QuietStep

\* The TTL of the entry passes.
LEMMA ExpireStep ==
  ASSUME IInv, ExpireEntry
  PROVE  IInv'
<1>0. Typed /\ Versions
  BY DEF IInv
<1>1. /\ entry' = None
      /\ UNCHANGED <<store, tx, method, caller, late, books>>
  BY DEF ExpireEntry
<1>2. Typed'
  BY <1>0, <1>1 DEF Typed
<1>3. Versions'
  BY <1>0, <1>1, CopiesStayFresh
<1>4. \A d \in Calls : CallInv(d)'
  BY <1>1, SparedCall DEF Spares, Own, IInv
<1>5. SessionsApart' /\ NoUpdateIsLost'
  BY <1>1, BooksStay DEF IInv, SessionsApart
<1> QED
  BY <1>2, <1>3, <1>4, <1>5 DEF IInv
-----------------------------------------------------------------------------
(***************************************************************************)
(* Statements outside transactions                                         *)
(***************************************************************************)

\* A statement affects no row, or it is one of these.
Affecting(c) ==
  LET m == method[c] IN
  \/ /\ m = "incr" /\ row # None
     /\ Statement(c) = <<[gold |-> row.gold + 1, version |-> row.version], TRUE>>
  \/ /\ m = "decr" /\ row # None /\ row.gold >= 1
     /\ Statement(c) = <<[gold |-> row.gold - 1, version |-> row.version], TRUE>>
  \/ /\ m = "addIfVersion" /\ row # None /\ row.version = base[c].version
     /\ Statement(c) = <<[gold |-> base[c].gold + 1, version |-> row.version + 1], TRUE>>
  \/ /\ m = "spendIfVersion" /\ row # None /\ row.version = base[c].version
     /\ Statement(c) = <<[gold |-> base[c].gold - 1, version |-> row.version + 1], TRUE>>
  \/ /\ m = "overwrite" /\ row # None
     /\ Statement(c) = <<[gold |-> base[c].gold + 1, version |-> row.version], TRUE>>
  \/ m = "delete" /\ row # None /\ Statement(c) = <<None, TRUE>>
  \/ m = "findOrCreate" /\ row = None /\ Statement(c) = <<NewRow, TRUE>>

\* What a statement needs to have read.
Prepared(c) ==
  /\ method[c] \in Single
  /\ method[c] \in Versioned \cup {"overwrite"} => base[c] # None
  /\ method[c] = "spendIfVersion" => base[c].gold > 0

\* What the statement of each method does to the row.
LEMMA StatementCases ==
  ASSUME Typed, NEW c \in Calls, Prepared(c)
  PROVE  Statement(c) = <<row, FALSE>> \/ Affecting(c)
<1>1. row # None => row \in GoldRow
  BY DEF Typed
<1>2. CASE method[c] = "incr"
  <2>1. Statement(c) = Incremented(row)
    BY <1>2 DEF Statement
  <2>2. row # None => [row EXCEPT !.gold = @ + 1]
                        = [gold |-> row.gold + 1, version |-> row.version]
    BY <1>1, RowTypes
  <2> QED
    BY <1>2, <2>1, <2>2 DEF Incremented, Affecting
<1>3. CASE method[c] = "decr"
  <2>1. Statement(c) = Decremented(row)
    BY <1>3 DEF Statement
  <2>2. row # None => [row EXCEPT !.gold = @ - 1]
                        = [gold |-> row.gold - 1, version |-> row.version]
    BY <1>1, RowTypes
  <2> QED
    BY <1>3, <2>1, <2>2 DEF Decremented, Affecting
<1>4. CASE method[c] = "addIfVersion"
  <2>1. Statement(c) = UpdatedIfVersion(row, base[c], base[c].gold + 1)
    BY <1>4 DEF Statement
  <2> QED
    BY <1>4, <2>1 DEF UpdatedIfVersion, Affecting
<1>5. CASE method[c] = "spendIfVersion"
  <2>1. Statement(c) = UpdatedIfVersion(row, base[c], base[c].gold - 1)
    BY <1>5 DEF Statement
  <2> QED
    BY <1>5, <2>1 DEF UpdatedIfVersion, Affecting
<1>6. CASE method[c] = "overwrite"
  <2>1. Statement(c) = Overwritten(row, base[c].gold + 1)
    BY <1>6 DEF Statement
  <2>2. base[c].gold + 1 \in Int
    BY <1>6, CallTypes, RowTypes DEF Prepared
  <2> QED
    BY <1>1, <1>6, <2>1, <2>2, RowTypes DEF Overwritten, Affecting
<1>7. CASE method[c] = "delete"
  <2>1. Statement(c) = <<None, row # None>>
    BY <1>7 DEF Statement
  <2>2. CASE row = None
    <3>1. (row # None) = FALSE
      BY <2>2
    <3> QED
      BY <2>1, <2>2, <3>1
  <2>3. CASE row # None
    <3>1. (row # None) = TRUE
      BY <2>3
    <3>2. Statement(c) = <<None, TRUE>>
      BY <2>1, <3>1
    <3> QED
      BY <1>7, <2>3, <3>2 DEF Affecting
  <2> QED
    BY <2>2, <2>3
<1>8. CASE method[c] = "findOrCreate"
  <2>1. Statement(c) = IF row = None THEN <<NewRow, TRUE>> ELSE <<row, FALSE>>
    BY <1>8 DEF Statement
  <2> QED
    BY <1>8, <2>1 DEF Affecting
<1> QED
  BY <1>2, <1>3, <1>4, <1>5, <1>6, <1>7, <1>8
     DEF Prepared, Single, Methods, Versioned, InTransaction

\* A statement leaves a row or none, and says whether it affected one.
LEMMA StatementTypes ==
  ASSUME Typed, NEW c \in Calls, Prepared(c)
  PROVE  Statement(c)[1] \in GoldRow \cup {None} /\ Statement(c)[2] \in BOOLEAN
<1>1. row \in GoldRow \cup {None}
  BY DEF Typed
<1>2. CASE Statement(c) = <<row, FALSE>>
  BY <1>1, <1>2
<1>3. CASE Affecting(c)
  <2>1. row # None => row.gold \in Int /\ row.version \in Nat
    BY <1>1, RowTypes
  <2>2. method[c] \in Versioned \cup {"overwrite"} => base[c].gold \in Int
    BY CallTypes, RowTypes DEF Prepared
  <2>3. ASSUME NEW g \in Int, NEW v \in Nat,
               Statement(c) = <<[gold |-> g, version |-> v], TRUE>>
        PROVE  Statement(c)[1] \in GoldRow \cup {None} /\ Statement(c)[2] \in BOOLEAN
    BY <2>3 DEF GoldRow
  <2>4. CASE Statement(c) = <<None, TRUE>>
    BY <2>4
  <2>5. CASE Statement(c) = <<NewRow, TRUE>>
    BY <2>3, <2>5 DEF NewRow
  <2>6. CASE /\ method[c] \in {"incr", "decr"} /\ row # None
             /\ \/ Statement(c) = <<[gold |-> row.gold + 1, version |-> row.version], TRUE>>
                \/ Statement(c) = <<[gold |-> row.gold - 1, version |-> row.version], TRUE>>
    <3>1. row.gold + 1 \in Int /\ row.gold - 1 \in Int /\ row.version \in Nat
      BY <2>1, <2>6
    <3> QED
      BY <2>3, <2>6, <3>1
  <2>7. CASE /\ method[c] \in Versioned \cup {"overwrite"} /\ row # None
             /\ \E v \in {row.version, row.version + 1} :
                  \/ Statement(c) = <<[gold |-> base[c].gold + 1, version |-> v], TRUE>>
                  \/ Statement(c) = <<[gold |-> base[c].gold - 1, version |-> v], TRUE>>
    <3>1. base[c].gold + 1 \in Int /\ base[c].gold - 1 \in Int
          /\ row.version \in Nat /\ row.version + 1 \in Nat
      BY <2>1, <2>2, <2>7
    <3> QED
      BY <2>3, <2>7, <3>1
  <2> QED
    BY <1>3, <2>4, <2>5, <2>6, <2>7 DEF Affecting, Versioned
<1> QED
  BY <1>2, <1>3, StatementCases

\* The gold of the row and the ledger change together.
LEMMA StatementBooks ==
  ASSUME IInv, NEW c \in Calls, Prepared(c),
         row' = Statement(c)[1], Applies(c, Statement(c)[2]), UNCHANGED <<items, method>>
  PROVE  NoUpdateIsLost' /\ ledger' \in Int
<1>0. Typed /\ NoUpdateIsLost /\ Versions
  BY DEF IInv
<1>1. row \in GoldRow \cup {None} /\ ledger \in Int
  BY <1>0 DEF Typed
<1>2. row # None => row.gold \in Int /\ row.version \in Nat
  BY <1>1, RowTypes
<1>3. Paid' = Paid /\ Cardinality(Paid) \in Nat
  BY <1>0, PaidCount DEF Paid
<1> DEFINE n == Cardinality(Paid)
<1>4. n \in Nat /\ Cardinality(Paid)' = n
  BY <1>3
<1> HIDE DEF n
<1>5. MethodsAgree /\ row # None => row.gold = ledger - n /\ row.gold >= 0
  BY <1>0 DEF NoUpdateIsLost, n
<1>6. SUFFICES /\ ledger' \in Int
               /\ MethodsAgree /\ row' # None => row'.gold = ledger' - n /\ row'.gold >= 0
  BY <1>4, SameMethods DEF NoUpdateIsLost
<1>7. CASE Statement(c) = <<row, FALSE>>
  <2>1. row' = row /\ ledger' = ledger
    BY <1>7 DEF Applies
  <2> QED
    BY <1>1, <1>5, <2>1
<1>8. CASE Affecting(c)
  <2>1. ledger' = Entered(method[c])
    <3>1. PICK x : Statement(c) = <<x, TRUE>>
      BY <1>8 DEF Affecting
    <3>2. Statement(c)[2] = TRUE
      BY <3>1
    <3> QED
      BY <3>2 DEF Applies
  <2>2. CASE method[c] = "incr"
    <3>1. row # None /\ row' = [gold |-> row.gold + 1, version |-> row.version]
      BY <1>8, <2>2 DEF Affecting
    <3>2. ledger' = ledger + 1 /\ row'.gold = row.gold + 1
      BY <2>1, <2>2, <3>1 DEF Entered
    <3> QED
      BY <1>1, <1>2, <1>4, <1>5, <3>1, <3>2
  <2>3. CASE method[c] = "decr"
    <3>1. /\ row # None /\ row.gold >= 1
          /\ row' = [gold |-> row.gold - 1, version |-> row.version]
      BY <1>8, <2>3 DEF Affecting
    <3>2. ledger' = ledger - 1 /\ row'.gold = row.gold - 1
      BY <2>1, <2>3, <3>1 DEF Entered
    <3> QED
      BY <1>1, <1>2, <1>4, <1>5, <3>1, <3>2
  <2>4. CASE method[c] \in Versioned
    <3>1. base[c] \in GoldRow
      BY <2>4, <1>0, CallTypes DEF Prepared
    <3>2. base[c] # None /\ base[c].gold \in Int /\ base[c].version \in Nat
      BY <3>1, RowTypes
    <3>3. row # None /\ row.version = base[c].version
      BY <1>8, <2>4 DEF Affecting, Versioned
    <3>4. MethodsAgree => base[c].gold = row.gold
      BY <1>0, <1>2, <2>4, <3>2, <3>3 DEF Versions, Fresh
    <3>5. CASE method[c] = "addIfVersion"
      <4>1. row' = [gold |-> base[c].gold + 1, version |-> row.version + 1]
        BY <1>8, <3>5 DEF Affecting
      <4>2. ledger' = ledger + 1 /\ row'.gold = base[c].gold + 1
        BY <2>1, <3>5, <4>1 DEF Entered
      <4> QED
        BY <1>1, <1>2, <1>4, <1>5, <3>2, <3>3, <3>4, <4>2
    <3>6. CASE method[c] = "spendIfVersion"
      <4>1. row' = [gold |-> base[c].gold - 1, version |-> row.version + 1]
        BY <1>8, <3>6 DEF Affecting
      <4>2. ledger' = ledger - 1 /\ row'.gold = base[c].gold - 1
        BY <2>1, <3>6, <4>1 DEF Entered
      <4>3. base[c].gold > 0
        BY <3>6 DEF Prepared
      <4> QED
        BY <1>1, <1>2, <1>4, <1>5, <3>2, <3>3, <3>4, <4>2, <4>3
    <3> QED
      BY <2>4, <3>5, <3>6 DEF Versioned
  <2>5. CASE method[c] = "overwrite"
    <3>1. ~MethodsAgree
      BY <2>5, AgreeingMethods
    <3>2. ledger' = ledger + 1
      BY <2>1, <2>5 DEF Entered
    <3> QED
      BY <1>1, <3>1, <3>2
  <2>6. CASE method[c] = "delete"
    <3>1. row' = None
      BY <1>8, <2>6 DEF Affecting
    <3>2. ledger' = ledger
      BY <2>1, <2>6 DEF Entered
    <3> QED
      BY <1>1, <3>1, <3>2
  <2>7. CASE method[c] = "findOrCreate"
    <3>1. row' = NewRow
      BY <1>8, <2>7 DEF Affecting
    <3>2. ledger' = n /\ row'.gold = 0
      BY <2>1, <2>7, <3>1 DEF Entered, NewRow, n
    <3> QED
      BY <1>4, <3>2
  <2> QED
    BY <2>2, <2>3, <2>4, <2>5, <2>6, <2>7
       DEF Prepared, Single, Methods, Versioned, InTransaction
<1> QED
  BY <1>0, <1>7, <1>8, StatementCases

\* Every statement that changes a row with a version, among methods that go together, raises
\* the version, so that no copy taken before has it.
LEMMA StatementVersions ==
  ASSUME IInv, NEW c \in Calls, Prepared(c),
         row' = Statement(c)[1], UNCHANGED <<method, base, entry>>
  PROVE  Versions'
<1>0. Typed /\ Versions
  BY DEF IInv
<1> SUFFICES ASSUME MethodsAgree, \E v \in Calls : method[v] \in Versioned
             PROVE  /\ Fresh(entry)' /\ \A d \in Calls : Fresh(base[d])'
                    /\ row' = None /\ (\A d \in Calls : method'[d] # "delete") =>
                         entry' = None /\ \A d \in Calls : base'[d] = None
  BY SameMethods DEF Versions
<1>1. row \in GoldRow \cup {None} /\ entry \in GoldRow \cup {None}
      /\ \A d \in Calls : base[d] \in GoldRow \cup {None}
  BY <1>0 DEF Typed
<1>2. /\ Fresh(entry) /\ \A d \in Calls : Fresh(base[d])
      /\ row = None /\ (\A d \in Calls : method[d] # "delete") =>
           entry = None /\ \A d \in Calls : base[d] = None
  BY <1>0 DEF Versions
<1>3. CASE Statement(c) = <<row, FALSE>>
  <2>1. row' = row
    BY <1>3
  <2> QED
    BY <1>2, <2>1 DEF Fresh
<1>4. CASE Affecting(c)
  <2>1. method[c] \notin {"incr", "decr", "overwrite"}
    BY AgreeingMethods
  <2>2. CASE method[c] \in Versioned
    <3>1. row # None /\ row'.version = row.version + 1 /\ row' # None
      <4>1. row # None /\ row.version \in Nat
        BY <1>1, <1>4, <2>2, RowTypes DEF Affecting, Versioned
      <4>2. base[c].gold \in Int
        BY <2>2, <1>1, RowTypes DEF Prepared
      <4>3. \E g \in Int : row' = [gold |-> g, version |-> row.version + 1]
        <5>1. base[c].gold + 1 \in Int /\ base[c].gold - 1 \in Int
          BY <4>2
        <5>2. \/ row' = [gold |-> base[c].gold + 1, version |-> row.version + 1]
              \/ row' = [gold |-> base[c].gold - 1, version |-> row.version + 1]
          <6>1. CASE method[c] = "addIfVersion"
            <7>1. Statement(c)
                    = <<[gold |-> base[c].gold + 1, version |-> row.version + 1], TRUE>>
              BY <1>4, <6>1 DEF Affecting
            <7> QED
              BY <7>1
          <6>2. CASE method[c] = "spendIfVersion"
            <7>1. Statement(c)
                    = <<[gold |-> base[c].gold - 1, version |-> row.version + 1], TRUE>>
              BY <1>4, <6>2 DEF Affecting
            <7> QED
              BY <7>1
          <6> QED
            BY <2>2, <6>1, <6>2 DEF Versioned
        <5> QED
          BY <5>1, <5>2
      <4>4. row' \in GoldRow
        BY <4>1, <4>3 DEF GoldRow
      <4> QED
        BY <4>1, <4>3, <4>4, RowTypes
    <3>2. ASSUME NEW copy \in GoldRow \cup {None}, Fresh(copy)
          PROVE  copy # None /\ row' # None =>
                   /\ copy.version <= row'.version
                   /\ copy.version = row'.version => copy.gold = row'.gold
      <4>1. copy # None => copy.version \in Nat
        BY RowTypes
      <4>2. row.version \in Nat
        BY <1>1, <3>1, RowTypes
      <4> QED
        BY <3>1, <3>2, <4>1, <4>2 DEF Fresh
    <3> QED
      BY <1>1, <1>2, <3>1, <3>2 DEF Fresh
  <2>3. CASE method[c] = "delete"
    <3>1. row' = None
      BY <1>4, <2>3 DEF Affecting
    <3> QED
      BY <2>3, <3>1 DEF Fresh
  <2>4. CASE method[c] = "findOrCreate"
    <3>1. row = None /\ row' = NewRow
      BY <1>4, <2>4 DEF Affecting
    <3>2. \A d \in Calls : method[d] # "delete"
      BY <2>4, AgreeingMethods
    <3>3. entry = None /\ \A d \in Calls : base[d] = None
      BY <1>2, <3>1, <3>2
    <3>4. NewRow # None
      BY RowTypes DEF NewRow, GoldRow
    <3> QED
      BY <3>1, <3>3, <3>4 DEF Fresh
  <2> QED
    BY <2>1, <2>2, <2>3, <2>4 DEF Prepared, Single, Methods, Versioned, InTransaction
<1> QED
  BY <1>0, <1>3, <1>4, StatementCases

\* A statement that runs counts as an effect of its call if it affected the row.
LEMMA StatementCounts ==
  ASSUME Typed, NEW c \in Calls, Prepared(c), applied[c] = 0, Applies(c, Statement(c)[2])
  PROVE  /\ applied' \in [Calls -> Nat] /\ missed' \in [Calls -> BOOLEAN]
         /\ applied'[c] = IF Statement(c)[2] THEN 1 ELSE 0
         /\ missed'[c] <=> ~Statement(c)[2] /\ IgnoresAffected(method[c])
         /\ \A d \in Calls \ {c} : applied'[d] = applied[d] /\ missed'[d] = missed[d]
<1>1. Statement(c)[2] \in BOOLEAN
  BY StatementTypes
<1>2. /\ applied' \in [Calls -> Nat]
      /\ applied'[c] = IF Statement(c)[2] THEN 1 ELSE 0
      /\ \A d \in Calls \ {c} : applied'[d] = applied[d]
  BY DEF Applies, Typed
<1>3. /\ missed' \in [Calls -> BOOLEAN]
      /\ missed'[c] <=> ~Statement(c)[2] /\ IgnoresAffected(method[c])
      /\ \A d \in Calls \ {c} : missed'[d] = missed[d]
  <2> DEFINE m == ~Statement(c)[2] /\ IgnoresAffected(method[c])
  <2>1. missed' = [missed EXCEPT ![c] = m] /\ m \in BOOLEAN
    BY DEF Applies
  <2> HIDE DEF m
  <2>2. missed \in [Calls -> BOOLEAN]
    BY DEF Typed
  <2>3. missed' \in [Calls -> BOOLEAN] /\ missed'[c] = m
        /\ \A d \in Calls \ {c} : missed'[d] = missed[d]
    BY <2>1, <2>2
  <2> QED
    BY <2>3 DEF m
<1> QED
  BY <1>2, <1>3

\* Nothing of another call changes when a statement runs outside transactions: none has the
\* row lock.
LEMMA StatementSpares ==
  ASSUME IInv, NEW c \in Calls, NEW d \in Calls, d # c, lock = None,
         UNCHANGED <<items, tx, method, base, id>>,
         pc'[d] = pc[d] /\ answer'[d] = answer[d] /\ late'[d] = late[d],
         applied'[d] = applied[d] /\ missed'[d] = missed[d]
  PROVE  CallInv(d)'
<1>1. lock # d
  BY AccessAssumption
<1> QED
  BY <1>1, SparedCall DEF Spares, Own, IInv

\* A statement runs and its reply arrives.
LEMMA ExecStep ==
  ASSUME IInv, NEW c \in Calls, ExecStatement(c)
  PROVE  IInv'
<1>0. Typed /\ CallInv(c)
  BY DEF IInv
<1>1. /\ pc[c] = "exec" /\ lock = None /\ CanSpend(c)
      /\ row' = Statement(c)[1] /\ Applies(c, Statement(c)[2])
      /\ UNCHANGED <<items, nextId, entry, tx, method, base, id, late>>
  BY DEF ExecStatement
<1>2. Prepared(c) /\ applied[c] = 0 /\ ~late[c] /\ answer[c] = "none"
      /\ Own(c) = {}
  BY <1>0, <1>1 DEF CallInv, Place, Effects, Prepared, CanSpend
<1> DEFINE hit == Statement(c)[2]
<1>3. hit \in BOOLEAN /\ row' \in GoldRow \cup {None}
  BY <1>0, <1>1, <1>2, StatementTypes
<1>4. \/ Next(c, "del") /\ UNCHANGED answer /\ Invalidates(method[c], hit)
      \/ Next(c, "get") /\ UNCHANGED answer /\ ~hit /\ method[c] \in Versioned
      \/ Returns(c, "refused") /\ ~hit /\ ~IgnoresAffected(method[c])
      \/ Returns(c, "done") /\ hit /\ method[c] = "findOrCreate"
  <2> HIDE DEF hit
  <2>1. CASE \/ Invalidates(method[c], hit) /\ Next(c, "del") /\ UNCHANGED answer
             \/ ~hit /\ method[c] \in Versioned /\ Next(c, "get") /\ UNCHANGED answer
             \/ ~hit /\ method[c] = "decr" /\ Returns(c, "refused")
             \/ method[c] = "findOrCreate" /\ Returns(c, IF hit THEN "done" ELSE "refused")
    BY <2>1 DEF IgnoresAffected
  <2>2. \/ Invalidates(method[c], hit)
        \/ ~hit /\ method[c] \in Versioned
        \/ ~hit /\ method[c] = "decr"
        \/ method[c] = "findOrCreate"
    BY <1>2 DEF Prepared, Single, Methods, Versioned, InTransaction, Invalidates, IgnoresAffected
  <2>3. CASE Invalidates(method[c], hit) /\ Next(c, "del") /\ UNCHANGED answer
    BY <2>1, <2>3
  <2> QED
    BY <2>1, <2>2 DEF ExecStatement, hit
<1>5. /\ applied' \in [Calls -> Nat] /\ missed' \in [Calls -> BOOLEAN]
      /\ applied'[c] = IF hit THEN 1 ELSE 0
      /\ missed'[c] <=> ~hit /\ IgnoresAffected(method[c])
      /\ \A d \in Calls \ {c} : applied'[d] = applied[d] /\ missed'[d] = missed[d]
  BY <1>0, <1>1, <1>2, StatementCounts
<1> HIDE DEF hit
<1>6. NoUpdateIsLost' /\ ledger' \in Int /\ Versions'
  BY <1>1, <1>2, StatementBooks, StatementVersions
<1>7. Typed'
  <2>1. /\ pc' \in [Calls -> {"start", "get", "load", "fill", "exec", "del", "begin", "lock",
                              "write", "pay", "item", "id", "commit", "rollback", "end"}]
        /\ answer' \in [Calls -> {"none", "missing", "found", "refused", "done", "error"}]
    BY <1>0, <1>4 DEF Typed, Next, Returns
  <2> QED
    BY <1>0, <1>1, <1>3, <1>5, <1>6, <2>1 DEF Typed
<1>8. CallInv(c)'
  <2>1. \/ pc'[c] = "del" /\ answer'[c] = "none" /\ Invalidates(method[c], hit)
        \/ pc'[c] = "get" /\ answer'[c] = "none" /\ ~hit /\ method[c] \in Versioned
        \/ pc'[c] = "end" /\ answer'[c] = "refused" /\ ~hit
        \/ pc'[c] = "end" /\ answer'[c] = "done" /\ hit /\ method[c] = "findOrCreate"
    BY <1>0, <1>2, <1>4 DEF Typed, Next, Returns
  <2>2. Place(c)'
    BY <1>1, <1>2, <2>1 DEF Place, Prepared, Single, Methods, Versioned, InTransaction,
                            Invalidates, IgnoresAffected
  <2>3. Session(c)' /\ Drafted(c)'
    BY <1>0, <1>1, <2>1, NotInTransaction DEF Session, Drafted, InSession
  <2>4. Effects(c)'
    <3>1. Own(c)' = {} /\ method'[c] = method[c] /\ ~late'[c]
          /\ method[c] \notin {"insert", "purchase"}
      BY <1>1, <1>2 DEF Own, Prepared, Single, InTransaction
    <3> QED
      BY <1>3, <1>5, <2>1, <3>1 DEF Effects, Invalidates, Versioned, IgnoresAffected
  <2> QED
    BY <2>2, <2>3, <2>4 DEF CallInv
<1>9. ASSUME NEW d \in Calls, d # c
      PROVE  CallInv(d)'
  <2>1. pc'[d] = pc[d] /\ answer'[d] = answer[d]
    BY <1>0, <1>4, <1>9 DEF Typed, Next, Returns
  <2> QED
    BY <1>1, <1>5, <1>9, <2>1, StatementSpares
<1>10. SessionsApart'
  BY <1>1 DEF IInv, SessionsApart
<1> QED
  BY <1>6, <1>7, <1>8, <1>9, <1>10 DEF IInv

\* A statement whose client has gone runs.
LEMMA LateStep ==
  ASSUME IInv, NEW c \in Calls, LateStatement(c)
  PROVE  IInv'
<1>0. Typed /\ CallInv(c)
  BY DEF IInv
<1>1. /\ late[c] /\ lock = None
      /\ late' = [late EXCEPT ![c] = FALSE]
      /\ row' = Statement(c)[1] /\ Applies(c, Statement(c)[2])
      /\ UNCHANGED <<items, nextId, entry, tx, method, caller>>
  BY DEF LateStatement
<1>2. Prepared(c) /\ applied[c] = 0 /\ pc[c] = "end" /\ answer[c] = "error"
  BY <1>0, <1>1 DEF CallInv, Place, Effects, Prepared
<1> DEFINE hit == Statement(c)[2]
<1>3. hit \in BOOLEAN /\ row' \in GoldRow \cup {None}
  BY <1>0, <1>1, <1>2, StatementTypes
<1>4. /\ applied' \in [Calls -> Nat] /\ missed' \in [Calls -> BOOLEAN]
      /\ applied'[c] = IF hit THEN 1 ELSE 0
      /\ \A d \in Calls \ {c} : applied'[d] = applied[d] /\ missed'[d] = missed[d]
  BY <1>0, <1>1, <1>2, StatementCounts
<1> HIDE DEF hit
<1>5. NoUpdateIsLost' /\ ledger' \in Int /\ Versions'
  BY <1>1, <1>2, StatementBooks, StatementVersions
<1>6. late' \in [Calls -> BOOLEAN] /\ ~late'[c] /\ \A d \in Calls \ {c} : late'[d] = late[d]
  BY <1>0, <1>1 DEF Typed
<1>7. Typed'
  BY <1>0, <1>1, <1>3, <1>4, <1>5, <1>6 DEF Typed
<1>8. CallInv(c)'
  <2>1. Place(c)'
    BY <1>1, <1>2, <1>6 DEF Place
  <2>2. Session(c)' /\ Drafted(c)'
    BY <1>0, <1>1, <1>2, NotInTransaction DEF Session, Drafted, InSession
  <2>3. Effects(c)'
    BY <1>1, <1>2, <1>3, <1>4, <1>6 DEF Effects
  <2> QED
    BY <2>1, <2>2, <2>3 DEF CallInv
<1>9. ASSUME NEW d \in Calls, d # c
      PROVE  CallInv(d)'
  BY <1>1, <1>4, <1>6, <1>9, StatementSpares
<1>10. SessionsApart'
  BY <1>1 DEF IInv, SessionsApart
<1> QED
  BY <1>5, <1>7, <1>8, <1>9, <1>10 DEF IInv
-----------------------------------------------------------------------------
(***************************************************************************)
(* Transactions                                                            *)
(***************************************************************************)

\* The row lock goes to a call that finds it free; its view is then the committed row.
LEMMA LockIsFree ==
  ASSUME NEW c \in Calls, CallInv(c), pc[c] \in {"lock", "pay"}, lock \in {None, c}
  PROVE  lock = None /\ View(c) = [row |-> row, items |-> {}]
BY NotInTransaction DEF View

\* The connections of the calls stay apart when one takes a free one or gives its own back.
LEMMA ConnectionsApart ==
  ASSUME Typed, SessionsApart, NEW c \in Calls,
         NEW k \in FreeConnections \cup {None}, conn' = [conn EXCEPT ![c] = k]
  PROVE  /\ conn' \in [Calls -> Connections \cup {None}] /\ SessionsApart'
         /\ conn'[c] = k /\ \A d \in Calls \ {c} : conn'[d] = conn[d]
<1>1. /\ conn' \in [Calls -> Connections \cup {None}] /\ conn'[c] = k
      /\ \A d \in Calls \ {c} : conn'[d] = conn[d]
  BY DEF Typed, FreeConnections
<1>2. k = None \/ \A d \in Calls : conn[d] # k
  BY DEF FreeConnections
<1>3. SessionsApart'
  <2> SUFFICES ASSUME NEW d \in Calls, NEW e \in Calls, conn'[d] = conn'[e], conn'[d] # None
               PROVE  d = e
    BY DEF SessionsApart
  <2>1. CASE d = c \/ e = c
    BY <1>1, <1>2, <2>1
  <2>2. CASE d # c /\ e # c
    BY <1>1, <2>2 DEF SessionsApart
  <2> QED
    BY <2>1, <2>2
<1> QED
  BY <1>1, <1>3

\* A transaction or an InsertReturningID begins.
LEMMA BeginStep ==
  ASSUME IInv, NEW c \in Calls, Begin(c)
  PROVE  IInv'
<1>0. Typed /\ CallInv(c) /\ Versions /\ SessionsApart /\ NoUpdateIsLost
  BY DEF IInv
<1>1. /\ pc[c] = "begin"
      /\ UNCHANGED <<store, entry, lock, draft, lastId, method, base, id, answer, late, books>>
  BY DEF Begin
<1>2. PICK k \in FreeConnections : conn' = [conn EXCEPT ![c] = k]
  BY DEF Begin
<1>3. method[c] \in InTransaction \cup {"insert"}
  BY <1>0, <1>1 DEF CallInv, Place
<1>4. \/ method[c] = "locked" /\ Next(c, "lock")
      \/ method[c] = "purchase" /\ Next(c, "pay")
      \/ method[c] = "insert" /\ Next(c, "item")
  BY <1>3 DEF Begin, InTransaction
<1>5. /\ \/ method[c] = "locked" /\ pc'[c] = "lock"
         \/ method[c] = "purchase" /\ pc'[c] = "pay"
         \/ method[c] = "insert" /\ pc'[c] = "item"
      /\ \A d \in Calls \ {c} : pc'[d] = pc[d]
  BY <1>0, <1>4 DEF Next, Typed
<1>6. /\ conn' \in [Calls -> Connections \cup {None}] /\ SessionsApart'
      /\ conn'[c] = k /\ \A d \in Calls \ {c} : conn'[d] = conn[d]
  BY <1>0, <1>2, ConnectionsApart
<1>7. Typed'
  <2>1. pc' \in [Calls -> {"start", "get", "load", "fill", "exec", "del", "begin", "lock",
                           "write", "pay", "item", "id", "commit", "rollback", "end"}]
    BY <1>0, <1>4 DEF Next, Typed
  <2> QED
    BY <1>0, <1>1, <1>6, <2>1 DEF Typed
<1>8. CallInv(c)'
  <2>1. lock # c
    BY <1>0, <1>1, NotInTransaction
  <2>2. Place(c)'
    BY <1>0, <1>1, <1>5 DEF CallInv, Place
  <2>3. Session(c)' /\ Drafted(c)'
    BY <1>1, <1>5, <1>6, <2>1 DEF Session, Drafted, InSession, FreeConnections, InTransaction
  <2>4. Effects(c)'
    BY <1>0, <1>1, <1>5 DEF CallInv, Effects, Own
  <2> QED
    BY <2>2, <2>3, <2>4 DEF CallInv
<1>9. ASSUME NEW d \in Calls, d # c
      PROVE  CallInv(d)'
  BY <1>1, <1>5, <1>6, <1>9, SparedCall DEF Spares, Own, IInv
<1>10. NoUpdateIsLost' /\ Versions'
  BY <1>0, <1>1, BooksStay, CopiesStayFresh
<1> QED
  BY <1>6, <1>7, <1>8, <1>9, <1>10 DEF IInv

\* A statement of a transaction that changes its draft only, and what it leaves of others.
LEMMA DraftStep ==
  ASSUME IInv, NEW c \in Calls, NEW r,
         lock \in {None, c}, lock' = c, Next(c, r),
         UNCHANGED <<store, entry, conn, lastId, method, id, answer, late, books>>,
         base' = base \/ base' = [base EXCEPT ![c] = row],
         Typed', CallInv(c)'
  PROVE  IInv'
<1>0. Typed /\ Versions /\ SessionsApart /\ NoUpdateIsLost
  BY DEF IInv
<1>1. \A d \in Calls \ {c} : pc'[d] = pc[d] /\ base'[d] = base[d] /\ lock # d
  BY <1>0, AccessAssumption DEF Next, Typed
<1>2. ASSUME NEW d \in Calls, d # c
      PROVE  CallInv(d)'
  BY <1>1, <1>2, SparedCall DEF Spares, Own, IInv
<1>3. NoUpdateIsLost'
  BY <1>0, BooksStay
<1>4. Versions'
  <2>1. \A d \in Calls : base'[d] \in {base[d], row, entry}
    BY <1>0 DEF Typed
  <2> QED
    BY <1>0, <2>1, CopiesStayFresh
<1>5. SessionsApart'
  BY <1>0 DEF SessionsApart
<1> QED
  BY <1>2, <1>3, <1>4, <1>5 DEF IInv

\* SELECT ... FOR UPDATE.
LEMMA LockStep ==
  ASSUME IInv, NEW c \in Calls, FindForUpdate(c)
  PROVE  IInv'
<1>0. Typed /\ CallInv(c)
  BY DEF IInv
<1>1. /\ pc[c] = "lock" /\ lock \in {None, c} /\ lock' = c /\ draft' = View(c)
      /\ base' = [base EXCEPT ![c] = row]
      /\ UNCHANGED <<store, entry, conn, lastId, method, id, answer, late, books>>
  BY DEF FindForUpdate, LocksAndLeaves
<1>2. PICK r \in {"rollback", "write"} : Next(c, r) /\ (r = "write" => row # None)
  BY DEF FindForUpdate
<1>3. draft' = [row |-> row, items |-> {}]
  BY <1>0, <1>1, LockIsFree
<1>4. pc'[c] = r /\ base'[c] = row
  BY <1>0, <1>1, <1>2 DEF Next, Typed
<1>5. Typed'
  <2>1. pc' \in [Calls -> {"start", "get", "load", "fill", "exec", "del", "begin", "lock",
                           "write", "pay", "item", "id", "commit", "rollback", "end"}]
    BY <1>0, <1>2 DEF Next, Typed
  <2>2. draft' \in [row : GoldRow \cup {None}, items : SUBSET ItemRow]
    BY <1>0, <1>3 DEF Typed
  <2>3. base' \in [Calls -> GoldRow \cup {None}]
    BY <1>0, <1>1 DEF Typed
  <2> QED
    BY <1>0, <1>1, <2>1, <2>2, <2>3 DEF Typed
<1>6. CallInv(c)'
  <2>1. method[c] = "locked" /\ conn[c] \in Connections
    BY <1>0, <1>1 DEF CallInv, Place, Session, InSession
  <2>2. Place(c)'
    BY <1>0, <1>1, <1>2, <1>4, <2>1 DEF CallInv, Place, InTransaction
  <2>3. Session(c)'
    BY <1>1, <1>2, <1>4, <2>1 DEF Session, InSession, InTransaction
  <2>4. Effects(c)'
    BY <1>0, <1>1, <1>2, <1>4 DEF CallInv, Effects, Own
  <2>5. Drafted(c)'
    BY <1>1, <1>2, <1>3, <1>4 DEF Drafted
  <2> QED
    BY <2>2, <2>3, <2>4, <2>5 DEF CallInv
<1>7. base' = base \/ base' = [base EXCEPT ![c] = row]
  BY <1>1
<1>8. Next(c, r) /\ lock \in {None, c} /\ lock' = c
      /\ UNCHANGED <<store, entry, conn, lastId, method, id, answer, late, books>>
  BY <1>1, <1>2
<1> QED
  BY <1>5, <1>6, <1>7, <1>8, DraftStep

\* The UPDATE under the row lock.
LEMMA WriteStep ==
  ASSUME IInv, NEW c \in Calls, WriteLocked(c)
  PROVE  IInv'
<1>0. Typed /\ CallInv(c)
  BY DEF IInv
<1>1. /\ pc[c] = "write" /\ lock' = c /\ Next(c, "commit")
      /\ draft' = [View(c) EXCEPT !.row = Overwritten(@, base[c].gold + 1)[1]]
      /\ UNCHANGED <<store, entry, conn, lastId, method, base, id, answer, late, books>>
  BY DEF WriteLocked, LocksAndLeaves
<1>2. method[c] = "locked" /\ conn[c] \in Connections /\ lock = c
  BY <1>0, <1>1 DEF CallInv, Place, Session, InSession, InTransaction
<1>3. row # None /\ draft.row = row /\ base[c] = row /\ draft.items = {}
  BY <1>0, <1>1, <1>2 DEF CallInv, Drafted
<1>4. row \in GoldRow /\ row.gold \in Int
  BY <1>0, <1>3, RowTypes DEF Typed
<1>5. draft'.row = [row EXCEPT !.gold = @ + 1] /\ draft'.items = {}
      /\ draft' \in [row : GoldRow \cup {None}, items : SUBSET ItemRow]
  <2>1. View(c) = draft
    BY <1>2 DEF View
  <2>2. Overwritten(row, row.gold + 1)[1] = [row EXCEPT !.gold = @ + 1]
    BY <1>3 DEF Overwritten
  <2>3. [row EXCEPT !.gold = @ + 1] \in GoldRow
    BY <1>4 DEF GoldRow
  <2>4. draft' = [draft EXCEPT !.row = [row EXCEPT !.gold = @ + 1]]
    BY <1>1, <1>3, <2>1, <2>2
  <2>5. draft \in [row : GoldRow \cup {None}, items : SUBSET ItemRow]
    BY <1>0 DEF Typed
  <2> QED
    BY <1>3, <2>3, <2>4, <2>5
<1>6. pc'[c] = "commit"
  BY <1>0, <1>1 DEF Next, Typed
<1>7. Typed'
  <2>1. pc' \in [Calls -> {"start", "get", "load", "fill", "exec", "del", "begin", "lock",
                           "write", "pay", "item", "id", "commit", "rollback", "end"}]
    BY <1>0, <1>1 DEF Next, Typed
  <2> QED
    BY <1>0, <1>1, <1>5, <2>1 DEF Typed
<1>8. CallInv(c)'
  <2>1. Place(c)'
    BY <1>0, <1>1, <1>2, <1>6 DEF CallInv, Place, InTransaction
  <2>2. Session(c)'
    BY <1>1, <1>2, <1>6 DEF Session, InSession, InTransaction
  <2>3. Effects(c)'
    BY <1>0, <1>1, <1>6 DEF CallInv, Effects, Own
  <2>4. Drafted(c)'
    BY <1>1, <1>2, <1>3, <1>5, <1>6 DEF Drafted
  <2> QED
    BY <2>1, <2>2, <2>3, <2>4 DEF CallInv
<1> QED
  BY <1>1, <1>2, <1>7, <1>8, DraftStep

\* The payment.
LEMMA PayStep ==
  ASSUME IInv, NEW c \in Calls, Pay(c)
  PROVE  IInv'
<1>0. Typed /\ CallInv(c)
  BY DEF IInv
<1>1. /\ pc[c] = "pay" /\ lock \in {None, c} /\ lock' = c
      /\ draft' = [View(c) EXCEPT !.row = Decremented(View(c).row)[1]]
      /\ Next(c, IF Decremented(View(c).row)[2] THEN "item" ELSE "rollback")
      /\ UNCHANGED <<store, entry, conn, lastId, method, base, id, answer, late, books>>
  BY DEF Pay, LocksAndLeaves
<1>2. method[c] = "purchase" /\ conn[c] \in Connections
  BY <1>0, <1>1 DEF CallInv, Place, Session, InSession
<1>3. View(c) = [row |-> row, items |-> {}]
  BY <1>0, <1>1, LockIsFree
<1>4. draft' = [row |-> Decremented(row)[1], items |-> {}]
      /\ Next(c, IF Decremented(row)[2] THEN "item" ELSE "rollback")
  BY <1>1, <1>3
<1>5. \/ /\ row # None /\ row.gold >= 1 /\ Next(c, "item")
         /\ draft' = [row |-> [row EXCEPT !.gold = @ - 1], items |-> {}]
      \/ Next(c, "rollback") /\ draft' = [row |-> row, items |-> {}]
  BY <1>4 DEF Decremented
<1>6. draft' \in [row : GoldRow \cup {None}, items : SUBSET ItemRow]
  <2>1. row \in GoldRow \cup {None}
    BY <1>0 DEF Typed
  <2>2. row # None => [row EXCEPT !.gold = @ - 1] \in GoldRow
    BY <2>1 DEF GoldRow
  <2> QED
    BY <1>5, <2>1, <2>2
<1>7. Typed'
  <2>1. pc' \in [Calls -> {"start", "get", "load", "fill", "exec", "del", "begin", "lock",
                           "write", "pay", "item", "id", "commit", "rollback", "end"}]
    BY <1>0, <1>5 DEF Next, Typed
  <2> QED
    BY <1>0, <1>1, <1>6, <2>1 DEF Typed
<1>8. CallInv(c)'
  <2>1. \/ pc'[c] = "item" /\ PaidFor' /\ draft'.items = {}
        \/ pc'[c] = "rollback"
    BY <1>0, <1>1, <1>5 DEF Next, Typed, PaidFor
  <2>2. Place(c)'
    BY <1>0, <1>1, <1>2, <2>1 DEF CallInv, Place, InTransaction
  <2>3. Session(c)'
    BY <1>1, <1>2, <2>1 DEF Session, InSession, InTransaction
  <2>4. Effects(c)'
    BY <1>0, <1>1, <2>1 DEF CallInv, Effects, Own
  <2>5. Drafted(c)'
    BY <2>1 DEF Drafted
  <2> QED
    BY <2>2, <2>3, <2>4, <2>5 DEF CallInv
<1> QED
  BY <1>1, <1>5, <1>7, <1>8, DraftStep

\* An item is added: in a transaction to its draft, else to the table.
LEMMA InsertStep ==
  ASSUME IInv, NEW c \in Calls, InsertItem(c)
  PROVE  IInv'
<1>0. Typed /\ CallInv(c) /\ Versions /\ SessionsApart /\ NoUpdateIsLost
  BY DEF IInv
<1>1. /\ pc[c] = "item" /\ Next(c, "id") /\ nextId' = nextId + 1
      /\ lastId' = [lastId EXCEPT ![conn[c]] = nextId]
      /\ UNCHANGED <<row, entry, lock, conn, method, base, id, answer, late, ledger, missed>>
      /\ lock = c => /\ draft' = [draft EXCEPT !.items = @ \cup {Item(c)}]
                     /\ UNCHANGED <<items, applied>>
      /\ lock # c => /\ items' = items \cup {Item(c)}
                     /\ applied' = [applied EXCEPT ![c] = @ + 1]
                     /\ UNCHANGED draft
  BY DEF InsertItem
<1>2. /\ conn[c] \in Connections
      /\ lock = c => method[c] = "purchase" /\ draft.items = {} /\ PaidFor
      /\ lock # c => method[c] = "insert"
  BY <1>0, <1>1 DEF CallInv, Place, Session, InSession, InTransaction, Drafted
<1>3. applied[c] = 0 /\ Own(c) = {} /\ answer[c] = "none" /\ ~late[c]
  BY <1>0, <1>1 DEF CallInv, Effects, Place
<1>4. /\ nextId \in Nat /\ Item(c) = ItemOf(c, nextId) /\ Item(c) \in ItemRow /\ Item(c).by = c
      /\ draft \in [row : GoldRow \cup {None}, items : SUBSET ItemRow]
  BY <1>0 DEF Typed, Item, ItemOf, ItemRow
<1>5. /\ pc'[c] = "id" /\ lastId'[conn[c]] = nextId /\ conn'[c] = conn[c]
      /\ \A d \in Calls \ {c} : pc'[d] = pc[d]
  BY <1>0, <1>1, <1>2 DEF Next, Typed
<1>6. /\ items' \in SUBSET ItemRow /\ IsFiniteSet(items')
      /\ applied' \in [Calls -> Nat]
      /\ draft' \in [row : GoldRow \cup {None}, items : SUBSET ItemRow]
      /\ \A d \in Calls \ {c} : applied'[d] = applied[d] /\ Own(d)' = Own(d)
  <2>1. CASE lock = c
    BY <1>0, <1>1, <1>4, <2>1 DEF Typed, Own
  <2>2. CASE lock # c
    <3>1. IsFiniteSet(items \cup {Item(c)})
      BY <1>0, FS_AddElement DEF Typed
    <3>2. applied' \in [Calls -> Nat] /\ \A d \in Calls \ {c} : applied'[d] = applied[d]
      BY <1>0, <1>1, <2>2 DEF Typed
    <3>3. \A d \in Calls \ {c} : Own(d)' = Own(d)
      BY <1>1, <1>4, <2>2 DEF Own
    <3> QED
      BY <1>0, <1>1, <1>4, <2>2, <3>1, <3>2, <3>3 DEF Typed
  <2> QED
    BY <2>1, <2>2
<1>7. Typed'
  <2>1. pc' \in [Calls -> {"start", "get", "load", "fill", "exec", "del", "begin", "lock",
                           "write", "pay", "item", "id", "commit", "rollback", "end"}]
    BY <1>0, <1>1 DEF Next, Typed
  <2>2. nextId' \in Nat
    BY <1>1, <1>4
  <2>3. lastId' \in [Connections -> Nat]
    <3>1. lastId \in [Connections -> Nat]
      BY <1>0 DEF Typed
    <3> QED
      BY <1>1, <1>4, <3>1
  <2> QED
    BY <1>0, <1>1, <1>6, <2>1, <2>2, <2>3 DEF Typed
<1>8. CallInv(c)'
  <2>1. Place(c)'
    BY <1>0, <1>1, <1>5 DEF CallInv, Place
  <2>2. Session(c)'
    BY <1>1, <1>2, <1>5 DEF Session, InSession, InTransaction
  <2>3. Effects(c)'
    <3>1. CASE lock = c
      BY <1>1, <1>2, <1>3, <1>5, <3>1 DEF Effects, Own
    <3>2. CASE lock # c
      <4>1. applied'[c] = 1 /\ method'[c] = "insert" /\ answer'[c] = "none"
        BY <1>0, <1>1, <1>2, <1>3, <3>2 DEF Typed
      <4>2. Own(c)' = {Item(c)}
        BY <1>1, <1>3, <1>4, <3>2 DEF Own
      <4>3. (ItemOf(c, lastId[conn[c]]))' = Item(c)
        BY <1>4, <1>5 DEF ItemOf
      <4> QED
        BY <1>5, <4>1, <4>2, <4>3 DEF Effects
    <3> QED
      BY <3>1, <3>2
  <2>4. Drafted(c)'
    <3>1. CASE lock = c
      <4>1. draft'.row = draft.row /\ draft'.items = {Item(c)}
        BY <1>1, <1>2, <1>4, <3>1
      <4>2. PaidFor'
        BY <1>1, <1>2, <3>1, <4>1 DEF PaidFor
      <4>3. (ItemOf(c, lastId[conn[c]]))' = Item(c)
        BY <1>4, <1>5 DEF ItemOf
      <4> QED
        BY <1>5, <4>1, <4>2, <4>3 DEF Drafted
    <3>2. CASE lock # c
      BY <1>1, <3>2 DEF Drafted
    <3> QED
      BY <3>1, <3>2
  <2> QED
    BY <2>1, <2>2, <2>3, <2>4 DEF CallInv
<1>9. ASSUME NEW d \in Calls, d # c
      PROVE  CallInv(d)'
  <2>1. pc[d] = "id" => lastId'[conn[d]] = lastId[conn[d]]
    <3> SUFFICES ASSUME pc[d] = "id" PROVE lastId'[conn[d]] = lastId[conn[d]]
      OBVIOUS
    <3>1. conn[d] \in Connections
      BY DEF IInv, CallInv, Session, InSession
    <3>2. conn[d] # conn[c]
      BY <1>0, <1>2, <1>9, AccessAssumption DEF SessionsApart
    <3> QED
      BY <1>0, <1>1, <3>1, <3>2 DEF Typed
  <2>2. lock = d => draft' = draft
    BY <1>1, <1>9
  <2>3. Spares(d)
    BY <1>1, <1>5, <1>6, <1>9, <2>1, <2>2 DEF Spares
  <2> QED
    BY <2>3, SparedCall DEF IInv
<1>10. NoUpdateIsLost'
  <2>1. Paid' = Paid
    BY <1>1, <1>2, <1>4 DEF Paid
  <2> QED
    BY <1>0, <1>1, <2>1, SameMethods DEF NoUpdateIsLost
<1>11. Versions' /\ SessionsApart'
  <2>1. Versions'
    BY <1>0, <1>1, CopiesStayFresh
  <2> QED
    BY <1>0, <1>1, <2>1 DEF SessionsApart
<1> QED
  BY <1>7, <1>8, <1>9, <1>10, <1>11 DEF IInv

\* The id of the item is read in the session that inserted it.
LEMMA IdStep ==
  ASSUME IInv, NEW c \in Calls, ReadInsertId(c)
  PROVE  IInv'
<1>0. Typed /\ CallInv(c) /\ Versions /\ SessionsApart /\ NoUpdateIsLost
  BY DEF IInv
<1>1. /\ pc[c] = "id" /\ id' = [id EXCEPT ![c] = lastId[conn[c]]]
      /\ UNCHANGED <<store, entry, lock, draft, lastId, method, base, late, books>>
      /\ lock = c => Next(c, "commit") /\ UNCHANGED <<conn, answer>>
      /\ lock # c => Returns(c, "done") /\ conn' = [conn EXCEPT ![c] = None]
  BY DEF ReadInsertId
<1>2. /\ conn[c] \in Connections /\ ~late[c]
      /\ lock = c => /\ method[c] = "purchase" /\ PaidFor
                     /\ draft.items = {ItemOf(c, lastId[conn[c]])}
      /\ lock # c => method[c] = "insert"
  BY <1>0, <1>1 DEF CallInv, Place, Session, InSession, InTransaction, Drafted
<1>3. /\ answer[c] = "none"
      /\ lock = c => applied[c] = 0 /\ Own(c) = {}
      /\ lock # c => applied[c] = 1 /\ Own(c) = {ItemOf(c, lastId[conn[c]])}
  BY <1>0, <1>1, <1>2 DEF CallInv, Effects
<1>4. id'[c] = lastId[conn[c]] /\ id' \in [Calls -> Nat]
      /\ \A d \in Calls \ {c} : id'[d] = id[d]
  BY <1>0, <1>1, <1>2 DEF Typed
<1>5. /\ lock = c => pc'[c] = "commit" /\ answer'[c] = "none"
      /\ lock # c => pc'[c] = "end" /\ answer'[c] = "done"
      /\ \A d \in Calls \ {c} : pc'[d] = pc[d] /\ answer'[d] = answer[d]
  BY <1>0, <1>1, <1>3 DEF Next, Returns, Typed
<1>6. /\ conn' \in [Calls -> Connections \cup {None}] /\ SessionsApart'
      /\ lock = c => conn'[c] = conn[c]
      /\ \A d \in Calls \ {c} : conn'[d] = conn[d]
  <2>1. CASE lock = c
    BY <1>0, <1>1, <2>1 DEF Typed, SessionsApart
  <2>2. CASE lock # c
    BY <1>0, <1>1, <2>2, ConnectionsApart
  <2> QED
    BY <2>1, <2>2
<1>7. Typed'
  <2>1. /\ pc' \in [Calls -> {"start", "get", "load", "fill", "exec", "del", "begin", "lock",
                              "write", "pay", "item", "id", "commit", "rollback", "end"}]
        /\ answer' \in [Calls -> {"none", "missing", "found", "refused", "done", "error"}]
    BY <1>0, <1>1 DEF Next, Returns, Typed
  <2> QED
    BY <1>0, <1>1, <1>4, <1>6, <2>1 DEF Typed
<1>8. CallInv(c)'
  <2>1. Place(c)'
    BY <1>1, <1>2, <1>5 DEF Place, InTransaction
  <2>2. Session(c)'
    BY <1>1, <1>2, <1>5, <1>6 DEF Session, InSession, InTransaction
  <2>3. Effects(c)'
    <3>1. /\ Own(c)' = Own(c) /\ applied'[c] = applied[c] /\ late'[c] = late[c]
          /\ method'[c] = method[c] /\ (ItemOf(c, id[c]))' = ItemOf(c, lastId[conn[c]])
      BY <1>1, <1>4 DEF Own, ItemOf
    <3> QED
      BY <1>2, <1>3, <1>5, <3>1 DEF Effects
  <2>4. Drafted(c)'
    <3>1. PaidFor => PaidFor'
      BY <1>1 DEF PaidFor
    <3>2. (ItemOf(c, id[c]))' = ItemOf(c, lastId[conn[c]])
      BY <1>4 DEF ItemOf
    <3> QED
      BY <1>1, <1>2, <1>5, <3>1, <3>2 DEF Drafted
  <2> QED
    BY <2>1, <2>2, <2>3, <2>4 DEF CallInv
<1>9. ASSUME NEW d \in Calls, d # c
      PROVE  CallInv(d)'
  BY <1>1, <1>4, <1>5, <1>6, <1>9, SparedCall DEF Spares, Own, IInv
<1>10. NoUpdateIsLost' /\ Versions'
  BY <1>0, <1>1, BooksStay, CopiesStayFresh
<1> QED
  BY <1>6, <1>7, <1>8, <1>9, <1>10 DEF IInv

\* The end of a transaction frees the row lock and the connection, and leaves others alone.
LEMMA EndsLeaves ==
  ASSUME Typed, SessionsApart, NEW c \in Calls, Ends(c)
  PROVE  /\ lock' \in Calls \cup {None} /\ lock' # c
         /\ draft' \in [row : GoldRow \cup {None}, items : SUBSET ItemRow]
         /\ conn' \in [Calls -> Connections \cup {None}] /\ SessionsApart'
         /\ \A d \in Calls \ {c} : /\ conn'[d] = conn[d] /\ (lock' = d <=> lock = d)
                                   /\ lock = d => draft' = draft
<1>1. conn' = [conn EXCEPT ![c] = None]
  BY DEF Ends
<1>2. /\ conn' \in [Calls -> Connections \cup {None}] /\ SessionsApart'
      /\ \A d \in Calls \ {c} : conn'[d] = conn[d]
  BY <1>1, ConnectionsApart
<1>3. lock \in Calls \cup {None} /\ None \notin Calls
  BY AccessAssumption DEF Typed
<1>4. lock' \in Calls \cup {None} /\ lock' # c
  BY <1>3 DEF Ends
<1>5. draft' \in [row : GoldRow \cup {None}, items : SUBSET ItemRow]
  BY DEF Ends, Typed
<1>6. \A d \in Calls \ {c} : (lock' = d <=> lock = d) /\ (lock = d => draft' = draft)
  BY <1>3 DEF Ends
<1> QED
  BY <1>2, <1>4, <1>5, <1>6

\* A rollback, or an InsertReturningID that gives up.
LEMMA RollBackStep ==
  ASSUME IInv, NEW c \in Calls, RollBack(c)
  PROVE  IInv'
<1>0. Typed /\ CallInv(c) /\ Versions /\ SessionsApart /\ NoUpdateIsLost
  BY DEF IInv
<1>1. /\ pc[c] \in {"rollback", "lock", "write", "pay", "item", "id", "commit"}
      /\ Ends(c)
      /\ UNCHANGED <<store, entry, lastId, method, base, id, late, books>>
  BY DEF RollBack
<1>2. PICK a \in {"error", "refused"} : Returns(c, a) /\ (method[c] = "insert" <=> a = "error")
  <2>1. CASE method[c] = "insert"
    BY <2>1 DEF RollBack
  <2>2. CASE method[c] # "insert"
    BY <2>2 DEF RollBack
  <2> QED
    BY <2>1, <2>2
<1>3. /\ pc'[c] = "end" /\ answer'[c] = a
      /\ \A d \in Calls \ {c} : pc'[d] = pc[d] /\ answer'[d] = answer[d]
  BY <1>0, <1>2 DEF Next, Returns, Typed
<1>4. /\ lock' \in Calls \cup {None} /\ lock' # c
      /\ draft' \in [row : GoldRow \cup {None}, items : SUBSET ItemRow]
      /\ conn' \in [Calls -> Connections \cup {None}] /\ SessionsApart'
      /\ \A d \in Calls \ {c} : /\ conn'[d] = conn[d] /\ (lock' = d <=> lock = d)
                                /\ lock = d => draft' = draft
  BY <1>0, <1>1, EndsLeaves
<1>5. Typed'
  <2>1. /\ pc' \in [Calls -> {"start", "get", "load", "fill", "exec", "del", "begin", "lock",
                              "write", "pay", "item", "id", "commit", "rollback", "end"}]
        /\ answer' \in [Calls -> {"none", "missing", "found", "refused", "done", "error"}]
    BY <1>0, <1>2 DEF Next, Returns, Typed
  <2> QED
    BY <1>0, <1>1, <1>4, <2>1 DEF Typed
<1>6. CallInv(c)'
  <2>1. ~late[c]
    BY <1>0, <1>1 DEF CallInv, Place
  <2>2. Place(c)'
    BY <1>1, <1>3, <2>1 DEF Place
  <2>3. Session(c)' /\ Drafted(c)'
    BY <1>1, <1>3, <1>4 DEF Session, Drafted, InSession
  <2>4. applied[c] <= 1 /\ (method[c] # "insert" => applied[c] = 0 /\ Own(c) = {})
    BY <1>0, <1>1 DEF CallInv, Effects
  <2>5. Own(c)' = Own(c) /\ applied'[c] = applied[c] /\ ~late'[c]
    BY <1>1, <2>1 DEF Own
  <2>6. Effects(c)'
    BY <1>2, <1>3, <2>4, <2>5 DEF Effects
  <2> QED
    BY <2>2, <2>3, <2>6 DEF CallInv
<1>7. ASSUME NEW d \in Calls, d # c
      PROVE  CallInv(d)'
  BY <1>1, <1>3, <1>4, <1>7, SparedCall DEF Spares, Own, IInv
<1>8. NoUpdateIsLost' /\ Versions'
  BY <1>0, <1>1, BooksStay, CopiesStayFresh
<1> QED
  BY <1>4, <1>5, <1>6, <1>7, <1>8 DEF IInv

\* What a COMMIT that takes effect does to the store and the books.
LEMMA CommitTakes ==
  ASSUME IInv, NEW c \in Calls, pc[c] = "commit", Takes(c), UNCHANGED method
  PROVE  /\ NoUpdateIsLost' /\ Versions'
         /\ row' \in GoldRow \cup {None} /\ ledger' \in Int
         /\ items' \in SUBSET ItemRow /\ IsFiniteSet(items')
         /\ applied' \in [Calls -> Nat] /\ applied'[c] = 1
         /\ method[c] = "purchase" => Own(c)' = {ItemOf(c, id[c])}
         /\ \A d \in Calls \ {c} : applied'[d] = applied[d] /\ Own(d)' = Own(d)
<1>0. Typed /\ CallInv(c) /\ NoUpdateIsLost
  BY DEF IInv
<1>1. method[c] \in InTransaction /\ lock = c /\ applied[c] = 0 /\ Own(c) = {}
  BY <1>0 DEF CallInv, Place, Session, Effects
<1>2. /\ row' = draft.row /\ items' = items \cup draft.items
      /\ ledger' = Entered(method[c]) /\ applied' = [applied EXCEPT ![c] = @ + 1]
  BY DEF Takes
<1>3. /\ row' \in GoldRow \cup {None} /\ draft.items \in SUBSET ItemRow
      /\ ledger \in Int /\ row \in GoldRow \cup {None}
  BY <1>0, <1>2 DEF Typed
<1>4. /\ applied' \in [Calls -> Nat] /\ applied'[c] = 1
      /\ \A d \in Calls \ {c} : applied'[d] = applied[d]
  BY <1>0, <1>1, <1>2 DEF Typed
<1>5. Versions'
  BY <1>1, SameMethods, AgreeingMethods DEF Versions, InTransaction
<1> DEFINE n == Cardinality(Paid)
<1>6. IsFiniteSet(Paid) /\ n \in Nat
  BY <1>0, PaidCount
<1>7. MethodsAgree /\ row # None => row.gold = ledger - n /\ row.gold >= 0
  BY <1>0 DEF NoUpdateIsLost
<1>8. row # None => row.gold \in Int
  BY <1>3, RowTypes
<1>9. CASE method[c] = "locked"
  <2>1. row # None /\ draft.row = [row EXCEPT !.gold = @ + 1] /\ draft.items = {}
    BY <1>0, <1>1, <1>9 DEF CallInv, Drafted
  <2>2. items' = items /\ Paid' = Paid /\ Cardinality(Paid)' = n
    BY <1>2, <2>1 DEF Paid
  <2>3. ledger' = ledger + 1
    BY <1>2, <1>9 DEF Entered
  <2>4. row'.gold = row.gold + 1
    BY <1>2, <1>3, <2>1 DEF GoldRow
  <2> HIDE DEF n
  <2>5. NoUpdateIsLost'
    BY <1>3, <1>6, <1>7, <1>8, <2>1, <2>2, <2>3, <2>4, SameMethods DEF NoUpdateIsLost
  <2>6. \A d \in Calls : Own(d)' = Own(d)
    BY <2>2 DEF Own
  <2> QED
    BY <1>0, <1>3, <1>4, <1>5, <1>9, <2>2, <2>3, <2>5, <2>6 DEF Typed
<1>10. CASE method[c] = "purchase"
  <2> DEFINE it == ItemOf(c, id[c])
  <2>1. PaidFor /\ draft.items = {it}
    BY <1>0, <1>1, <1>10 DEF CallInv, Drafted
  <2>2. items' = items \cup {it} /\ it \in ItemRow /\ it.by = c /\ it \notin items
    BY <1>0, <1>1, <1>2, <2>1 DEF ItemOf, ItemRow, Own, Typed
  <2>3. Paid' = Paid \cup {it} /\ it \notin Paid
    BY <1>10, <2>2 DEF Paid
  <2>4. Cardinality(Paid)' = n + 1
    BY <1>6, <2>3, FS_AddElement
  <2>5. ledger' = ledger
    BY <1>2, <1>10 DEF Entered
  <2>6. row # None /\ row.gold >= 1 /\ row'.gold = row.gold - 1
    BY <1>2, <1>3, <2>1 DEF PaidFor, GoldRow
  <2>7. IsFiniteSet(items') /\ items' \in SUBSET ItemRow
    BY <1>0, <2>2, FS_AddElement DEF Typed
  <2>8. Own(c)' = {it} /\ \A d \in Calls \ {c} : Own(d)' = Own(d)
    BY <1>1, <2>2 DEF Own
  <2> HIDE DEF n, it
  <2>9. NoUpdateIsLost'
    BY <1>3, <1>6, <1>7, <1>8, <2>4, <2>5, <2>6, SameMethods DEF NoUpdateIsLost
  <2> USE DEF it
  <2> QED
    BY <1>3, <1>4, <1>5, <2>5, <2>7, <2>8, <2>9
<1> QED
  BY <1>1, <1>9, <1>10 DEF InTransaction

\* COMMIT, answered or not.
LEMMA CommitStep ==
  ASSUME IInv, NEW c \in Calls, CommitTransaction(c) \/ CommitFails(c)
  PROVE  IInv'
<1>0. Typed /\ CallInv(c) /\ Versions /\ SessionsApart /\ NoUpdateIsLost
  BY DEF IInv
<1>1. /\ pc[c] = "commit" /\ Ends(c)
      /\ UNCHANGED <<nextId, entry, lastId, method, base, id, late, missed>>
      /\ Takes(c) \/ UNCHANGED <<row, items, ledger, applied>>
  BY DEF CommitTransaction, CommitFails
<1>2. \/ Takes(c) /\ Next(c, "del") /\ UNCHANGED answer
      \/ Returns(c, "error")
  BY DEF CommitTransaction, CommitFails
<1>3. method[c] \in InTransaction /\ lock = c /\ ~late[c] /\ answer[c] = "none"
      /\ applied[c] = 0
  BY <1>0, <1>1 DEF CallInv, Place, Session, Effects
<1>4. /\ \/ Takes(c) /\ pc'[c] = "del" /\ answer'[c] = "none"
         \/ pc'[c] = "end" /\ answer'[c] = "error"
      /\ \A d \in Calls \ {c} : pc'[d] = pc[d] /\ answer'[d] = answer[d]
  BY <1>0, <1>2, <1>3 DEF Next, Returns, Typed
<1>5. /\ lock' \in Calls \cup {None} /\ lock' # c
      /\ draft' \in [row : GoldRow \cup {None}, items : SUBSET ItemRow]
      /\ conn' \in [Calls -> Connections \cup {None}] /\ SessionsApart'
      /\ \A d \in Calls \ {c} : conn'[d] = conn[d] /\ (lock' = d <=> lock = d) /\ lock # d
  BY <1>0, <1>1, <1>3, EndsLeaves
<1>6. /\ NoUpdateIsLost' /\ Versions'
      /\ row' \in GoldRow \cup {None} /\ ledger' \in Int
      /\ items' \in SUBSET ItemRow /\ IsFiniteSet(items')
      /\ applied' \in [Calls -> Nat] /\ applied'[c] <= 1
      /\ \A d \in Calls \ {c} : applied'[d] = applied[d] /\ Own(d)' = Own(d)
  <2>1. CASE Takes(c)
    BY <1>1, <2>1, CommitTakes
  <2>2. CASE UNCHANGED <<row, items, ledger, applied>>
    <3>1. NoUpdateIsLost' /\ Versions'
      BY <1>0, <1>1, <2>2, BooksStay, CopiesStayFresh
    <3> QED
      BY <1>0, <1>3, <2>2, <3>1 DEF Typed, Own
  <2> QED
    BY <1>1, <2>1, <2>2
<1>7. Typed'
  <2>1. /\ pc' \in [Calls -> {"start", "get", "load", "fill", "exec", "del", "begin", "lock",
                              "write", "pay", "item", "id", "commit", "rollback", "end"}]
        /\ answer' \in [Calls -> {"none", "missing", "found", "refused", "done", "error"}]
    BY <1>0, <1>2 DEF Next, Returns, Typed
  <2> QED
    BY <1>0, <1>1, <1>5, <1>6, <2>1 DEF Typed
<1>8. CallInv(c)'
  <2>1. Place(c)'
    BY <1>1, <1>3, <1>4 DEF Place, InTransaction
  <2>2. Session(c)' /\ Drafted(c)'
    BY <1>4, <1>5 DEF Session, Drafted, InSession
  <2>3. Effects(c)'
    <3>1. CASE Takes(c) /\ pc'[c] = "del" /\ answer'[c] = "none"
      <4>1. applied'[c] = 1 /\ (method[c] = "purchase" => Own(c)' = {ItemOf(c, id[c])})
        BY <1>1, <3>1, CommitTakes
      <4>2. method'[c] = method[c] /\ (ItemOf(c, id[c]))' = ItemOf(c, id[c])
        BY <1>1 DEF ItemOf
      <4> QED
        BY <3>1, <4>1, <4>2 DEF Effects
    <3>2. CASE pc'[c] = "end" /\ answer'[c] = "error"
      <4>1. ~late'[c]
        BY <1>1, <1>3
      <4> QED
        BY <1>6, <3>2, <4>1 DEF Effects
    <3> QED
      BY <1>4, <3>1, <3>2
  <2> QED
    BY <2>1, <2>2, <2>3 DEF CallInv
<1>9. ASSUME NEW d \in Calls, d # c
      PROVE  CallInv(d)'
  BY <1>1, <1>4, <1>5, <1>6, <1>9, SparedCall DEF Spares, IInv
<1> QED
  BY <1>5, <1>6, <1>7, <1>8, <1>9 DEF IInv
-----------------------------------------------------------------------------
(***************************************************************************)
(* The theorems                                                            *)
(***************************************************************************)

\* The invariant holds at first.
LEMMA InitIInv == AccessInit => IInv
<1> SUFFICES ASSUME AccessInit PROVE IInv
  OBVIOUS
<1>1. [NewRow EXCEPT !.gold = InitialGold] = [gold |-> InitialGold, version |-> 0]
      /\ InitialGold \in Nat
  BY AccessAssumption DEF NewRow
<1>2. row \in {None, [gold |-> InitialGold, version |-> 0]} /\ entry \in {None, row}
      /\ method \in [Calls -> Methods] /\ items = {} /\ IsFiniteSet(items)
      /\ ledger = InitialGold
  BY <1>1, AccessAssumption, FS_EmptySet DEF AccessInit
<1>3. [gold |-> InitialGold, version |-> 0] \in GoldRow
  BY <1>1 DEF GoldRow
<1>4. Typed
  BY <1>1, <1>2, <1>3 DEF AccessInit, Typed
<1>5. \A c \in Calls : CallInv(c)
  BY AccessAssumption DEF AccessInit, CallInv, Place, Session, InSession, Effects, Own, Drafted
<1>6. SessionsApart
  BY DEF AccessInit, SessionsApart
<1>7. NoUpdateIsLost
  <2>1. Paid = {} /\ Cardinality({}) = 0
    BY <1>2, FS_EmptySet DEF Paid
  <2> QED
    BY <1>1, <1>2, <2>1 DEF NoUpdateIsLost
<1>8. Versions
  <2>1. Fresh(entry) /\ \A c \in Calls : Fresh(base[c])
    BY <1>2, <1>3, RowTypes DEF AccessInit, Fresh
  <2> QED
    BY <1>2, <2>1 DEF AccessInit, Versions
<1> QED
  BY <1>4, <1>5, <1>6, <1>7, <1>8 DEF IInv

\* Every step keeps it.
LEMMA NextIInv == IInv /\ [AccessNext]_accessVars => IInv'
<1> SUFFICES ASSUME IInv, [AccessNext]_accessVars PROVE IInv'
  OBVIOUS
<1>1. ASSUME NEW c \in Calls, StartCall(c) \/ Step(c)
      PROVE  IInv'
  BY <1>1, StartStep, FindStep, ExecStep, EndStep, BeginStep, LockStep, WriteStep, PayStep,
     InsertStep, IdStep, CommitStep DEF Step
<1>2. ASSUME NEW c \in Calls,
             StatementFails(c) \/ LateStatement(c) \/ CommitFails(c) \/ RollBack(c)
      PROVE  IInv'
  BY <1>2, EndStep, LateStep, CommitStep, RollBackStep
<1>3. CASE UNCHANGED accessVars
  <2>1. /\ UNCHANGED <<row, items, nextId, entry, lock, draft, conn, lastId, method, pc, base>>
        /\ UNCHANGED <<id, answer, late, ledger, applied, missed>>
    BY <1>3 DEF accessVars
  <2>2. Typed'
    BY <2>1 DEF IInv, Typed
  <2>3. \A d \in Calls : CallInv(d)'
    BY <2>1, SparedCall DEF IInv, Spares, Own
  <2>4. SessionsApart' /\ NoUpdateIsLost' /\ Versions'
    BY <2>1, BooksStay, CopiesStayFresh DEF IInv, SessionsApart
  <2> QED
    BY <2>2, <2>3, <2>4 DEF IInv
<1> QED
  BY <1>1, <1>2, <1>3, ExpireStep DEF AccessNext

\* The invariant of every reachable state.
THEOREM SpecInv == AccessSpec => []IInv
BY InitIInv, NextIInv, PTL DEF AccessSpec

\* Among methods that go together (arithmetic, row locks and purchases; or versions, without
\* rows that come back) no change of the column is lost or made twice, whatever is stale in
\* the cache, fails, rolls back, panics or runs late, for any number of calls and connections.
THEOREM UpdatesAreKept == AccessSpec => []NoUpdateIsLost
<1>1. IInv => NoUpdateIsLost
  BY DEF IInv
<1> QED
  BY <1>1, SpecInv, PTL

\* What a call returns is what came about, and the id InsertReturningID returns is that of
\* the call's own item, however many sessions insert.
THEOREM AnswersHold == AccessSpec => []AnswersAreTrue
<1>1. ASSUME IInv
      PROVE  AnswersAreTrue
  <2> SUFFICES ASSUME NEW c \in Calls
               PROVE  /\ applied[c] <= 1
                      /\ answer[c] = "done" => applied[c] = 1 \/ missed[c]
                      /\ answer[c] \in {"refused", "missing", "found"} =>
                           applied[c] = 0 /\ Own(c) = {}
                      /\ answer[c] = "done" /\ method[c] \in {"insert", "purchase"} =>
                           {i.id : i \in Own(c)} = {id[c]}
    BY DEF AnswersAreTrue, Own
  <2>1. Effects(c)
    BY <1>1 DEF IInv, CallInv
  <2>2. applied[c] <= 1
    BY <2>1 DEF Effects
  <2>3. answer[c] = "done" /\ method[c] \in {"insert", "purchase"} =>
          Own(c) = {ItemOf(c, id[c])}
    BY <2>1 DEF Effects
  <2>4. ItemOf(c, id[c]).id = id[c]
    BY DEF ItemOf
  <2> QED
    BY <2>1, <2>2, <2>3, <2>4 DEF Effects
<1> QED
  BY <1>1, SpecInv, PTL
=============================================================================
