---------------------------- MODULE MC_RowAccess ----------------------------
(***************************************************************************)
(* Game code at work on rows: several calls that change one row, and       *)
(* batches beside a walk over many rows.  A behaviour is one or the other; *)
(* the idle part stays as it started.                                      *)
(***************************************************************************)
EXTENDS ReadModifyWrite, RowSets

CONSTANTS c1, c2, c3, j1, j2, w1

\* Methods for the three calls.
Mix(a, b, c) == c1 :> a @@ c2 :> b @@ c3 :> c
MCCalls == {c1, c2, c3}
MCConnections == {1, 2}
MCMixes == {
  \* arithmetic beside row locks, and transactions that compete for connections
  Mix("incr", "decr", "locked"), Mix("locked", "locked", "purchase"),
  Mix("purchase", "purchase", "insert"),
  \* versions
  Mix("addIfVersion", "spendIfVersion", "addIfVersion"),
  Mix("addIfVersion", "spendIfVersion", "delete"),
  \* a row that goes and comes back
  Mix("delete", "findOrCreate", "purchase"), Mix("delete", "findOrCreate", "locked"),
  \* methods that do not go together
  Mix("overwrite", "incr", "findOrCreate"), Mix("addIfVersion", "incr", "insert"),
  Mix("addIfVersion", "delete", "findOrCreate")}

\* Six rows with a primary key of two columns; two of them with the same cursor value.
K(n) == <<n \div 3, n % 3>>
MCKeys == {K(n) : n \in 0..5}
MCCursor == [x \in MCKeys |-> CASE x = K(3) -> 1 [] x \in {K(4), K(5)} -> 2 * x[2]
                                [] OTHER -> x[2] - 1]
MCTypes == {"mine", "other"}

M(type, n) == [type |-> type, key |-> K(n), fits |-> TRUE]
TooLong(m) == [m EXCEPT !.fits = FALSE]
Insert(batch) == [op |-> "insert", batch |-> batch]
Delete(batch) == [op |-> "delete", batch |-> batch]
MCPlans == {
  Insert(<<M("mine", 2), M("mine", 3), M("mine", 5)>>),
  Insert(<<M("mine", 0), M("mine", 5), M("other", 1), M("mine", 4)>>),
  Insert(<<M("mine", 5), M("mine", 4), TooLong(M("mine", 1))>>),
  Insert(<<M("mine", 2), M("mine", 3), M("other", 1)>>),
  Insert(<<>>), Delete(<<>>),
  Delete(<<M("mine", 0), M("mine", 1), M("mine", 4)>>),
  Delete(<<M("mine", 4), M("mine", 3), TooLong(M("mine", 1))>>),
  Delete(<<M("mine", 4), M("other", 3)>>) }

Mine(ns) == [t \in MCTypes |-> IF t = "mine" THEN {K(n) : n \in ns} ELSE {}]
MCInitialRows == {Mine({0, 1, 4}), Mine(0..4), Mine({})}
-----------------------------------------------------------------------------
VARIABLE part  \* "one row" or "many rows"

MCInit ==
  \/ part = "one row" /\ AccessInit /\ SetsInit /\ rows = Mine({}) /\ cached = rows
  \/ part = "many rows" /\ SetsInit /\ AccessInit /\ row = None /\ entry = None
       /\ method = Mix("incr", "decr", "locked")

MCNext ==
  /\ \/ part = "one row" /\ AccessNext /\ UNCHANGED setsVars
     \/ part = "many rows" /\ SetsNext /\ UNCHANGED accessVars
  /\ UNCHANGED part

MCSpec == MCInit /\ [][MCNext]_<<part, accessVars, setsVars>> /\ AccessFairness
=============================================================================
