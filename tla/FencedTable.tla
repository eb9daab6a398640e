---------------------------- MODULE FencedTable ----------------------------
(***************************************************************************)
(* The data SaveConditional works on, as MySQL holds it: a table of rows   *)
(* by primary key, each with its fence and its other known columns (the    *)
(* body), and one alternate UNIQUE column that is part of the body.        *)
(* Requests are what callers pass: the message and its SaveOptions.        *)
(***************************************************************************)
EXTENDS Fence

CONSTANTS
  Keys,     \* primary keys
  Bodies,   \* values of the columns that are neither primary key nor fence
  Alias,    \* Alias[b]: value of the alternate UNIQUE column in body b
  Coerce,   \* Coerce[b]: what the online columns hold once b is written
            \*   (a DATETIME(0) column drops the fraction of a second)
  None      \* the absent row, and the absence of a comparison

ASSUME TableAssumption ==
  /\ DOMAIN Alias = Bodies
  /\ Coerce \in [Bodies -> Bodies]
  /\ \A b \in Bodies : Coerce[Coerce[b]] = Coerce[b] /\ Alias[Coerce[b]] = Alias[b]
  /\ None \notin [fence : Fences, body : Bodies]
  /\ None \notin Fences

Rows == [fence : Fences, body : Bodies]
Tables == [Keys -> Rows \cup {None}]

\* "strict": FenceFields;  "equal": FenceFields and AllowEqual;
\* "legacy": no FenceFields, the fence columns listed in PreserveFields.
Modes == {"strict", "equal", "legacy"}
Request == [key : Keys, mode : Modes, fence : Fences, body : Bodies]

Fenced(r) == r.mode # "legacy"
AllowEqual(r) == r.mode = "equal"

\* The options newConditionalSavePlan refuses before any SQL: a strict fence of zeros.
InvalidOptions(r) == r.mode = "strict" /\ r.fence = ZeroFence

\* Another row holds the value of the alternate UNIQUE column.
AliasTaken(t, k, b) ==
  \E other \in Keys \ {k} : t[other] # None /\ Alias[t[other].body] = Alias[b]

UniqueAlias(t) ==
  \A k \in Keys : t[k] # None => ~AliasTaken(t, k, t[k].body)

\* WHERE of the conditional UPDATE: the whole primary key and the fence predicate.
Matches(row, r) ==
  /\ row # None
  /\ Fenced(r) => FencePredicate(row.fence, r.fence, AllowEqual(r))

\* SET of the conditional UPDATE: the message's columns except the preserved ones.
WrittenWholeRow(row, r) == [fence |-> r.fence, body |-> Coerce[r.body]]

Written(row, r) ==
  [fence |-> IF Fenced(r) THEN r.fence ELSE row.fence, body |-> Coerce[r.body]]

\* VALUES of the INSERT: the whole message, preserved columns included.
Inserted(r) == [fence |-> r.fence, body |-> Coerce[r.body]]

\* The match query: every column the UPDATE sets equals the value in the message.
IsTarget(row, r) ==
  /\ row # None
  /\ Fenced(r) => row.fence = r.fence
  /\ row.body = r.body
=============================================================================
