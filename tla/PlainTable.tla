----------------------------- MODULE PlainTable -----------------------------
(***************************************************************************)
(* The data DB.Save and DB.BatchSave work on, as MySQL holds it: rows by   *)
(* full primary key, a row being the values of the columns this version of *)
(* the program knows, one of them under an alternate UNIQUE key.           *)
(***************************************************************************)
EXTENDS Naturals, Sequences

CONSTANTS
  Keys,     \* primary keys
  Bodies,   \* values of the other columns
  Alias,    \* Alias[b]: value of the alternate UNIQUE column in body b
  Coerce,   \* Coerce[b]: what the online columns hold once b is written
  None      \* the absent row

ASSUME TableAssumption ==
  /\ DOMAIN Alias = Bodies
  /\ Coerce \in [Bodies -> Bodies]
  /\ \A b \in Bodies : Coerce[Coerce[b]] = Coerce[b] /\ Alias[Coerce[b]] = Alias[b]
  /\ None \notin Bodies

Tables == [Keys -> Bodies \cup {None}]
Messages == [key : Keys, body : Bodies]

\* Another row holds the value of the alternate UNIQUE column.
AliasTaken(t, k, b) ==
  \E other \in Keys \ {k} : t[other] # None /\ Alias[t[other]] = Alias[b]

UniqueAlias(t) ==
  \A k \in Keys : t[k] # None => ~AliasTaken(t, k, t[k])

\* What a table may hold: columns that read back as they are, UNIQUE respected.
Stored(t) ==
  /\ UniqueAlias(t)
  /\ \A k \in Keys : t[k] # None => Coerce[t[k]] = t[k]

\* The classification query: every known column equals the value the UPDATE sent.
IsTarget(row, m) == row = m.body
=============================================================================
