--------------------------- MODULE MC_CacheAside ---------------------------
(***************************************************************************)
(* Small instances of CacheAside: the table has the column extra that only *)
(* processes of the new version know.                                      *)
(***************************************************************************)
EXTENDS CacheAside

CONSTANTS old1, new1, new2, gold, extra

MCSchema == [c \in Callers |-> IF c = old1 THEN {gold} ELSE {gold, extra}]
\* Rows start at 1 and processes write 0, so that a value tells who wrote it.
MCMessages == [c \in Callers |-> {[col \in MCSchema[c] |-> 0]}]
MCInitialRows == {None, [col \in Columns |-> 1]}
=============================================================================
