--------------------------- MODULE MC_SchemaSync ---------------------------
(***************************************************************************)
(* Small instances of SchemaSync: versions of a program whose message has  *)
(* an auto-increment primary key, a string key and a counter that is       *)
(* renamed, widened and joined by other fields.                            *)
(***************************************************************************)
EXTENDS SchemaSync

CONSTANTS p1, p2, c1, c2, c3

MCFamilies == {"integer", "text", "binary", "float", "datetime"}

Type(family, rank, size) == [family |-> family, rank |-> rank, size |-> size, unsigned |-> FALSE]
int == Type("integer", 4, 0)
bigint == Type("integer", 5, 0)
varchar(n) == Type("text", 2, n)
char(n) == Type("text", 1, n)

Field(name, num, type) ==
  [name |-> name, num |-> num, type |-> type, attrs |-> "zero", key |-> FALSE]
Id == [Field("id", 1, bigint) EXCEPT !.attrs = "auto"]
Account == [Field("account", 2, varchar(191)) EXCEPT !.attrs = "empty", !.key = TRUE]
UniqueAccount == [uk |-> [cols |-> <<"account">>, unique |-> TRUE]]
ById == [idx |-> [cols |-> <<"id", "account">>, unique |-> FALSE]]

Version(fields, indexes, expandOnly) ==
  [fields |-> fields, pk |-> <<"id">>, indexes |-> indexes, expandOnly |-> expandOnly]

\* The field numbered 3 is called score, then points; it is widened before it is renamed.
First == Version(<<Id, Account, Field("score", 3, int)>>, UniqueAccount, FALSE)
Wide == Version(<<Id, Account, Field("score", 3, bigint)>>, UniqueAccount @@ ById, FALSE)
Rename == Version(<<Id, Account, Field("points", 3, int)>>, UniqueAccount, FALSE)
Expand == Version(<<Id, Account, Field("score", 3, bigint), Field("level", 4, int)>>,
                  UniqueAccount, TRUE)

Column(f, num, type) ==
  [type |-> type, num |-> num, attrs |-> f.attrs, born |-> [num |-> f.num, name |-> f.name]]

\* A table without its primary key and key column; one whose comments are lost and whose
\* counter somebody has widened by hand; one whose string key is an old CHAR.
NoKey == [cols |-> [score |-> Column(Field("score", 3, int), 3, int)],
          pk |-> <<>>, indexes |-> <<>>]
Uncommented ==
  [cols |-> [id |-> Column(Id, 1, bigint), account |-> Column(Account, 0, varchar(255)),
             score |-> Column(Field("score", 3, int), 3, bigint)],
   pk |-> <<"id">>, indexes |-> UniqueAccount]
OldKey == [Uncommented EXCEPT !.cols.account = Column(Account, 2, char(255))]

MCVersions == {First, Wide, Rename, Expand}
MCTables == {NoTable, NoKey, Uncommented, OldKey}
RollingVersions == {Wide, Expand}
RollingTables == {NoTable, NoKey}
MCPoolOf == [c \in Callers |-> IF c = c3 THEN p2 ELSE p1]

\* A field takes the name another field gives up.
Before == Version(<<Id, Field("first", 2, int), Field("second", 3, int)>>, <<>>, FALSE)
After == Version(<<Id, Field("second", 2, int), Field("third", 3, int)>>, <<>>, FALSE)
ChainVersions == {Before, After}
EmptyTables == {NoTable}

ASSUME NamesAssumption == Versions # ChainVersions => NamesAreKept
=============================================================================
