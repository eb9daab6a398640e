--------------------------- MODULE MC_Operations ---------------------------
(***************************************************************************)
(* What an operator runs by hand: the migration of old string keys, and    *)
(* the tool that replaces generated files.  They share nothing; a behaviour *)
(* is one or the other, and the idle part stays as it started.             *)
(***************************************************************************)
EXTENDS KeyMigration, AtomicFiles

MCFamilies == {"integer", "text", "binary", "float", "datetime"}
Type(family, rank, size) == [family |-> family, rank |-> rank, size |-> size, unsigned |-> FALSE]
int == Type("integer", 4, 0)
bigint == Type("integer", 5, 0)
varchar(n) == Type("text", 2, n)
char(n) == Type("text", 1, n)
text == Type("text", 4, 0)
mediumtext == Type("text", 5, 0)

Field(name, num, type) ==
  [name |-> name, num |-> num, type |-> type, attrs |-> "zero", key |-> FALSE]
Key(name, num, type) == [Field(name, num, type) EXCEPT !.attrs = "empty", !.key = TRUE]
Id == [Field("id", 1, bigint) EXCEPT !.attrs = "auto"]
Score == Field("score", 3, int)
Index(cols, unique) == [cols |-> cols, unique |-> unique, whole |-> TRUE, kind |-> "btree"]
Prefix(index) == [index EXCEPT !.whole = FALSE]

Column(type, num, attrs) ==
  [type |-> type, num |-> num, attrs |-> attrs, born |-> [num |-> num, name |-> ""]]
Version(fields, pk, indexes) ==
  [fields |-> fields, pk |-> pk, indexes |-> indexes, expandOnly |-> FALSE]
Def(cols, pk, indexes) == [cols |-> cols, pk |-> pk, indexes |-> indexes]

Value(bytes, word, spelling) == [bytes |-> bytes, word |-> word, spelling |-> spelling]
lower == Value(4, 1, 0)
upper == Value(4, 1, 1)
long == Value(800, 2, 0)
big == Value(8, 3, 0)
Row(n, vals) == [id |-> n, vals |-> ("id" :> IdValue(n)) @@ vals]

\* A unique key that was a nullable TEXT column under an old name.
UniqueLogin == Version(<<Id, Key("account", 2, varchar(191)), Score>>, <<"id">>,
                       [uk |-> Index(<<"account">>, TRUE)])
InPlaceCase ==
  [version |-> UniqueLogin,
   def |-> Def([id |-> Column(bigint, 1, "auto"), login |-> Column(text, 2, "null"),
                score |-> Column(bigint, 3, "zero")],
               <<"id">>, [uk |-> Prefix(Index(<<"login">>, TRUE))]),
   rows |-> {Row(1, [login |-> Null, score |-> big]), Row(2, [login |-> upper, score |-> Empty])},
   auto |-> 4]

\* A primary key that was CHAR, beside a wider column, one the program does not know and
\* an index nobody declared.
ByAccount == Version(<<Id, Key("account", 2, varchar(191)), Score, Field("level", 4, int)>>,
                     <<"account">>, [uk |-> Index(<<"id">>, TRUE)])
RebuildCase ==
  [version |-> ByAccount,
   def |-> Def([id |-> Column(bigint, 1, "auto"), account |-> Column(char(255), 2, "empty"),
                score |-> Column(bigint, 3, "null"), note |-> Column(text, 0, "null")],
               <<"account">>,
               [uk |-> Index(<<"id">>, TRUE), extra |-> Index(<<"account", "score">>, FALSE),
                words |-> [Index(<<"score">>, FALSE) EXCEPT !.kind = "fulltext"]]),
   rows |-> {Row(1, [account |-> lower, score |-> big, note |-> lower])},
   auto |-> 3]
NullScoreCase ==
  [RebuildCase EXCEPT !.rows = {Row(1, [account |-> lower, score |-> Null, note |-> Null])}]
LongKeyCase ==
  [RebuildCase EXCEPT !.rows = {Row(1, [account |-> long, score |-> big, note |-> Null])}]

\* Keys near the byte budget.
Pair(fields, cols) ==
  [version |-> Version(<<Id>> \o fields, <<fields[1].name, fields[2].name>>,
                       [uk |-> Index(<<"id">>, TRUE)]),
   def |-> Def([id |-> Column(bigint, 1, "auto")] @@ cols, <<fields[1].name, fields[2].name>>,
               [uk |-> Index(<<"id">>, TRUE)]),
   rows |-> {}, auto |-> 2]
WideKeyCase ==
  Pair(<<Key("account", 2, varchar(191)), Key("guild", 5, varchar(191))>>,
       [account |-> Column(char(255), 2, "empty"), guild |-> Column(varchar(700), 5, "empty")])
NumericKeyCase ==
  Pair(<<Key("account", 2, varchar(767)), Field("zone", 5, int)>>,
       [account |-> Column(char(255), 2, "empty"), zone |-> Column(bigint, 5, "zero")])

\* Field 5 is renamed and its old name is given to a new field.
ReusedNameCase ==
  [version |-> Version(<<Id, Key("account", 2, varchar(191)), Field("nickname", 5, text),
                         Field("name", 6, text)>>, <<"account">>, [uk |-> Index(<<"id">>, TRUE)]),
   def |-> Def([id |-> Column(bigint, 1, "auto"), account |-> Column(char(255), 2, "empty"),
                name |-> Column(text, 5, "zero")], <<"account">>, [uk |-> Index(<<"id">>, TRUE)]),
   rows |-> {Row(1, [account |-> lower, name |-> lower])}, auto |-> 2]

ReusedNameLastCase ==
  [ReusedNameCase EXCEPT
     !.version.fields = <<Id, Key("account", 2, varchar(191)), Field("name", 6, text),
                          Field("nickname", 5, text)>>]

\* Two columns of the old form in one unique key.
TwoKeysCase ==
  [version |-> Version(<<Id, Key("account", 2, varchar(191)), Key("guild", 5, varchar(191))>>,
                       <<"id">>, [uk |-> Index(<<"account", "guild">>, TRUE)]),
   def |-> Def([id |-> Column(bigint, 1, "auto"), account |-> Column(text, 2, "empty"),
                guild |-> Column(char(255), 5, "null")], <<"id">>,
               [uk |-> Prefix(Index(<<"account", "guild">>, TRUE))]),
   rows |-> {Row(1, [account |-> lower, guild |-> Null])}, auto |-> 2]

\* Nothing to migrate.
NoKeyCase ==
  [version |-> Version(<<Id>>, <<"id">>, <<>>),
   def |-> Def([id |-> Column(bigint, 1, "auto")], <<"id">>, <<>>), rows |-> {}, auto |-> 1]

MCCases == {InPlaceCase, RebuildCase, NullScoreCase, LongKeyCase, WideKeyCase, NumericKeyCase,
            ReusedNameCase, ReusedNameLastCase, TwoKeysCase, NoKeyCase}
MCReusedNames == {ReusedNameCase, ReusedNameLastCase}
MCNewKeys == {Null, lower, upper, long}

ASSUME ClearKeysAssumption == \A c \in Cases : KeysAreClear(c.version, c.def.cols)

-----------------------------------------------------------------------------
VARIABLE part  \* "migration" or "files"

MCInit ==
  \/ part = "migration" /\ MigrationInit /\ FilesInit /\ target = [i \in Files |-> 0]
  \/ part = "files" /\ FilesInit /\ MigrationInit /\ version = NoKeyCase.version

MCNext ==
  /\ \/ part = "migration" /\ MigrationNext /\ UNCHANGED filesVars
     \/ part = "files" /\ FilesNext /\ UNCHANGED migrationVars
  /\ UNCHANGED part

MCSpec == MCInit /\ [][MCNext]_<<part, migrationVars, filesVars>> /\ MigrationFairness
=============================================================================
