---------------------------- MODULE KeyMigration ----------------------------
(***************************************************************************)
(* The migration of string keys created by an old release (keycolumns.go). *)
(* Synchronisation refuses a table whose key column compares other than    *)
(* byte for byte and prints a script; an operator runs it, statement by    *)
(* statement, in a window without writers.  A key column outside the       *)
(* primary key is altered in place; one inside it needs a shadow table:    *)
(* create, copy, raise the AUTO_INCREMENT counter, swap the names.         *)
(*                                                                         *)
(* The instructions that come with the script are modelled too: after an   *)
(* error drop the shadow table and start again from the first statement, in *)
(* a new session; or ask the program for a new script (SyncTable).  Any    *)
(* statement may fail, and its reply may be lost after it took effect.     *)
(*                                                                         *)
(* A row is [id, vals].  A value is [bytes, word, spelling]: how much room *)
(* it takes, what it says, and upper or lower case; MySQL compares words   *)
(* in a column of the old form and spellings too in one of the new form.   *)
(* An index is [cols, unique, whole, kind]; whole FALSE is a prefix index. *)
(***************************************************************************)
EXTENDS SchemaPlan

CONSTANTS Cases,        \* the tables found online, with the version that is deployed:
                        \* [version, def, rows, auto]
          NewKeys,      \* the key values writers insert
          MaxId,        \* bound: rows ever inserted
          MaxFailures   \* bound: statements that fail for no reason of theirs

MaxIndexKeyBytes == 3072
TextIndexPrefixLength == 191

VARIABLES
  version,    \* what the program declares
  tables,     \* by name: [def, rows, auto], or Missing
  operator,   \* "idle" or "accepted" (by SyncTable): no window, writers write; "script",
              \* "again": running a script, not for the first time; "failed"
  script,     \* the statements of the last refusal
  at,         \* the next of them
  strict,     \* the session's sql_mode has STRICT_ALL_TABLES
  counter,    \* the session's @p2m_auto_increment
  failures,
  finished,    \* history: the last statement of a script has run; which kind
  live,       \* history: what the program read as each field of each row, by id
  issued      \* history: the highest id ever given to a row

migrationVars == <<version, tables, operator, script, at, strict, counter, failures, finished,
                   live, issued>>

Table == "t"
Shadow == "t__p2m_new"
Backup == "t__p2m_old"
Missing == [def |-> NoTable, rows |-> {}, auto |-> 1]
IsThere(name) == Exists(tables[name].def)

Null == [bytes |-> 0, word |-> -1, spelling |-> 0]
Empty == [bytes |-> 0, word |-> 0, spelling |-> 0]
IdValue(n) == [bytes |-> 8, word |-> n, spelling |-> 0]

FieldsOf(v) == ToSet(v.fields)
FieldNamed(v, name) == CHOOSE f \in FieldsOf(v) : f.name = name
IsText(type) == type.family = "text"
IsString(type) == type.family \in {"text", "binary"}
NeedsIndexPrefix(type) == IsString(type) /\ type.rank > 2
-----------------------------------------------------------------------------
MatchField(cols, m, f) ==
  LET found == Candidates(cols, m.left, f)
  IN [left |-> m.left \ found,
      of |-> [name \in DOMAIN m.of \cup {f.name} |->
                IF name = f.name THEN found ELSE m.of[name]]]

\* The column each field is read from, as synchronisation matches them: field by field, by
\* name, else by number, a column taken once; matched[i] is the matching of the first i.
SyncColumns(v, cols) ==
  LET matched[i \in 0..Len(v.fields)] ==
        IF i = 0 THEN [left |-> DOMAIN cols, of |-> <<>>]
                 ELSE MatchField(cols, matched[i - 1], v.fields[i])
  IN matched[Len(v.fields)].of

\* Without remaining: a column taken by two fields.
MutantShadowColumns(v, cols) ==
  [name \in {f.name : f \in FieldsOf(v)} |->
     IF name \in DOMAIN cols THEN {name}
       ELSE {n \in DOMAIN cols : cols[n].num = FieldNamed(v, name).num}]

\* The same for the shadow table (shadowColumns): every field by name first, and only then
\* the rest by number among the columns that are left.
ShadowColumns(v, cols) ==
  LET left == DOMAIN cols \ {f.name : f \in FieldsOf(v)}
  IN [name \in {f.name : f \in FieldsOf(v)} |->
        IF name \in DOMAIN cols THEN {name}
          ELSE {n \in left : cols[n].num = FieldNamed(v, name).num}]

\* The column of the old form that field f is read from: one at most, where numbers are
\* unambiguous.
LegacyColumns(def, f) ==
  {n \in Candidates(def.cols, DOMAIN def.cols, f) : IsLegacyKey(def.cols[n], f)}

LegacyKeys(v, def) == {f \in FieldsOf(v) : LegacyColumns(def, f) # {}}
LegacyFields(v, def) == {f.name : f \in LegacyKeys(v, def)}

\* ErrLegacyKeyColumn, with a script; other errors of the plan come first.
OffersScript(v, def) == LegacyKeys(v, def) # {} /\ ~ColumnClauses(v, def.cols).refused

InPrimaryKey(v, def) == ToSet(v.pk) \cap LegacyFields(v, def) # {}
-----------------------------------------------------------------------------
\* What a column of this type takes in an index key; a TEXT or BLOB column its prefix.
IndexPartBytes(type) ==
  CASE NeedsIndexPrefix(type) -> (IF IsText(type) THEN 4 ELSE 1) * TextIndexPrefixLength
    [] type.family = "datetime" -> 8
    [] type.family = "float" -> 4 * type.rank
    [] OTHER -> Capacity(type)

KeyBytes(types, key) ==
  LET sum[i \in 0..Len(key)] ==
        IF i = 0 THEN 0 ELSE sum[i - 1] + IndexPartBytes(types[key[i]])
  IN sum[Len(key)]

\* The keys in the order of validateIndexKeyBytes.
DeclaredKeys(v) ==
  LET colsOf(unique) == {v.indexes[i].cols : i \in {j \in DOMAIN v.indexes :
                                                      v.indexes[j].unique = unique}}
  IN <<v.pk>> \o SetToSeq(colsOf(TRUE)) \o SetToSeq(colsOf(FALSE))

FieldTypes(v) == [name \in {f.name : f \in FieldsOf(v)} |-> FieldNamed(v, name).type]

\* validateIndexKeyBytes, when the table is registered.
Registrable(v) ==
  \A i \in DOMAIN DeclaredKeys(v) : KeyBytes(FieldTypes(v), DeclaredKeys(v)[i]) <= MaxIndexKeyBytes

\* Fields have MySQL's types, string and bytes fields VARCHAR and VARBINARY in the primary and
\* unique keys and TEXT and BLOB elsewhere (getMySQLFieldType); keys are made of declared
\* fields (validateSchemaDefinition), and such a key has no prefix.
HasKeyColumns(v) ==
  LET whole == {v.pk} \cup {v.indexes[i].cols : i \in {j \in DOMAIN v.indexes : v.indexes[j].whole}}
  IN /\ \A f \in FieldsOf(v) :
          /\ f.type \in Types /\ IndexPartBytes(f.type) \in Nat
          /\ f.key <=> IsString(f.type) /\ f.type.rank = 2
     /\ v.pk \in Seq(FieldNames(v))
     /\ \A i \in DOMAIN v.indexes :
          v.indexes[i] \in [cols : Seq(FieldNames(v)), unique : BOOLEAN, whole : BOOLEAN,
                            kind : {"btree"}]
     /\ \A key \in whole : \A name \in ToSet(key) :
          IsString(FieldNamed(v, name).type) => FieldNamed(v, name).key

\* What information_schema says of a table.
IsOnline(def) ==
  /\ IsTable(def)
  /\ \A n \in DOMAIN def.cols : def.cols[n].type \in Types
  /\ \A i \in DOMAIN def.indexes : {"cols", "whole"} \subseteq DOMAIN def.indexes[i]

AreColumns(cols) == cols = [n \in DOMAIN cols |-> cols[n]]

IsRow(r) == r = [id |-> r.id, vals |-> r.vals] /\ r.id \in Nat

\* A message has finitely many fields, each with a name and a number of its own.  Ids are
\* unique, and the counter is above them.
ASSUME CasesAssumption ==
  \A c \in Cases :
    /\ Registrable(c.version) /\ HasKeyColumns(c.version)
    /\ c.version.fields \in Seq(FieldsOf(c.version))
    /\ \A i, j \in DOMAIN c.version.fields : i # j =>
         /\ c.version.fields[i].name # c.version.fields[j].name
         /\ c.version.fields[i].num # c.version.fields[j].num
    /\ IsFiniteSet(DOMAIN c.version.indexes)
    /\ \A f \in FieldsOf(c.version) : f.num \in Nat \ {0}
    /\ IsFiniteSet(c.rows)
    /\ \A r \in c.rows : IsRow(r) /\ r.id < c.auto /\ DOMAIN r.vals = DOMAIN c.def.cols
    /\ \A r, s \in c.rows : r.id = s.id => r = s
    /\ c.auto \in Nat \ {0}
    /\ IsOnline(c.def) /\ AreColumns(c.def.cols)

\* shadowColumnType: a wider online type is kept, except in a column of the old form.
ShadowType(v, def, name) ==
  LET online == ShadowColumns(v, def.cols)[name]
      type == FieldNamed(v, name).type
      current == def.cols[CHOOSE n \in online : TRUE].type
  IN IF name \in LegacyFields(v, def) \/ online = {} \/ ~IsTypeMatch(current, type)
       THEN type ELSE AlignedColumnType(current, type)

\* One key over the budget: its string columns go back to the declared width, in order,
\* until it fits.
ShrinkKey(v, types, key) ==
  LET shrunk[i \in 0..Len(key)] ==
        IF i = 0 THEN types
          ELSE LET ts == shrunk[i - 1] IN
               IF KeyBytes(ts, key) > MaxIndexKeyBytes /\ FieldNamed(v, key[i]).key
                 THEN [ts EXCEPT ![key[i]] = FieldNamed(v, key[i]).type] ELSE ts
  IN shrunk[Len(key)]

\* No check of the byte budget.
MutantShrinkKeys(v, types) == types

\* shrinkShadowKeysToIndexBudget
ShrinkKeys(v, types) ==
  LET shrunk[i \in 0..Len(DeclaredKeys(v))] ==
        IF i = 0 THEN types ELSE ShrinkKey(v, shrunk[i - 1], DeclaredKeys(v)[i])
  IN shrunk[Len(DeclaredKeys(v))]

ShadowTypes(v, def) ==
  ShrinkKeys(v, [name \in {f.name : f \in FieldsOf(v)} |-> ShadowType(v, def, name)])

\* An index nobody declared, over the shadow table's columns.
ShadowIndex(v, def, index) ==
  LET types == ShadowTypes(v, def)
      fieldOf(n) == CHOOSE name \in DOMAIN types : n \in ShadowColumns(v, def.cols)[name]
      cols == [i \in DOMAIN index.cols |-> fieldOf(index.cols[i])]
  IN [index EXCEPT !.cols = cols,
        !.whole = /\ \A name \in ToSet(cols) : ~NeedsIndexPrefix(types[name])
                  /\ \/ @
                     \/ ToSet(cols) \subseteq LegacyFields(v, def)]

\* shadowExtraIndexes: those that can be kept; the others are for the operator to restore.
KeptIndexes(v, def) ==
  {i \in DOMAIN def.indexes \ DOMAIN v.indexes :
     /\ def.indexes[i].kind = "btree"
     /\ ToSet(def.indexes[i].cols) \subseteq UNION Range(ShadowColumns(v, def.cols))
     /\ KeyBytes(ShadowTypes(v, def), ShadowIndex(v, def, def.indexes[i]).cols)
          <= MaxIndexKeyBytes}

\* A column without its comment pb:N.
MutantShadowColumn(f, type) ==
  [type |-> type, attrs |-> f.attrs, num |-> 0, born |-> [num |-> f.num, name |-> f.name]]

ShadowColumn(f, type) ==
  [type |-> type, attrs |-> f.attrs, num |-> f.num, born |-> [num |-> f.num, name |-> f.name]]

\* What buildCreateTableSQL declares for the shadow table.
ShadowDef(v, def) ==
  LET types == ShadowTypes(v, def)
  IN [cols |-> [name \in DOMAIN types |-> ShadowColumn(FieldNamed(v, name), types[name])],
      pk |-> v.pk,
      indexes |-> [i \in DOMAIN v.indexes \cup KeptIndexes(v, def) |->
                     IF i \in DOMAIN v.indexes THEN v.indexes[i]
                                               ELSE ShadowIndex(v, def, def.indexes[i])]]

HasAutoIncrement(v) == \E f \in FieldsOf(v) : f.attrs = "auto"

\* legacyKeyRebuildSQL
RebuildScript(v, def) ==
  LET sources == ShadowColumns(v, def.cols)
      copied == {name \in DOMAIN sources : sources[name] # {}}
      source == [name \in copied |-> CHOOSE n \in sources[name] : TRUE]
      filled == {name \in copied \cap LegacyFields(v, def) : def.cols[source[name]].attrs = "null"}
      rebase == IF HasAutoIncrement(v) THEN <<[op |-> "read counter"], [op |-> "rebase"]>> ELSE <<>>
  IN <<[op |-> "strict"],
       [op |-> "create", def |-> ShadowDef(v, def)],
       [op |-> "copy", source |-> source, filled |-> filled]>> \o rebase \o
     <<[op |-> "rename"]>>

\* The declared indexes over a column of the old form.
IndexesOver(v, def) ==
  {i \in DOMAIN v.indexes : ToSet(v.indexes[i].cols) \cap LegacyFields(v, def) # {}}

\* Also those a first run has dropped.
MutantDroppedIndexes(v, def) == IndexesOver(v, def)

\* Only those that are there.
DroppedIndexes(v, def) == IndexesOver(v, def) \cap DOMAIN def.indexes

\* The column stays nullable.
MutantToKeyColumn(column, old, f) ==
  [ChangeColumn(old, column, f) EXCEPT !.type = f.type, !.attrs = column.attrs]

ToKeyColumn(column, old, f) == [ChangeColumn(old, column, f) EXCEPT !.type = f.type]

\* legacyKeyAlterSQL
AlterScript(v, def) ==
  LET keys == LegacyKeys(v, def)
      columnOf(f) == CHOOSE n \in LegacyColumns(def, f) : TRUE
      nullable == {f \in keys : def.cols[columnOf(f)].attrs = "null"}
  IN <<[op |-> "strict"]>>
     \o SetToSeq({[op |-> "drop index", name |-> i] : i \in DroppedIndexes(v, def)})
     \o SetToSeq({[op |-> "fill", name |-> columnOf(f)] : f \in nullable})
     \o SetToSeq({ToKeyColumn(def.cols[columnOf(f)], columnOf(f), f) : f \in keys})
     \o SetToSeq({AddIndex(i, v.indexes[i]) : i \in IndexesOver(v, def)})

\* legacyKeyColumnError
ScriptFor(v, def) == IF InPrimaryKey(v, def) THEN RebuildScript(v, def) ELSE AlterScript(v, def)

IsRebuild(s) == \E i \in DOMAIN s : s[i].op = "rename"
-----------------------------------------------------------------------------
\* MySQL.  What a column makes of a value: an error in strict mode, else it is cut.
Storable(x, column) ==
  IF x = Null THEN column.attrs = "null" ELSE x.bytes <= Capacity(column.type)

Stored(x, column) ==
  CASE Storable(x, column) -> x
    [] ~Storable(x, column) /\ x = Null -> Empty
    [] OTHER -> [x EXCEPT !.bytes = Capacity(column.type), !.word = @ + 100]

\* Error 1062: what two rows of a unique key are compared by.
Compared(column, x) ==
  IF IsText(column.type) /\ column.type.rank # 2 THEN <<x.word>> ELSE <<x.word, x.spelling>>

UniqueKeys(def) ==
  {def.pk} \cup {def.indexes[i].cols : i \in {j \in DOMAIN def.indexes : def.indexes[j].unique}}

NoDuplicates(def, rows) ==
  \A key \in UniqueKeys(def) \ {<<>>} : \A r, s \in rows :
    r # s => \E n \in ToSet(key) :
               \/ Compared(def.cols[n], r.vals[n]) # Compared(def.cols[n], s.vals[n])
               \/ Null \in {r.vals[n], s.vals[n]}

\* Errors 1071 and 1170
KeysCreatable(def) ==
  LET types == [n \in DOMAIN def.cols |-> def.cols[n].type]
      whole == {def.pk} \cup {def.indexes[i].cols : i \in {j \in DOMAIN def.indexes :
                                                             def.indexes[j].whole}}
  IN /\ \A key \in {def.pk} \cup {def.indexes[i].cols : i \in DOMAIN def.indexes} :
          KeyBytes(types, key) <= MaxIndexKeyBytes
     /\ \A key \in whole : \A n \in ToSet(key) : ~NeedsIndexPrefix(types[n])

NextAuto(rows) == 1 + Max({0} \cup {r.id : r \in rows})
AtLeast(n, rows) == Max({n, NextAuto(rows)})

Default(column) == IF column.attrs = "null" THEN Null ELSE Empty

\* The rows after a change of columns: source says where a column's values come from.
Rewritten(def, rows, source) ==
  {[id |-> r.id,
    vals |-> [n \in DOMAIN def.cols |->
                IF n \in DOMAIN source THEN Stored(r.vals[source[n]], def.cols[n])
                                       ELSE Default(def.cols[n])]] : r \in rows}

AllStorable(def, rows, source) ==
  \A r \in rows, n \in DOMAIN source : Storable(r.vals[source[n]], def.cols[n])

\* Where the columns of an altered table come from.
AlteredFrom(def, clauses) ==
  LET clausesOf(op) == {c \in clauses : c.op = op}
      changed == clausesOf("change column")
      kept == DOMAIN def.cols \ {c.old : c \in changed}
  IN [n \in kept \cup {c.name : c \in changed} |->
        IF n \in kept THEN n ELSE (CHOOSE c \in changed : c.name = n).old]

AlteredTable(t, clauses) ==
  LET def == Altered(t.def, clauses)
  IN [t EXCEPT !.def = def, !.rows = Rewritten(def, @, AlteredFrom(t.def, clauses))]

\* The ALTER goes through, in a strict session or not.
Alters(t, clauses, isStrict) ==
  LET after == AlteredTable(t, clauses)
  IN /\ Executes(t.def, clauses)
     /\ KeysCreatable(after.def)
     /\ isStrict => AllStorable(after.def, t.rows, AlteredFrom(t.def, clauses))
     /\ NoDuplicates(after.def, after.rows)

Filled(rows, names) ==
  {[r EXCEPT !.vals = [n \in DOMAIN @ |-> IF n \in names /\ @[n] = Null THEN Empty ELSE @[n]]]
     : r \in rows}
-----------------------------------------------------------------------------
\* What the program reads as its fields, row by row; a field two matchings read from
\* different columns has no agreed value.
Reading(v, t) ==
  LET of == SyncColumns(v, t.def.cols)
      agreed == {name \in DOMAIN of :
                   of[name] # {} /\ of[name] = ShadowColumns(v, t.def.cols)[name]}
      rowOf(i) == CHOOSE r \in t.rows : r.id = i
  IN [i \in {r.id : r \in t.rows} |->
        [name \in agreed |-> rowOf(i).vals[CHOOSE n \in of[name] : TRUE]]]

MigrationInit ==
  \E c \in Cases :
    /\ version = c.version
    /\ tables = [name \in {Table, Shadow, Backup} |->
                   IF name = Table THEN [def |-> c.def, rows |-> c.rows, auto |-> c.auto]
                                   ELSE Missing]
    /\ live = Reading(c.version, [def |-> c.def, rows |-> c.rows])
    /\ issued = c.auto - 1
    /\ operator = "idle"
    /\ script = <<>>
    /\ at = 1
    /\ strict = FALSE
    /\ counter = 1
    /\ failures = 0
    /\ finished = "no"

session == <<strict, counter>>
history == <<live, issued>>

Goto(step, index) == operator' = step /\ at' = index

\* One statement: it takes effect, and its reply comes or is lost; MySQL refuses it; or it
\* fails for another reason.
Run(accepted, after) ==
  \/ /\ accepted
     /\ tables' = after
     /\ IF at < Len(script)
          THEN Goto(operator, at + 1) /\ UNCHANGED finished
          ELSE /\ Goto("idle", 1)
               /\ finished' = IF IsRebuild(script) THEN "rebuilt" ELSE "altered"
     /\ UNCHANGED failures
  \/ /\ failures < MaxFailures
     /\ failures' = failures + 1
     /\ \/ accepted /\ tables' = after
        \/ UNCHANGED tables
     /\ Goto("failed", at)
     /\ UNCHANGED finished
  \/ ~accepted /\ Goto("failed", at) /\ UNCHANGED <<tables, failures, finished>>

InWindow == operator \in {"script", "again", "failed"}
Running == operator \in {"script", "again"}
Statement(op) == Running /\ script[at].op = op
With(name, t) == [tables EXCEPT ![name] = t]
InScript == <<version, script, history>>

\* Not strict: what does not fit is cut.
MutantSetStrict ==
  /\ Statement("strict")
  /\ Run(TRUE, tables)
  /\ UNCHANGED <<InScript, session>>

\* SET SESSION sql_mode
SetStrict ==
  /\ Statement("strict")
  /\ Run(TRUE, tables)
  /\ strict' = TRUE
  /\ UNCHANGED <<InScript, counter>>

\* CREATE TABLE, without IF NOT EXISTS
CreateShadow ==
  LET def == script[at].def IN
  /\ Statement("create")
  /\ Run(~IsThere(Shadow) /\ KeysCreatable(def), With(Shadow, [Missing EXCEPT !.def = def]))
  /\ UNCHANGED <<InScript, session>>

\* INSERT ... SELECT, with COALESCE for the nullable columns of the old form
CopyRows ==
  LET s == script[at]
      def == tables[Shadow].def
      rows == Filled(tables[Table].rows, {s.source[name] : name \in s.filled})
      copied == Rewritten(def, rows, s.source)
  IN /\ Statement("copy")
     /\ Run(/\ IsThere(Shadow) /\ Range(s.source) \subseteq DOMAIN tables[Table].def.cols
            /\ strict => AllStorable(def, rows, s.source)
            /\ NoDuplicates(def, copied),
            With(Shadow, [def |-> def, rows |-> copied, auto |-> NextAuto(copied)]))
     /\ UNCHANGED <<InScript, session>>

\* information_schema.TABLES.AUTO_INCREMENT of the old table
ReadCounter ==
  /\ Statement("read counter")
  /\ Run(TRUE, tables)
  /\ counter' = tables[Table].auto
  /\ UNCHANGED <<InScript, strict>>

\* The shadow table counts from the highest id copied.
MutantRaiseCounter ==
  /\ Statement("rebase")
  /\ Run(IsThere(Shadow), tables)
  /\ UNCHANGED <<InScript, session>>

\* The prepared ALTER TABLE ... AUTO_INCREMENT
RaiseCounter ==
  /\ Statement("rebase")
  /\ Run(IsThere(Shadow),
         [tables EXCEPT ![Shadow].auto = AtLeast(counter, tables[Shadow].rows)])
  /\ UNCHANGED <<InScript, session>>

\* RENAME TABLE: both names at once
SwapNames ==
  /\ Statement("rename")
  /\ Run(IsThere(Table) /\ IsThere(Shadow) /\ ~IsThere(Backup),
         [tables EXCEPT ![Backup] = tables[Table], ![Table] = tables[Shadow], ![Shadow] = Missing])
  /\ UNCHANGED <<InScript, session>>

DropIndex ==
  LET t == tables[Table] IN
  /\ Statement("drop index")
  /\ Run(script[at].name \in DOMAIN t.def.indexes,
         With(Table, [t EXCEPT !.def.indexes =
                        [i \in DOMAIN @ \ {script[at].name} |-> @[i]]]))
  /\ UNCHANGED <<InScript, session>>

\* UPDATE ... SET c = '' WHERE c IS NULL
FillNulls ==
  LET t == tables[Table]
      rows == Filled(t.rows, {script[at].name})
  IN /\ Statement("fill")
     /\ Run(script[at].name \in DOMAIN t.def.cols /\ NoDuplicates(t.def, rows),
            With(Table, [t EXCEPT !.rows = rows]))
     /\ UNCHANGED <<InScript, session>>

\* ALTER TABLE ... MODIFY or CHANGE COLUMN; ADD INDEX
AlterTable ==
  LET t == tables[Table] IN
  /\ Statement("change column") \/ Statement("add index")
  /\ Run(Alters(t, {script[at]}, strict), With(Table, AlteredTable(t, {script[at]})))
  /\ UNCHANGED <<InScript, session>>

RunStatement ==
  \/ SetStrict \/ CreateShadow \/ CopyRows \/ ReadCounter \/ RaiseCounter \/ SwapNames
  \/ DropIndex \/ FillNulls \/ AlterTable
-----------------------------------------------------------------------------
NewSession == strict' = FALSE /\ counter' = 1

\* SyncTable refuses the table and prints a script; the operator opens a window for it.
AskForScript ==
  LET def == tables[Table].def IN
  /\ ~Running
  /\ OffersScript(version, def)
  /\ script' = ScriptFor(version, def)
  /\ Goto("script", 1)
  /\ NewSession
  /\ UNCHANGED <<version, tables, failures, finished, history>>

\* SyncTable has nothing against the table any more: it adds what is missing.
Synchronise ==
  LET t == tables[Table]
      plan == Plan(version, t.def, version.expandOnly)
      both == plan.columns \cup plan.primaryKey
  IN /\ ~Running
     /\ ~plan.refused
     /\ \/ /\ both = {}
           /\ Goto("accepted", 1)
           /\ UNCHANGED tables
        \/ /\ both # {} /\ Alters(t, both, TRUE)
           /\ tables' = With(Table, AlteredTable(t, both))
           /\ Goto("accepted", 1)
        \/ /\ both # {} /\ ~Alters(t, both, TRUE)
           /\ Goto("failed", 1)
           /\ UNCHANGED tables
     /\ UNCHANGED <<version, script, session, failures, finished, history>>

\* "中途任何一步失败：先 DROP TABLE 影子表再从头执行"
Restart ==
  /\ operator = "failed"
  /\ IsRebuild(script)
  /\ tables' = With(Shadow, Missing)
  /\ Goto("again", 1)
  /\ NewSession
  /\ UNCHANGED <<version, script, failures, finished, history>>

\* The rebuild can be put off: the old table is as it was.  An index dropped from it keeps
\* the window open.
PutOff ==
  /\ operator = "failed"
  /\ IsRebuild(script)
  /\ Goto("idle", 1)
  /\ UNCHANGED <<version, tables, script, session, failures, finished, history>>

DropBackup ==
  /\ ~InWindow
  /\ finished = "rebuilt"
  /\ IsThere(Backup)
  /\ tables' = With(Backup, Missing)
  /\ UNCHANGED <<version, operator, at, script, session, failures, finished, history>>

\* Replicas of an older release write while there is no window.
NewRow(def, x) ==
  [n \in DOMAIN def.cols |->
     CASE def.cols[n].attrs = "auto" -> IdValue(tables[Table].auto)
       [] def.cols[n].attrs # "auto" /\ \E f \in FieldsOf(version) :
            f.key /\ IsText(f.type) /\ n \in SyncColumns(version, def.cols)[f.name] -> x
       [] OTHER -> Default(def.cols[n])]

InsertRow(x) ==
  LET t == tables[Table]
      row == [id |-> t.auto, vals |-> NewRow(t.def, x)]
      after == [t EXCEPT !.rows = @ \cup {row}, !.auto = @ + 1]
  IN /\ ~InWindow
     /\ t.auto <= MaxId
     /\ \A n \in DOMAIN row.vals : Storable(row.vals[n], t.def.cols[n])
     /\ NoDuplicates(t.def, after.rows)
     /\ tables' = With(Table, after)
     /\ live' = [i \in DOMAIN live \cup {row.id} |->
                   IF i = row.id THEN Reading(version, after)[i] ELSE live[i]]
     /\ issued' = Max({issued, row.id})
     /\ UNCHANGED <<version, operator, script, at, session, failures, finished>>

DeleteRow(r) ==
  /\ ~InWindow
  /\ tables' = [tables EXCEPT ![Table].rows = @ \ {r}]
  /\ live' = [i \in DOMAIN live \ {r.id} |-> live[i]]
  /\ UNCHANGED <<version, operator, script, at, session, failures, finished, issued>>

MigrationNext ==
  \/ AskForScript \/ RunStatement \/ Restart \/ PutOff \/ Synchronise \/ DropBackup
  \/ \E x \in NewKeys : InsertRow(x)
  \/ \E r \in tables[Table].rows : DeleteRow(r)

\* A script that was begun is run on; an operator who fails keeps at it, and does not only
\* repeat the old script but calls SyncTable now and then.
MigrationFairness ==
  /\ WF_migrationVars(RunStatement)
  /\ SF_migrationVars(Restart)
  /\ []<>(operator \in {"script", "accepted"})

MigrationSpec == MigrationInit /\ [][MigrationNext]_migrationVars /\ MigrationFairness
-----------------------------------------------------------------------------
Same(x, y) == x = y \/ (y = Null /\ x = Empty)

\* Whatever statement fails, however often the script is started again and whether or not
\* the operator looked at the values first: the table holds the rows that were written and
\* not deleted, no other, and what the program read as a field of a row it reads again, not
\* cut and not from another column, only NULL in a key may have become ''.
RowsSurviveMigration ==
  LET now == Reading(version, tables[Table])
  IN /\ DOMAIN now = DOMAIN live
     /\ \A i \in DOMAIN live : \A name \in DOMAIN live[i] :
          name \in DOMAIN now[i] /\ Same(now[i][name], live[i][name])

\* After the last statement of a script that alters the table synchronisation accepts it
\* ("完成后重新同步应零漂移", keycolumns.go:429).
AlteredTablesAreAccepted ==
  finished = "altered" => ~Plan(version, tables[Table].def, FALSE).refused

\* After a rebuild it finds nothing to do ("最后同步必须零漂移",
\* string_key_integration_test.go:656), whatever is run, dropped or written after it.
RebuiltTablesAreSettled == finished = "rebuilt" => IsSettled(version, tables[Table].def)

\* No row gets an id that another row had, though its row was deleted before the rebuild
\* (autoIncrementRebaseSQL).
IdsAreNotReissued == issued < tables[Table].auto

\* A declared key with a numeric column that takes more room online than declared.
NumericKeyIsWider(v, def) ==
  \E i \in DOMAIN DeclaredKeys(v) : \E name \in ToSet(DeclaredKeys(v)[i]) :
    LET f == FieldNamed(v, name)
    IN ~f.key /\ IndexPartBytes(ShadowType(v, def, name)) # IndexPartBytes(f.type)

\* MySQL takes the shadow table's definition: no key is over the byte budget though wider
\* columns are kept, and no TEXT column is in a key without a prefix; the one exception is a
\* numeric key column that is wider online, which is never narrowed.
ShadowIsCreatable ==
  LET def == tables[Table].def
  IN OffersScript(version, def) /\ ~NumericKeyIsWider(version, def) =>
       KeysCreatable(ShadowDef(version, def))

\* The columns with the name or the number of a field.
ColumnsFor(cols, f) == {n \in DOMAIN cols : n = f.name \/ cols[n].num = f.num}

\* A string key has one at most, and it is no other field's.
KeysAreClear(v, cols) ==
  \A f \in FieldsOf(v) : f.key =>
    /\ \A m, n \in ColumnsFor(cols, f) : m = n
    /\ \A g \in FieldsOf(v) \ {f} : ColumnsFor(cols, f) \cap ColumnsFor(cols, g) = {}

\* A field's name is the name of another field's column, and that field comes first.
NameIsReused(v, cols) ==
  \E i, j \in DOMAIN v.fields :
    /\ i < j
    /\ v.fields[i].name \notin DOMAIN cols
    /\ v.fields[j].name \in DOMAIN cols
    /\ cols[v.fields[j].name].num = v.fields[i].num

\* The shadow table is filled from the columns synchronisation would keep for the fields,
\* each column once ("必须与 buildColumnClauses 一致", keycolumns.go:498).
ShadowMatchesSync ==
  LET cols == tables[Table].def.cols
  IN OffersScript(version, tables[Table].def) =>
       ShadowColumns(version, cols) = SyncColumns(version, cols)

\* It is when no field's name is reused, whatever fields are renamed, dropped or declared
\* in another order, and whatever the script or SyncTable has done to the table so far.
ShadowMatchesSyncWithoutReuse ==
  ~NameIsReused(version, tables[Table].def.cols) => ShadowMatchesSync

\* The rows fit the declared columns once NULL keys are ''.
Migrates ==
  LET t == tables[Table]
      def == ShadowDef(version, t.def)
      of == ShadowColumns(version, t.def.cols)
      source == [name \in {n \in DOMAIN of : of[n] # {}} |-> CHOOSE c \in of[name] : TRUE]
      rows == Filled(t.rows, {source[name] : name \in LegacyFields(version, t.def)})
  IN /\ KeysCreatable(def)
     /\ AllStorable(def, rows, source)
     /\ NoDuplicates(def, Rewritten(def, rows, source))

\* Between two scripts SyncTable prints another or can do what it has planned.
IsNotStuck ==
  LET t == tables[Table]
      plan == Plan(version, t.def, version.expandOnly)
      both == plan.columns \cup plan.primaryKey
  IN \/ Running \/ OffersScript(version, t.def)
     \/ ~plan.refused /\ (both = {} \/ Alters(t, both, TRUE))

\* While the rows fit there is always a next thing to do, and an operator who keeps at it
\* gets the table migrated, whatever fails at first and wherever.
MigrationEnds ==
  /\ [](Migrates => IsNotStuck)
  /\ <>[]Migrates => <>[]IsSettled(version, tables[Table].def)
=============================================================================
