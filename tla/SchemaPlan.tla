----------------------------- MODULE SchemaPlan -----------------------------
(***************************************************************************)
(* The plan of one schema synchronisation (planSchemaAlignment of          *)
(* proto2mysql.go): what a table looks like online, what a version of the  *)
(* program declares, the ALTER statements that lead from one to the other, *)
(* and what MySQL makes of an ALTER.                                       *)
(*                                                                         *)
(* A version is [fields, pk, indexes, expandOnly]; fields is the sequence  *)
(* of [name, num, type, attrs, key] in declaration order.  attrs stands    *)
(* for NULL, DEFAULT, AUTO_INCREMENT and collation together.  A table is    *)
(* [cols, pk, indexes]; it exists when it has columns.  A column's num is   *)
(* the N of its comment pb:N, 0 without one, and born is history: the       *)
(* field and the name it was added for.  A plan is two ALTERs, each a set   *)
(* of clauses: the clauses of one ALTER take effect together.              *)
(***************************************************************************)
EXTENDS ColumnTypes, Sequences, FiniteSets, SequencesExt

NoTable == [cols |-> <<>>, pk |-> <<>>, indexes |-> <<>>]
IsTable(t) == t = [cols |-> t.cols, pk |-> t.pk, indexes |-> t.indexes]
Exists(table) == DOMAIN table.cols # {}

AddColumn(f) == [op |-> "add column", name |-> f.name, type |-> f.type,
                 attrs |-> f.attrs, num |-> f.num]

\* MODIFY COLUMN, and CHANGE COLUMN when old is not the field's name.
ChangeColumn(old, column, f) ==
  [op |-> "change column", old |-> old, name |-> f.name,
   type |-> AlignedColumnType(column.type, f.type), attrs |-> f.attrs, num |-> f.num]

AddIndex(name, index) == [op |-> "add index", name |-> name, index |-> index]
AddPrimaryKey(names) == [op |-> "add primary key", pk |-> names]
-----------------------------------------------------------------------------
NumberIsAmbiguous(cols) ==
  \E a, b \in DOMAIN cols : a # b /\ cols[a].num # 0 /\ cols[a].num = cols[b].num

\* A match by name alone.
SameName(cols, left, f) == {f.name} \cap left

\* The online columns field f can take over: the one of its name, else the one of its
\* number; left are the columns no earlier field has taken.
Candidates(cols, left, f) ==
  IF f.name \in left THEN {f.name} ELSE {n \in left : cols[n].num = f.num}

InPlace(cols, old, f) ==
  old = f.name /\ IsTypeMatch(cols[old].type, f.type) /\ cols[old].num = f.num

\* ErrUnsafeSchemaConversion, ErrFieldNumberReused
Inconvertible(column, f) ==
  \/ ~IsRenameConvertible(column.type, f.type)
  \/ UnsafeSignednessChange(column.type, f.type)

PlanField(cols, plan, f) ==
  LET found == Candidates(cols, plan.left, f)
      old == CHOOSE n \in found : TRUE
  IN CASE found = {} -> [plan EXCEPT !.clauses = @ \cup {AddColumn(f)}]
       [] found # {} /\ InPlace(cols, old, f) -> [plan EXCEPT !.left = @ \ {old}]
       [] found # {} /\ ~InPlace(cols, old, f) ->
            [left |-> plan.left \ {old},
             clauses |-> plan.clauses \cup {ChangeColumn(old, cols[old], f)},
             refused |-> plan.refused \/ Inconvertible(cols[old], f)]

\* One clause at most for each field, in declaration order: planned[i] is the plan for the
\* first i fields.
ColumnClauses(v, cols) ==
  LET planned[i \in 0..Len(v.fields)] ==
        IF i = 0
          THEN [left |-> DOMAIN cols, clauses |-> {}, refused |-> NumberIsAmbiguous(cols)]
          ELSE PlanField(cols, planned[i - 1], v.fields[i])
  IN planned[Len(v.fields)]

\* ErrLegacyKeyColumn: a string key column that compares other than byte for byte.
IsLegacyKey(column, f) == f.key /\ column.type.rank # f.type.rank

Drifts(column, f) == IsLegacyKey(column, f) \/ column.attrs # f.attrs

\* ErrSchemaDrift: attributes, an index or the primary key differ; no ALTER repairs them.
HasDrift(v, t) ==
  \/ \E i \in DOMAIN v.fields :
       \E n \in Candidates(t.cols, DOMAIN t.cols, v.fields[i]) : Drifts(t.cols[n], v.fields[i])
  \/ \E i \in DOMAIN v.indexes \cap DOMAIN t.indexes : t.indexes[i] # v.indexes[i]
  \/ v.pk # <<>> /\ t.pk # <<>> /\ t.pk # v.pk

NeedsPrimaryKey(v, t) == v.pk # <<>> /\ t.pk = <<>>

\* Only a MODIFY moves to the primary key's ALTER; ADD and CHANGE stay in the first.
OnlyModifyWaits(v, t, clause) ==
  /\ NeedsPrimaryKey(v, t)
  /\ clause.op = "change column" /\ clause.old = clause.name
  /\ clause.attrs = "auto" /\ clause.name \in ToSet(v.pk)

\* An AUTO_INCREMENT column of the primary key comes with the key, in the second ALTER.
WaitsForKey(v, t, clause) ==
  /\ NeedsPrimaryKey(v, t)
  /\ clause.attrs = "auto" /\ clause.name \in ToSet(v.pk)

OnlyAdds(clauses) == \A c \in clauses : c.op # "change column"

\* planSchemaAlignment
Plan(v, t, expandOnly) ==
  LET align == ColumnClauses(v, t.cols)
      waiting == {c \in align.clauses : WaitsForKey(v, t, c)}
      missing == {AddIndex(i, v.indexes[i]) : i \in DOMAIN v.indexes \ DOMAIN t.indexes}
      late == {x \in missing : \E c \in waiting : c.name \in ToSet(x.index.cols)}
      first == (align.clauses \ waiting) \cup (missing \ late)
      second == IF NeedsPrimaryKey(v, t)
                  THEN waiting \cup {AddPrimaryKey(v.pk)} \cup late
                  ELSE {}
  IN [refused |-> \/ align.refused \/ HasDrift(v, t)
                  \/ expandOnly /\ ~OnlyAdds(first \cup second),
      columns |-> first, primaryKey |-> second]

IsSettled(v, t) ==
  LET plan == Plan(v, t, FALSE)
  IN ~plan.refused /\ plan.columns = {} /\ plan.primaryKey = {}
-----------------------------------------------------------------------------
\* MySQL: the effect of one ALTER on a table, and what it refuses.
OfColumns(clauses) == {c \in clauses : c.op \in {"add column", "change column"}}
Replaced(clauses) == {c.old : c \in {d \in clauses : d.op = "change column"}}
NewName(clauses, n) ==
  IF n \in Replaced(clauses)
    THEN (CHOOSE c \in clauses : c.op = "change column" /\ c.old = n).name ELSE n
Renamed(clauses, names) == [i \in DOMAIN names |-> NewName(clauses, names[i])]

Altered(t, clauses) ==
  LET kept == DOMAIN t.cols \ Replaced(clauses)
      changed == OfColumns(clauses)
      clauseOf(n) == CHOOSE c \in changed : c.name = n
      column(c) == [type |-> c.type, attrs |-> c.attrs, num |-> c.num,
                    born |-> IF c.op = "change column" THEN t.cols[c.old].born
                                                       ELSE [num |-> c.num, name |-> c.name]]
      added == {c \in clauses : c.op = "add index"}
      index(i) == (CHOOSE x \in added : x.name = i).index
      keys == {c \in clauses : c.op = "add primary key"}
  IN [cols |-> [n \in kept \cup {c.name : c \in changed} |->
                  IF n \in kept THEN t.cols[n] ELSE column(clauseOf(n))],
      pk |-> IF keys # {} THEN (CHOOSE c \in keys : TRUE).pk ELSE Renamed(clauses, t.pk),
      indexes |-> [i \in DOMAIN t.indexes \cup {x.name : x \in added} |->
                     IF i \in DOMAIN t.indexes
                       THEN [t.indexes[i] EXCEPT !.cols = Renamed(clauses, @)]
                       ELSE index(i)]]

LeadsAKey(t, n) ==
  \/ t.pk # <<>> /\ t.pk[1] = n
  \/ \E i \in DOMAIN t.indexes : t.indexes[i].cols[1] = n

\* Errors 1072 and 1075
KeysFit(t) ==
  /\ t.pk \in Seq(DOMAIN t.cols)
  /\ \A i \in DOMAIN t.indexes :
       "cols" \in DOMAIN t.indexes[i] /\ t.indexes[i].cols \in Seq(DOMAIN t.cols) \ {<<>>}
  /\ \A n \in DOMAIN t.cols : t.cols[n].attrs = "auto" => LeadsAKey(t, n)

\* Errors 1054 and 1060, 1061, 1068, 1072, 1075
Executes(t, clauses) ==
  LET changed == OfColumns(clauses)
      kept == DOMAIN t.cols \ Replaced(clauses)
  IN /\ Exists(t)
     /\ Replaced(clauses) \subseteq DOMAIN t.cols
     /\ \A c, d \in changed : c # d => c.name # d.name
     /\ \A c \in changed : c.name \notin kept
     /\ \A c \in clauses : c.op = "add index" => c.name \notin DOMAIN t.indexes
     /\ \A c \in clauses : c.op = "add primary key" => t.pk = <<>>
     /\ KeysFit(Altered(t, clauses))

\* CREATE TABLE IF NOT EXISTS
Created(v, t) ==
  IF Exists(t) THEN t
    ELSE [cols |-> Altered(NoTable, {AddColumn(v.fields[i]) : i \in DOMAIN v.fields}).cols,
          pk |-> v.pk, indexes |-> v.indexes]

FieldNames(v) == {f.name : f \in ToSet(v.fields)}

\* validateSchemaDefinition: keys are made of declared fields, and the AUTO_INCREMENT field
\* leads one.  That fields differ in name and number is protobuf's own rule.
IsVersion(v) ==
  /\ v.fields \in Seq(ToSet(v.fields)) \ {<<>>}
  /\ \A i, j \in DOMAIN v.fields : i # j =>
       /\ v.fields[i].name # v.fields[j].name
       /\ v.fields[i].num # v.fields[j].num
       /\ v.fields[i].attrs = "auto" => v.fields[j].attrs # "auto"
  /\ v.pk \in Seq(FieldNames(v))
  /\ \A i \in DOMAIN v.indexes :
       v.indexes[i] \in [cols : Seq(FieldNames(v)) \ {<<>>}, unique : BOOLEAN]
  /\ \A f \in ToSet(v.fields) :
       f.num \in Nat \ {0} /\ (f.attrs = "auto" => LeadsAKey(v, f.name))
=============================================================================
