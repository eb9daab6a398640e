------------------------- MODULE KeyMigration_proofs -------------------------
(***************************************************************************)
(* KeyMigration, proved for any tables, versions, rows and failures.  The  *)
(* migration gives no id out twice.  The shadow table is filled from the   *)
(* columns synchronisation would keep, but for one order of the fields.    *)
(* MySQL takes its definition, whatever types the old columns have grown   *)
(* to, and once it has taken the table's place nothing is left to change.  *)
(* And no row is lost and no value of a field, if the key columns are told *)
(* apart.                                                                  *)
(***************************************************************************)
EXTENDS KeyMigration, FiniteSetTheorems, SequenceTheorems, WellFoundedInduction, TLAPS

(***************************************************************************)
(* Numbers and finite sets                                                 *)
(***************************************************************************)
\* Every set of numbers has a least one.
LEMMA LeastNumber ==
  ASSUME NEW T \in SUBSET Nat, T # {}
  PROVE  \E x \in T : \A y \in T : x <= y
<1> DEFINE R == OpToRel(<, Nat)
<1>1. IsWellFoundedOn(R, Nat)
  BY NatLessThanWellFounded
<1>2. R = {ss \in Nat \X Nat : ss[1] < ss[2]}
  BY DEF OpToRel
<1> HIDE DEF R
<1>3. \E x \in T : \A y \in T : ~(<<y, x>> \in R)
  BY <1>1, WFMin
<1>4. \A x, y \in Nat : ~(<<y, x>> \in R) => x <= y
  <2> TAKE x, y \in Nat
  <2>1. <<y, x>> \in R <=> y < x
    BY <1>2, SMT
  <2> QED
    BY <2>1
<1> QED
  BY <1>3, <1>4

\* A finite set of numbers has a greatest one: the smallest set without one would be one with
\* all but one of its numbers.
LEMMA GreatestNumber ==
  ASSUME NEW S \in SUBSET Nat, IsFiniteSet(S), S # {}
  PROVE  Max(S) \in S /\ \A y \in S : y <= Max(S)
<1> DEFINE Lacks(T) == T # {} /\ \A x \in T : \E y \in T : ~(y <= x)
           sizes == {n \in Nat : \E T \in SUBSET S : Cardinality(T) = n /\ Lacks(T)}
<1>1. \A T \in SUBSET S : IsFiniteSet(T) /\ Cardinality(T) \in Nat
  BY FS_Subset, FS_CardinalityType
<1>2. ~Lacks(S)
  <2> SUFFICES ASSUME Lacks(S) PROVE FALSE
    OBVIOUS
  <2>1. Cardinality(S) \in sizes
    BY <1>1
  <2>2. sizes \subseteq Nat /\ sizes # {}
    BY <2>1
  <2>3. PICK n \in sizes : \A m \in sizes : n <= m
    BY <2>2, LeastNumber
  <2>4. PICK T \in SUBSET S : Cardinality(T) = n /\ Lacks(T)
    OBVIOUS
  <2>5. PICK x \in T : TRUE
    BY <2>4
  <2> DEFINE rest == T \ {x}
  <2>6. Cardinality(rest) = n - 1 /\ n - 1 \in Nat /\ rest \in SUBSET S
    <3>1. Cardinality(rest) = n - 1
      BY <1>1, <2>4, <2>5, FS_RemoveElement
    <3> QED
      BY <1>1, <3>1
  <2>7. ~Lacks(rest)
    <3> SUFFICES ASSUME Lacks(rest) PROVE FALSE
      OBVIOUS
    <3>1. n - 1 \in sizes
      BY <2>6
    <3>2. n <= n - 1 /\ n \in Nat
      BY <2>2, <2>3, <3>1
    <3> QED
      BY <3>2
  <2>8. T \subseteq Nat
    OBVIOUS
  <2>9. CASE rest = {}
    BY <2>4, <2>5, <2>8, <2>9
  <2>10. ASSUME NEW y \in rest, \A z \in rest : z <= y
         PROVE  FALSE
    <3>1. \A z \in T : z = x \/ z <= y
      BY <2>10
    <3>2. (\A z \in T : z <= x) \/ (\A z \in T : z <= y)
      BY <2>5, <2>8, <3>1
    <3> QED
      BY <2>4, <2>5, <3>2
  <2> QED
    BY <2>7, <2>9, <2>10
<1>3. PICK x \in S : \A y \in S : y <= x
  BY <1>2
<1>4. \A y \in S : x >= y
  BY <1>3
<1>5. Max(S) \in S /\ \A y \in S : Max(S) >= y
  BY <1>4 DEF Max
<1> DEFINE top == Max(S)
<1>6. \A y \in S : y \in Nat /\ top \in Nat /\ top >= y
  BY <1>5
<1> HIDE DEF top
<1>7. \A y \in S : y <= top
  BY <1>6
<1> QED
  BY <1>5, <1>7 DEF top

\* What is computed from the elements of a finite set is a finite set.
LEMMA ImageIsFinite ==
  ASSUME NEW S, IsFiniteSet(S), NEW f
  PROVE  IsFiniteSet({f[x] : x \in S})
<1> DEFINE T == {f[x] : x \in S}
           g == [x \in S |-> f[x]]
<1>1. g \in Surjection(S, T)
  BY DEF Surjection
<1> QED
  BY <1>1, FS_Surjection

\* SetToSeq lists a finite set.
LEMMA ListOfSet ==
  ASSUME NEW S, IsFiniteSet(S)
  PROVE  SetToSeq(S) \in Seq(S)
<1>1. Cardinality(S) \in Nat /\ ExistsBijection(1..Cardinality(S), S)
  BY FS_CardinalityType
<1>2. PICK f \in Bijection(1..Cardinality(S), S) : TRUE
  BY <1>1 DEF ExistsBijection
<1>3. f \in [1..Cardinality(S) -> S] /\ IsInjective(f)
  BY <1>2 DEF Bijection, Injection
<1>4. SetToSeq(S) \in [1..Cardinality(S) -> S]
  BY <1>3 DEF SetToSeq
<1> QED
  BY <1>1, <1>4

-----------------------------------------------------------------------------
(***************************************************************************)
(* Scripts                                                                 *)
(***************************************************************************)
\* What a statement of legacyKeyAlterSQL does, and those of legacyKeyRebuildSQL in order.
InPlaceOps == {"strict", "drop index", "fill", "change column", "add index"}

IsAlterScript(s) ==
  /\ Len(s) \in Nat \ {0} /\ DOMAIN s = 1..Len(s)
  /\ \A i \in DOMAIN s : s[i].op \in InPlaceOps

IsRebuildScript(s) ==
  /\ Len(s) = 6 /\ DOMAIN s = 1..6
  /\ s[1].op = "strict" /\ s[2].op = "create" /\ s[3].op = "copy"
  /\ s[4].op = "read counter" /\ s[5].op = "rebase" /\ s[6].op = "rename"

IsScript(s) == s = <<>> \/ IsAlterScript(s) \/ IsRebuildScript(s)

DeclaredVersions == {c.version : c \in Cases}

\* A version has finitely many fields and indexes.
LEMMA FinitelyManyFields ==
  ASSUME NEW v \in DeclaredVersions
  PROVE  IsFiniteSet(FieldsOf(v)) /\ IsFiniteSet(DOMAIN v.indexes)
<1>1. v.fields \in Seq(FieldsOf(v)) /\ IsFiniteSet(DOMAIN v.indexes)
  BY CasesAssumption DEF DeclaredVersions
<1>2. IsFiniteSet(1..Len(v.fields))
  BY <1>1, FS_Interval
<1>3. FieldsOf(v) = {v.fields[i] : i \in 1..Len(v.fields)}
  BY <1>1 DEF FieldsOf, ToSet
<1> QED
  BY <1>1, <1>2, <1>3, ImageIsFinite

\* A list of statements of one kind.
LEMMA Statements ==
  ASSUME NEW S, IsFiniteSet(S), NEW T, \A x \in S : x \in T
  PROVE  SetToSeq(S) \in Seq(T)
<1>1. SetToSeq(S) \in Seq(S)
  BY ListOfSet
<1> QED
  BY <1>1

\* What follows a statement does not change which is the first.
LEMMA FirstStays ==
  ASSUME NEW T, NEW a \in Seq(T), NEW b \in Seq(T), Len(a) >= 1
  PROVE  a \o b \in Seq(T) /\ Len(a \o b) >= 1 /\ (a \o b)[1] = a[1]
OBVIOUS

\* What legacyKeyAlterSQL prints is about the keys' old columns and indexes of the version.
IsAlterStatement(v, def, x) ==
  \/ x.op \in {"strict", "drop index", "fill"}
  \/ \E f \in LegacyKeys(v, def) : \E old \in LegacyColumns(def, f) : \E column :
       x = ToKeyColumn(column, old, f)
  \/ \E i \in DOMAIN v.indexes : x = AddIndex(i, v.indexes[i])

\* legacyKeyAlterSQL prints at least one statement, and only those of its kinds.
LEMMA AlterScriptStatements ==
  ASSUME NEW v \in DeclaredVersions, NEW def
  PROVE  /\ IsAlterScript(AlterScript(v, def)) /\ AlterScript(v, def)[1].op = "strict"
         /\ \A i \in DOMAIN AlterScript(v, def) :
              IsAlterStatement(v, def, AlterScript(v, def)[i])
<1> DEFINE keys == LegacyKeys(v, def)
           columnOf(f) == CHOOSE n \in LegacyColumns(def, f) : TRUE
           nullable == {f \in keys : def.cols[columnOf(f)].attrs = "null"}
           drops == {[op |-> "drop index", name |-> i] : i \in DroppedIndexes(v, def)}
           fills == {[op |-> "fill", name |-> columnOf(f)] : f \in nullable}
           changes == {ToKeyColumn(def.cols[columnOf(f)], columnOf(f), f) : f \in keys}
           adds == {AddIndex(i, v.indexes[i]) : i \in IndexesOver(v, def)}
           all == {[op |-> "strict"]} \cup drops \cup fills \cup changes \cup adds
<1>1. AlterScript(v, def) = <<[op |-> "strict"]>> \o SetToSeq(drops) \o SetToSeq(fills)
                            \o SetToSeq(changes) \o SetToSeq(adds)
  BY DEF AlterScript
<1>2. IsFiniteSet(keys) /\ IsFiniteSet(nullable)
  BY FinitelyManyFields, FS_Subset DEF LegacyKeys
<1>3. IsFiniteSet(IndexesOver(v, def)) /\ IsFiniteSet(DroppedIndexes(v, def))
  <2>1. IndexesOver(v, def) \subseteq DOMAIN v.indexes
    BY DEF IndexesOver
  <2>2. DroppedIndexes(v, def) \subseteq IndexesOver(v, def)
    BY DEF DroppedIndexes
  <2> QED
    BY <2>1, <2>2, FinitelyManyFields, FS_Subset
<1>4. IsFiniteSet(drops)
  <2> DEFINE g == [i \in DroppedIndexes(v, def) |-> [op |-> "drop index", name |-> i]]
  <2>1. drops = {g[i] : i \in DroppedIndexes(v, def)}
    OBVIOUS
  <2> HIDE DEF g, drops
  <2> QED
    BY <1>3, <2>1, ImageIsFinite
<1>5. IsFiniteSet(fills)
  <2> DEFINE g == [f \in nullable |-> [op |-> "fill", name |-> columnOf(f)]]
  <2>1. fills = {g[f] : f \in nullable}
    OBVIOUS
  <2> HIDE DEF g, fills, nullable
  <2> QED
    BY <1>2, <2>1, ImageIsFinite
<1>6. IsFiniteSet(changes)
  <2> DEFINE g == [f \in keys |-> ToKeyColumn(def.cols[columnOf(f)], columnOf(f), f)]
  <2>1. changes = {g[f] : f \in keys}
    OBVIOUS
  <2> HIDE DEF g, changes
  <2> QED
    BY <1>2, <2>1, ImageIsFinite
<1>7. IsFiniteSet(adds)
  <2> DEFINE g == [i \in IndexesOver(v, def) |-> AddIndex(i, v.indexes[i])]
  <2>1. adds = {g[i] : i \in IndexesOver(v, def)}
    OBVIOUS
  <2> HIDE DEF g, adds
  <2> QED
    BY <1>3, <2>1, ImageIsFinite
<1>8. \A x \in all : x.op \in InPlaceOps /\ IsAlterStatement(v, def, x)
  <2>1. \A column, old, f : ToKeyColumn(column, old, f).op = "change column"
    BY DEF ToKeyColumn, ChangeColumn
  <2>2. \A i, x : AddIndex(i, x).op = "add index"
    BY DEF AddIndex
  <2>3. ASSUME NEW x \in drops PROVE x.op = "drop index"
    <3>1. PICK i \in DroppedIndexes(v, def) : x = [op |-> "drop index", name |-> i]
      OBVIOUS
    <3> QED
      BY <3>1
  <2>4. ASSUME NEW x \in changes PROVE x.op = "change column"
    <3>1. PICK f \in keys : x = ToKeyColumn(def.cols[columnOf(f)], columnOf(f), f)
      OBVIOUS
    <3> QED
      BY <2>1, <3>1
  <2>7. ASSUME NEW x \in fills PROVE x.op = "fill"
    <3>1. PICK f \in nullable : x = [op |-> "fill", name |-> columnOf(f)]
      OBVIOUS
    <3> QED
      BY <3>1
  <2>5. \A x \in adds : x.op = "add index"
    BY <2>2
  <2>6. \A x \in {[op |-> "strict"]} : x.op = "strict"
    OBVIOUS
  <2>8. ASSUME NEW x \in changes
        PROVE  \E f \in LegacyKeys(v, def) : \E old \in LegacyColumns(def, f) : \E column :
                 x = ToKeyColumn(column, old, f)
    <3>1. PICK f \in keys : x = ToKeyColumn(def.cols[columnOf(f)], columnOf(f), f)
      OBVIOUS
    <3>2. columnOf(f) \in LegacyColumns(def, f)
      BY DEF LegacyKeys
    <3> QED
      BY <3>1, <3>2
  <2>9. \A x \in adds : \E i \in DOMAIN v.indexes : x = AddIndex(i, v.indexes[i])
    BY DEF IndexesOver
  <2> HIDE DEF drops, fills, changes, adds
  <2>10. \A x \in all : x.op \in InPlaceOps
    BY <2>3, <2>4, <2>5, <2>6, <2>7 DEF InPlaceOps
  <2>11. \A x \in all : IsAlterStatement(v, def, x)
    BY <2>3, <2>6, <2>7, <2>8, <2>9 DEF IsAlterStatement
  <2> QED
    BY <2>10, <2>11
<1> HIDE DEF drops, fills, changes, adds
<1>9. /\ SetToSeq(drops) \in Seq(all) /\ SetToSeq(fills) \in Seq(all)
      /\ SetToSeq(changes) \in Seq(all) /\ SetToSeq(adds) \in Seq(all)
      /\ <<[op |-> "strict"]>> \in Seq(all)
  <2>1. SetToSeq(drops) \in Seq(all)
    BY <1>4, Statements
  <2>2. SetToSeq(fills) \in Seq(all)
    BY <1>5, Statements
  <2>3. SetToSeq(changes) \in Seq(all)
    BY <1>6, Statements
  <2>4. SetToSeq(adds) \in Seq(all)
    BY <1>7, Statements
  <2> QED
    BY <2>1, <2>2, <2>3, <2>4
<1> DEFINE s == AlterScript(v, def)
<1>10. s \in Seq(all) /\ Len(s) # 0 /\ s[1] = [op |-> "strict"]
  <2> DEFINE one == <<[op |-> "strict"]>>
             two == one \o SetToSeq(drops)
             three == two \o SetToSeq(fills)
             four == three \o SetToSeq(changes)
  <2>1. one \in Seq(all) /\ Len(one) = 1 /\ one[1] = [op |-> "strict"]
    BY <1>9
  <2> HIDE DEF all, one
  <2>2. two \in Seq(all) /\ Len(two) >= 1 /\ two[1] = one[1]
    <3>1. SetToSeq(drops) \in Seq(all)
      BY <1>9
    <3> DEFINE list == SetToSeq(drops)
    <3>2. one \in Seq(all) /\ Len(one) >= 1 /\ list \in Seq(all)
      BY <2>1, <3>1
    <3> HIDE DEF list
    <3>3. /\ one \o list \in Seq(all) /\ Len(one \o list) >= 1
          /\ (one \o list)[1] = one[1]
      BY <3>2, FirstStays
    <3> QED
      BY <3>3 DEF list
  <2> HIDE DEF two
  <2>3. three \in Seq(all) /\ Len(three) >= 1 /\ three[1] = two[1]
    BY <1>9, <2>2, FirstStays
  <2> HIDE DEF three
  <2>4. four \in Seq(all) /\ Len(four) >= 1 /\ four[1] = three[1]
    BY <1>9, <2>3, FirstStays
  <2> HIDE DEF four
  <2>5. /\ four \o SetToSeq(adds) \in Seq(all) /\ Len(four \o SetToSeq(adds)) # 0
        /\ (four \o SetToSeq(adds))[1] = four[1]
    BY <1>9, <2>4, FirstStays
  <2>6. s = four \o SetToSeq(adds)
    BY <1>1 DEF one, two, three, four
  <2> QED
    BY <2>1, <2>2, <2>3, <2>4, <2>5, <2>6
<1> HIDE DEF s, all
<1>11. \A i \in DOMAIN s : s[i] \in all
  BY <1>10
<1>12. s[1].op = "strict"
  BY <1>10
<1> QED
  BY <1>8, <1>10, <1>11, <1>12 DEF IsAlterScript, s

\* So it prints a script of its kind.
LEMMA AlterScriptShape ==
  ASSUME NEW v \in DeclaredVersions, NEW def
  PROVE  IsAlterScript(AlterScript(v, def))
BY AlterScriptStatements

\* legacyKeyRebuildSQL prints six statements, in this order.
LEMMA RebuildScriptShape ==
  ASSUME NEW v, HasAutoIncrement(v), NEW def
  PROVE  IsRebuildScript(RebuildScript(v, def))
<1> DEFINE s == RebuildScript(v, def)
<1>1. \E a, b, c, d, e, f :
        /\ a.op = "strict" /\ b.op = "create" /\ c.op = "copy"
        /\ d.op = "read counter" /\ e.op = "rebase" /\ f.op = "rename"
        /\ s = <<a, b, c>> \o <<d, e>> \o <<f>>
  BY DEF RebuildScript
<1> HIDE DEF s
<1>2. PICK a, b, c, d, e, f :
        /\ a.op = "strict" /\ b.op = "create" /\ c.op = "copy"
        /\ d.op = "read counter" /\ e.op = "rebase" /\ f.op = "rename"
        /\ s = <<a, b, c>> \o <<d, e>> \o <<f>>
  BY <1>1
<1>3. /\ Len(s) = 6 /\ DOMAIN s = 1..6
      /\ s[1] = a /\ s[2] = b /\ s[3] = c /\ s[4] = d /\ s[5] = e /\ s[6] = f
  <2>1. s = <<a, b, c>> \o <<d, e>> \o <<f>>
    BY <1>2
  <2> QED
    BY <2>1
<1>4. IsRebuildScript(s)
  BY <1>2, <1>3 DEF IsRebuildScript
<1> QED
  BY <1>4 DEF s

-----------------------------------------------------------------------------
(***************************************************************************)
(* Rows and counters                                                       *)
(***************************************************************************)
AreRows(rows) == IsFiniteSet(rows) /\ \A r \in rows : IsRow(r)

IsStoredTable(t) ==
  /\ t = [def |-> t.def, rows |-> t.rows, auto |-> t.auto]
  /\ AreRows(t.rows)
  /\ t.auto \in Nat \ {0}

\* A copy has a row for each row, with the same ids.
LEMMA RewrittenRows ==
  ASSUME NEW def, NEW rows, AreRows(rows), NEW source
  PROVE  AreRows(Rewritten(def, rows, source))
<1> DEFINE valsOf(r) == [n \in DOMAIN def.cols |->
                           IF n \in DOMAIN source THEN Stored(r.vals[source[n]], def.cols[n])
                                                  ELSE Default(def.cols[n])]
           g == [r \in rows |-> [id |-> r.id, vals |-> valsOf(r)]]
<1>1. Rewritten(def, rows, source) = {[id |-> r.id, vals |-> valsOf(r)] : r \in rows}
  BY DEF Rewritten
<1>2. Rewritten(def, rows, source) = {g[r] : r \in rows}
  BY <1>1
<1>3. ASSUME NEW x \in Rewritten(def, rows, source) PROVE IsRow(x)
  <2>1. PICK r \in rows : x = [id |-> r.id, vals |-> valsOf(r)]
    BY <1>1, <1>3
  <2> HIDE DEF valsOf
  <2> QED
    BY <2>1 DEF AreRows, IsRow
<1> HIDE DEF g
<1>4. IsFiniteSet(Rewritten(def, rows, source))
  BY <1>2, ImageIsFinite DEF AreRows
<1> QED
  BY <1>3, <1>4 DEF AreRows

\* Filling NULLs keeps the rows and their ids.
LEMMA FilledRows ==
  ASSUME NEW rows, AreRows(rows), NEW names
  PROVE  AreRows(Filled(rows, names))
<1> DEFINE filledOf(r) == [n \in DOMAIN r.vals |->
                             IF n \in names /\ r.vals[n] = Null THEN Empty ELSE r.vals[n]]
           g == [r \in rows |-> [r EXCEPT !.vals = filledOf(r)]]
<1>1. Filled(rows, names) = {[r EXCEPT !.vals = filledOf(r)] : r \in rows}
  BY DEF Filled
<1>2. Filled(rows, names) = {g[r] : r \in rows}
  BY <1>1
<1>3. ASSUME NEW x \in Filled(rows, names) PROVE IsRow(x)
  <2>1. PICK r \in rows : x = [r EXCEPT !.vals = filledOf(r)]
    BY <1>1, <1>3
  <2>2. r = [id |-> r.id, vals |-> r.vals] /\ r.id \in Nat
    BY DEF AreRows, IsRow
  <2> HIDE DEF filledOf
  <2>3. x = [id |-> r.id, vals |-> filledOf(r)]
    BY <2>1, <2>2
  <2> QED
    BY <2>2, <2>3 DEF IsRow
<1> HIDE DEF g
<1>4. IsFiniteSet(Filled(rows, names))
  BY <1>2, ImageIsFinite DEF AreRows
<1> QED
  BY <1>3, <1>4 DEF AreRows

\* The counter of a filled table lies beyond its ids; raised, it is not below what it is
\* raised to.
LEMMA Counters ==
  ASSUME NEW rows, AreRows(rows), NEW n \in Nat
  PROVE  /\ NextAuto(rows) \in Nat \ {0} /\ \A r \in rows : r.id < NextAuto(rows)
         /\ AtLeast(n, rows) \in Nat \ {0} /\ AtLeast(n, rows) >= n
         /\ \A r \in rows : r.id < AtLeast(n, rows)
<1> DEFINE ids == {0} \cup {r.id : r \in rows}
           idOf == [r \in rows |-> r.id]
<1>1. {r.id : r \in rows} = {idOf[r] : r \in rows}
  OBVIOUS
<1>2. IsFiniteSet({r.id : r \in rows})
  <2> HIDE DEF idOf
  <2> QED
    BY <1>1, ImageIsFinite DEF AreRows
<1>3. IsFiniteSet(ids) /\ ids \subseteq Nat /\ ids # {}
  <2>1. {r.id : r \in rows} \subseteq Nat
    BY DEF AreRows, IsRow
  <2>2. IsFiniteSet({0})
    BY FS_Singleton
  <2>3. IsFiniteSet(ids)
    BY <1>2, <2>2, FS_Union
  <2> QED
    BY <2>1, <2>3
<1>4. \A r \in rows : r.id \in ids
  OBVIOUS
<1> HIDE DEF ids
<1>5. Max(ids) \in ids /\ \A y \in ids : y <= Max(ids)
  BY <1>3, GreatestNumber
<1>6. NextAuto(rows) = 1 + Max(ids)
  BY DEF NextAuto, ids
<1>7. NextAuto(rows) \in Nat \ {0} /\ \A r \in rows : r.id < NextAuto(rows)
  <2>1. Max(ids) \in Nat
    BY <1>3, <1>5
  <2>2. ASSUME NEW r \in rows PROVE r.id \in Nat /\ r.id <= Max(ids)
    BY <1>4, <1>5 DEF AreRows, IsRow
  <2> QED
    BY <1>6, <2>1, <2>2
<1> DEFINE both == {n, NextAuto(rows)}
<1>8. IsFiniteSet(both) /\ both \subseteq Nat /\ both # {} /\ n \in both
  <2>1. IsFiniteSet({n}) /\ IsFiniteSet({NextAuto(rows)}) /\ both = {n} \cup {NextAuto(rows)}
    BY FS_Singleton
  <2>2. IsFiniteSet(both)
    BY <2>1, FS_Union
  <2> QED
    BY <1>7, <2>2
<1> HIDE DEF both
<1>9. Max(both) \in both /\ \A y \in both : y <= Max(both)
  BY <1>8, GreatestNumber
<1>10. AtLeast(n, rows) = Max(both)
  BY DEF AtLeast, both
<1>11. n <= AtLeast(n, rows) /\ AtLeast(n, rows) \in {n, NextAuto(rows)}
  BY <1>8, <1>9, <1>10 DEF both
<1>12. NextAuto(rows) <= AtLeast(n, rows)
  <2>1. NextAuto(rows) \in both
    BY DEF both
  <2> QED
    BY <1>9, <1>10, <2>1
<1>13. AtLeast(n, rows) \in Nat \ {0}
  BY <1>7, <1>11, <1>12
<1>14. \A r \in rows : r.id < AtLeast(n, rows)
  <2> TAKE r \in rows
  <2>1. r.id \in Nat /\ r.id < NextAuto(rows)
    BY <1>7 DEF AreRows, IsRow
  <2> QED
    BY <1>7, <1>12, <1>13, <2>1
<1> QED
  BY <1>7, <1>11, <1>13, <1>14

\* A table with other rows and another counter.
LEMMA ReplacedRows ==
  ASSUME NEW t, t = [def |-> t.def, rows |-> t.rows, auto |-> t.auto], NEW rows, NEW auto
  PROVE  [t EXCEPT !.rows = rows, !.auto = auto] = [def |-> t.def, rows |-> rows, auto |-> auto]
<1> DEFINE u == [t EXCEPT !.rows = rows]
           d == t.def
<1>1. u = [def |-> d, rows |-> rows, auto |-> t.auto]
  OBVIOUS
<1>2. [t EXCEPT !.rows = rows, !.auto = auto] = [u EXCEPT !.auto = auto]
  OBVIOUS
<1> HIDE DEF u, d
<1>3. [u EXCEPT !.auto = auto] = [def |-> d, rows |-> rows, auto |-> auto]
  BY <1>1
<1> QED
  BY <1>2, <1>3 DEF d

\* An ALTER keeps the counter, and the ids.
LEMMA AlteredIsTable ==
  ASSUME NEW t, IsStoredTable(t), NEW clauses
  PROVE  IsStoredTable(AlteredTable(t, clauses)) /\ AlteredTable(t, clauses).auto = t.auto
<1> DEFINE def == Altered(t.def, clauses)
           rows == Rewritten(def, t.rows, AlteredFrom(t.def, clauses))
<1>1. AreRows(rows)
  BY RewrittenRows DEF IsStoredTable
<1>2. AlteredTable(t, clauses) = [t EXCEPT !.def = def, !.rows = rows]
  BY DEF AlteredTable
<1> HIDE DEF def, rows
<1>3. AlteredTable(t, clauses) = [def |-> def, rows |-> rows, auto |-> t.auto]
  BY <1>2 DEF IsStoredTable
<1> QED
  BY <1>1, <1>3 DEF IsStoredTable

-----------------------------------------------------------------------------
(***************************************************************************)
(* The invariant                                                           *)
(***************************************************************************)
Names == {Table, Shadow, Backup}

AreTables(ts) == ts = [name \in Names |-> ts[name]] /\ \A name \in Names : IsStoredTable(ts[name])

Typed ==
  /\ version \in DeclaredVersions
  /\ AreTables(tables)
  /\ IsScript(script)
  /\ Running => at \in DOMAIN script
  /\ issued \in Nat

\* From the statement that reads the counter to the swap nobody moves it on, and the shadow
\* table's is not below it when the names are swapped.
Rebasing ==
  Running /\ IsRebuildScript(script) =>
    /\ at \in {5, 6} => counter = tables[Table].auto
    /\ at = 6 => tables[Shadow].auto >= tables[Table].auto

IInv == Typed /\ Rebasing /\ IdsAreNotReissued

\* The two kinds of scripts have no kind of statement in common but the first.
LEMMA ScriptsApart ==
  ASSUME NEW s, IsScript(s)
  PROVE  /\ Len(s) \in Nat /\ DOMAIN s = 1..Len(s)
         /\ IsRebuild(s) => IsRebuildScript(s)
         /\ \A i \in DOMAIN s :
              s[i].op \in {"create", "copy", "read counter", "rebase", "rename"} =>
                IsRebuildScript(s)
<1>1. CASE s = <<>>
  BY <1>1 DEF IsRebuild
<1>2. CASE IsAlterScript(s)
  BY <1>2 DEF IsAlterScript, IsRebuild, InPlaceOps
<1>3. CASE IsRebuildScript(s)
  <2>1. Len(s) = 6 /\ DOMAIN s = 1..6
    BY <1>3 DEF IsRebuildScript
  <2> QED
    BY <1>3, <2>1
<1> QED
  BY <1>1, <1>2, <1>3 DEF IsScript

\* At first no script runs, and the highest id given out is below the counter.
LEMMA InitIInv ==
  ASSUME \A v \in DeclaredVersions : HasAutoIncrement(v)
  PROVE  MigrationInit => IInv
<1> SUFFICES ASSUME MigrationInit PROVE IInv
  OBVIOUS
<1>1. PICK c \in Cases :
        /\ version = c.version
        /\ tables = [name \in {Table, Shadow, Backup} |->
                       IF name = Table THEN [def |-> c.def, rows |-> c.rows, auto |-> c.auto]
                                       ELSE Missing]
        /\ issued = c.auto - 1
        /\ operator = "idle"
        /\ script = <<>>
  BY DEF MigrationInit
<1>2. IsStoredTable([def |-> c.def, rows |-> c.rows, auto |-> c.auto])
  BY CasesAssumption DEF IsStoredTable, AreRows
<1>3. IsStoredTable(Missing)
  BY FS_EmptySet DEF Missing, IsStoredTable, AreRows
<1>4. c.auto \in Nat \ {0}
  BY CasesAssumption
<1>5. AreTables(tables) /\ tables[Table].auto = c.auto
  BY <1>1, <1>2, <1>3 DEF AreTables, Names, Table, Shadow, Backup
<1> QED
  BY <1>1, <1>4, <1>5
     DEF IInv, Typed, Rebasing, IdsAreNotReissued, Running, DeclaredVersions, IsScript

\* A statement keeps the invariant if what it leaves does.
LEMMA RunKeeps ==
  ASSUME IInv, Running, NEW accepted, NEW after, Run(accepted, after), UNCHANGED InScript,
         accepted => AreTables(after) /\ issued < after[Table].auto,
         IsRebuildScript(script) /\ at < 6 =>
           /\ at \in {4, 5} /\ accepted => counter' = after[Table].auto
           /\ at = 5 /\ accepted => after[Shadow].auto >= after[Table].auto
  PROVE  IInv'
<1>1. Len(script) \in Nat /\ DOMAIN script = 1..Len(script) /\ at \in 1..Len(script)
  BY ScriptsApart DEF IInv, Typed
<1>2. tables' = tables \/ (tables' = after /\ accepted)
  BY DEF Run
<1>3. Running' => at' = at + 1 /\ at < Len(script) /\ tables' = after /\ accepted
  BY DEF Run, Goto, Running
<1>4. version' = version /\ script' = script /\ issued' = issued
  BY DEF InScript, history
<1>5. AreTables(tables')
  BY <1>2 DEF IInv, Typed
<1>6. issued < tables'[Table].auto
  BY <1>2 DEF IInv, IdsAreNotReissued
<1>7. Typed'
  BY <1>1, <1>3, <1>4, <1>5 DEF IInv, Typed
<1>8. Rebasing'
  <2> SUFFICES ASSUME Running', IsRebuildScript(script)
               PROVE  /\ at' \in {5, 6} => counter' = tables'[Table].auto
                      /\ at' = 6 => tables'[Shadow].auto >= tables'[Table].auto
    BY <1>4 DEF Rebasing
  <2>1. Len(script) = 6
    BY DEF IsRebuildScript
  <2> QED
    BY <1>1, <1>3, <2>1
<1> QED
  BY <1>4, <1>6, <1>7, <1>8 DEF IInv, IdsAreNotReissued

\* Where the statement of each kind is.
LEMMA Placed ==
  ASSUME Typed, NEW op, Statement(op)
  PROVE  /\ Running /\ at \in DOMAIN script
         /\ op \in {"create", "copy", "read counter", "rebase", "rename"} => IsRebuildScript(script)
         /\ IsRebuildScript(script) =>
              /\ op = "strict" => at = 1
              /\ op = "create" => at = 2
              /\ op = "copy" => at = 3
              /\ op = "read counter" => at = 4
              /\ op = "rebase" => at = 5
              /\ op = "rename" => at = 6
         /\ op \in {"drop index", "fill", "change column", "add index"} => ~IsRebuildScript(script)
<1>1. Running /\ at \in DOMAIN script /\ script[at].op = op /\ IsScript(script)
  BY DEF Typed, Statement
<1>2. op \in {"create", "copy", "read counter", "rebase", "rename"} => IsRebuildScript(script)
  BY <1>1, ScriptsApart
<1>3. IsRebuildScript(script) => at \in 1..6
  BY <1>1 DEF IsRebuildScript
<1>4. ASSUME IsRebuildScript(script)
      PROVE  \/ at = 1 /\ op = "strict"
             \/ at = 2 /\ op = "create"
             \/ at = 3 /\ op = "copy"
             \/ at = 4 /\ op = "read counter"
             \/ at = 5 /\ op = "rebase"
             \/ at = 6 /\ op = "rename"
  <2>1. at = 1 \/ at = 2 \/ at = 3 \/ at = 4 \/ at = 5 \/ at = 6
    BY <1>3, <1>4
  <2>2. /\ script[1].op = "strict" /\ script[2].op = "create" /\ script[3].op = "copy"
        /\ script[4].op = "read counter" /\ script[5].op = "rebase" /\ script[6].op = "rename"
    BY <1>4 DEF IsRebuildScript
  <2>3. op = script[at].op
    BY <1>1
  <2> QED
    BY <2>1, <2>2, <2>3
<1>5. op \in {"drop index", "fill", "change column", "add index"} => ~IsRebuildScript(script)
  BY <1>4
<1>6. IsRebuildScript(script) =>
        /\ op = "strict" => at = 1
        /\ op = "create" => at = 2
        /\ op = "copy" => at = 3
        /\ op = "read counter" => at = 4
        /\ op = "rebase" => at = 5
        /\ op = "rename" => at = 6
  BY <1>4
<1> QED
  BY <1>1, <1>2, <1>5, <1>6

\* The three tables have three names.
LEMMA TableNames == Table \in Names /\ Shadow \in Names /\ Backup \in Names
                    /\ Table # Shadow /\ Table # Backup /\ Shadow # Backup
BY DEF Names, Table, Shadow, Backup

\* Replacing one table leaves the others.
LEMMA WithTable ==
  ASSUME AreTables(tables), NEW name \in Names, NEW t, IsStoredTable(t)
  PROVE  /\ AreTables(With(name, t)) /\ With(name, t)[name] = t
         /\ \A other \in Names \ {name} : With(name, t)[other] = tables[other]
<1>1. tables = [n \in Names |-> tables[n]]
  BY DEF AreTables
<1>2. With(name, t) = [n \in Names |-> IF n = name THEN t ELSE tables[n]]
  BY <1>1 DEF With
<1> QED
  BY <1>2 DEF AreTables

\* A table that is not there counts from one.
LEMMA MissingIsTable == IsStoredTable(Missing)
BY FS_EmptySet DEF Missing, IsStoredTable, AreRows

\* One lemma for each statement: SET sql_mode changes no table,
LEMMA SetStrictKeeps == IInv /\ SetStrict => IInv'
<1> SUFFICES ASSUME IInv, SetStrict PROVE IInv'
  OBVIOUS
<1>1. Statement("strict") /\ Run(TRUE, tables) /\ UNCHANGED InScript /\ Typed
  BY DEF SetStrict, IInv
<1>2. Running /\ (IsRebuildScript(script) => at = 1)
  BY <1>1, Placed
<1> DEFINE after == tables
           accepted == TRUE
<1>3. AreTables(after) /\ issued < after[Table].auto /\ after[Table] = tables[Table]
  BY <1>1 DEF IInv, Typed, IdsAreNotReissued
<1>4. Run(accepted, after)
  BY <1>1
<1> HIDE DEF after, accepted
<1> QED
  BY <1>1, <1>2, <1>3, <1>4, RunKeeps

\* CREATE TABLE makes an empty shadow table,
LEMMA CreateShadowKeeps == IInv /\ CreateShadow => IInv'
<1> SUFFICES ASSUME IInv, CreateShadow PROVE IInv'
  OBVIOUS
<1> DEFINE def == script[at].def
           accepted == ~IsThere(Shadow) /\ KeysCreatable(def)
           t == [Missing EXCEPT !.def = def]
           after == With(Shadow, t)
<1>1. Statement("create") /\ Run(accepted, after) /\ UNCHANGED InScript /\ Typed
  BY DEF CreateShadow, IInv
<1>2. Running /\ at = 2
  BY <1>1, Placed
<1>3. IsStoredTable(t)
  BY MissingIsTable, FS_EmptySet DEF IsStoredTable, AreRows, Missing
<1>4. AreTables(after) /\ after[Table] = tables[Table]
  <2> HIDE DEF t
  <2> QED
    BY <1>1, <1>3, WithTable, TableNames DEF Typed
<1> HIDE DEF accepted, after
<1> QED
  BY <1>1, <1>2, <1>4, RunKeeps DEF IInv, IdsAreNotReissued

\* the copy has finitely many rows, and a counter beyond their ids,
LEMMA CopyRowsKeeps == IInv /\ CopyRows => IInv'
<1> SUFFICES ASSUME IInv, CopyRows PROVE IInv'
  OBVIOUS
<1> DEFINE s == script[at]
           def == tables[Shadow].def
           rows == Filled(tables[Table].rows, {s.source[name] : name \in s.filled})
           copied == Rewritten(def, rows, s.source)
           accepted == /\ IsThere(Shadow) /\ Range(s.source) \subseteq DOMAIN tables[Table].def.cols
                       /\ strict => AllStorable(def, rows, s.source)
                       /\ NoDuplicates(def, copied)
           t == [def |-> def, rows |-> copied, auto |-> NextAuto(copied)]
           after == With(Shadow, t)
<1>1. Statement("copy") /\ Run(accepted, after) /\ UNCHANGED InScript /\ Typed
  BY DEF CopyRows, IInv
<1>2. Running /\ at = 3
  BY <1>1, Placed
<1>3. IsStoredTable(t)
  <2>1. AreRows(tables[Table].rows)
    BY <1>1, TableNames DEF Typed, AreTables, IsStoredTable
  <2>2. AreRows(rows)
    BY <2>1, FilledRows
  <2> HIDE DEF rows
  <2>3. AreRows(copied)
    BY <2>2, RewrittenRows
  <2> HIDE DEF copied, def
  <2>4. NextAuto(copied) \in Nat \ {0}
    BY <2>3, Counters
  <2> QED
    BY <2>3, <2>4 DEF IsStoredTable
<1>4. AreTables(after) /\ after[Table] = tables[Table]
  <2> HIDE DEF t
  <2> QED
    BY <1>1, <1>3, WithTable, TableNames DEF Typed
<1> HIDE DEF accepted, after
<1> QED
  BY <1>1, <1>2, <1>4, RunKeeps DEF IInv, IdsAreNotReissued

\* the counter that is read is the old table's,
LEMMA ReadCounterKeeps == IInv /\ ReadCounter => IInv'
<1> SUFFICES ASSUME IInv, ReadCounter PROVE IInv'
  OBVIOUS
<1>1. /\ Statement("read counter") /\ Run(TRUE, tables) /\ UNCHANGED InScript /\ Typed
      /\ counter' = tables[Table].auto
  BY DEF ReadCounter, IInv
<1>2. Running /\ at = 4
  BY <1>1, Placed
<1> DEFINE after == tables
           accepted == TRUE
<1>3. AreTables(after) /\ issued < after[Table].auto /\ after[Table] = tables[Table]
  BY <1>1 DEF IInv, Typed, IdsAreNotReissued
<1>4. Run(accepted, after)
  BY <1>1
<1> HIDE DEF after, accepted
<1>5. counter' = after[Table].auto
  BY <1>1, <1>3
<1>6. UNCHANGED InScript /\ Running
  BY <1>1, <1>2
<1> QED
  BY <1>2, <1>3, <1>4, <1>5, <1>6, RunKeeps

\* the shadow table is raised to what was read, or stays beyond it,
LEMMA RaiseCounterKeeps == IInv /\ RaiseCounter => IInv'
<1> SUFFICES ASSUME IInv, RaiseCounter PROVE IInv'
  OBVIOUS
<1> DEFINE t == [tables[Shadow] EXCEPT !.auto = AtLeast(counter, tables[Shadow].rows)]
           after == With(Shadow, t)
           accepted == IsThere(Shadow)
<1>1. /\ Statement("rebase") /\ UNCHANGED InScript /\ Typed /\ UNCHANGED session
      /\ Run(accepted, [tables EXCEPT ![Shadow].auto = AtLeast(counter, tables[Shadow].rows)])
  BY DEF RaiseCounter, IInv
<1>2. Running /\ at = 5 /\ IsRebuildScript(script)
  BY <1>1, Placed
<1>3. counter = tables[Table].auto /\ counter \in Nat
  BY <1>1, <1>2, TableNames DEF IInv, Rebasing, Typed, AreTables, IsStoredTable
<1>4. IsStoredTable(t) /\ t.auto >= counter
  <2>1. AreRows(tables[Shadow].rows) /\ IsStoredTable(tables[Shadow])
    BY <1>1, TableNames DEF Typed, AreTables, IsStoredTable
  <2>2. /\ AtLeast(counter, tables[Shadow].rows) \in Nat \ {0}
        /\ AtLeast(counter, tables[Shadow].rows) >= counter
    BY <1>3, <2>1, Counters
  <2> QED
    BY <2>1, <2>2 DEF IsStoredTable
<1>5. [tables EXCEPT ![Shadow].auto = AtLeast(counter, tables[Shadow].rows)] = after
  BY DEF With
<1>6. AreTables(after) /\ after[Table] = tables[Table] /\ after[Shadow] = t
  <2> HIDE DEF t
  <2> QED
    BY <1>1, <1>4, WithTable, TableNames DEF Typed
<1>7. Run(accepted, after) /\ counter' = counter
  BY <1>1, <1>5 DEF session
<1> HIDE DEF accepted, after, t
<1> QED
  BY <1>1, <1>2, <1>3, <1>4, <1>6, <1>7, RunKeeps DEF IInv, IdsAreNotReissued

\* so that the table that takes the name counts from no less.
LEMMA SwapNamesKeeps == IInv /\ SwapNames => IInv'
<1> SUFFICES ASSUME IInv, SwapNames PROVE IInv'
  OBVIOUS
<1> DEFINE accepted == IsThere(Table) /\ IsThere(Shadow) /\ ~IsThere(Backup)
           after == [tables EXCEPT ![Backup] = tables[Table], ![Table] = tables[Shadow],
                                   ![Shadow] = Missing]
<1>1. Statement("rename") /\ Run(accepted, after) /\ UNCHANGED InScript /\ Typed
  BY DEF SwapNames, IInv
<1>2. Running /\ at = 6 /\ IsRebuildScript(script)
  BY <1>1, Placed
<1>3. tables[Shadow].auto >= tables[Table].auto
  BY <1>2 DEF IInv, Rebasing
<1>4. tables = [n \in Names |-> tables[n]] /\ \A n \in Names : IsStoredTable(tables[n])
  BY <1>1 DEF Typed, AreTables
<1>5. after = [n \in Names |-> CASE n = Backup -> tables[Table]
                                 [] n = Table -> tables[Shadow]
                                 [] OTHER -> Missing]
  BY <1>4 DEF Names, Table, Shadow, Backup
<1>6. AreTables(after) /\ after[Table] = tables[Shadow]
  BY <1>4, <1>5, MissingIsTable, TableNames DEF AreTables
<1>7. issued < after[Table].auto
  <2>1. tables[Shadow].auto \in Nat /\ tables[Table].auto \in Nat /\ issued \in Nat
    BY <1>1, <1>4, TableNames DEF IsStoredTable, Typed
  <2> HIDE DEF after
  <2> QED
    BY <1>3, <1>6, <2>1 DEF IInv, IdsAreNotReissued
<1> HIDE DEF accepted, after
<1> QED
  BY <1>1, <1>2, <1>6, <1>7, RunKeeps

\* A statement of an ALTER script leaves the counter of the table.
LEMMA InPlaceKeeps ==
  ASSUME IInv, Running, ~IsRebuildScript(script), NEW accepted, NEW t, IsStoredTable(t),
         t.auto = tables[Table].auto, Run(accepted, With(Table, t)), UNCHANGED InScript
  PROVE  IInv'
<1>1. AreTables(With(Table, t)) /\ With(Table, t)[Table] = t
  BY WithTable, TableNames DEF IInv, Typed
<1> DEFINE after == With(Table, t)
<1>2. Run(accepted, after) /\ AreTables(after) /\ issued < after[Table].auto
  BY <1>1 DEF IInv, IdsAreNotReissued
<1> HIDE DEF after
<1> QED
  BY <1>2, RunKeeps

\* Dropping an index leaves the rows,
LEMMA DropIndexKeeps == IInv /\ DropIndex => IInv'
<1> SUFFICES ASSUME IInv, DropIndex PROVE IInv'
  OBVIOUS
<1> DEFINE t == tables[Table]
           after == [t EXCEPT !.def.indexes = [i \in DOMAIN @ \ {script[at].name} |-> @[i]]]
           accepted == script[at].name \in DOMAIN t.def.indexes
<1>1. Statement("drop index") /\ Run(accepted, With(Table, after)) /\ UNCHANGED InScript /\ Typed
  BY DEF DropIndex, IInv
<1>2. Running /\ ~IsRebuildScript(script)
  BY <1>1, Placed
<1>3. IsStoredTable(t)
  BY <1>1, TableNames DEF Typed, AreTables
<1>4. IsStoredTable(after) /\ after.auto = t.auto
  BY <1>3 DEF IsStoredTable
<1> HIDE DEF accepted, after
<1> QED
  BY <1>1, <1>2, <1>4, InPlaceKeeps

\* filling NULLs keeps the ids,
LEMMA FillNullsKeeps == IInv /\ FillNulls => IInv'
<1> SUFFICES ASSUME IInv, FillNulls PROVE IInv'
  OBVIOUS
<1> DEFINE t == tables[Table]
           rows == Filled(t.rows, {script[at].name})
           after == [t EXCEPT !.rows = rows]
           accepted == script[at].name \in DOMAIN t.def.cols /\ NoDuplicates(t.def, rows)
<1>1. Statement("fill") /\ Run(accepted, With(Table, after)) /\ UNCHANGED InScript /\ Typed
  BY DEF FillNulls, IInv
<1>2. Running /\ ~IsRebuildScript(script)
  BY <1>1, Placed
<1>3. IsStoredTable(t)
  BY <1>1, TableNames DEF Typed, AreTables
<1>4. AreRows(rows)
  BY <1>3, FilledRows DEF IsStoredTable
<1>5. IsStoredTable(after) /\ after.auto = t.auto
  <2> HIDE DEF rows
  <2> QED
    BY <1>3, <1>4 DEF IsStoredTable
<1> HIDE DEF accepted, after
<1> QED
  BY <1>1, <1>2, <1>5, InPlaceKeeps

\* and so does an ALTER.
LEMMA AlterTableKeeps == IInv /\ AlterTable => IInv'
<1> SUFFICES ASSUME IInv, AlterTable PROVE IInv'
  OBVIOUS
<1> DEFINE t == tables[Table]
           after == AlteredTable(t, {script[at]})
           accepted == Alters(t, {script[at]}, strict)
<1>1. /\ Statement("change column") \/ Statement("add index")
      /\ Run(accepted, With(Table, after)) /\ UNCHANGED InScript /\ Typed
  BY DEF AlterTable, IInv
<1>2. Running /\ ~IsRebuildScript(script)
  BY <1>1, Placed
<1>3. IsStoredTable(t)
  BY <1>1, TableNames DEF Typed, AreTables
<1>4. IsStoredTable(after) /\ after.auto = t.auto
  BY <1>3, AlteredIsTable
<1> HIDE DEF accepted, after
<1> QED
  BY <1>1, <1>2, <1>4, InPlaceKeeps

\* Every statement of a script keeps the invariant.
LEMMA RunStatementKeeps == IInv /\ RunStatement => IInv'
BY SetStrictKeeps, CreateShadowKeeps, CopyRowsKeeps, ReadCounterKeeps, RaiseCounterKeeps,
   SwapNamesKeeps, DropIndexKeeps, FillNullsKeeps, AlterTableKeeps DEF RunStatement

\* The steps between the statements leave the counter of the table, or move it on with the ids.
LEMMA QuietKeeps ==
  ASSUME IInv, AreTables(tables'), tables'[Table].auto = tables[Table].auto,
         version' = version, script' = script, issued' = issued, Running' => at' = 1,
         Running' => IsRebuild(script)
  PROVE  IInv'
<1>1. Running' => at' \in DOMAIN script'
  <2> SUFFICES ASSUME Running' PROVE 1 \in DOMAIN script
    OBVIOUS
  <2>1. IsScript(script) /\ IsRebuild(script)
    BY DEF IInv, Typed
  <2>2. IsRebuildScript(script)
    BY <2>1, ScriptsApart
  <2>3. DOMAIN script = 1..6
    BY <2>2 DEF IsRebuildScript
  <2> QED
    BY <2>3
<1> QED
  BY <1>1 DEF IInv, Typed, Rebasing, IdsAreNotReissued

\* A new script starts at its first statement.
LEMMA AskForScriptKeeps ==
  ASSUME \A v \in DeclaredVersions : HasAutoIncrement(v)
  PROVE  IInv /\ AskForScript => IInv'
<1> SUFFICES ASSUME IInv, AskForScript PROVE IInv'
  OBVIOUS
<1>1. /\ script' = ScriptFor(version, tables[Table].def) /\ at' = 1
      /\ version' = version /\ tables' = tables /\ issued' = issued
  BY DEF AskForScript, Goto, history
<1>2. IsAlterScript(script') \/ IsRebuildScript(script')
  BY <1>1, AlterScriptShape, RebuildScriptShape DEF ScriptFor, IInv, Typed
<1>3. IsScript(script')
  BY <1>2 DEF IsScript
<1>4. at' \in DOMAIN script'
  <2>1. CASE IsAlterScript(script')
    <3>1. DOMAIN script' = 1..Len(script') /\ Len(script') \in Nat \ {0}
      BY <2>1 DEF IsAlterScript
    <3> QED
      BY <1>1, <3>1
  <2>2. CASE IsRebuildScript(script')
    <3>1. DOMAIN script' = 1..6
      BY <2>2 DEF IsRebuildScript
    <3> QED
      BY <1>1, <3>1
  <2> QED
    BY <1>2, <2>1, <2>2
<1> QED
  BY <1>1, <1>3, <1>4 DEF IInv, Typed, Rebasing, IdsAreNotReissued

\* The alignment alters the table outside a script.
LEMMA SynchroniseKeeps == IInv /\ Synchronise => IInv'
<1> SUFFICES ASSUME IInv, Synchronise PROVE IInv'
  OBVIOUS
<1> DEFINE t == tables[Table]
           plan == Plan(version, t.def, version.expandOnly)
           both == plan.columns \cup plan.primaryKey
           after == AlteredTable(t, both)
<1>1. /\ tables' = With(Table, after) \/ tables' = tables
      /\ operator' \in {"accepted", "failed"}
      /\ version' = version /\ script' = script /\ issued' = issued
  BY DEF Synchronise, Goto, history
<1>2. AreTables(tables) /\ IsStoredTable(t)
  BY TableNames DEF IInv, Typed, AreTables
<1>3. IsStoredTable(after) /\ after.auto = t.auto
  BY <1>2, AlteredIsTable
<1> HIDE DEF after
<1>4. AreTables(tables') /\ tables'[Table].auto = tables[Table].auto
  BY <1>1, <1>2, <1>3, WithTable, TableNames
<1> QED
  BY <1>1, <1>4, QuietKeeps DEF Running

\* A rebuild begun again has no shadow table yet.
LEMMA RestartKeeps == IInv /\ Restart => IInv'
<1> SUFFICES ASSUME IInv, Restart PROVE IInv'
  OBVIOUS
<1>1. /\ IsRebuild(script) /\ tables' = With(Shadow, Missing) /\ at' = 1
      /\ version' = version /\ script' = script /\ issued' = issued
  BY DEF Restart, Goto, history
<1>2. AreTables(tables') /\ tables'[Table] = tables[Table]
  BY <1>1, WithTable, MissingIsTable, TableNames DEF IInv, Typed
<1> QED
  BY <1>1, <1>2, QuietKeeps

\* A rebuild put off leaves the tables.
LEMMA PutOffKeeps == IInv /\ PutOff => IInv'
<1> SUFFICES ASSUME IInv, PutOff PROVE IInv'
  OBVIOUS
<1>1. /\ operator' = "idle" /\ tables' = tables
      /\ version' = version /\ script' = script /\ issued' = issued
  BY DEF PutOff, Goto, history
<1> QED
  BY <1>1, QuietKeeps DEF IInv, Typed, Running

\* Dropping the backup leaves the table.
LEMMA DropBackupKeeps == IInv /\ DropBackup => IInv'
<1> SUFFICES ASSUME IInv, DropBackup PROVE IInv'
  OBVIOUS
<1>1. /\ ~Running /\ operator' = operator /\ tables' = With(Backup, Missing)
      /\ version' = version /\ script' = script /\ issued' = issued
  BY DEF DropBackup, history, InWindow, Running
<1>2. AreTables(tables') /\ tables'[Table] = tables[Table]
  BY <1>1, WithTable, MissingIsTable, TableNames DEF IInv, Typed
<1> QED
  BY <1>1, <1>2, QuietKeeps DEF Running

\* A deleted row leaves its id behind the counter.
LEMMA DeleteRowKeeps ==
  ASSUME NEW r
  PROVE  IInv /\ DeleteRow(r) => IInv'
<1> SUFFICES ASSUME IInv, DeleteRow(r) PROVE IInv'
  OBVIOUS
<1> DEFINE t == tables[Table]
           rows == t.rows \ {r}
           after == [t EXCEPT !.rows = rows]
<1>1. /\ ~Running /\ operator' = operator
      /\ tables' = [tables EXCEPT ![Table].rows = tables[Table].rows \ {r}]
      /\ version' = version /\ script' = script /\ issued' = issued
  BY DEF DeleteRow, history, InWindow, Running
<1>2. IsStoredTable(t)
  BY TableNames DEF IInv, Typed, AreTables
<1>3. AreRows(rows)
  BY <1>2, FS_Subset DEF IsStoredTable, AreRows
<1>4. IsStoredTable(after) /\ after.auto = t.auto
  <2> HIDE DEF rows
  <2> QED
    BY <1>2, <1>3 DEF IsStoredTable
<1>5. tables' = With(Table, after)
  BY <1>1 DEF With
<1> HIDE DEF after
<1>6. AreTables(tables') /\ tables'[Table].auto = tables[Table].auto
  BY <1>4, <1>5, WithTable, TableNames DEF IInv, Typed
<1> QED
  BY <1>1, <1>6, QuietKeeps DEF Running

\* An inserted row takes the counter's value, which moves on.
LEMMA InsertRowKeeps ==
  ASSUME NEW x
  PROVE  IInv /\ InsertRow(x) => IInv'
<1> SUFFICES ASSUME IInv, InsertRow(x) PROVE IInv'
  OBVIOUS
<1> DEFINE t == tables[Table]
           vals == NewRow(t.def, x)
           row == [id |-> t.auto, vals |-> vals]
           rows == t.rows \cup {row}
           after == [t EXCEPT !.rows = rows, !.auto = t.auto + 1]
<1>1. /\ ~Running /\ operator' = operator /\ tables' = With(Table, after)
      /\ version' = version /\ script' = script /\ issued' = Max({issued, row.id})
  BY DEF InsertRow, InWindow, Running
<1>2. IsStoredTable(t) /\ t.auto \in Nat \ {0} /\ issued \in Nat /\ issued < t.auto
  BY TableNames DEF IInv, Typed, AreTables, IsStoredTable, IdsAreNotReissued
<1> HIDE DEF vals
<1>3. AreRows(rows)
  <2>1. IsRow(row)
    BY <1>2 DEF IsRow
  <2> HIDE DEF row
  <2>2. IsFiniteSet(rows)
    BY <1>2, FS_AddElement DEF IsStoredTable, AreRows
  <2> QED
    BY <1>2, <2>1, <2>2 DEF IsStoredTable, AreRows
<1>4. IsStoredTable(after) /\ after.auto = t.auto + 1
  <2> HIDE DEF rows
  <2>1. t = [def |-> t.def, rows |-> t.rows, auto |-> t.auto]
    BY <1>2 DEF IsStoredTable
  <2>2. after = [def |-> t.def, rows |-> rows, auto |-> t.auto + 1]
    <3> DEFINE next == t.auto + 1
    <3> HIDE DEF next, t
    <3>1. [t EXCEPT !.rows = rows, !.auto = next]
            = [def |-> t.def, rows |-> rows, auto |-> next]
      BY <2>1, ReplacedRows
    <3> QED
      BY <3>1 DEF next, t
  <2>3. t.auto + 1 \in Nat \ {0}
    BY <1>2
  <2> HIDE DEF after
  <2> QED
    BY <1>3, <2>2, <2>3 DEF IsStoredTable
<1> DEFINE both == {issued, row.id}
<1>5. issued' \in {issued, t.auto}
  <2>1. both = {issued} \cup {t.auto} /\ IsFiniteSet(both) /\ both # {} /\ both \subseteq Nat
    <3>1. both = {issued} \cup {t.auto}
      OBVIOUS
    <3>2. IsFiniteSet({issued}) /\ IsFiniteSet({t.auto})
      BY FS_Singleton
    <3> HIDE DEF both
    <3>3. IsFiniteSet(both)
      BY <3>1, <3>2, FS_Union
    <3> QED
      BY <1>2, <3>1, <3>3
  <2>2. issued' = Max(both)
    BY <1>1
  <2>3. \A n \in both : n = issued \/ n = t.auto
    OBVIOUS
  <2> HIDE DEF both
  <2>4. Max(both) \in both
    BY <2>1, GreatestNumber
  <2> QED
    BY <2>2, <2>3, <2>4
<1> HIDE DEF after
<1>6. AreTables(tables') /\ tables'[Table] = after
  BY <1>1, <1>4, WithTable, TableNames DEF IInv, Typed
<1>7. issued' \in Nat /\ issued' < tables'[Table].auto
  BY <1>2, <1>4, <1>5, <1>6
<1> QED
  BY <1>1, <1>6, <1>7 DEF IInv, Typed, Rebasing, IdsAreNotReissued, Running

\* The invariant is inductive.
LEMMA NextIInv ==
  ASSUME \A v \in DeclaredVersions : HasAutoIncrement(v)
  PROVE  IInv /\ [MigrationNext]_migrationVars => IInv'
<1> SUFFICES ASSUME IInv, [MigrationNext]_migrationVars PROVE IInv'
  OBVIOUS
<1>1. CASE MigrationNext
  BY <1>1, AskForScriptKeeps, RunStatementKeeps, RestartKeeps, PutOffKeeps, SynchroniseKeeps,
     DropBackupKeeps, InsertRowKeeps, DeleteRowKeeps DEF MigrationNext
<1>2. CASE UNCHANGED migrationVars
  BY <1>2 DEF migrationVars, IInv, Typed, Rebasing, IdsAreNotReissued, Running
<1> QED
  BY <1>1, <1>2

\* Whatever fails, is run again or put off, and whoever inserts and deletes between the
\* windows: no table gives an id out a second time (autoIncrementRebaseSQL).  A message
\* without an AUTO_INCREMENT column has no counter to lose.
THEOREM IdsStayNew ==
  ASSUME \A v \in DeclaredVersions : HasAutoIncrement(v)
  PROVE  MigrationSpec => []IdsAreNotReissued
<1>1. MigrationInit => IInv
  BY InitIInv
<1>2. IInv /\ [MigrationNext]_migrationVars => IInv'
  BY NextIInv
<1>3. IInv => IdsAreNotReissued
  BY DEF IInv
<1> QED
  BY <1>1, <1>2, <1>3, PTL DEF MigrationSpec

-----------------------------------------------------------------------------
(***************************************************************************)
(* The columns of the shadow table, and those synchronisation keeps for    *)
(* the fields.  What holds of the matching after any number of fields is   *)
(* shown by the least number for which it would fail.                      *)
(***************************************************************************)
\* The matching before the first field, and after each of the first n fields.
NoneMatched(cols) == [left |-> DOMAIN cols, of |-> <<>>]

MatchesUpTo(v, cols, n, g) ==
  g = [i \in 0..n |-> IF i = 0 THEN NoneMatched(cols) ELSE MatchField(cols, g[i - 1], v.fields[i])]

\* There is a matching for any number of fields.
LEMMA MatchesExist ==
  ASSUME NEW v, NEW cols, NEW n \in Nat
  PROVE  \E g : MatchesUpTo(v, cols, n, g)
<1> DEFINE T == {m \in Nat : ~\E g : MatchesUpTo(v, cols, m, g)}
<1> SUFFICES ASSUME T # {} PROVE FALSE
  OBVIOUS
<1>1. PICK m \in T : \A k \in T : m <= k
  BY LeastNumber
<1>2. CASE m = 0
  <2>1. MatchesUpTo(v, cols, m, [i \in 0..0 |-> NoneMatched(cols)])
    BY <1>2 DEF MatchesUpTo
  <2> QED
    BY <2>1, <1>1
<1>3. CASE m # 0
  <2>1. m - 1 \in Nat /\ ~(m <= m - 1)
    BY <1>1, <1>3
  <2>2. PICK g : MatchesUpTo(v, cols, m - 1, g)
    BY <1>1, <2>1
  <2> DEFINE step(p, i) == MatchField(cols, p, v.fields[i])
             h == [i \in 0..m |-> IF i = m THEN step(g[m - 1], m) ELSE g[i]]
  <2>3. g = [i \in 0..(m - 1) |-> IF i = 0 THEN NoneMatched(cols) ELSE step(g[i - 1], i)]
    BY <2>2 DEF MatchesUpTo
  <2> HIDE DEF step
  <2>4. \A i \in 0..m : h[i] = IF i = 0 THEN NoneMatched(cols) ELSE step(h[i - 1], i)
    <3> TAKE i \in 0..m
    <3>1. CASE i = m
      BY <1>1, <1>3, <3>1
    <3>2. CASE i # m
      <4>1. i \in 0..(m - 1) /\ (i # 0 => i - 1 \in 0..m /\ i - 1 # m)
        BY <1>1, <3>2
      <4>2. g[i] = IF i = 0 THEN NoneMatched(cols) ELSE step(g[i - 1], i)
        BY <2>3, <4>1
      <4> QED
        BY <3>2, <4>1, <4>2
    <3> QED
      BY <3>1, <3>2
  <2>5. h = [i \in 0..m |-> IF i = 0 THEN NoneMatched(cols) ELSE step(h[i - 1], i)]
    BY <2>4
  <2>6. MatchesUpTo(v, cols, m, h)
    BY <2>5 DEF MatchesUpTo, step
  <2> QED
    BY <1>1, <2>6
<1> QED
  BY <1>2, <1>3

\* SyncColumns is the last of them.
LEMMA MatchesAreUnfolded ==
  ASSUME NEW v, NEW cols, Len(v.fields) \in Nat
  PROVE  \E g : /\ MatchesUpTo(v, cols, Len(v.fields), g)
                /\ SyncColumns(v, cols) = g[Len(v.fields)].of
<1> DEFINE n == Len(v.fields)
<1>1. \E g : MatchesUpTo(v, cols, n, g)
  BY MatchesExist
<1> DEFINE matched == CHOOSE g : MatchesUpTo(v, cols, n, g)
<1>2. SyncColumns(v, cols) = matched[n].of
  BY DEF SyncColumns, MatchesUpTo, NoneMatched
<1> QED
  BY <1>1, <1>2

\* What the i-th field finds.
Found(v, cols, g, i) == Candidates(cols, g[i - 1].left, v.fields[i])

\* After i fields: what is left, and what each of them has found.
MatchedSoFar(v, cols, g, i) ==
  /\ \A n : n \in g[i].left <=> n \in DOMAIN cols /\ \A k \in 1..i : n \notin Found(v, cols, g, k)
  /\ g[i].of = [name \in {v.fields[k].name : k \in 1..i} |-> g[i].of[name]]
  /\ \A k \in 1..i : g[i].of[v.fields[k].name] = Found(v, cols, g, k)

DistinctFields(v) ==
  /\ v.fields \in Seq(FieldsOf(v))
  /\ \A i, j \in 1..Len(v.fields) : i # j =>
       v.fields[i].name # v.fields[j].name /\ v.fields[i].num # v.fields[j].num

\* What CasesAssumption says of the fields of a version.
LEMMA DeclaredFields ==
  ASSUME NEW v \in DeclaredVersions
  PROVE  /\ DistinctFields(v) /\ Len(v.fields) \in Nat /\ DOMAIN v.fields = 1..Len(v.fields)
         /\ FieldsOf(v) = {v.fields[i] : i \in 1..Len(v.fields)}
<1>1. PICK c \in Cases : v = c.version
  BY DEF DeclaredVersions
<1>2. v.fields \in Seq(FieldsOf(v))
  BY <1>1, CasesAssumption
<1>3. Len(v.fields) \in Nat /\ DOMAIN v.fields = 1..Len(v.fields)
  BY <1>2
<1>4. DistinctFields(v)
  BY <1>1, <1>3, CasesAssumption DEF DistinctFields
<1> QED
  BY <1>3, <1>4 DEF FieldsOf, ToSet

\* That much is known after every number of fields.
LEMMA FieldsAreMatched ==
  ASSUME NEW v \in DeclaredVersions, NEW cols, NEW g, MatchesUpTo(v, cols, Len(v.fields), g)
  PROVE  \A i \in 0..Len(v.fields) : MatchedSoFar(v, cols, g, i)
<1> DEFINE n == Len(v.fields)
           T == {i \in 0..n : ~MatchedSoFar(v, cols, g, i)}
<1> SUFFICES ASSUME T # {} PROVE FALSE
  OBVIOUS
<1>1. n \in Nat /\ DistinctFields(v) /\ T \subseteq Nat
  BY DeclaredFields
<1>2. PICK i \in T : \A k \in T : i <= k
  BY <1>1, LeastNumber
<1>3. g = [k \in 0..n |-> IF k = 0 THEN NoneMatched(cols)
                                    ELSE MatchField(cols, g[k - 1], v.fields[k])]
  BY DEF MatchesUpTo
<1>4. CASE i = 0
  <2>1. g[0] = [left |-> DOMAIN cols, of |-> <<>>]
    BY <1>1, <1>3 DEF NoneMatched
  <2>2. MatchedSoFar(v, cols, g, 0)
    BY <2>1 DEF MatchedSoFar
  <2> QED
    BY <1>2, <1>4, <2>2
<1>5. CASE i # 0
  <2> DEFINE f == v.fields[i]
             found == Found(v, cols, g, i)
             before == g[i - 1]
             names(m) == {v.fields[k].name : k \in 1..m}
  <2>1. i \in 1..n /\ i - 1 \in 0..n /\ ~(i <= i - 1)
    BY <1>1, <1>2, <1>5
  <2>2. MatchedSoFar(v, cols, g, i - 1)
    BY <1>2, <2>1
  <2>3. g[i] = MatchField(cols, before, f)
    BY <1>3, <2>1
  <2>4. g[i] = [left |-> before.left \ found,
                of |-> [name \in DOMAIN before.of \cup {f.name} |->
                          IF name = f.name THEN found ELSE before.of[name]]]
    BY <2>3 DEF MatchField, Found
  <2>5. \A k \in 1..i : k \in 1..(i - 1) \/ k = i
    BY <2>1
  <2>6. \A k \in 1..(i - 1) : k \in 1..i /\ k \in 1..n /\ k # i
    BY <1>1, <2>1
  <2>7. DOMAIN before.of = names(i - 1) /\ names(i) = names(i - 1) \cup {f.name} /\ i \in 1..i
    BY <2>1, <2>2, <2>5, <2>6 DEF MatchedSoFar
  <2> HIDE DEF found, f, before, names
  <2>8. \A x : x \in g[i].left
                <=> x \in DOMAIN cols /\ \A k \in 1..i : x \notin Found(v, cols, g, k)
    <3>1. \A x : x \in g[i].left <=> x \in before.left /\ x \notin found
      BY <2>4
    <3>2. \A x : x \in before.left
                   <=> x \in DOMAIN cols /\ \A k \in 1..(i - 1) : x \notin Found(v, cols, g, k)
      BY <2>2 DEF MatchedSoFar, before
    <3> QED
      BY <2>5, <2>6, <2>7, <3>1, <3>2 DEF found
  <2>9. g[i].of = [name \in names(i) |-> IF name = f.name THEN found ELSE before.of[name]]
    BY <2>4, <2>7
  <2>10. \A k \in 1..i : g[i].of[v.fields[k].name] = Found(v, cols, g, k)
    <3> TAKE k \in 1..i
    <3>1. v.fields[k].name \in names(i)
      BY DEF names
    <3>2. CASE k = i
      BY <2>9, <3>1, <3>2 DEF f, found
    <3>3. CASE k # i
      <4>1. k \in 1..(i - 1) /\ k \in 1..n
        BY <2>5, <2>6, <3>3
      <4>2. v.fields[k].name # f.name
        BY <1>1, <2>1, <3>3, <4>1 DEF DistinctFields, f
      <4>3. before.of[v.fields[k].name] = Found(v, cols, g, k)
        BY <2>2, <4>1 DEF MatchedSoFar, before
      <4> QED
        BY <2>9, <3>1, <4>2, <4>3
    <3> QED
      BY <3>2, <3>3
  <2>11. g[i].of = [name \in names(i) |-> g[i].of[name]]
    BY <2>9
  <2>12. MatchedSoFar(v, cols, g, i)
    BY <2>8, <2>10, <2>11 DEF MatchedSoFar, names
  <2> QED
    BY <1>2, <2>12
<1> QED
  BY <1>4, <1>5

\* A field of the shadow table takes the column of its name, else those of its number that
\* have no field's name.
LEMMA ShadowOf ==
  ASSUME NEW v \in DeclaredVersions, NEW cols, NEW k \in 1..Len(v.fields)
  PROVE  ShadowColumns(v, cols)[v.fields[k].name] =
           IF v.fields[k].name \in DOMAIN cols THEN {v.fields[k].name}
             ELSE {n \in DOMAIN cols : /\ \A j \in 1..Len(v.fields) : n # v.fields[j].name
                                       /\ cols[n].num = v.fields[k].num}
<1> DEFINE f == v.fields[k]
           names == {x.name : x \in FieldsOf(v)}
           left == DOMAIN cols \ names
<1>1. /\ FieldsOf(v) = {v.fields[i] : i \in 1..Len(v.fields)}
      /\ \A i, j \in 1..Len(v.fields) : i # j => v.fields[i].name # v.fields[j].name
  BY DeclaredFields DEF DistinctFields
<1>2. f \in FieldsOf(v) /\ f.name \in names
  BY <1>1
<1>3. \A x \in FieldsOf(v) : x.name = f.name => x = f
  BY <1>1
<1>4. FieldNamed(v, f.name) = f
  BY <1>2, <1>3 DEF FieldNamed
<1>5. \A n : n \in names <=> \E j \in 1..Len(v.fields) : n = v.fields[j].name
  BY <1>1
<1>6. ShadowColumns(v, cols)[f.name] =
        IF f.name \in DOMAIN cols THEN {f.name} ELSE {n \in left : cols[n].num = f.num}
  BY <1>2, <1>4 DEF ShadowColumns
<1>7. {n \in left : cols[n].num = f.num} =
        {n \in DOMAIN cols : /\ \A j \in 1..Len(v.fields) : n # v.fields[j].name
                             /\ cols[n].num = f.num}
  BY <1>5
<1> QED
  BY <1>6, <1>7

\* The two functions are equal when every field finds the same columns in both.
LEMMA EqualFieldByField ==
  ASSUME NEW v \in DeclaredVersions, NEW cols, NEW g, MatchesUpTo(v, cols, Len(v.fields), g),
         SyncColumns(v, cols) = g[Len(v.fields)].of
  PROVE  ShadowColumns(v, cols) = SyncColumns(v, cols)
           <=> \A k \in 1..Len(v.fields) :
                 Found(v, cols, g, k) = ShadowColumns(v, cols)[v.fields[k].name]
<1> DEFINE n == Len(v.fields)
           names == {x.name : x \in FieldsOf(v)}
           shadow == ShadowColumns(v, cols)
           sync == SyncColumns(v, cols)
<1>1. n \in Nat /\ FieldsOf(v) = {v.fields[i] : i \in 1..n}
  BY DeclaredFields
<1>2. names = {v.fields[i].name : i \in 1..n}
  BY <1>1
<1>3. MatchedSoFar(v, cols, g, n)
  BY <1>1, FieldsAreMatched
<1>4. /\ sync = [name \in names |-> sync[name]]
      /\ \A k \in 1..n : sync[v.fields[k].name] = Found(v, cols, g, k)
  BY <1>2, <1>3 DEF MatchedSoFar
<1>5. shadow = [name \in names |-> shadow[name]]
  BY DEF ShadowColumns
<1> HIDE DEF shadow, sync, names, n
<1>6. shadow = sync <=> \A name \in names : shadow[name] = sync[name]
  BY <1>4, <1>5
<1>7. (\A name \in names : shadow[name] = sync[name])
        <=> \A k \in 1..n : sync[v.fields[k].name] = shadow[v.fields[k].name]
  BY <1>2
<1> QED
  BY <1>4, <1>6, <1>7 DEF shadow, sync, n

\* When no name is reused every field finds in order what it finds by itself: a column an
\* earlier field took is not its own, nor is a column with another field's name.
LEMMA WithoutReuse ==
  ASSUME NEW v \in DeclaredVersions, NEW cols, NEW g, MatchesUpTo(v, cols, Len(v.fields), g),
         ~NameIsReused(v, cols)
  PROVE  \A k \in 1..Len(v.fields) :
           Found(v, cols, g, k) = ShadowColumns(v, cols)[v.fields[k].name]
<1> DEFINE n == Len(v.fields)
           name(k) == v.fields[k].name
           num(k) == v.fields[k].num
           shadow(k) == ShadowColumns(v, cols)[name(k)]
           T == {k \in 1..n : Found(v, cols, g, k) # shadow(k)}
<1> SUFFICES ASSUME T # {} PROVE FALSE
  OBVIOUS
<1>1. /\ n \in Nat /\ DOMAIN v.fields = 1..n /\ T \subseteq Nat
      /\ \A i, j \in 1..n : i # j => name(i) # name(j) /\ num(i) # num(j)
  BY DeclaredFields DEF DistinctFields
<1>2. PICK i \in T : \A k \in T : i <= k
  BY <1>1, LeastNumber
<1>3. i \in 1..n /\ i - 1 \in 0..n /\ i \in Nat
  BY <1>1, <1>2
<1>4. \A k \in 1..(i - 1) : k \in 1..n /\ k # i /\ Found(v, cols, g, k) = shadow(k)
  BY <1>1, <1>2, <1>3
<1> DEFINE left == g[i - 1].left
<1>5. \A x : x \in left <=> x \in DOMAIN cols /\ \A k \in 1..(i - 1) : x \notin shadow(k)
  <2>1. MatchedSoFar(v, cols, g, i - 1)
    BY <1>3, FieldsAreMatched
  <2>2. \A x : x \in left <=> /\ x \in DOMAIN cols
                              /\ \A k \in 1..(i - 1) : x \notin Found(v, cols, g, k)
    BY <2>1 DEF MatchedSoFar
  <2> HIDE DEF left, shadow
  <2> QED
    BY <1>4, <2>2
<1>6. \A k \in 1..n : shadow(k) = IF name(k) \in DOMAIN cols THEN {name(k)}
                                    ELSE {x \in DOMAIN cols : /\ \A j \in 1..n : x # name(j)
                                                              /\ cols[x].num = num(k)}
  BY ShadowOf
<1>7. Found(v, cols, g, i) = IF name(i) \in left THEN {name(i)}
                               ELSE {x \in left : cols[x].num = num(i)}
  BY DEF Found, Candidates
<1>8. \A j \in 1..n : i < j /\ name(i) \notin DOMAIN cols /\ name(j) \in DOMAIN cols
                        => cols[name(j)].num # num(i)
  BY <1>1, <1>3 DEF NameIsReused
<1> HIDE DEF left, shadow, name, num
<1>9. CASE name(i) \in DOMAIN cols
  <2>1. \A k \in 1..(i - 1) : name(i) \notin shadow(k)
    BY <1>1, <1>3, <1>4, <1>6
  <2>2. name(i) \in left
    BY <1>5, <1>9, <2>1
  <2>3. Found(v, cols, g, i) = shadow(i)
    BY <1>3, <1>6, <1>7, <1>9, <2>2
  <2> QED
    BY <1>2, <2>3 DEF shadow
<1>10. CASE name(i) \notin DOMAIN cols
  <2>1. Found(v, cols, g, i) = {x \in left : cols[x].num = num(i)}
    BY <1>5, <1>7, <1>10
  <2>2. shadow(i) = {x \in DOMAIN cols : /\ \A j \in 1..n : x # name(j)
                                         /\ cols[x].num = num(i)}
    BY <1>3, <1>6, <1>10
  <2>3. ASSUME NEW x \in left, cols[x].num = num(i), NEW j \in 1..n, x = name(j)
        PROVE  FALSE
    <3>1. x \in DOMAIN cols /\ \A k \in 1..(i - 1) : x \notin shadow(k)
      BY <1>5, <2>3
    <3>2. CASE j < i
      <4>1. j \in 1..(i - 1)
        BY <1>1, <1>3, <3>2
      <4>2. shadow(j) = {x}
        BY <1>6, <2>3, <3>1
      <4> QED
        BY <3>1, <4>1, <4>2
    <3>3. CASE i < j
      BY <1>8, <1>10, <2>3, <3>1, <3>3
    <3>4. j # i
      BY <1>10, <2>3, <3>1
    <3> QED
      BY <1>3, <3>2, <3>3, <3>4
  <2>4. ASSUME NEW x \in DOMAIN cols, \A j \in 1..n : x # name(j), cols[x].num = num(i)
        PROVE  x \in left
    <3>1. \A k \in 1..(i - 1) : x \notin shadow(k)
      BY <1>1, <1>3, <1>4, <1>6, <2>4
    <3> QED
      BY <1>5, <3>1
  <2>5. Found(v, cols, g, i) = shadow(i)
    BY <1>5, <2>1, <2>2, <2>3, <2>4
  <2> QED
    BY <1>2, <2>5 DEF shadow
<1> QED
  BY <1>9, <1>10

\* When a name is reused, the field that is declared first finds the other's column by its
\* number, for nobody took it; the shadow table keeps it for the field of its name.
LEMMA WithReuse ==
  ASSUME NEW v \in DeclaredVersions, NEW cols, NEW g, MatchesUpTo(v, cols, Len(v.fields), g),
         NameIsReused(v, cols),
         \A k \in 1..Len(v.fields) :
           Found(v, cols, g, k) = ShadowColumns(v, cols)[v.fields[k].name]
  PROVE  FALSE
<1> DEFINE n == Len(v.fields)
           name(k) == v.fields[k].name
           num(k) == v.fields[k].num
           shadow(k) == ShadowColumns(v, cols)[name(k)]
<1>1. /\ n \in Nat /\ DOMAIN v.fields = 1..n
      /\ \A i, j \in 1..n : i # j => name(i) # name(j) /\ num(i) # num(j)
  BY DeclaredFields DEF DistinctFields
<1>2. \E i \in 1..n : \E j \in 1..n : i < j /\ name(i) \notin DOMAIN cols
                        /\ name(j) \in DOMAIN cols /\ cols[name(j)].num = num(i)
  BY <1>1 DEF NameIsReused
<1>3. PICK i \in 1..n : \E j \in 1..n : i < j /\ name(i) \notin DOMAIN cols
                          /\ name(j) \in DOMAIN cols /\ cols[name(j)].num = num(i)
  BY <1>2
<1>4. PICK j \in 1..n : i < j /\ name(i) \notin DOMAIN cols
                          /\ name(j) \in DOMAIN cols /\ cols[name(j)].num = num(i)
  BY <1>3
<1> DEFINE left == g[i - 1].left
<1>5. i - 1 \in 0..n /\ \A k \in 1..(i - 1) : k \in 1..n /\ k # j
  BY <1>1, <1>3, <1>4
<1>6. \A x : x \in left <=> x \in DOMAIN cols /\ \A k \in 1..(i - 1) : x \notin shadow(k)
  <2>1. MatchedSoFar(v, cols, g, i - 1)
    BY <1>5, FieldsAreMatched
  <2>2. \A x : x \in left <=> /\ x \in DOMAIN cols
                              /\ \A k \in 1..(i - 1) : x \notin Found(v, cols, g, k)
    BY <2>1 DEF MatchedSoFar
  <2>3. \A k \in 1..(i - 1) : Found(v, cols, g, k) = shadow(k)
    BY <1>5
  <2> HIDE DEF left, shadow
  <2> QED
    BY <2>2, <2>3
<1>7. \A k \in 1..n : shadow(k) = IF name(k) \in DOMAIN cols THEN {name(k)}
                                    ELSE {x \in DOMAIN cols : /\ \A m \in 1..n : x # name(m)
                                                              /\ cols[x].num = num(k)}
  BY ShadowOf
<1>8. shadow(i) = IF name(i) \in left THEN {name(i)} ELSE {x \in left : cols[x].num = num(i)}
  BY DEF Found, Candidates
<1> HIDE DEF left, shadow, name, num
<1>9. \A k \in 1..(i - 1) : name(j) \notin shadow(k)
  BY <1>1, <1>5, <1>7
<1>10. name(j) \in left /\ name(i) \notin left
  BY <1>4, <1>6, <1>9
<1>11. name(j) \in shadow(i)
  BY <1>4, <1>8, <1>10
<1>12. name(j) \notin shadow(i)
  BY <1>4, <1>7
<1> QED
  BY <1>11, <1>12

\* The two matchings agree on a table where no name is reused, its numbers may be ambiguous;
\* where one is, they never do, so the condition says exactly when the code does what the
\* comment of shadowColumns says.
LEMMA MatchingsAgree ==
  ASSUME NEW v \in DeclaredVersions, NEW cols, ~NameIsReused(v, cols)
  PROVE  ShadowColumns(v, cols) = SyncColumns(v, cols)
<1>1. PICK g : /\ MatchesUpTo(v, cols, Len(v.fields), g)
               /\ SyncColumns(v, cols) = g[Len(v.fields)].of
  BY DeclaredFields, MatchesAreUnfolded
<1>2. \A k \in 1..Len(v.fields) :
        Found(v, cols, g, k) = ShadowColumns(v, cols)[v.fields[k].name]
  BY <1>1, WithoutReuse
<1>3. ShadowColumns(v, cols) = SyncColumns(v, cols)
        <=> \A k \in 1..Len(v.fields) :
              Found(v, cols, g, k) = ShadowColumns(v, cols)[v.fields[k].name]
  BY <1>1, EqualFieldByField
<1> QED
  BY <1>2, <1>3

THEOREM ReuseAlwaysDiffers ==
  ASSUME NEW v \in DeclaredVersions, NEW cols, NameIsReused(v, cols)
  PROVE  ShadowColumns(v, cols) # SyncColumns(v, cols)
<1>1. PICK g : /\ MatchesUpTo(v, cols, Len(v.fields), g)
               /\ SyncColumns(v, cols) = g[Len(v.fields)].of
  BY DeclaredFields, MatchesAreUnfolded
<1>2. ~\A k \in 1..Len(v.fields) :
         Found(v, cols, g, k) = ShadowColumns(v, cols)[v.fields[k].name]
  BY <1>1, WithReuse
<1>3. ShadowColumns(v, cols) = SyncColumns(v, cols)
        <=> \A k \in 1..Len(v.fields) :
              Found(v, cols, g, k) = ShadowColumns(v, cols)[v.fields[k].name]
  BY <1>1, EqualFieldByField
<1> QED
  BY <1>2, <1>3

\* Where no name is reused the shadow table is filled from the columns synchronisation would
\* keep, in whatever order the fields are declared, renamed and dropped (shadowColumns), and
\* whatever the script, SyncTable and other writers have done before.
THEOREM ShadowFollowsSync == MigrationSpec => []ShadowMatchesSyncWithoutReuse
<1> DEFINE Known == version \in DeclaredVersions
<1>1. MigrationInit => Known
  BY DEF MigrationInit, DeclaredVersions
<1>2. Known /\ [MigrationNext]_migrationVars => Known'
  <2> SUFFICES ASSUME Known, [MigrationNext]_migrationVars PROVE version' = version
    OBVIOUS
  <2>1. CASE RunStatement
    BY <2>1 DEF RunStatement, InScript, SetStrict, CreateShadow, CopyRows, ReadCounter,
       RaiseCounter, SwapNames, DropIndex, FillNulls, AlterTable
  <2>2. CASE AskForScript \/ Restart \/ PutOff \/ Synchronise \/ DropBackup
    BY <2>2 DEF AskForScript, Restart, PutOff, Synchronise, DropBackup
  <2>3. ASSUME NEW x, InsertRow(x) \/ DeleteRow(x) PROVE version' = version
    BY <2>3 DEF InsertRow, DeleteRow
  <2>4. CASE UNCHANGED migrationVars
    BY <2>4 DEF migrationVars
  <2>5. CASE MigrationNext
    BY <2>1, <2>2, <2>3, <2>5 DEF MigrationNext
  <2> QED
    BY <2>4, <2>5
<1>3. Known => ShadowMatchesSyncWithoutReuse
  BY MatchingsAgree DEF ShadowMatchesSyncWithoutReuse, ShadowMatchesSync
<1> QED
  BY <1>1, <1>2, <1>3, PTL DEF MigrationSpec


-----------------------------------------------------------------------------
(***************************************************************************)
(* Key bytes and the shadow table's types                                  *)
(***************************************************************************)
\* The bytes of the first columns of a key.
SumsUpTo(types, key, n, g) ==
  g = [i \in 0..n |-> IF i = 0 THEN 0 ELSE g[i - 1] + IndexPartBytes(types[key[i]])]

\* There is a sum for any number of columns.
LEMMA SumsExist ==
  ASSUME NEW types, NEW key, NEW n \in Nat
  PROVE  \E g : SumsUpTo(types, key, n, g)
<1> DEFINE T == {m \in Nat : ~\E g : SumsUpTo(types, key, m, g)}
<1> SUFFICES ASSUME T # {} PROVE FALSE
  OBVIOUS
<1>1. PICK m \in T : \A k \in T : m <= k
  BY LeastNumber
<1>2. CASE m = 0
  <2>1. SumsUpTo(types, key, m, [i \in 0..0 |-> 0])
    BY <1>2 DEF SumsUpTo
  <2> QED
    BY <2>1, <1>1
<1>3. CASE m # 0
  <2>1. m - 1 \in Nat /\ ~(m <= m - 1)
    BY <1>1, <1>3
  <2>2. PICK g : SumsUpTo(types, key, m - 1, g)
    BY <1>1, <2>1
  <2> DEFINE step(p, i) == p + IndexPartBytes(types[key[i]])
             h == [i \in 0..m |-> IF i = m THEN step(g[m - 1], m) ELSE g[i]]
  <2>3. g = [i \in 0..(m - 1) |-> IF i = 0 THEN 0 ELSE step(g[i - 1], i)]
    BY <2>2 DEF SumsUpTo
  <2> HIDE DEF step
  <2>4. \A i \in 0..m : h[i] = IF i = 0 THEN 0 ELSE step(h[i - 1], i)
    <3> TAKE i \in 0..m
    <3>1. CASE i = m
      BY <1>1, <1>3, <3>1
    <3>2. CASE i # m
      <4>1. i \in 0..(m - 1) /\ (i # 0 => i - 1 \in 0..m /\ i - 1 # m)
        BY <1>1, <3>2
      <4>2. g[i] = IF i = 0 THEN 0 ELSE step(g[i - 1], i)
        BY <2>3, <4>1
      <4> QED
        BY <3>2, <4>1, <4>2
    <3> QED
      BY <3>1, <3>2
  <2>5. h = [i \in 0..m |-> IF i = 0 THEN 0 ELSE step(h[i - 1], i)]
    BY <2>4
  <2>6. SumsUpTo(types, key, m, h)
    BY <2>5 DEF SumsUpTo, step
  <2> QED
    BY <1>1, <2>6
<1> QED
  BY <1>2, <1>3

\* KeyBytes is the last of them.
LEMMA SumsAreUnfolded ==
  ASSUME NEW types, NEW key, Len(key) \in Nat
  PROVE  \E g : SumsUpTo(types, key, Len(key), g) /\ KeyBytes(types, key) = g[Len(key)]
<1> DEFINE n == Len(key)
<1>1. \E g : SumsUpTo(types, key, n, g)
  BY SumsExist
<1> DEFINE sum == CHOOSE g : SumsUpTo(types, key, n, g)
<1>2. KeyBytes(types, key) = sum[n]
  BY DEF KeyBytes, SumsUpTo
<1> QED
  BY <1>1, <1>2

\* A key of narrower columns takes no more room.
LEMMA NarrowerKeys ==
  ASSUME NEW a, NEW b, NEW key, Len(key) \in Nat,
         \A i \in 1..Len(key) : /\ IndexPartBytes(a[key[i]]) \in Nat
                                /\ IndexPartBytes(b[key[i]]) \in Nat
                                /\ IndexPartBytes(a[key[i]]) <= IndexPartBytes(b[key[i]])
  PROVE  /\ KeyBytes(a, key) \in Nat /\ KeyBytes(b, key) \in Nat
         /\ KeyBytes(a, key) <= KeyBytes(b, key)
<1> DEFINE n == Len(key)
<1>1. PICK g : SumsUpTo(a, key, n, g) /\ KeyBytes(a, key) = g[n]
  BY SumsAreUnfolded
<1>2. PICK h : SumsUpTo(b, key, n, h) /\ KeyBytes(b, key) = h[n]
  BY SumsAreUnfolded
<1>3. \A i \in 0..n : /\ g[i] = IF i = 0 THEN 0 ELSE g[i - 1] + IndexPartBytes(a[key[i]])
                      /\ h[i] = IF i = 0 THEN 0 ELSE h[i - 1] + IndexPartBytes(b[key[i]])
  BY <1>1, <1>2 DEF SumsUpTo
<1> DEFINE Good(i) == g[i] \in Nat /\ h[i] \in Nat /\ g[i] <= h[i]
           T == {i \in 0..n : ~Good(i)}
<1>4. T = {}
  <2> SUFFICES ASSUME T # {} PROVE FALSE
    OBVIOUS
  <2>1. T \in SUBSET Nat
    OBVIOUS
  <2>2. PICK i \in T : \A k \in T : i <= k
    BY <2>1, LeastNumber
  <2>3. CASE i = 0
    BY <1>3, <2>2, <2>3
  <2>4. CASE i # 0
    <3>1. i \in 1..n /\ i - 1 \in 0..n /\ ~(i <= i - 1)
      BY <2>2, <2>4
    <3>2. Good(i - 1)
      BY <2>2, <3>1
    <3>3. /\ g[i] = g[i - 1] + IndexPartBytes(a[key[i]])
          /\ h[i] = h[i - 1] + IndexPartBytes(b[key[i]])
      BY <1>3, <3>1
    <3>4. \A m, n1, x, y \in Nat : m <= n1 /\ x <= y =>
            m + x \in Nat /\ n1 + y \in Nat /\ m + x <= n1 + y
      OBVIOUS
    <3>5. /\ IndexPartBytes(a[key[i]]) \in Nat /\ IndexPartBytes(b[key[i]]) \in Nat
          /\ IndexPartBytes(a[key[i]]) <= IndexPartBytes(b[key[i]])
      BY <3>1
    <3>6. Good(i)
      BY <3>2, <3>3, <3>4, <3>5
    <3> QED
      BY <2>2, <3>6
  <2> QED
    BY <2>3, <2>4
<1>5. n \in 0..n
  OBVIOUS
<1> QED
  BY <1>1, <1>2, <1>4, <1>5

\* SetToSeq lists all of a finite set.
LEMMA ListHasAll ==
  ASSUME NEW S, IsFiniteSet(S), NEW x \in S
  PROVE  \E i \in DOMAIN SetToSeq(S) : SetToSeq(S)[i] = x
<1> DEFINE n == Cardinality(S)
<1>1. n \in Nat /\ ExistsBijection(1..n, S)
  BY FS_CardinalityType
<1>2. PICK f \in Bijection(1..n, S) : TRUE
  BY <1>1 DEF ExistsBijection
<1>3. f \in [1..n -> S] /\ IsInjective(f)
  BY <1>2 DEF Bijection, Injection
<1>4. SetToSeq(S) \in [1..n -> S] /\ IsInjective(SetToSeq(S))
  BY <1>3 DEF SetToSeq
<1>5. SetToSeq(S) \in Injection(1..n, S)
  BY <1>4 DEF Injection
<1>6. IsFiniteSet(1..n) /\ Cardinality(1..n) = n
  BY <1>1, FS_Interval
<1>7. SetToSeq(S) \in Surjection(1..n, S)
  BY <1>5, <1>6, FS_Injection
<1> QED
  BY <1>4, <1>7 DEF Surjection

\* The keys of a version that shrinkShadowKeysToIndexBudget goes through are its primary key
\* and its indexes, and fit the budget.
LEMMA KeysAreListed ==
  ASSUME NEW v \in DeclaredVersions
  PROVE  /\ Len(DeclaredKeys(v)) \in Nat /\ DOMAIN DeclaredKeys(v) = 1..Len(DeclaredKeys(v))
         /\ \A k \in DOMAIN DeclaredKeys(v) :
              /\ DeclaredKeys(v)[k] \in Seq(FieldNames(v))
              /\ KeyBytes(FieldTypes(v), DeclaredKeys(v)[k]) <= MaxIndexKeyBytes
         /\ \E k \in DOMAIN DeclaredKeys(v) : DeclaredKeys(v)[k] = v.pk
         /\ \A i \in DOMAIN v.indexes :
              \E k \in DOMAIN DeclaredKeys(v) : DeclaredKeys(v)[k] = v.indexes[i].cols
<1> DEFINE with(unique) == {i \in DOMAIN v.indexes : v.indexes[i].unique = unique}
           colsOf(unique) == {v.indexes[i].cols : i \in with(unique)}
           one == SetToSeq(colsOf(TRUE))
           two == SetToSeq(colsOf(FALSE))
           keys == {v.pk} \cup colsOf(TRUE) \cup colsOf(FALSE)
<1>1. HasKeyColumns(v) /\ Registrable(v)
  BY CasesAssumption DEF DeclaredVersions
<1>2. DeclaredKeys(v) = <<v.pk>> \o one \o two
  BY DEF DeclaredKeys
<1>3. \A u \in BOOLEAN : IsFiniteSet(colsOf(u))
  <2> TAKE u \in BOOLEAN
  <2> DEFINE g == [i \in DOMAIN v.indexes |-> v.indexes[i].cols]
  <2>1. IsFiniteSet(with(u))
    BY FinitelyManyFields, FS_Subset
  <2>2. colsOf(u) = {g[i] : i \in with(u)}
    OBVIOUS
  <2> HIDE DEF g, with
  <2> QED
    BY <2>1, <2>2, ImageIsFinite
<1>4. keys \subseteq Seq(FieldNames(v))
  <2>1. v.pk \in Seq(FieldNames(v))
    BY <1>1 DEF HasKeyColumns
  <2>2. \A i \in DOMAIN v.indexes : v.indexes[i].cols \in Seq(FieldNames(v))
    BY <1>1 DEF HasKeyColumns
  <2> QED
    BY <2>1, <2>2
<1>5. \A i \in DOMAIN v.indexes : v.indexes[i].cols \in colsOf(TRUE) \cup colsOf(FALSE)
  BY <1>1 DEF HasKeyColumns
<1>6. \A u \in BOOLEAN : SetToSeq(colsOf(u)) \in Seq(colsOf(u))
  BY <1>3, ListOfSet
<1>7. /\ \A x \in colsOf(TRUE) : \E i \in DOMAIN one : one[i] = x
      /\ \A x \in colsOf(FALSE) : \E i \in DOMAIN two : two[i] = x
  BY <1>3, ListHasAll
<1>8. one \in Seq(keys) /\ two \in Seq(keys) /\ <<v.pk>> \in Seq(keys)
  <2>1. one \in Seq(colsOf(TRUE)) /\ two \in Seq(colsOf(FALSE))
    BY <1>6
  <2>2. colsOf(TRUE) \subseteq keys /\ colsOf(FALSE) \subseteq keys /\ v.pk \in keys
    OBVIOUS
  <2> HIDE DEF colsOf, one, two, keys
  <2>3. \A S, T : S \subseteq T => Seq(S) \subseteq Seq(T)
    OBVIOUS
  <2>4. one \in Seq(keys)
    BY <2>1, <2>2, <2>3
  <2>5. two \in Seq(keys)
    BY <2>1, <2>2, <2>3
  <2>6. <<v.pk>> \in Seq(keys)
    BY <2>2
  <2> QED
    BY <2>4, <2>5, <2>6
<1> HIDE DEF colsOf, one, two, keys
<1> DEFINE first == <<v.pk>> \o one
           all == first \o two
<1>9. /\ first \in Seq(keys) /\ first[1] = v.pk /\ Len(first) = 1 + Len(one)
      /\ \A i \in DOMAIN one : first[1 + i] = one[i]
  BY <1>8
<1> HIDE DEF first
<1>10. /\ all \in Seq(keys)
       /\ \A i \in DOMAIN first : i \in DOMAIN all /\ all[i] = first[i]
       /\ \A i \in DOMAIN two : Len(first) + i \in DOMAIN all /\ all[Len(first) + i] = two[i]
  BY <1>8, <1>9
<1>11. all = DeclaredKeys(v)
  BY <1>2 DEF first
<1> HIDE DEF all
<1>12. \A x \in keys : \E i \in DOMAIN all : all[i] = x
  <2> TAKE x \in keys
  <2>1. x = v.pk \/ x \in colsOf(TRUE) \/ x \in colsOf(FALSE)
    BY DEF keys
  <2>2. CASE x = v.pk
    BY <1>8, <1>9, <1>10, <2>2
  <2>3. CASE x \in colsOf(TRUE)
    <3>1. PICK i \in DOMAIN one : one[i] = x
      BY <1>7, <2>3
    <3>2. 1 + i \in DOMAIN first /\ first[1 + i] = x
      BY <1>8, <1>9, <3>1
    <3> QED
      BY <1>10, <3>2
  <2>4. CASE x \in colsOf(FALSE)
    BY <1>7, <1>10, <2>4
  <2> QED
    BY <2>1, <2>2, <2>3, <2>4
<1>13. /\ Len(all) \in Nat /\ DOMAIN all = 1..Len(all)
       /\ \A k \in DOMAIN all : all[k] \in keys
  BY <1>10
<1>14. \A k \in DOMAIN all : KeyBytes(FieldTypes(v), all[k]) <= MaxIndexKeyBytes
  BY <1>1, <1>11 DEF Registrable
<1>15. v.pk \in keys /\ \A i \in DOMAIN v.indexes : v.indexes[i].cols \in keys
  BY <1>5 DEF keys
<1>16. \A k \in DOMAIN all : all[k] \in Seq(FieldNames(v))
  BY <1>4, <1>13
<1>17. /\ Len(all) \in Nat /\ DOMAIN all = 1..Len(all)
       /\ \A k \in DOMAIN all : /\ all[k] \in Seq(FieldNames(v))
                                /\ KeyBytes(FieldTypes(v), all[k]) <= MaxIndexKeyBytes
       /\ \E k \in DOMAIN all : all[k] = v.pk
       /\ \A i \in DOMAIN v.indexes : \E k \in DOMAIN all : all[k] = v.indexes[i].cols
  BY <1>12, <1>13, <1>14, <1>15, <1>16
<1> QED
  BY <1>11, <1>17

\* The names of the columns of the declared keys.
KeyNames(v) == UNION {ToSet(DeclaredKeys(v)[k]) : k \in DOMAIN DeclaredKeys(v)}

\* Key columns take the room they are declared with, or more where they may be narrowed.
HasRoom(v, types) ==
  \A name \in KeyNames(v) :
    LET f == FieldNamed(v, name)
    IN /\ IndexPartBytes(types[name]) \in Nat /\ IndexPartBytes(f.type) \in Nat
       /\ IndexPartBytes(f.type) <= IndexPartBytes(types[name])
       /\ ~f.key => IndexPartBytes(types[name]) = IndexPartBytes(f.type)

\* Some key columns went back to the type they are declared with.
Narrowed(v, wide, types) ==
  /\ types = [name \in FieldNames(v) |-> types[name]]
  /\ \A name \in FieldNames(v) :
       \/ types[name] = wide[name]
       \/ FieldNamed(v, name).key /\ types[name] = FieldNamed(v, name).type

\* Columns that went back take no more room, and still the declared room.
LEMMA NarrowedHasRoom ==
  ASSUME NEW v, NEW wide, NEW types, HasRoom(v, wide), Narrowed(v, wide, types),
         NEW name \in KeyNames(v), name \in FieldNames(v)
  PROVE  /\ IndexPartBytes(types[name]) \in Nat /\ IndexPartBytes(wide[name]) \in Nat
         /\ IndexPartBytes(FieldNamed(v, name).type) \in Nat
         /\ IndexPartBytes(FieldNamed(v, name).type) <= IndexPartBytes(types[name])
         /\ IndexPartBytes(types[name]) <= IndexPartBytes(wide[name])
         /\ ~FieldNamed(v, name).key
              => IndexPartBytes(types[name]) = IndexPartBytes(FieldNamed(v, name).type)
<1> DEFINE f == FieldNamed(v, name)
<1>1. /\ IndexPartBytes(wide[name]) \in Nat /\ IndexPartBytes(f.type) \in Nat
      /\ IndexPartBytes(f.type) <= IndexPartBytes(wide[name])
      /\ ~f.key => IndexPartBytes(wide[name]) = IndexPartBytes(f.type)
  BY DEF HasRoom
<1>2. types[name] = wide[name] \/ (f.key /\ types[name] = f.type)
  <2>1. \A n \in FieldNames(v) :
          types[n] = wide[n] \/ (FieldNamed(v, n).key /\ types[n] = FieldNamed(v, n).type)
    BY Zenon DEF Narrowed
  <2> QED
    BY <2>1
<1> HIDE DEF f
<1>3. /\ IndexPartBytes(types[name]) \in Nat
      /\ IndexPartBytes(f.type) <= IndexPartBytes(types[name])
      /\ IndexPartBytes(types[name]) <= IndexPartBytes(wide[name])
      /\ ~f.key => IndexPartBytes(types[name]) = IndexPartBytes(f.type)
  <2>1. CASE types[name] = wide[name]
    BY <1>1, <2>1
  <2>2. CASE f.key /\ types[name] = f.type
    BY <1>1, <2>2
  <2> QED
    BY <1>2, <2>1, <2>2
<1> QED
  BY <1>1, <1>3 DEF f

\* Types that have room and are narrowed further still have it.
LEMMA NarrowedTwice ==
  ASSUME NEW v, NEW a, NEW b, NEW c, Narrowed(v, a, b), Narrowed(v, b, c)
  PROVE  Narrowed(v, a, c)
BY DEF Narrowed

\* The names of a declared key.
LEMMA NamesOfKeys ==
  ASSUME NEW v \in DeclaredVersions, NEW k \in DOMAIN DeclaredKeys(v)
  PROVE  LET key == DeclaredKeys(v)[k]
         IN /\ Len(key) \in Nat /\ DOMAIN key = 1..Len(key)
            /\ \A i \in 1..Len(key) : key[i] \in KeyNames(v) /\ key[i] \in FieldNames(v)
<1> DEFINE key == DeclaredKeys(v)[k]
<1>1. key \in Seq(FieldNames(v))
  BY KeysAreListed
<1>2. ToSet(key) \subseteq KeyNames(v)
  BY DEF KeyNames
<1> HIDE DEF key
<1>3. /\ Len(key) \in Nat /\ DOMAIN key = 1..Len(key)
      /\ \A i \in 1..Len(key) : key[i] \in ToSet(key) /\ key[i] \in FieldNames(v)
  BY <1>1 DEF ToSet
<1>4. \A i \in 1..Len(key) : key[i] \in KeyNames(v)
  BY <1>2, <1>3
<1> QED
  BY <1>3, <1>4 DEF key

\* One column of a key that is over the budget goes back.
ShrinkColumn(v, ts, key, name) ==
  IF KeyBytes(ts, key) > MaxIndexKeyBytes /\ FieldNamed(v, name).key
    THEN [ts EXCEPT ![name] = FieldNamed(v, name).type] ELSE ts

\* The types once the first columns of a key are gone through.
ShrunkUpTo(v, types, key, n, g) ==
  g = [i \in 0..n |-> IF i = 0 THEN types ELSE ShrinkColumn(v, g[i - 1], key, key[i])]

\* Such types exist for any number of columns.
LEMMA ShrunkExist ==
  ASSUME NEW v, NEW types, NEW key, NEW n \in Nat
  PROVE  \E g : ShrunkUpTo(v, types, key, n, g)
<1> DEFINE T == {m \in Nat : ~\E g : ShrunkUpTo(v, types, key, m, g)}
<1> SUFFICES ASSUME T # {} PROVE FALSE
  OBVIOUS
<1>1. PICK m \in T : \A k \in T : m <= k
  BY LeastNumber
<1>2. CASE m = 0
  <2>1. ShrunkUpTo(v, types, key, m, [i \in 0..0 |-> types])
    BY <1>2 DEF ShrunkUpTo
  <2> QED
    BY <2>1, <1>1
<1>3. CASE m # 0
  <2>1. m - 1 \in Nat /\ ~(m <= m - 1)
    BY <1>1, <1>3
  <2>2. PICK g : ShrunkUpTo(v, types, key, m - 1, g)
    BY <1>1, <2>1
  <2> DEFINE step(p, i) == ShrinkColumn(v, p, key, key[i])
             h == [i \in 0..m |-> IF i = m THEN step(g[m - 1], m) ELSE g[i]]
  <2>3. g = [i \in 0..(m - 1) |-> IF i = 0 THEN types ELSE step(g[i - 1], i)]
    BY <2>2 DEF ShrunkUpTo
  <2> HIDE DEF step
  <2>4. \A i \in 0..m : h[i] = IF i = 0 THEN types ELSE step(h[i - 1], i)
    <3> TAKE i \in 0..m
    <3>1. CASE i = m
      BY <1>1, <1>3, <3>1
    <3>2. CASE i # m
      <4>1. i \in 0..(m - 1) /\ (i # 0 => i - 1 \in 0..m /\ i - 1 # m)
        BY <1>1, <3>2
      <4>2. g[i] = IF i = 0 THEN types ELSE step(g[i - 1], i)
        BY <2>3, <4>1
      <4> QED
        BY <3>2, <4>1, <4>2
    <3> QED
      BY <3>1, <3>2
  <2>5. h = [i \in 0..m |-> IF i = 0 THEN types ELSE step(h[i - 1], i)]
    BY <2>4
  <2>6. ShrunkUpTo(v, types, key, m, h)
    BY <2>5 DEF ShrunkUpTo, step
  <2> QED
    BY <1>1, <2>6
<1> QED
  BY <1>2, <1>3

\* ShrinkKey is the last of them.
LEMMA ShrunkAreUnfolded ==
  ASSUME NEW v, NEW types, NEW key, Len(key) \in Nat
  PROVE  \E g : ShrunkUpTo(v, types, key, Len(key), g) /\ ShrinkKey(v, types, key) = g[Len(key)]
<1> DEFINE n == Len(key)
<1>1. \E g : ShrunkUpTo(v, types, key, n, g)
  BY ShrunkExist
<1> DEFINE shrunk == CHOOSE g : ShrunkUpTo(v, types, key, n, g)
<1>2. ShrinkKey(v, types, key) = shrunk[n]
  BY DEF ShrinkKey, ShrunkUpTo, ShrinkColumn
<1> QED
  BY <1>1, <1>2

\* A key that fits as declared fits once its columns are gone through, and only key columns
\* went back.
LEMMA ShrunkKeyFits ==
  ASSUME NEW v \in DeclaredVersions, NEW types, HasRoom(v, types),
         types = [name \in FieldNames(v) |-> types[name]],
         NEW k \in DOMAIN DeclaredKeys(v)
  PROVE  LET key == DeclaredKeys(v)[k]
             shrunk == ShrinkKey(v, types, key)
         IN /\ Narrowed(v, types, shrunk)
            /\ KeyBytes(shrunk, key) \in Nat /\ KeyBytes(shrunk, key) <= MaxIndexKeyBytes
<1> DEFINE key == DeclaredKeys(v)[k]
           n == Len(key)
           shrunk == ShrinkKey(v, types, key)
<1>1. /\ n \in Nat /\ DOMAIN key = 1..n
      /\ \A i \in 1..n : key[i] \in KeyNames(v) /\ key[i] \in FieldNames(v)
  BY NamesOfKeys
<1>2. KeyBytes(FieldTypes(v), key) <= MaxIndexKeyBytes
  BY KeysAreListed
<1> HIDE DEF key
<1>3. PICK g : ShrunkUpTo(v, types, key, n, g) /\ shrunk = g[n]
  BY <1>1, ShrunkAreUnfolded
<1> HIDE DEF shrunk, n
<1>4. \A i \in 0..n :
        g[i] = IF i = 0 THEN types ELSE ShrinkColumn(v, g[i - 1], key, key[i])
  BY <1>3 DEF ShrunkUpTo
<1>5. ASSUME NEW ts, Narrowed(v, types, ts)
      PROVE  KeyBytes(ts, key) \in Nat
  <2>1. \A i \in 1..n : IndexPartBytes(ts[key[i]]) \in Nat
    BY <1>1, <1>5, NarrowedHasRoom
  <2>2. Len(key) \in Nat /\ 1..Len(key) = 1..n
    BY <1>1 DEF n
  <2>3. \A i \in 1..Len(key) : /\ IndexPartBytes(ts[key[i]]) \in Nat
                               /\ IndexPartBytes(ts[key[i]]) <= IndexPartBytes(ts[key[i]])
    <3>1. \A x \in Nat : x <= x
      OBVIOUS
    <3> QED
      BY <2>1, <2>2, <3>1
  <2> QED
    BY <2>2, <2>3, NarrowerKeys
<1> DEFINE Fits(ts) == KeyBytes(ts, key) <= MaxIndexKeyBytes
           Back(ts, i) == FieldNamed(v, key[i]).key => ts[key[i]] = FieldNamed(v, key[i]).type
           Good(i) == /\ Narrowed(v, types, g[i])
                      /\ Fits(g[i]) \/ \A j \in 1..i : Back(g[i], j)
<1>6. Good(0)
  <2>1. g[0] = types
    BY <1>1, <1>4
  <2>2. Narrowed(v, types, types)
    BY DEF Narrowed
  <2> QED
    BY <2>1, <2>2
<1>7. ASSUME NEW i \in 1..n, Good(i - 1)
      PROVE  Good(i)
  <2> DEFINE ts == g[i - 1]
             f == FieldNamed(v, key[i])
  <2>1. i \in Nat /\ i # 0 /\ i - 1 \in 0..n /\ i \in 0..n /\ 1..i = (1..(i - 1)) \cup {i}
    BY <1>1
  <2>2. g[i] = ShrinkColumn(v, ts, key, key[i])
    BY <1>4, <2>1
  <2>3. Narrowed(v, types, ts) /\ (Fits(ts) \/ \A j \in 1..(i - 1) : Back(ts, j))
    BY <1>7
  <2>4. KeyBytes(ts, key) \in Nat
    BY <1>5, <2>3
  <2>5. ts = [name \in FieldNames(v) |-> ts[name]] /\ key[i] \in FieldNames(v)
    BY <1>1, <2>3 DEF Narrowed
  <2> HIDE DEF ts, f
  <2>6. CASE ~(KeyBytes(ts, key) > MaxIndexKeyBytes /\ f.key)
    <3>1. g[i] = ts
      BY <2>2, <2>6 DEF ShrinkColumn, f
    <3>2. Fits(ts) \/ Back(ts, i)
      BY <2>4, <2>6 DEF f, MaxIndexKeyBytes
    <3> QED
      BY <2>1, <2>3, <3>1, <3>2
  <2>7. CASE KeyBytes(ts, key) > MaxIndexKeyBytes /\ f.key
    <3>1. g[i] = [ts EXCEPT ![key[i]] = f.type]
      BY <2>2, <2>7 DEF ShrinkColumn, f
    <3>2. /\ g[i] = [name \in FieldNames(v) |-> g[i][name]]
          /\ \A name \in FieldNames(v) :
               g[i][name] = IF name = key[i] THEN f.type ELSE ts[name]
      BY <2>5, <3>1
    <3>3. Narrowed(v, ts, g[i])
      <4>1. \A name \in FieldNames(v) :
              \/ g[i][name] = ts[name]
              \/ FieldNamed(v, name).key /\ g[i][name] = FieldNamed(v, name).type
        BY <2>7, <3>2 DEF f
      <4> QED
        BY <3>2, <4>1 DEF Narrowed
    <3>4. Narrowed(v, types, g[i])
      BY <2>3, <3>3, NarrowedTwice
    <3>5. ~Fits(ts)
      BY <2>4, <2>7 DEF MaxIndexKeyBytes
    <3>6. \A j \in 1..(i - 1) : Back(ts, j)
      BY <2>3, <3>5
    <3>7. \A j \in 1..i : Back(g[i], j)
      <4> TAKE j \in 1..i
      <4>1. j \in 1..n
        BY <1>1, <2>1
      <4>2. key[j] \in FieldNames(v)
        BY <1>1, <4>1
      <4>3. CASE key[j] = key[i]
        BY <3>2, <4>2, <4>3 DEF f
      <4>4. CASE key[j] # key[i]
        <5>1. j \in 1..(i - 1)
          BY <2>1, <4>4
        <5> QED
          BY <3>2, <3>6, <4>2, <4>4, <5>1
      <4> QED
        BY <4>3, <4>4
    <3> HIDE DEF Fits, Back
    <3> QED
      BY <3>4, <3>7
  <2> QED
    BY <2>6, <2>7
<1> HIDE DEF Good
<1> DEFINE T == {i \in 0..n : ~Good(i)}
<1>8. T = {}
  <2> SUFFICES ASSUME T # {} PROVE FALSE
    OBVIOUS
  <2>1. T \in SUBSET Nat
    BY <1>1
  <2>2. PICK i \in T : \A m \in T : i <= m
    BY <2>1, LeastNumber
  <2>3. i \in 1..n /\ i - 1 \in 0..n /\ ~(i <= i - 1)
    BY <1>1, <1>6, <2>2
  <2>4. Good(i - 1)
    BY <2>2, <2>3
  <2> QED
    BY <1>7, <2>2, <2>3, <2>4
<1>9. Good(n)
  BY <1>1, <1>8
<1>10. Narrowed(v, types, shrunk) /\ (Fits(shrunk) \/ \A j \in 1..n : Back(shrunk, j))
  BY <1>3, <1>9 DEF Good
<1>11. KeyBytes(shrunk, key) \in Nat
  BY <1>5, <1>10
<1>12. ASSUME \A j \in 1..n : Back(shrunk, j) PROVE Fits(shrunk)
  <2>1. ASSUME NEW i \in 1..n
        PROVE  /\ IndexPartBytes(shrunk[key[i]]) \in Nat
               /\ IndexPartBytes(FieldTypes(v)[key[i]]) \in Nat
               /\ IndexPartBytes(shrunk[key[i]]) <= IndexPartBytes(FieldTypes(v)[key[i]])
    <3> DEFINE name == key[i]
               f == FieldNamed(v, name)
    <3>1. name \in KeyNames(v) /\ name \in FieldNames(v)
      BY <1>1
    <3>2. Back(shrunk, i)
      BY <1>12
    <3>3. f.key => shrunk[name] = f.type
      BY <3>2
    <3> HIDE DEF name, Back
    <3>4. /\ IndexPartBytes(shrunk[name]) \in Nat /\ IndexPartBytes(f.type) \in Nat
          /\ ~f.key => IndexPartBytes(shrunk[name]) = IndexPartBytes(f.type)
      BY <1>10, <3>1, NarrowedHasRoom
    <3>5. FieldTypes(v)[name] = f.type
      BY <3>1 DEF FieldTypes, FieldNames, FieldsOf
    <3> HIDE DEF f
    <3> QED
      BY <3>3, <3>4, <3>5 DEF name
  <2>2. /\ KeyBytes(shrunk, key) \in Nat /\ KeyBytes(FieldTypes(v), key) \in Nat
        /\ KeyBytes(shrunk, key) <= KeyBytes(FieldTypes(v), key)
    <3>1. Len(key) \in Nat /\ 1..Len(key) = 1..n
      BY <1>1 DEF n
    <3> QED
      BY <2>1, <3>1, NarrowerKeys
  <2> QED
    BY <1>2, <2>2 DEF MaxIndexKeyBytes
<1>13. KeyBytes(shrunk, key) <= MaxIndexKeyBytes
  BY <1>10, <1>12
<1> QED
  BY <1>10, <1>11, <1>13 DEF shrunk, key

\* Declared keys are made of fields.
LEMMA KeysNameFields ==
  ASSUME NEW v \in DeclaredVersions
  PROVE  KeyNames(v) \subseteq FieldNames(v)
<1> SUFFICES ASSUME NEW name \in KeyNames(v) PROVE name \in FieldNames(v)
  OBVIOUS
<1>1. PICK k \in DOMAIN DeclaredKeys(v) : name \in ToSet(DeclaredKeys(v)[k])
  BY DEF KeyNames
<1> DEFINE key == DeclaredKeys(v)[k]
<1>2. /\ DOMAIN key = 1..Len(key)
      /\ \A i \in 1..Len(key) : key[i] \in KeyNames(v) /\ key[i] \in FieldNames(v)
  BY NamesOfKeys
<1>3. name \in ToSet(key)
  BY <1>1
<1> HIDE DEF key
<1> QED
  BY <1>2, <1>3 DEF ToSet

\* Narrowed types have room.
LEMMA RoomStays ==
  ASSUME NEW v \in DeclaredVersions, NEW wide, NEW types, HasRoom(v, wide),
         Narrowed(v, wide, types)
  PROVE  HasRoom(v, types)
<1>1. KeyNames(v) \subseteq FieldNames(v)
  BY KeysNameFields
<1>2. \A name \in KeyNames(v) :
        /\ IndexPartBytes(types[name]) \in Nat
        /\ IndexPartBytes(FieldNamed(v, name).type) \in Nat
        /\ IndexPartBytes(FieldNamed(v, name).type) <= IndexPartBytes(types[name])
        /\ ~FieldNamed(v, name).key
             => IndexPartBytes(types[name]) = IndexPartBytes(FieldNamed(v, name).type)
  BY <1>1, NarrowedHasRoom
<1> QED
  BY <1>1, <1>2 DEF HasRoom

\* The types once the first keys are gone through.
KeysShrunkUpTo(v, types, n, g) ==
  g = [i \in 0..n |-> IF i = 0 THEN types ELSE ShrinkKey(v, g[i - 1], DeclaredKeys(v)[i])]

\* Such types exist for any number of keys.
LEMMA KeysShrunkExist ==
  ASSUME NEW v, NEW types, NEW n \in Nat
  PROVE  \E g : KeysShrunkUpTo(v, types, n, g)
<1> DEFINE T == {m \in Nat : ~\E g : KeysShrunkUpTo(v, types, m, g)}
<1> SUFFICES ASSUME T # {} PROVE FALSE
  OBVIOUS
<1>1. PICK m \in T : \A k \in T : m <= k
  BY LeastNumber
<1>2. CASE m = 0
  <2>1. KeysShrunkUpTo(v, types, m, [i \in 0..0 |-> types])
    BY <1>2 DEF KeysShrunkUpTo
  <2> QED
    BY <2>1, <1>1
<1>3. CASE m # 0
  <2>1. m - 1 \in Nat /\ ~(m <= m - 1)
    BY <1>1, <1>3
  <2>2. PICK g : KeysShrunkUpTo(v, types, m - 1, g)
    BY <1>1, <2>1
  <2> DEFINE step(p, i) == ShrinkKey(v, p, DeclaredKeys(v)[i])
             h == [i \in 0..m |-> IF i = m THEN step(g[m - 1], m) ELSE g[i]]
  <2>3. g = [i \in 0..(m - 1) |-> IF i = 0 THEN types ELSE step(g[i - 1], i)]
    BY <2>2 DEF KeysShrunkUpTo
  <2> HIDE DEF step
  <2>4. \A i \in 0..m : h[i] = IF i = 0 THEN types ELSE step(h[i - 1], i)
    <3> TAKE i \in 0..m
    <3>1. CASE i = m
      BY <1>1, <1>3, <3>1
    <3>2. CASE i # m
      <4>1. i \in 0..(m - 1) /\ (i # 0 => i - 1 \in 0..m /\ i - 1 # m)
        BY <1>1, <3>2
      <4>2. g[i] = IF i = 0 THEN types ELSE step(g[i - 1], i)
        BY <2>3, <4>1
      <4> QED
        BY <3>2, <4>1, <4>2
    <3> QED
      BY <3>1, <3>2
  <2>5. h = [i \in 0..m |-> IF i = 0 THEN types ELSE step(h[i - 1], i)]
    BY <2>4
  <2>6. KeysShrunkUpTo(v, types, m, h)
    BY <2>5 DEF KeysShrunkUpTo, step
  <2> QED
    BY <1>1, <2>6
<1> QED
  BY <1>2, <1>3

\* ShrinkKeys is the last of them.
LEMMA KeysShrunkAreUnfolded ==
  ASSUME NEW v, NEW types, Len(DeclaredKeys(v)) \in Nat
  PROVE  \E g : /\ KeysShrunkUpTo(v, types, Len(DeclaredKeys(v)), g)
                /\ ShrinkKeys(v, types) = g[Len(DeclaredKeys(v))]
<1> DEFINE n == Len(DeclaredKeys(v))
<1>1. \E g : KeysShrunkUpTo(v, types, n, g)
  BY KeysShrunkExist
<1> DEFINE shrunk == CHOOSE g : KeysShrunkUpTo(v, types, n, g)
<1>2. ShrinkKeys(v, types) = shrunk[n]
  BY DEF ShrinkKeys, KeysShrunkUpTo
<1> QED
  BY <1>1, <1>2

\* After shrinkShadowKeysToIndexBudget every declared key fits: a key that was gone through
\* stays within the budget when later ones are narrowed.
LEMMA ShrunkKeysFit ==
  ASSUME NEW v \in DeclaredVersions, NEW types, HasRoom(v, types),
         types = [name \in FieldNames(v) |-> types[name]]
  PROVE  /\ Narrowed(v, types, ShrinkKeys(v, types))
         /\ \A k \in DOMAIN DeclaredKeys(v) :
              KeyBytes(ShrinkKeys(v, types), DeclaredKeys(v)[k]) <= MaxIndexKeyBytes
<1> DEFINE n == Len(DeclaredKeys(v))
           key(k) == DeclaredKeys(v)[k]
           Fits(ts, k) == KeyBytes(ts, key(k)) <= MaxIndexKeyBytes
<1>1. n \in Nat /\ DOMAIN DeclaredKeys(v) = 1..n
  BY KeysAreListed
<1>2. PICK g : KeysShrunkUpTo(v, types, n, g) /\ ShrinkKeys(v, types) = g[n]
  BY <1>1, KeysShrunkAreUnfolded
<1> HIDE DEF n
<1>3. \A i \in 0..n : g[i] = IF i = 0 THEN types ELSE ShrinkKey(v, g[i - 1], key(i))
  BY <1>2 DEF KeysShrunkUpTo
<1> DEFINE Good(i) == Narrowed(v, types, g[i]) /\ \A k \in 1..i : Fits(g[i], k)
<1>4. Good(0)
  <2>1. g[0] = types
    BY <1>1, <1>3
  <2>2. Narrowed(v, types, types)
    BY DEF Narrowed
  <2> QED
    BY <2>1, <2>2
<1>5. ASSUME NEW i \in 1..n, Good(i - 1)
      PROVE  Good(i)
  <2> DEFINE ts == g[i - 1]
  <2>1. i \in Nat /\ i # 0 /\ i - 1 \in 0..n /\ i \in 0..n /\ 1..i = (1..(i - 1)) \cup {i}
    BY <1>1
  <2>2. g[i] = ShrinkKey(v, ts, key(i))
    BY <1>3, <2>1
  <2>3. Narrowed(v, types, ts) /\ \A k \in 1..(i - 1) : Fits(ts, k)
    BY <1>5
  <2>4. HasRoom(v, ts)
    BY <2>3, RoomStays
  <2>5. ts = [name \in FieldNames(v) |-> ts[name]]
    BY <2>3 DEF Narrowed
  <2>6. i \in DOMAIN DeclaredKeys(v)
    BY <1>1
  <2> HIDE DEF ts
  <2>7. /\ Narrowed(v, ts, g[i])
        /\ KeyBytes(g[i], key(i)) \in Nat /\ KeyBytes(g[i], key(i)) <= MaxIndexKeyBytes
    BY <2>2, <2>4, <2>5, <2>6, ShrunkKeyFits
  <2>8. Narrowed(v, types, g[i])
    BY <2>3, <2>7, NarrowedTwice
  <2>9. ASSUME NEW k \in 1..(i - 1)
        PROVE  Fits(g[i], k)
    <3> DEFINE old == key(k)
    <3>1. k \in DOMAIN DeclaredKeys(v) /\ Fits(ts, k)
      BY <1>1, <2>1, <2>3
    <3>2. /\ Len(old) \in Nat /\ DOMAIN old = 1..Len(old)
          /\ \A j \in 1..Len(old) : old[j] \in KeyNames(v) /\ old[j] \in FieldNames(v)
      BY <3>1, NamesOfKeys
    <3>3. KeyBytes(ts, old) <= MaxIndexKeyBytes
      BY <3>1
    <3> HIDE DEF old, key, Fits
    <3>4. \A j \in 1..Len(old) :
            /\ IndexPartBytes(g[i][old[j]]) \in Nat
            /\ IndexPartBytes(ts[old[j]]) \in Nat
            /\ IndexPartBytes(g[i][old[j]]) <= IndexPartBytes(ts[old[j]])
      BY <2>4, <2>7, <3>2, NarrowedHasRoom
    <3>5. /\ KeyBytes(g[i], old) \in Nat /\ KeyBytes(ts, old) \in Nat
          /\ KeyBytes(g[i], old) <= KeyBytes(ts, old)
      BY <3>2, <3>4, NarrowerKeys
    <3>6. KeyBytes(g[i], old) <= MaxIndexKeyBytes
      BY <3>3, <3>5 DEF MaxIndexKeyBytes
    <3> QED
      BY <3>6 DEF old, Fits
  <2>10. \A k \in 1..i : Fits(g[i], k)
    BY <2>1, <2>7, <2>9
  <2> QED
    BY <2>8, <2>10
<1> HIDE DEF Good
<1> DEFINE T == {i \in 0..n : ~Good(i)}
<1>6. T = {}
  <2> SUFFICES ASSUME T # {} PROVE FALSE
    OBVIOUS
  <2>1. T \in SUBSET Nat
    BY <1>1
  <2>2. PICK i \in T : \A m \in T : i <= m
    BY <2>1, LeastNumber
  <2>3. i \in 1..n /\ i - 1 \in 0..n /\ ~(i <= i - 1)
    BY <1>1, <1>4, <2>2
  <2>4. Good(i - 1)
    BY <2>2, <2>3
  <2> QED
    BY <1>5, <2>2, <2>3, <2>4
<1>7. Good(n)
  BY <1>1, <1>6
<1> QED
  BY <1>1, <1>2, <1>7 DEF Good

\* The field of a name.
LEMMA FieldOfName ==
  ASSUME NEW v, NEW name \in FieldNames(v)
  PROVE  FieldNamed(v, name) \in FieldsOf(v) /\ FieldNamed(v, name).name = name
BY DEF FieldNamed, FieldsOf, FieldNames

\* The types of a version's fields.
LEMMA FieldsHaveTypes ==
  ASSUME NEW v \in DeclaredVersions, NEW f \in FieldsOf(v)
  PROVE  /\ f.type \in Types /\ IndexPartBytes(f.type) \in Nat
         /\ f.key <=> (IsString(f.type) /\ f.type.rank = 2)
<1>1. HasKeyColumns(v)
  BY CasesAssumption DEF DeclaredVersions
<1> QED
  BY <1>1 DEF HasKeyColumns

\* Columns a field is read from are there, and in the shadow table not of the old form,
\* unless the field is listed among those of the old form.
LEMMA SourceOfField ==
  ASSUME NEW v, NEW def, NEW name \in FieldNames(v), name \notin LegacyFields(v, def),
         NEW n \in ShadowColumns(v, def.cols)[name]
  PROVE  /\ n \in DOMAIN def.cols
         /\ FieldNamed(v, name).key => def.cols[n].type.rank = FieldNamed(v, name).type.rank
<1> DEFINE f == FieldNamed(v, name)
<1>1. f \in FieldsOf(v) /\ f.name = name
  BY FieldOfName
<1>2. n \in DOMAIN def.cols /\ n \in Candidates(def.cols, DOMAIN def.cols, f)
  BY <1>1 DEF ShadowColumns, Candidates, FieldNames, FieldsOf
<1>3. n \notin LegacyColumns(def, f)
  BY <1>1 DEF LegacyFields, LegacyKeys
<1> QED
  BY <1>2, <1>3 DEF LegacyColumns, IsLegacyKey

\* The type a shadow column starts with is of the declared family, and a key column's is
\* VARCHAR or VARBINARY and at least as long as declared.
LEMMA ShadowTypeIsWide ==
  ASSUME NEW v \in DeclaredVersions, NEW def, IsOnline(def), NEW name \in FieldNames(v)
  PROVE  LET f == FieldNamed(v, name)
             type == ShadowType(v, def, name)
         IN /\ type \in Types /\ type.family = f.type.family
            /\ f.key => /\ type.rank = 2 /\ f.type.rank = 2 /\ IsString(f.type)
                        /\ type.size >= f.type.size
<1> DEFINE f == FieldNamed(v, name)
           type == ShadowType(v, def, name)
           online == ShadowColumns(v, def.cols)[name]
           n == CHOOSE m \in online : TRUE
           current == def.cols[n].type
<1>1. /\ f.type \in Types
      /\ f.key => f.type.rank = 2 /\ IsString(f.type)
  <2>1. f \in FieldsOf(v)
    BY FieldOfName
  <2> QED
    BY <2>1, FieldsHaveTypes
<1>2. \A x \in Nat : x >= x
  OBVIOUS
<1>3. f.type.size \in Nat
  BY <1>1 DEF Types
<1>4. CASE type = f.type
  BY <1>1, <1>2, <1>3, <1>4
<1>5. CASE type # f.type
  <2>1. /\ name \notin LegacyFields(v, def) /\ online # {} /\ IsTypeMatch(current, f.type)
        /\ type = AlignedColumnType(current, f.type)
    BY <1>5 DEF ShadowType
  <2>2. type = current
    BY <1>5, <2>1 DEF AlignedColumnType
  <2>3. n \in online
    BY <2>1
  <2> HIDE DEF n, online
  <2>4. /\ n \in DOMAIN def.cols
        /\ f.key => def.cols[n].type.rank = f.type.rank
    BY <2>1, <2>3, SourceOfField DEF online
  <2>5. current \in Types
    BY <2>4 DEF IsOnline
  <2>6. f.key => current.rank = f.type.rank
    BY <2>4
  <2> HIDE DEF current, f, type
  <2>7. /\ current.family = f.type.family
        /\ current.rank = f.type.rank => current.size >= f.type.size
    BY <2>1 DEF IsTypeMatch
  <2> QED
    BY <1>1, <2>2, <2>5, <2>6, <2>7 DEF f, type
<1> QED
  BY <1>4, <1>5

\* A longer VARCHAR or VARBINARY takes more room in a key.
LEMMA LongerStrings ==
  ASSUME NEW wide \in Types, NEW type \in Types, IsString(type), wide.family = type.family,
         wide.rank = 2, type.rank = 2, wide.size >= type.size
  PROVE  /\ IndexPartBytes(type) \in Nat /\ IndexPartBytes(wide) \in Nat
         /\ IndexPartBytes(type) <= IndexPartBytes(wide)
<1>1. wide.size \in Nat /\ type.size \in Nat
  BY DEF Types
<1>2. ~NeedsIndexPrefix(type) /\ ~NeedsIndexPrefix(wide)
  BY DEF NeedsIndexPrefix
<1>3. type.family \in {"text", "binary"}
  BY DEF IsString
<1>4. IndexPartBytes(type) = Capacity(type) /\ IndexPartBytes(wide) = Capacity(wide)
  BY <1>2, <1>3 DEF IndexPartBytes
<1>5. CASE type.family = "text"
  <2>1. Capacity(type) = 4 * type.size /\ Capacity(wide) = 4 * wide.size
    BY <1>5 DEF Capacity
  <2>2. \A x, y \in Nat : x >= y => 4 * x \in Nat /\ 4 * y \in Nat /\ 4 * y <= 4 * x
    OBVIOUS
  <2> QED
    BY <1>1, <1>4, <2>1, <2>2
<1>6. CASE type.family = "binary"
  <2>1. Capacity(type) = type.size /\ Capacity(wide) = wide.size
    BY <1>6 DEF Capacity
  <2> QED
    BY <1>1, <1>4, <2>1
<1> QED
  BY <1>3, <1>5, <1>6

ShadowTypesBefore(v, def) == [name \in FieldNames(v) |-> ShadowType(v, def, name)]

\* Wide online types leave the declared keys their room.
LEMMA ShadowHasRoom ==
  ASSUME NEW v \in DeclaredVersions, NEW def, IsOnline(def), ~NumericKeyIsWider(v, def)
  PROVE  HasRoom(v, ShadowTypesBefore(v, def))
<1> SUFFICES ASSUME NEW name \in KeyNames(v)
             PROVE  LET f == FieldNamed(v, name)
                        type == ShadowTypesBefore(v, def)[name]
                    IN /\ IndexPartBytes(type) \in Nat /\ IndexPartBytes(f.type) \in Nat
                       /\ IndexPartBytes(f.type) <= IndexPartBytes(type)
                       /\ ~f.key => IndexPartBytes(type) = IndexPartBytes(f.type)
  BY DEF HasRoom
<1> DEFINE f == FieldNamed(v, name)
           type == ShadowTypesBefore(v, def)[name]
<1>1. name \in FieldNames(v)
  BY KeysNameFields
<1>2. type = ShadowType(v, def, name)
  BY <1>1 DEF ShadowTypesBefore
<1>3. f \in FieldsOf(v)
  BY <1>1, FieldOfName
<1>4. f.type \in Types /\ IndexPartBytes(f.type) \in Nat
  BY <1>3, FieldsHaveTypes
<1>5. /\ type \in Types /\ type.family = f.type.family
      /\ f.key => /\ type.rank = 2 /\ f.type.rank = 2 /\ IsString(f.type)
                  /\ type.size >= f.type.size
  BY <1>1, <1>2, ShadowTypeIsWide
<1>6. ~f.key => IndexPartBytes(type) = IndexPartBytes(f.type)
  <2>1. PICK k \in DOMAIN DeclaredKeys(v) : name \in ToSet(DeclaredKeys(v)[k])
    BY DEF KeyNames
  <2> QED
    BY <1>2, <2>1 DEF NumericKeyIsWider
<1> HIDE DEF f, type
<1>7. /\ IndexPartBytes(type) \in Nat /\ IndexPartBytes(f.type) \in Nat
      /\ IndexPartBytes(f.type) <= IndexPartBytes(type)
  <2>1. CASE f.key
    BY <1>4, <1>5, <2>1, LongerStrings
  <2>2. CASE ~f.key
    <3>1. \A x \in Nat : x <= x
      OBVIOUS
    <3> QED
      BY <1>4, <1>6, <2>2, <3>1
  <2> QED
    BY <2>1, <2>2
<1> QED
  BY <1>6, <1>7 DEF f, type

\* Going through a key only takes key columns back, whatever the key is like.
LEMMA ShrunkKeyIsNarrowed ==
  ASSUME NEW v, NEW types, types = [name \in FieldNames(v) |-> types[name]],
         NEW key, Len(key) \in Nat
  PROVE  Narrowed(v, types, ShrinkKey(v, types, key))
<1> DEFINE n == Len(key)
           shrunk == ShrinkKey(v, types, key)
<1>1. PICK g : ShrunkUpTo(v, types, key, n, g) /\ shrunk = g[n]
  BY ShrunkAreUnfolded
<1>2. n \in Nat
  OBVIOUS
<1> HIDE DEF shrunk, n
<1>3. /\ g[0] = types
      /\ \A i \in 1..n : g[i] = ShrinkColumn(v, g[i - 1], key, key[i])
  <2>1. \A i \in 0..n :
          g[i] = IF i = 0 THEN types ELSE ShrinkColumn(v, g[i - 1], key, key[i])
    BY <1>1 DEF ShrunkUpTo
  <2>2. 0 \in 0..n /\ \A i \in 1..n : i \in 0..n /\ i # 0
    BY <1>2
  <2> QED
    BY <2>1, <2>2, Zenon
<1> DEFINE Good(i) == Narrowed(v, types, g[i])
<1>4. Good(0)
  <2>1. Narrowed(v, types, types)
    BY DEF Narrowed
  <2> QED
    BY <1>3, <2>1
<1>5. ASSUME NEW i \in 1..n, Good(i - 1)
      PROVE  Good(i)
  <2> DEFINE ts == g[i - 1]
             f == FieldNamed(v, key[i])
  <2>1. g[i] = ShrinkColumn(v, ts, key, key[i])
    BY <1>3
  <2>2. Narrowed(v, types, ts)
    BY <1>5
  <2>3. ts = [name \in FieldNames(v) |-> ts[name]]
    BY <2>2 DEF Narrowed
  <2> HIDE DEF ts, f
  <2>4. CASE g[i] = ts
    BY <2>2, <2>4
  <2>5. CASE f.key /\ g[i] = [ts EXCEPT ![key[i]] = f.type]
    <3>1. /\ g[i] = [name \in FieldNames(v) |-> g[i][name]]
          /\ \A name \in FieldNames(v) :
               g[i][name] = IF name = key[i] THEN f.type ELSE ts[name]
      BY <2>3, <2>5
    <3>2. \A name \in FieldNames(v) :
            \/ g[i][name] = ts[name]
            \/ FieldNamed(v, name).key /\ g[i][name] = FieldNamed(v, name).type
      BY <2>5, <3>1 DEF f
    <3>3. Narrowed(v, ts, g[i])
      BY <3>1, <3>2 DEF Narrowed
    <3> QED
      BY <2>2, <3>3, NarrowedTwice
  <2> QED
    BY <2>1, <2>4, <2>5 DEF ShrinkColumn, f
<1> HIDE DEF Good
<1> DEFINE T == {i \in 0..n : ~Good(i)}
<1>6. T = {}
  <2> SUFFICES ASSUME T # {} PROVE FALSE
    OBVIOUS
  <2>1. T \in SUBSET Nat
    BY <1>2
  <2>2. PICK i \in T : \A m \in T : i <= m
    BY <2>1, LeastNumber
  <2>3. i \in 1..n /\ i - 1 \in 0..n /\ ~(i <= i - 1)
    BY <1>2, <1>4, <2>2
  <2>4. Good(i - 1)
    BY <2>2, <2>3
  <2> QED
    BY <1>5, <2>2, <2>3, <2>4
<1>7. Good(n)
  BY <1>2, <1>6
<1> QED
  BY <1>1, <1>7 DEF Good, shrunk

\* So does going through all of them: the shadow table's columns are the fields, each of the
\* type it started with or, in a key, of the declared one.
LEMMA ShadowTypesAreNarrowed ==
  ASSUME NEW v \in DeclaredVersions, NEW def
  PROVE  Narrowed(v, ShadowTypesBefore(v, def), ShadowTypes(v, def))
<1> DEFINE types == ShadowTypesBefore(v, def)
           n == Len(DeclaredKeys(v))
<1>1. /\ n \in Nat
      /\ \A i \in 1..n : Len(DeclaredKeys(v)[i]) \in Nat
  BY KeysAreListed, NamesOfKeys
<1>2. types = [name \in FieldNames(v) |-> types[name]]
  BY DEF ShadowTypesBefore
<1>3. ShadowTypes(v, def) = ShrinkKeys(v, types)
  BY DEF ShadowTypes, ShadowTypesBefore, FieldNames, FieldsOf
<1> HIDE DEF types
<1>4. PICK g : KeysShrunkUpTo(v, types, n, g) /\ ShrinkKeys(v, types) = g[n]
  BY <1>1, KeysShrunkAreUnfolded
<1> HIDE DEF n
<1>5. \A i \in 0..n : g[i] = IF i = 0 THEN types ELSE ShrinkKey(v, g[i - 1], DeclaredKeys(v)[i])
  BY <1>4 DEF KeysShrunkUpTo
<1> DEFINE Good(i) == Narrowed(v, types, g[i])
<1>6. Good(0)
  <2>1. g[0] = types
    BY <1>1, <1>5
  <2> QED
    BY <1>2, <2>1 DEF Narrowed
<1>7. ASSUME NEW i \in 1..n, Good(i - 1)
      PROVE  Good(i)
  <2> DEFINE ts == g[i - 1]
             key == DeclaredKeys(v)[i]
  <2>1. g[i] = ShrinkKey(v, ts, key)
    BY <1>1, <1>5
  <2>2. Narrowed(v, types, ts)
    BY <1>7
  <2>3. ts = [name \in FieldNames(v) |-> ts[name]]
    BY <2>2 DEF Narrowed
  <2>4. Len(key) \in Nat
    BY <1>1
  <2> HIDE DEF ts, key
  <2>5. Narrowed(v, ts, g[i])
    BY <2>1, <2>3, <2>4, ShrunkKeyIsNarrowed
  <2> QED
    BY <2>2, <2>5, NarrowedTwice
<1> HIDE DEF Good
<1> DEFINE T == {i \in 0..n : ~Good(i)}
<1>8. T = {}
  <2> SUFFICES ASSUME T # {} PROVE FALSE
    OBVIOUS
  <2>1. T \in SUBSET Nat
    BY <1>1
  <2>2. PICK i \in T : \A m \in T : i <= m
    BY <2>1, LeastNumber
  <2>3. i \in 1..n /\ i - 1 \in 0..n /\ ~(i <= i - 1)
    BY <1>1, <1>6, <2>2
  <2>4. Good(i - 1)
    BY <2>2, <2>3
  <2> QED
    BY <1>7, <2>2, <2>3, <2>4
<1>9. Good(n)
  BY <1>1, <1>8
<1> QED
  BY <1>3, <1>4, <1>9 DEF Good, types

\* The columns of the shadow table.
LEMMA ShadowColumnTypes ==
  ASSUME NEW v \in DeclaredVersions, NEW def, IsOnline(def)
  PROVE  /\ DOMAIN ShadowDef(v, def).cols = FieldNames(v)
         /\ [n \in DOMAIN ShadowDef(v, def).cols |-> ShadowDef(v, def).cols[n].type]
              = ShadowTypes(v, def)
         /\ \A name \in FieldNames(v) :
              LET f == FieldNamed(v, name)
                  type == ShadowTypes(v, def)[name]
              IN /\ ShadowDef(v, def).cols[name].type = type
                 /\ type \in Types /\ type.family = f.type.family
                 /\ f.key => type.rank = 2
<1> DEFINE types == ShadowTypes(v, def)
           cols == ShadowDef(v, def).cols
<1>1. Narrowed(v, ShadowTypesBefore(v, def), types)
  BY ShadowTypesAreNarrowed
<1>2. types = [name \in FieldNames(v) |-> types[name]]
  BY <1>1 DEF Narrowed
<1>3. cols = [name \in DOMAIN types |-> ShadowColumn(FieldNamed(v, name), types[name])]
  BY DEF ShadowDef
<1> HIDE DEF types, cols
<1>4. DOMAIN types = FieldNames(v)
  BY <1>2
<1>5. DOMAIN cols = FieldNames(v) /\ \A name \in FieldNames(v) : cols[name].type = types[name]
  BY <1>3, <1>4 DEF ShadowColumn
<1>6. [n \in DOMAIN cols |-> cols[n].type] = types
  BY <1>2, <1>5
<1>7. ASSUME NEW name \in FieldNames(v)
      PROVE  /\ types[name] \in Types /\ types[name].family = FieldNamed(v, name).type.family
             /\ FieldNamed(v, name).key => types[name].rank = 2
  <2> DEFINE f == FieldNamed(v, name)
             before == ShadowType(v, def, name)
  <2>1. f \in FieldsOf(v)
    BY FieldOfName
  <2>2. f.type \in Types /\ (f.key => f.type.rank = 2)
    BY <2>1, FieldsHaveTypes
  <2>3. /\ before \in Types /\ before.family = f.type.family
        /\ f.key => before.rank = 2
    BY ShadowTypeIsWide
  <2>4. types[name] = ShadowTypesBefore(v, def)[name] \/ types[name] = f.type
    BY <1>1 DEF Narrowed
  <2>5. types[name] = before \/ types[name] = f.type
    BY <2>4 DEF ShadowTypesBefore
  <2> HIDE DEF f, before
  <2>6. /\ types[name] \in Types /\ types[name].family = f.type.family
        /\ f.key => types[name].rank = 2
    BY <2>2, <2>3, <2>5
  <2> QED
    BY <2>6 DEF f
<1> QED
  BY <1>5, <1>6, <1>7 DEF types, cols

\* An index nobody declared keeps the form of an index in the shadow table; without a prefix
\* it is only where no column needs one.
LEMMA ShadowIndexForm ==
  ASSUME NEW v, NEW def, NEW index, {"cols", "whole"} \subseteq DOMAIN index
  PROVE  LET shadow == ShadowIndex(v, def, index)
         IN /\ {"cols", "whole"} \subseteq DOMAIN shadow
            /\ shadow.whole =>
                 \A name \in ToSet(shadow.cols) : ~NeedsIndexPrefix(ShadowTypes(v, def)[name])
<1> DEFINE types == ShadowTypes(v, def)
           fieldOf(n) == CHOOSE name \in DOMAIN types : n \in ShadowColumns(v, def.cols)[name]
           cols == [i \in DOMAIN index.cols |-> fieldOf(index.cols[i])]
           whole == /\ \A name \in ToSet(cols) : ~NeedsIndexPrefix(types[name])
                    /\ index.whole \/ ToSet(cols) \subseteq LegacyFields(v, def)
           shadow == ShadowIndex(v, def, index)
<1>1. shadow = [index EXCEPT !.cols = cols, !.whole = whole]
  BY DEF ShadowIndex
<1> HIDE DEF cols, shadow
<1>2. /\ DOMAIN shadow = DOMAIN index /\ shadow.cols = cols
  BY <1>1
<1>3. shadow.whole => \A name \in ToSet(cols) : ~NeedsIndexPrefix(types[name])
  BY <1>1
<1> QED
  BY <1>2, <1>3 DEF shadow

\* The indexes of the shadow table.
LEMMA ShadowIndexes ==
  ASSUME NEW v, NEW def, NEW i \in DOMAIN ShadowDef(v, def).indexes
  PROVE  \/ /\ i \in DOMAIN v.indexes
            /\ ShadowDef(v, def).indexes[i] = v.indexes[i]
         \/ /\ i \in KeptIndexes(v, def) /\ i \in DOMAIN def.indexes
            /\ ShadowDef(v, def).indexes[i] = ShadowIndex(v, def, def.indexes[i])
            /\ KeyBytes(ShadowTypes(v, def), ShadowDef(v, def).indexes[i].cols)
                 <= MaxIndexKeyBytes
<1> DEFINE indexes == ShadowDef(v, def).indexes
<1>1. indexes = [j \in DOMAIN v.indexes \cup KeptIndexes(v, def) |->
                   IF j \in DOMAIN v.indexes THEN v.indexes[j]
                                             ELSE ShadowIndex(v, def, def.indexes[j])]
  BY DEF ShadowDef
<1>2. \A j \in KeptIndexes(v, def) :
        /\ j \in DOMAIN def.indexes
        /\ KeyBytes(ShadowTypes(v, def), ShadowIndex(v, def, def.indexes[j]).cols)
             <= MaxIndexKeyBytes
  BY DEF KeptIndexes
<1> HIDE DEF indexes
<1>3. i \in DOMAIN indexes
  BY DEF indexes
<1>4. CASE i \in DOMAIN v.indexes
  BY <1>1, <1>3, <1>4 DEF indexes
<1>5. CASE i \notin DOMAIN v.indexes
  <2>1. i \in KeptIndexes(v, def) /\ indexes[i] = ShadowIndex(v, def, def.indexes[i])
    BY <1>1, <1>3, <1>5
  <2> QED
    BY <1>2, <2>1 DEF indexes
<1> QED
  BY <1>4, <1>5

\* The shadow table is a table that can be online.
LEMMA ShadowIsOnline ==
  ASSUME NEW v \in DeclaredVersions, NEW def, IsOnline(def)
  PROVE  IsOnline(ShadowDef(v, def))
<1> DEFINE shadow == ShadowDef(v, def)
<1>1. DOMAIN shadow.cols = FieldNames(v)
  BY ShadowColumnTypes
<1>2. \A name \in FieldNames(v) : shadow.cols[name].type \in Types
  BY ShadowColumnTypes
<1>3. ASSUME NEW i \in DOMAIN shadow.indexes
      PROVE  {"cols", "whole"} \subseteq DOMAIN shadow.indexes[i]
  <2>1. \/ i \in DOMAIN v.indexes /\ shadow.indexes[i] = v.indexes[i]
        \/ /\ i \in DOMAIN def.indexes
           /\ shadow.indexes[i] = ShadowIndex(v, def, def.indexes[i])
    BY <1>3, ShadowIndexes
  <2>2. ASSUME i \in DOMAIN v.indexes
        PROVE  {"cols", "whole"} \subseteq DOMAIN v.indexes[i]
    <3>1. HasKeyColumns(v)
      BY CasesAssumption DEF DeclaredVersions
    <3>2. v.indexes[i] \in [cols : Seq(FieldNames(v)), unique : BOOLEAN, whole : BOOLEAN,
                            kind : {"btree"}]
      BY <2>2, <3>1 DEF HasKeyColumns
    <3> QED
      BY <3>2
  <2>3. ASSUME i \in DOMAIN def.indexes
        PROVE  {"cols", "whole"} \subseteq DOMAIN ShadowIndex(v, def, def.indexes[i])
    <3>1. {"cols", "whole"} \subseteq DOMAIN def.indexes[i]
      BY <2>3 DEF IsOnline
    <3> QED
      BY <3>1, ShadowIndexForm
  <2> HIDE DEF shadow
  <2> QED
    BY <2>1, <2>2, <2>3
<1> HIDE DEF shadow
<1>4. IsTable(shadow)
  BY DEF shadow, ShadowDef, IsTable
<1>5. IsOnline(shadow)
  BY <1>1, <1>2, <1>3, <1>4 DEF IsOnline
<1> QED
  BY <1>5 DEF shadow

\* A column of a declared key that is indexed whole needs no prefix in the shadow table.
LEMMA WholeKeysNeedNoPrefix ==
  ASSUME NEW v \in DeclaredVersions, NEW def, IsOnline(def), NEW key \in Seq(FieldNames(v)),
         \/ key = v.pk
         \/ \E i \in DOMAIN v.indexes : v.indexes[i].whole /\ key = v.indexes[i].cols,
         NEW name \in ToSet(key)
  PROVE  ~NeedsIndexPrefix(ShadowTypes(v, def)[name])
<1> DEFINE f == FieldNamed(v, name)
           type == ShadowTypes(v, def)[name]
           whole == {v.pk} \cup {v.indexes[i].cols :
                                   i \in {j \in DOMAIN v.indexes : v.indexes[j].whole}}
<1>1. name \in FieldNames(v)
  BY DEF ToSet
<1>2. f \in FieldsOf(v)
  BY <1>1, FieldOfName
<1>3. IsString(f.type) => f.key
  <2>1. HasKeyColumns(v)
    BY CasesAssumption DEF DeclaredVersions
  <2>2. \A k \in whole : \A n \in ToSet(k) :
          IsString(FieldNamed(v, n).type) => FieldNamed(v, n).key
    BY <2>1 DEF HasKeyColumns
  <2>3. key \in whole
    OBVIOUS
  <2> QED
    BY <2>2, <2>3
<1>4. type \in Types /\ type.family = f.type.family /\ (f.key => type.rank = 2)
  BY <1>1, ShadowColumnTypes
<1> HIDE DEF f, type
<1> QED
  BY <1>3, <1>4 DEF NeedsIndexPrefix, IsString, type

\* MySQL creates the shadow table of any table that can be online.
LEMMA ShadowCanBeCreated ==
  ASSUME NEW v \in DeclaredVersions, NEW def, IsOnline(def), ~NumericKeyIsWider(v, def)
  PROVE  KeysCreatable(ShadowDef(v, def))
<1> DEFINE shadow == ShadowDef(v, def)
           types == ShadowTypes(v, def)
           before == ShadowTypesBefore(v, def)
<1>1. [n \in DOMAIN shadow.cols |-> shadow.cols[n].type] = types
  BY ShadowColumnTypes
<1>2. types = ShrinkKeys(v, before)
  BY DEF ShadowTypes, ShadowTypesBefore, FieldNames, FieldsOf
<1>3. \A k \in DOMAIN DeclaredKeys(v) :
        KeyBytes(types, DeclaredKeys(v)[k]) <= MaxIndexKeyBytes
  <2>1. HasRoom(v, before)
    BY ShadowHasRoom
  <2>2. before = [name \in FieldNames(v) |-> before[name]]
    BY DEF ShadowTypesBefore
  <2> HIDE DEF before, types
  <2> QED
    BY <1>2, <2>1, <2>2, ShrunkKeysFit
<1>4. shadow.pk = v.pk
  BY DEF ShadowDef
<1>5. /\ v.pk \in Seq(FieldNames(v))
      /\ \A i \in DOMAIN v.indexes : v.indexes[i].cols \in Seq(FieldNames(v))
  <2>1. HasKeyColumns(v)
    BY CasesAssumption DEF DeclaredVersions
  <2> QED
    BY <2>1 DEF HasKeyColumns
<1>6. KeyBytes(types, v.pk) <= MaxIndexKeyBytes
  <2>1. PICK k \in DOMAIN DeclaredKeys(v) : DeclaredKeys(v)[k] = v.pk
    BY KeysAreListed
  <2> HIDE DEF types
  <2> QED
    BY <1>3, <2>1
<1>7. ASSUME NEW i \in DOMAIN shadow.indexes
      PROVE  /\ KeyBytes(types, shadow.indexes[i].cols) <= MaxIndexKeyBytes
             /\ shadow.indexes[i].whole =>
                  \A n \in ToSet(shadow.indexes[i].cols) : ~NeedsIndexPrefix(types[n])
  <2>1. \/ i \in DOMAIN v.indexes /\ shadow.indexes[i] = v.indexes[i]
        \/ /\ i \in DOMAIN def.indexes
           /\ shadow.indexes[i] = ShadowIndex(v, def, def.indexes[i])
           /\ KeyBytes(types, shadow.indexes[i].cols) <= MaxIndexKeyBytes
    BY <1>7, ShadowIndexes
  <2>2. ASSUME i \in DOMAIN v.indexes, shadow.indexes[i] = v.indexes[i]
        PROVE  /\ KeyBytes(types, shadow.indexes[i].cols) <= MaxIndexKeyBytes
               /\ shadow.indexes[i].whole =>
                    \A n \in ToSet(shadow.indexes[i].cols) : ~NeedsIndexPrefix(types[n])
    <3> DEFINE key == v.indexes[i].cols
    <3>1. PICK k \in DOMAIN DeclaredKeys(v) : DeclaredKeys(v)[k] = key
      BY <2>2, KeysAreListed
    <3>2. key \in Seq(FieldNames(v))
      BY <1>5, <2>2
    <3>3. v.indexes[i].whole => \A n \in ToSet(key) : ~NeedsIndexPrefix(types[n])
      BY <2>2, <3>2, WholeKeysNeedNoPrefix
    <3> HIDE DEF types, shadow
    <3>4. KeyBytes(types, key) <= MaxIndexKeyBytes
      BY <1>3, <3>1
    <3> QED
      BY <2>2, <3>3, <3>4
  <2>3. ASSUME i \in DOMAIN def.indexes,
               shadow.indexes[i] = ShadowIndex(v, def, def.indexes[i])
        PROVE  shadow.indexes[i].whole =>
                 \A n \in ToSet(shadow.indexes[i].cols) : ~NeedsIndexPrefix(types[n])
    <3>1. {"cols", "whole"} \subseteq DOMAIN def.indexes[i]
      BY <2>3 DEF IsOnline
    <3>2. LET index == ShadowIndex(v, def, def.indexes[i])
          IN index.whole => \A n \in ToSet(index.cols) : ~NeedsIndexPrefix(types[n])
      BY <3>1, ShadowIndexForm
    <3> HIDE DEF types, shadow
    <3> QED
      BY <2>3, <3>2
  <2> HIDE DEF types, shadow
  <2> QED
    BY <2>1, <2>2, <2>3
<1>8. \A n \in ToSet(v.pk) : ~NeedsIndexPrefix(types[n])
  BY <1>5, WholeKeysNeedNoPrefix
<1> HIDE DEF shadow, types
<1>9. \A key \in {shadow.pk} \cup {shadow.indexes[i].cols : i \in DOMAIN shadow.indexes} :
        KeyBytes(types, key) <= MaxIndexKeyBytes
  BY <1>4, <1>6, <1>7
<1>10. \A key \in {shadow.pk} \cup {shadow.indexes[i].cols :
                     i \in {j \in DOMAIN shadow.indexes : shadow.indexes[j].whole}} :
         \A n \in ToSet(key) : ~NeedsIndexPrefix(types[n])
  BY <1>4, <1>7, <1>8
<1>11. KeysCreatable(shadow)
  BY <1>1, <1>9, <1>10 DEF KeysCreatable
<1> QED
  BY <1>11 DEF shadow

-----------------------------------------------------------------------------
(***************************************************************************)
(* Every table stays one that can be online, whatever statements run       *)
(***************************************************************************)
\* What a statement brings into a table.
IsOnlineClause(x) ==
  /\ x.op \in {"add column", "change column"} => x.type \in Types
  /\ x.op = "add index" => {"cols", "whole"} \subseteq DOMAIN x.index

IsOnlineStatement(x) == IsOnlineClause(x) /\ (x.op = "create" => IsOnline(x.def))

\* An ALTER with such clauses.
LEMMA AlteredIsOnline ==
  ASSUME NEW t, IsOnline(t), NEW clauses, \A x \in clauses : IsOnlineClause(x)
  PROVE  IsOnline(Altered(t, clauses))
<1> DEFINE kept == DOMAIN t.cols \ Replaced(clauses)
           changed == OfColumns(clauses)
           clauseOf(n) == CHOOSE c \in changed : c.name = n
           column(c) == [type |-> c.type, attrs |-> c.attrs, num |-> c.num,
                         born |-> IF c.op = "change column" THEN t.cols[c.old].born
                                                            ELSE [num |-> c.num, name |-> c.name]]
           added == {c \in clauses : c.op = "add index"}
           index(i) == (CHOOSE x \in added : x.name = i).index
           after == Altered(t, clauses)
<1>1. after.cols = [n \in kept \cup {c.name : c \in changed} |->
                      IF n \in kept THEN t.cols[n] ELSE column(clauseOf(n))]
  BY DEF Altered
<1>2. after.indexes = [i \in DOMAIN t.indexes \cup {x.name : x \in added} |->
                         IF i \in DOMAIN t.indexes
                           THEN [t.indexes[i] EXCEPT !.cols = Renamed(clauses, @)]
                           ELSE index(i)]
  BY DEF Altered
<1>3. IsTable(after)
  BY DEF Altered, IsTable
<1>4. ASSUME NEW n \in DOMAIN after.cols
      PROVE  after.cols[n].type \in Types
  <2>1. CASE n \in kept
    <3>1. after.cols[n] = t.cols[n]
      BY <1>1, <1>4, <2>1
    <3> QED
      BY <2>1, <3>1 DEF IsOnline
  <2>2. CASE n \notin kept
    <3>1. n \in kept \cup {d.name : d \in changed}
      BY <1>1, <1>4, Zenon
    <3>2. PICK d \in changed : d.name = n
      BY <2>2, <3>1
    <3> DEFINE c == clauseOf(n)
    <3>3. c \in changed
      BY <3>2
    <3>4. after.cols[n].type = c.type
      <4> HIDE DEF c
      <4>1. column(c).type = c.type
        OBVIOUS
      <4> HIDE DEF column, kept, after
      <4>2. after.cols[n] = column(c)
        BY <1>1, <2>2, <3>1 DEF c
      <4> QED
        BY <4>1, <4>2
    <3> HIDE DEF c
    <3>5. c \in clauses /\ c.op \in {"add column", "change column"}
      BY <3>3 DEF OfColumns
    <3> QED
      BY <3>4, <3>5 DEF IsOnlineClause
  <2> QED
    BY <2>1, <2>2
<1>5. ASSUME NEW i \in DOMAIN after.indexes
      PROVE  {"cols", "whole"} \subseteq DOMAIN after.indexes[i]
  <2>1. CASE i \in DOMAIN t.indexes
    <3>1. after.indexes[i] = [t.indexes[i] EXCEPT !.cols = Renamed(clauses, @)]
      BY <1>2, <1>5, <2>1
    <3>2. DOMAIN after.indexes[i] = DOMAIN t.indexes[i]
      BY <3>1
    <3> QED
      BY <2>1, <3>2 DEF IsOnline
  <2>2. CASE i \notin DOMAIN t.indexes
    <3> DEFINE x == CHOOSE y \in added : y.name = i
    <3>1. \E y \in added : y.name = i
      BY <1>2, <1>5, <2>2
    <3>2. x \in added
      BY <3>1
    <3>3. after.indexes[i] = x.index
      BY <1>2, <1>5, <2>2
    <3> HIDE DEF x
    <3> QED
      BY <3>2, <3>3 DEF IsOnlineClause
  <2> QED
    BY <2>1, <2>2
<1> HIDE DEF after
<1>6. IsOnline(after)
  BY <1>3, <1>4, <1>5 DEF IsOnline
<1> QED
  BY <1>6 DEF after

\* The plan of the first fields.
NoFieldPlanned(cols) ==
  [left |-> DOMAIN cols, clauses |-> {}, refused |-> NumberIsAmbiguous(cols)]

PlannedUpTo(v, cols, n, g) ==
  g = [i \in 0..n |-> IF i = 0 THEN NoFieldPlanned(cols)
                               ELSE PlanField(cols, g[i - 1], v.fields[i])]

\* There is one for any number of fields.
LEMMA PlannedExist ==
  ASSUME NEW v, NEW cols, NEW n \in Nat
  PROVE  \E g : PlannedUpTo(v, cols, n, g)
<1> DEFINE T == {m \in Nat : ~\E g : PlannedUpTo(v, cols, m, g)}
<1> SUFFICES ASSUME T # {} PROVE FALSE
  OBVIOUS
<1>1. PICK m \in T : \A k \in T : m <= k
  BY LeastNumber
<1>2. CASE m = 0
  <2>1. PlannedUpTo(v, cols, m, [i \in 0..0 |-> NoFieldPlanned(cols)])
    BY <1>2 DEF PlannedUpTo
  <2> QED
    BY <2>1, <1>1
<1>3. CASE m # 0
  <2>1. m - 1 \in Nat /\ ~(m <= m - 1)
    BY <1>1, <1>3
  <2>2. PICK g : PlannedUpTo(v, cols, m - 1, g)
    BY <1>1, <2>1
  <2> DEFINE none == NoFieldPlanned(cols)
             step(p, i) == PlanField(cols, p, v.fields[i])
             h == [i \in 0..m |-> IF i = m THEN step(g[m - 1], m) ELSE g[i]]
  <2>3. g = [i \in 0..(m - 1) |-> IF i = 0 THEN none ELSE step(g[i - 1], i)]
    BY <2>2 DEF PlannedUpTo
  <2> HIDE DEF step, none
  <2>4. \A i \in 0..m : h[i] = IF i = 0 THEN none ELSE step(h[i - 1], i)
    <3> TAKE i \in 0..m
    <3>1. CASE i = m
      BY <1>1, <1>3, <3>1
    <3>2. CASE i # m
      <4>1. i \in 0..(m - 1) /\ (i # 0 => i - 1 \in 0..m /\ i - 1 # m)
        BY <1>1, <3>2
      <4>2. g[i] = IF i = 0 THEN none ELSE step(g[i - 1], i)
        BY <2>3, <4>1
      <4> QED
        BY <3>2, <4>1, <4>2
    <3> QED
      BY <3>1, <3>2
  <2>5. h = [i \in 0..m |-> IF i = 0 THEN none ELSE step(h[i - 1], i)]
    BY <2>4
  <2>6. PlannedUpTo(v, cols, m, h)
    BY <2>5 DEF PlannedUpTo, step, none
  <2> QED
    BY <1>1, <2>6
<1> QED
  BY <1>2, <1>3

\* What one field adds to a plan.
LEMMA FieldPlanned ==
  ASSUME NEW v \in DeclaredVersions, NEW t, IsOnline(t), NEW f \in FieldsOf(v), NEW p,
         p.left \subseteq DOMAIN t.cols, \A x \in p.clauses : IsOnlineClause(x),
         p = [left |-> p.left, clauses |-> p.clauses, refused |-> p.refused],
         NEW q, q = PlanField(t.cols, p, f)
  PROVE  /\ q.left \subseteq DOMAIN t.cols /\ \A x \in q.clauses : IsOnlineClause(x)
         /\ q = [left |-> q.left, clauses |-> q.clauses, refused |-> q.refused]
<1> DEFINE found == Candidates(t.cols, p.left, f)
           old == CHOOSE n \in found : TRUE
           one == AddColumn(f)
           two == ChangeColumn(old, t.cols[old], f)
<1>1. f.type \in Types
  BY FieldsHaveTypes
<1>2. IsOnlineClause(one)
  BY <1>1 DEF IsOnlineClause, AddColumn
<1>3. found \subseteq p.left
  BY DEF Candidates
<1>4. found # {} => old \in DOMAIN t.cols
  BY <1>3
<1> HIDE DEF found, old
<1>5. found # {} => IsOnlineClause(two)
  <2>1. found # {} => t.cols[old].type \in Types
    BY <1>4 DEF IsOnline
  <2>2. found # {} => AlignedColumnType(t.cols[old].type, f.type) \in Types
    BY <1>1, <2>1 DEF AlignedColumnType
  <2>3. two.op = "change column" /\ two.type = AlignedColumnType(t.cols[old].type, f.type)
    BY DEF ChangeColumn
  <2> QED
    BY <2>2, <2>3 DEF IsOnlineClause
<1>6. \/ found = {} /\ q = [p EXCEPT !.clauses = p.clauses \cup {one}]
      \/ q = [p EXCEPT !.left = p.left \ {old}]
      \/ /\ found # {}
         /\ q = [left |-> p.left \ {old}, clauses |-> p.clauses \cup {two},
                 refused |-> p.refused \/ Inconvertible(t.cols[old], f)]
  BY DEF PlanField, found, old
<1> HIDE DEF one, two
<1>7. CASE found = {} /\ q = [p EXCEPT !.clauses = p.clauses \cup {one}]
  <2>1. q = [left |-> p.left, clauses |-> p.clauses \cup {one}, refused |-> p.refused]
    BY <1>7
  <2> QED
    BY <1>2, <2>1
<1>8. CASE q = [p EXCEPT !.left = p.left \ {old}]
  <2>1. q = [left |-> p.left \ {old}, clauses |-> p.clauses, refused |-> p.refused]
    BY <1>8
  <2> QED
    BY <2>1
<1>9. CASE /\ found # {}
           /\ q = [left |-> p.left \ {old}, clauses |-> p.clauses \cup {two},
                   refused |-> p.refused \/ Inconvertible(t.cols[old], f)]
  BY <1>5, <1>9
<1> QED
  BY <1>6, <1>7, <1>8, <1>9

\* The clauses planned for the fields of a version.
LEMMA FieldClausesAreOnline ==
  ASSUME NEW v \in DeclaredVersions, NEW t, IsOnline(t)
  PROVE  \A x \in ColumnClauses(v, t.cols).clauses : IsOnlineClause(x)
<1> DEFINE n == Len(v.fields)
<1>1. n \in Nat /\ \A i \in 1..n : v.fields[i] \in FieldsOf(v)
  <2>1. v.fields \in Seq(FieldsOf(v))
    BY CasesAssumption DEF DeclaredVersions
  <2> QED
    BY <2>1
<1>2. \E g : PlannedUpTo(v, t.cols, n, g)
  BY <1>1, PlannedExist
<1> DEFINE planned == CHOOSE g : PlannedUpTo(v, t.cols, n, g)
<1>3. ColumnClauses(v, t.cols) = planned[n]
  BY DEF ColumnClauses, PlannedUpTo, NoFieldPlanned
<1>4. PICK g : PlannedUpTo(v, t.cols, n, g) /\ ColumnClauses(v, t.cols) = g[n]
  BY <1>2, <1>3
<1> HIDE DEF n, planned
<1>5. \A i \in 0..n : g[i] = IF i = 0 THEN NoFieldPlanned(t.cols)
                                      ELSE PlanField(t.cols, g[i - 1], v.fields[i])
  BY <1>4 DEF PlannedUpTo
<1> DEFINE Good(i) ==
             /\ g[i].left \subseteq DOMAIN t.cols /\ \A x \in g[i].clauses : IsOnlineClause(x)
             /\ g[i] = [left |-> g[i].left, clauses |-> g[i].clauses, refused |-> g[i].refused]
<1>6. Good(0)
  <2>1. g[0] = NoFieldPlanned(t.cols)
    BY <1>1, <1>5
  <2> QED
    BY <2>1 DEF NoFieldPlanned
<1>7. ASSUME NEW i \in 1..n, Good(i - 1)
      PROVE  Good(i)
  <2> DEFINE p == g[i - 1]
             q == g[i]
  <2>1. q = PlanField(t.cols, p, v.fields[i])
    BY <1>1, <1>5
  <2>2. /\ p.left \subseteq DOMAIN t.cols /\ \A x \in p.clauses : IsOnlineClause(x)
        /\ p = [left |-> p.left, clauses |-> p.clauses, refused |-> p.refused]
    BY <1>7
  <2>3. v.fields[i] \in FieldsOf(v)
    BY <1>1
  <2> HIDE DEF p, q
  <2>4. /\ q.left \subseteq DOMAIN t.cols /\ \A x \in q.clauses : IsOnlineClause(x)
        /\ q = [left |-> q.left, clauses |-> q.clauses, refused |-> q.refused]
    BY <2>1, <2>2, <2>3, FieldPlanned
  <2> QED
    BY <2>4 DEF q
<1> HIDE DEF Good
<1> DEFINE T == {i \in 0..n : ~Good(i)}
<1>8. T = {}
  <2> SUFFICES ASSUME T # {} PROVE FALSE
    OBVIOUS
  <2>1. T \in SUBSET Nat
    BY <1>1
  <2>2. PICK i \in T : \A m \in T : i <= m
    BY <2>1, LeastNumber
  <2>3. i \in 1..n /\ i - 1 \in 0..n /\ ~(i <= i - 1)
    BY <1>1, <1>6, <2>2
  <2>4. Good(i - 1)
    BY <2>2, <2>3
  <2> QED
    BY <1>7, <2>2, <2>3, <2>4
<1>9. Good(n)
  BY <1>1, <1>8
<1> QED
  BY <1>4, <1>9 DEF Good

\* The indexes a version declares.
LEMMA DeclaredIndexes ==
  ASSUME NEW v \in DeclaredVersions, NEW i \in DOMAIN v.indexes
  PROVE  IsOnlineStatement(AddIndex(i, v.indexes[i]))
<1>1. HasKeyColumns(v)
  BY CasesAssumption DEF DeclaredVersions
<1>2. v.indexes[i] \in [cols : Seq(FieldNames(v)), unique : BOOLEAN, whole : BOOLEAN,
                        kind : {"btree"}]
  BY <1>1 DEF HasKeyColumns
<1>3. {"cols", "whole"} \subseteq DOMAIN v.indexes[i]
  BY <1>2
<1> QED
  BY <1>3 DEF IsOnlineStatement, IsOnlineClause, AddIndex

\* The plan of a synchronisation.
LEMMA PlanIsOnline ==
  ASSUME NEW v \in DeclaredVersions, NEW t, IsOnline(t), NEW e,
         NEW x \in Plan(v, t, e).columns \cup Plan(v, t, e).primaryKey
  PROVE  IsOnlineClause(x)
<1> DEFINE fields == ColumnClauses(v, t.cols).clauses
           missing == {AddIndex(i, v.indexes[i]) : i \in DOMAIN v.indexes \ DOMAIN t.indexes}
           key == AddPrimaryKey(v.pk)
<1>1. x \in fields \cup missing \cup {key}
  BY DEF Plan
<1>2. \A y \in fields : IsOnlineClause(y)
  BY FieldClausesAreOnline
<1>3. \A y \in missing : IsOnlineClause(y)
  BY DeclaredIndexes DEF IsOnlineStatement
<1>4. IsOnlineClause(key)
  BY DEF IsOnlineClause, AddPrimaryKey
<1> QED
  BY <1>1, <1>2, <1>3, <1>4

\* The statements of both scripts.
AreStatements(s) ==
  /\ Len(s) \in Nat /\ DOMAIN s = 1..Len(s)
  /\ \A i \in DOMAIN s : IsOnlineStatement(s[i])

\* The statements legacyKeyRebuildSQL prints; the last swaps the names.
RebuildOps == {"strict", "create", "copy", "read counter", "rebase", "rename"}

\* A rebuild script has at least one statement, all of these kinds; it creates ShadowDef.
LEMMA RebuildStatements ==
  ASSUME NEW v, NEW def
  PROVE  LET s == RebuildScript(v, def)
         IN /\ Len(s) \in Nat \ {0} /\ DOMAIN s = 1..Len(s)
            /\ s[Len(s)].op = "rename"
            /\ \A i \in DOMAIN s :
                 s[i].op \in RebuildOps /\ (s[i].op = "create" => s[i].def = ShadowDef(v, def))
<1> DEFINE s == RebuildScript(v, def)
           create == [op |-> "create", def |-> ShadowDef(v, def)]
           IsOne(x) == x.op \in RebuildOps /\ (x.op = "create" => x.def = ShadowDef(v, def))
           strict_ == [op |-> "strict"]
           read == [op |-> "read counter"]
           rebase == [op |-> "rebase"]
           rename == [op |-> "rename"]
<1>1. \E copy : /\ copy.op = "copy"
                /\ \/ s = <<strict_, create, copy>> \o <<read, rebase>> \o <<rename>>
                   \/ s = <<strict_, create, copy>> \o <<>> \o <<rename>>
  <2> DEFINE two == IF HasAutoIncrement(v) THEN <<read, rebase>> ELSE <<>>
  <2>1. \E copy : copy.op = "copy" /\ s = <<strict_, create, copy>> \o two \o <<rename>>
    BY DEF RebuildScript
  <2>2. two = <<read, rebase>> \/ two = <<>>
    OBVIOUS
  <2> HIDE DEF s, create, strict_, read, rebase, rename, two
  <2> QED
    BY <2>1, <2>2
<1>2. PICK copy : /\ copy.op = "copy"
                  /\ \/ s = <<strict_, create, copy>> \o <<read, rebase>> \o <<rename>>
                     \/ s = <<strict_, create, copy>> \o <<>> \o <<rename>>
  BY <1>1
<1>3. /\ IsOne(strict_) /\ IsOne(create) /\ IsOne(read) /\ IsOne(rebase) /\ IsOne(rename)
      /\ rename.op = "rename"
  BY DEF RebuildOps
<1>4. IsOne(copy)
  BY <1>2 DEF RebuildOps
<1> HIDE DEF s, create, IsOne, strict_, read, rebase, rename
<1>5. CASE s = <<strict_, create, copy>> \o <<read, rebase>> \o <<rename>>
  <2>1. /\ Len(s) = 6 /\ DOMAIN s = 1..6
        /\ s[1] = strict_ /\ s[2] = create /\ s[3] = copy /\ s[4] = read /\ s[5] = rebase
        /\ s[6] = rename
    BY <1>5
  <2>2. \A i \in DOMAIN s : IsOne(s[i])
    <3>1. \A i \in DOMAIN s : i = 1 \/ i = 2 \/ i = 3 \/ i = 4 \/ i = 5 \/ i = 6
      BY <2>1
    <3> QED
      BY <1>3, <1>4, <2>1, <3>1
  <2>3. Len(s) \in Nat \ {0} /\ DOMAIN s = 1..Len(s) /\ s[Len(s)].op = "rename"
    BY <1>3, <2>1
  <2> QED
    BY <2>2, <2>3 DEF s, IsOne
<1>6. CASE s = <<strict_, create, copy>> \o <<>> \o <<rename>>
  <2>1. /\ Len(s) = 4 /\ DOMAIN s = 1..4
        /\ s[1] = strict_ /\ s[2] = create /\ s[3] = copy /\ s[4] = rename
    BY <1>6
  <2>2. \A i \in DOMAIN s : IsOne(s[i])
    <3>1. \A i \in DOMAIN s : i = 1 \/ i = 2 \/ i = 3 \/ i = 4
      BY <2>1
    <3> QED
      BY <1>3, <1>4, <2>1, <3>1
  <2>3. Len(s) \in Nat \ {0} /\ DOMAIN s = 1..Len(s) /\ s[Len(s)].op = "rename"
    BY <1>3, <2>1
  <2> QED
    BY <2>2, <2>3 DEF s, IsOne
<1> QED
  BY <1>2, <1>5, <1>6

\* legacyKeyRebuildSQL's are.
LEMMA RebuildIsOnline ==
  ASSUME NEW v \in DeclaredVersions, NEW def, IsOnline(def)
  PROVE  AreStatements(RebuildScript(v, def)) /\ RebuildScript(v, def) # <<>>
<1> DEFINE s == RebuildScript(v, def)
<1>1. /\ Len(s) \in Nat \ {0} /\ DOMAIN s = 1..Len(s)
      /\ \A i \in DOMAIN s :
           s[i].op \in RebuildOps /\ (s[i].op = "create" => s[i].def = ShadowDef(v, def))
  BY RebuildStatements
<1>2. IsOnline(ShadowDef(v, def))
  BY ShadowIsOnline
<1> HIDE DEF s
<1>3. \A i \in DOMAIN s : IsOnlineStatement(s[i])
  BY <1>1, <1>2 DEF IsOnlineStatement, IsOnlineClause, RebuildOps
<1>4. s # <<>>
  BY <1>1
<1> QED
  BY <1>1, <1>3, <1>4 DEF AreStatements, s

\* And so are legacyKeyAlterSQL's.
LEMMA AlterIsOnline ==
  ASSUME NEW v \in DeclaredVersions, NEW def
  PROVE  AreStatements(AlterScript(v, def)) /\ AlterScript(v, def) # <<>>
<1> DEFINE s == AlterScript(v, def)
<1>1. IsAlterScript(s) /\ \A i \in DOMAIN s : IsAlterStatement(v, def, s[i])
  BY AlterScriptStatements
<1> HIDE DEF s
<1>2. ASSUME NEW x, IsAlterStatement(v, def, x)
      PROVE  IsOnlineStatement(x)
  <2>1. CASE x.op \in {"strict", "drop index", "fill"}
    BY <2>1 DEF IsOnlineStatement, IsOnlineClause
  <2>2. CASE \E f \in LegacyKeys(v, def) : \E old \in LegacyColumns(def, f) : \E column :
               x = ToKeyColumn(column, old, f)
    <3>1. PICK f \in LegacyKeys(v, def) : \E old, column : x = ToKeyColumn(column, old, f)
      BY <2>2
    <3>2. PICK column, old : x = ToKeyColumn(column, old, f)
      BY <3>1
    <3>4. f \in FieldsOf(v)
      BY DEF LegacyKeys
    <3>3. x.op = "change column" /\ x.type = f.type
      BY <3>2 DEF ToKeyColumn, ChangeColumn
    <3> QED
      BY <3>3, <3>4, FieldsHaveTypes DEF IsOnlineStatement, IsOnlineClause
  <2>3. CASE \E i \in DOMAIN v.indexes : x = AddIndex(i, v.indexes[i])
    BY <2>3, DeclaredIndexes
  <2> QED
    BY <1>2, <2>1, <2>2, <2>3 DEF IsAlterStatement
<1>3. Len(s) \in Nat \ {0} /\ DOMAIN s = 1..Len(s)
  BY <1>1 DEF IsAlterScript
<1>4. s # <<>>
  BY <1>3
<1>5. AreStatements(s)
  BY <1>1, <1>2, <1>3 DEF AreStatements
<1> QED
  BY <1>4, <1>5 DEF s

\* The tables are records, and what information_schema says of them is possible.
AreOnline(ts) ==
  /\ ts = [name \in Names |-> ts[name]]
  /\ \A name \in Names : /\ ts[name] = [def |-> ts[name].def, rows |-> ts[name].rows,
                                        auto |-> ts[name].auto]
                         /\ IsOnline(ts[name].def)

OnlineInv ==
  /\ version \in DeclaredVersions
  /\ AreOnline(tables)
  /\ AreStatements(script)
  /\ Running => at \in DOMAIN script

\* Replacing one table.
LEMMA WithOnline ==
  ASSUME AreOnline(tables), NEW name \in Names, NEW def, IsOnline(def), NEW rows, NEW auto
  PROVE  AreOnline(With(name, [def |-> def, rows |-> rows, auto |-> auto]))
<1> DEFINE t == [def |-> def, rows |-> rows, auto |-> auto]
           ts == With(name, t)
<1>1. tables = [n \in Names |-> tables[n]]
  BY DEF AreOnline
<1>2. ts = [n \in Names |-> IF n = name THEN t ELSE tables[n]]
  BY <1>1 DEF With
<1>3. t.def = def /\ t = [def |-> t.def, rows |-> t.rows, auto |-> t.auto]
  OBVIOUS
<1> HIDE DEF t, ts
<1>4. AreOnline(ts)
  BY <1>2, <1>3 DEF AreOnline
<1> QED
  BY <1>4 DEF t, ts

\* The table that is not there.
LEMMA MissingIsOnline ==
  IsOnline(NoTable) /\ Missing = [def |-> NoTable, rows |-> {}, auto |-> 1]
<1>1. DOMAIN NoTable.cols = {} /\ DOMAIN NoTable.indexes = {} /\ IsTable(NoTable)
  BY DEF NoTable, IsTable
<1> QED
  BY <1>1 DEF IsOnline, Missing

\* A statement keeps the invariant if the tables it leaves do.
LEMMA RunKeepsOnline ==
  ASSUME OnlineInv, Running, NEW accepted, NEW after, Run(accepted, after), UNCHANGED InScript,
         accepted => AreOnline(after)
  PROVE  OnlineInv'
<1>1. version' = version /\ script' = script
  BY DEF InScript
<1>2. AreOnline(tables')
  BY DEF Run, OnlineInv
<1>3. Len(script) \in Nat /\ DOMAIN script = 1..Len(script) /\ at \in 1..Len(script)
  BY DEF OnlineInv, AreStatements
<1>4. Running' => at' = at + 1 /\ at < Len(script)
  BY DEF Run, Goto, Running
<1> QED
  BY <1>1, <1>2, <1>3, <1>4 DEF OnlineInv

\* Nor do the steps between statements, which begin with the first.
LEMMA QuietKeepsOnline ==
  ASSUME OnlineInv, AreOnline(tables'), version' = version, AreStatements(script'),
         Running' => at' = 1 /\ script' # <<>>
  PROVE  OnlineInv'
<1>1. Running' => at' \in DOMAIN script'
  <2>1. Len(script') \in Nat /\ DOMAIN script' = 1..Len(script')
    BY DEF AreStatements
  <2>2. script' # <<>> => Len(script') # 0
    BY <2>1
  <2> QED
    BY <2>1, <2>2
<1> QED
  BY <1>1 DEF OnlineInv

\* An ALTER of the table whose clauses are online ones.
LEMMA AlteredKeepsOnline ==
  ASSUME AreOnline(tables), NEW t, IsOnline(t.def),
         t = [def |-> t.def, rows |-> t.rows, auto |-> t.auto],
         NEW clauses, \A x \in clauses : IsOnlineClause(x)
  PROVE  AreOnline(With(Table, AlteredTable(t, clauses)))
<1> DEFINE def == Altered(t.def, clauses)
           rows == Rewritten(def, t.rows, AlteredFrom(t.def, clauses))
<1>1. AlteredTable(t, clauses) = [t EXCEPT !.def = def, !.rows = rows]
  BY DEF AlteredTable
<1>2. IsOnline(def)
  BY AlteredIsOnline
<1> DEFINE u == [t EXCEPT !.def = def]
<1> HIDE DEF def, rows
<1>3. [t EXCEPT !.def = def, !.rows = rows] = [def |-> def, rows |-> rows, auto |-> t.auto]
  <2>1. u = [def |-> def, rows |-> t.rows, auto |-> t.auto]
    OBVIOUS
  <2>2. [t EXCEPT !.def = def, !.rows = rows] = [u EXCEPT !.rows = rows]
    OBVIOUS
  <2> HIDE DEF u
  <2>3. [u EXCEPT !.rows = rows] = [def |-> def, rows |-> rows, auto |-> t.auto]
    BY <2>1
  <2> QED
    BY <2>2, <2>3
<1> QED
  BY <1>1, <1>2, <1>3, WithOnline, TableNames

\* One step for each kind of statement.
LEMMA RunStatementKeepsOnline == OnlineInv /\ RunStatement => OnlineInv'
<1> SUFFICES ASSUME OnlineInv, RunStatement PROVE OnlineInv'
  OBVIOUS
<1> DEFINE t == tables[Table]
           x == script[at]
<1>1. /\ Running /\ x = script[at] /\ IsOnlineStatement(x)
      /\ UNCHANGED InScript
  <2>1. Running
    BY DEF RunStatement, SetStrict, CreateShadow, CopyRows, ReadCounter, RaiseCounter, SwapNames,
       DropIndex, FillNulls, AlterTable, Statement
  <2>2. UNCHANGED InScript
    BY DEF RunStatement, SetStrict, CreateShadow, CopyRows, ReadCounter, RaiseCounter, SwapNames,
       DropIndex, FillNulls, AlterTable
  <2> QED
    BY <2>1, <2>2 DEF OnlineInv, AreStatements
<1>2. /\ AreOnline(tables) /\ Table \in Names /\ Shadow \in Names /\ Backup \in Names
      /\ Table # Shadow /\ Table # Backup /\ Shadow # Backup
  BY TableNames DEF OnlineInv
<1>3. ASSUME NEW name \in Names
      PROVE  /\ tables[name] = [def |-> tables[name].def, rows |-> tables[name].rows,
                                auto |-> tables[name].auto]
             /\ IsOnline(tables[name].def)
  BY <1>2 DEF AreOnline
<1>4. CASE SetStrict \/ ReadCounter
  <2>1. Run(TRUE, tables)
    BY <1>4 DEF SetStrict, ReadCounter
  <2> QED
    BY <1>1, <1>2, <2>1, RunKeepsOnline
<1>5. CASE CreateShadow
  <2> DEFINE accepted == ~IsThere(Shadow) /\ KeysCreatable(x.def)
             new == [Missing EXCEPT !.def = x.def]
  <2>1. x.op = "create" /\ Run(accepted, With(Shadow, new))
    BY <1>5 DEF CreateShadow, Statement
  <2>2. IsOnline(x.def)
    BY <1>1, <2>1 DEF IsOnlineStatement
  <2>3. new = [def |-> x.def, rows |-> {}, auto |-> 1]
    BY MissingIsOnline
  <2> HIDE DEF accepted, new, x
  <2>4. AreOnline(With(Shadow, new))
    BY <1>2, <2>2, <2>3, WithOnline
  <2> QED
    BY <1>1, <2>1, <2>4, RunKeepsOnline
<1>6. CASE CopyRows
  <2> DEFINE def == tables[Shadow].def
  <2>1. PICK accepted, copied :
          Run(accepted, With(Shadow, [def |-> def, rows |-> copied, auto |-> NextAuto(copied)]))
    BY <1>6 DEF CopyRows
  <2>2. IsOnline(def)
    BY <1>2, <1>3
  <2> HIDE DEF def
  <2>3. AreOnline(With(Shadow, [def |-> def, rows |-> copied, auto |-> NextAuto(copied)]))
    BY <1>2, <2>2, WithOnline
  <2> QED
    BY <1>1, <2>1, <2>3, RunKeepsOnline
<1>7. CASE RaiseCounter
  <2> DEFINE shadow == tables[Shadow]
             auto == AtLeast(counter, shadow.rows)
             after == [tables EXCEPT ![Shadow].auto = auto]
  <2>1. Run(IsThere(Shadow), after)
    BY <1>7 DEF RaiseCounter
  <2>2. after = With(Shadow, [shadow EXCEPT !.auto = auto])
    BY DEF With
  <2>3. shadow = [def |-> shadow.def, rows |-> shadow.rows, auto |-> shadow.auto]
        /\ IsOnline(shadow.def)
    BY <1>2, <1>3
  <2> HIDE DEF shadow, auto, after
  <2>4. [shadow EXCEPT !.auto = auto] = [def |-> shadow.def, rows |-> shadow.rows, auto |-> auto]
    BY <2>3
  <2>5. AreOnline(after)
    BY <1>2, <2>2, <2>3, <2>4, WithOnline
  <2> QED
    BY <1>1, <2>1, <2>5, RunKeepsOnline
<1>8. CASE SwapNames
  <2> DEFINE accepted == IsThere(Table) /\ IsThere(Shadow) /\ ~IsThere(Backup)
             after == [tables EXCEPT ![Backup] = tables[Table], ![Table] = tables[Shadow],
                                     ![Shadow] = Missing]
  <2>1. Run(accepted, after)
    BY <1>8 DEF SwapNames
  <2>2. tables = [n \in Names |-> tables[n]]
    BY <1>2 DEF AreOnline
  <2>3. after = [n \in Names |-> IF n = Backup THEN tables[Table]
                                 ELSE IF n = Table THEN tables[Shadow] ELSE Missing]
    BY <1>2, <2>2 DEF Names
  <2>4. /\ Missing = [def |-> Missing.def, rows |-> Missing.rows, auto |-> Missing.auto]
        /\ IsOnline(Missing.def)
    BY MissingIsOnline
  <2>5. \A n \in Names : n = Backup \/ n = Table \/ n = Shadow
    BY DEF Names
  <2> HIDE DEF after, accepted
  <2>6. /\ after = [n \in Names |-> after[n]]
        /\ after[Backup] = tables[Table] /\ after[Table] = tables[Shadow]
        /\ after[Shadow] = Missing
    BY <1>2, <2>3
  <2>7. \A n \in Names : /\ after[n] = [def |-> after[n].def, rows |-> after[n].rows,
                                       auto |-> after[n].auto]
                         /\ IsOnline(after[n].def)
    BY <1>2, <1>3, <2>4, <2>5, <2>6
  <2>8. AreOnline(after)
    BY <2>6, <2>7 DEF AreOnline
  <2> QED
    BY <1>1, <2>1, <2>8, RunKeepsOnline
<1>9. t = [def |-> t.def, rows |-> t.rows, auto |-> t.auto] /\ IsOnline(t.def)
  BY <1>2, <1>3
<1>10. CASE DropIndex
  <2> DEFINE indexes == [i \in DOMAIN t.def.indexes \ {x.name} |-> t.def.indexes[i]]
             accepted == x.name \in DOMAIN t.def.indexes
             after == [t EXCEPT !.def.indexes = indexes]
             def == [t.def EXCEPT !.indexes = indexes]
  <2>1. Run(accepted, With(Table, after))
    BY <1>10 DEF DropIndex
  <2>2. after = [t EXCEPT !.def = def]
    OBVIOUS
  <2>3. /\ IsTable(t.def) /\ \A n \in DOMAIN t.def.cols : t.def.cols[n].type \in Types
        /\ \A i \in DOMAIN t.def.indexes : {"cols", "whole"} \subseteq DOMAIN t.def.indexes[i]
    BY <1>9 DEF IsOnline
  <2>4. \A i \in DOMAIN indexes : {"cols", "whole"} \subseteq DOMAIN indexes[i]
    BY <2>3
  <2> HIDE DEF indexes, accepted, after
  <2>5. def = [cols |-> t.def.cols, pk |-> t.def.pk, indexes |-> indexes]
    BY <2>3 DEF IsTable
  <2> HIDE DEF def
  <2>6. IsOnline(def)
    BY <2>3, <2>4, <2>5 DEF IsOnline, IsTable
  <2> HIDE DEF t
  <2>7. after = [def |-> def, rows |-> t.rows, auto |-> t.auto]
    BY <1>9, <2>2
  <2>8. AreOnline(With(Table, after))
    BY <1>2, <2>6, <2>7, WithOnline
  <2> QED
    BY <1>1, <2>1, <2>8, RunKeepsOnline
<1>11. CASE FillNulls
  <2> DEFINE rows == Filled(t.rows, {x.name})
             accepted == x.name \in DOMAIN t.def.cols /\ NoDuplicates(t.def, rows)
             after == [t EXCEPT !.rows = rows]
  <2>1. Run(accepted, With(Table, after))
    BY <1>11 DEF FillNulls
  <2> HIDE DEF rows, accepted, t
  <2>2. after = [def |-> t.def, rows |-> rows, auto |-> t.auto]
    BY <1>9
  <2> HIDE DEF after
  <2>3. AreOnline(With(Table, after))
    BY <1>2, <1>9, <2>2, WithOnline
  <2> QED
    BY <1>1, <2>1, <2>3, RunKeepsOnline
<1>12. CASE AlterTable
  <2> DEFINE accepted == Alters(t, {x}, strict)
             after == AlteredTable(t, {x})
  <2>1. Run(accepted, With(Table, after))
    BY <1>12 DEF AlterTable
  <2>2. IsOnlineClause(x)
    BY <1>1 DEF IsOnlineStatement
  <2>3. \A y \in {x} : IsOnlineClause(y)
    BY <2>2
  <2> HIDE DEF accepted, after, t, x
  <2>4. AreOnline(With(Table, after))
    BY <1>2, <1>9, <2>3, AlteredKeepsOnline DEF after
  <2> QED
    BY <1>1, <2>1, <2>4, RunKeepsOnline
<1> QED
  BY <1>4, <1>5, <1>6, <1>7, <1>8, <1>10, <1>11, <1>12 DEF RunStatement

\* And for the steps between them.
LEMMA NextOnline == OnlineInv /\ [MigrationNext]_migrationVars => OnlineInv'
<1> SUFFICES ASSUME OnlineInv, [MigrationNext]_migrationVars PROVE OnlineInv'
  OBVIOUS
<1> DEFINE t == tables[Table]
<1>1. /\ version \in DeclaredVersions /\ AreOnline(tables) /\ AreStatements(script)
      /\ Table \in Names /\ Shadow \in Names /\ Backup \in Names
  BY TableNames DEF OnlineInv
<1>2. t = [def |-> t.def, rows |-> t.rows, auto |-> t.auto] /\ IsOnline(t.def)
  BY <1>1 DEF AreOnline
<1>3. \A name \in Names : AreOnline(With(name, Missing))
  BY <1>1, MissingIsOnline, WithOnline
<1>4. CASE AskForScript
  <2>1. /\ script' = ScriptFor(version, t.def) /\ at' = 1
        /\ version' = version /\ tables' = tables
    BY <1>4 DEF AskForScript, Goto
  <2>2. AreStatements(script') /\ script' # <<>>
    BY <1>1, <1>2, <2>1, RebuildIsOnline, AlterIsOnline DEF ScriptFor
  <2> QED
    BY <1>1, <2>1, <2>2, QuietKeepsOnline
<1>5. CASE Restart
  <2>1. /\ IsRebuild(script) /\ tables' = With(Shadow, Missing) /\ at' = 1
        /\ version' = version /\ script' = script
    BY <1>5 DEF Restart, Goto
  <2>2. script # <<>>
    <3>1. PICK i \in DOMAIN script : TRUE
      BY <2>1 DEF IsRebuild
    <3> QED
      BY <3>1
  <2> QED
    BY <1>1, <1>3, <2>1, <2>2, QuietKeepsOnline
<1>6. CASE PutOff
  <2>1. operator' = "idle" /\ version' = version /\ tables' = tables /\ script' = script
    BY <1>6 DEF PutOff, Goto
  <2>2. ~Running'
    BY <2>1 DEF Running
  <2> QED
    BY <1>1, <2>1, <2>2, QuietKeepsOnline
<1>7. CASE Synchronise
  <2> DEFINE plan == Plan(version, t.def, version.expandOnly)
             both == plan.columns \cup plan.primaryKey
             after == AlteredTable(t, both)
  <2>1. /\ tables' = With(Table, after) \/ tables' = tables
        /\ operator' \in {"accepted", "failed"}
        /\ version' = version /\ script' = script
    BY <1>7 DEF Synchronise, Goto
  <2>2. \A x \in both : IsOnlineClause(x)
    BY <1>1, <1>2, PlanIsOnline
  <2> HIDE DEF plan, both
  <2>3. AreOnline(With(Table, after))
    BY <1>1, <1>2, <2>2, AlteredKeepsOnline
  <2> HIDE DEF after
  <2>4. ~Running'
    BY <2>1 DEF Running
  <2> QED
    BY <1>1, <2>1, <2>3, <2>4, QuietKeepsOnline
<1>8. CASE DropBackup
  <2>1. /\ ~Running /\ operator' = operator /\ tables' = With(Backup, Missing)
        /\ version' = version /\ script' = script
    BY <1>8 DEF DropBackup, InWindow, Running
  <2>2. ~Running'
    BY <2>1 DEF Running
  <2> QED
    BY <1>1, <1>3, <2>1, <2>2, QuietKeepsOnline
<1>9. ASSUME NEW r, DeleteRow(r)
      PROVE  OnlineInv'
  <2> DEFINE after == [t EXCEPT !.rows = t.rows \ {r}]
  <2>1. /\ ~Running /\ operator' = operator
        /\ tables' = [tables EXCEPT ![Table].rows = tables[Table].rows \ {r}]
        /\ version' = version /\ script' = script
    BY <1>9 DEF DeleteRow, InWindow, Running
  <2>2. tables' = With(Table, after)
    BY <2>1 DEF With
  <2> HIDE DEF t
  <2>3. after = [def |-> t.def, rows |-> t.rows \ {r}, auto |-> t.auto]
    BY <1>2
  <2> HIDE DEF after
  <2>4. AreOnline(tables')
    BY <1>1, <1>2, <2>2, <2>3, WithOnline
  <2>5. ~Running'
    BY <2>1 DEF Running
  <2> QED
    BY <1>1, <2>1, <2>4, <2>5, QuietKeepsOnline
<1>10. ASSUME NEW x, InsertRow(x)
       PROVE  OnlineInv'
  <2>1. PICK row : /\ tables' = With(Table, [t EXCEPT !.rows = t.rows \cup {row},
                                                    !.auto = t.auto + 1])
                   /\ ~Running /\ operator' = operator
                   /\ version' = version /\ script' = script
    BY <1>10 DEF InsertRow, InWindow, Running
  <2> DEFINE rows == t.rows \cup {row}
             auto == t.auto + 1
  <2> HIDE DEF rows, auto, t
  <2>2. [t EXCEPT !.rows = rows, !.auto = auto] = [def |-> t.def, rows |-> rows, auto |-> auto]
    BY <1>2, ReplacedRows
  <2>3. tables' = With(Table, [def |-> t.def, rows |-> rows, auto |-> auto])
    BY <2>1, <2>2 DEF rows, auto
  <2>4. AreOnline(tables')
    BY <1>1, <1>2, <2>3, WithOnline
  <2>5. ~Running'
    BY <2>1 DEF Running
  <2> QED
    BY <1>1, <2>1, <2>4, <2>5, QuietKeepsOnline
<1>11. CASE UNCHANGED migrationVars
  BY <1>11 DEF migrationVars, OnlineInv, Running
<1> QED
  BY <1>4, <1>5, <1>6, <1>7, <1>8, <1>9, <1>10, <1>11, RunStatementKeepsOnline
     DEF MigrationNext

\* At first it is the table that was found.
LEMMA InitOnline == MigrationInit => OnlineInv
<1> SUFFICES ASSUME MigrationInit PROVE OnlineInv
  OBVIOUS
<1>1. PICK c \in Cases :
        /\ version = c.version
        /\ tables = [name \in {Table, Shadow, Backup} |->
                       IF name = Table THEN [def |-> c.def, rows |-> c.rows, auto |-> c.auto]
                                       ELSE Missing]
        /\ operator = "idle"
        /\ script = <<>>
  BY DEF MigrationInit
<1>2. IsOnline(c.def)
  BY CasesAssumption
<1>3. tables = [name \in Names |->
                  IF name = Table THEN [def |-> c.def, rows |-> c.rows, auto |-> c.auto]
                                  ELSE Missing]
  BY <1>1 DEF Names
<1>4. AreOnline(tables)
  BY <1>2, <1>3, MissingIsOnline DEF AreOnline
<1>5. AreStatements(script) /\ ~Running
  BY <1>1 DEF AreStatements, Running
<1> QED
  BY <1>1, <1>4, <1>5 DEF OnlineInv, DeclaredVersions

\* Whatever the table that is found online, whatever failed before and whoever altered it in
\* between: MySQL takes the shadow table's definition.  Columns that are wider online are kept
\* wide, and no key goes over the budget for it (shrinkShadowKeysToIndexBudget).
THEOREM ShadowsAreCreatable == MigrationSpec => []ShadowIsCreatable
<1>1. MigrationInit => OnlineInv
  BY InitOnline
<1>2. OnlineInv /\ [MigrationNext]_migrationVars => OnlineInv'
  BY NextOnline
<1>3. OnlineInv => ShadowIsCreatable
  <2> SUFFICES ASSUME OnlineInv, ~NumericKeyIsWider(version, tables[Table].def)
               PROVE  KeysCreatable(ShadowDef(version, tables[Table].def))
    BY DEF ShadowIsCreatable
  <2>1. version \in DeclaredVersions /\ IsOnline(tables[Table].def)
    BY TableNames DEF OnlineInv, AreOnline
  <2> QED
    BY <2>1, ShadowCanBeCreated
<1> QED
  BY <1>1, <1>2, <1>3, PTL DEF MigrationSpec

-----------------------------------------------------------------------------
(***************************************************************************)
(* A table declared as the version declares it                             *)
(***************************************************************************)
\* Each field has the column of its name, that holds what the field declares, and no other.
IsColumnOf(column, f) ==
  /\ column.num = f.num /\ column.attrs = f.attrs
  /\ IsTypeMatch(column.type, f.type)
  /\ f.key => column.type.rank = f.type.rank

AsDeclared(v, def) ==
  /\ DOMAIN def.cols = FieldNames(v) /\ AreColumns(def.cols)
  /\ \A f \in FieldsOf(v) : IsColumnOf(def.cols[f.name], f)
  /\ def.pk = v.pk
  /\ \A i \in DOMAIN v.indexes : i \in DOMAIN def.indexes /\ def.indexes[i] = v.indexes[i]

\* No two of its columns have one number,
LEMMA DeclaredNumbersAreClear ==
  ASSUME NEW v \in DeclaredVersions, NEW def, AsDeclared(v, def)
  PROVE  ~NumberIsAmbiguous(def.cols)
<1> SUFFICES ASSUME NEW a \in DOMAIN def.cols, NEW b \in DOMAIN def.cols, a # b,
                    def.cols[a].num = def.cols[b].num
             PROVE  FALSE
  BY DEF NumberIsAmbiguous
<1>1. /\ DistinctFields(v) /\ FieldsOf(v) = {v.fields[i] : i \in 1..Len(v.fields)}
  BY DeclaredFields
<1>2. PICK f \in FieldsOf(v) : f.name = a
  BY DEF AsDeclared, FieldNames, FieldsOf
<1>3. PICK g \in FieldsOf(v) : g.name = b
  BY DEF AsDeclared, FieldNames, FieldsOf
<1>4. f.num = g.num
  BY <1>2, <1>3 DEF AsDeclared, IsColumnOf
<1>5. PICK i \in 1..Len(v.fields) : f = v.fields[i]
  BY <1>1
<1>6. PICK j \in 1..Len(v.fields) : g = v.fields[j]
  BY <1>1
<1>7. i # j
  BY <1>2, <1>3, <1>5, <1>6
<1> QED
  BY <1>1, <1>4, <1>5, <1>6, <1>7 DEF DistinctFields

\* so nothing is planned for any field.
LEMMA DeclaredColumnsStay ==
  ASSUME NEW v \in DeclaredVersions, NEW def, AsDeclared(v, def)
  PROVE  /\ ColumnClauses(v, def.cols).clauses = {}
         /\ ColumnClauses(v, def.cols).refused = FALSE
<1> DEFINE n == Len(v.fields)
           cols == def.cols
<1>1. /\ n \in Nat /\ \A i \in 1..n : v.fields[i] \in FieldsOf(v)
      /\ \A i, j \in 1..n : i # j => v.fields[i].name # v.fields[j].name
  BY DeclaredFields DEF DistinctFields
<1>2. \E g : PlannedUpTo(v, cols, n, g)
  BY <1>1, PlannedExist
<1> DEFINE planned == CHOOSE g : PlannedUpTo(v, cols, n, g)
<1>3. ColumnClauses(v, cols) = planned[n]
  BY DEF ColumnClauses, PlannedUpTo, NoFieldPlanned
<1>4. PICK g : PlannedUpTo(v, cols, n, g) /\ ColumnClauses(v, cols) = g[n]
  BY <1>2, <1>3
<1> HIDE DEF n, planned
<1>5. \A i \in 0..n : g[i] = IF i = 0 THEN NoFieldPlanned(cols)
                                      ELSE PlanField(cols, g[i - 1], v.fields[i])
  BY <1>4 DEF PlannedUpTo
<1>6. \A i \in 1..n :
        v.fields[i].name \in DOMAIN cols /\ IsColumnOf(cols[v.fields[i].name], v.fields[i])
  BY <1>1 DEF AsDeclared, FieldNames, FieldsOf
<1> DEFINE Good(i) ==
             /\ g[i] = [left |-> g[i].left, clauses |-> g[i].clauses, refused |-> g[i].refused]
             /\ g[i].clauses = {} /\ g[i].refused = FALSE
             /\ \A j \in 1..n : i < j => v.fields[j].name \in g[i].left
<1>7. Good(0)
  <2>1. g[0] = NoFieldPlanned(cols)
    BY <1>1, <1>5
  <2>2. NumberIsAmbiguous(cols) = FALSE
    BY DeclaredNumbersAreClear DEF NumberIsAmbiguous
  <2>3. g[0] = [left |-> DOMAIN cols, clauses |-> {}, refused |-> FALSE]
    BY <2>1, <2>2 DEF NoFieldPlanned
  <2> QED
    BY <1>6, <2>3
<1>8. ASSUME NEW i \in 1..n, Good(i - 1)
      PROVE  Good(i)
  <2> DEFINE p == g[i - 1]
             f == v.fields[i]
             found == Candidates(cols, p.left, f)
             old == CHOOSE m \in found : TRUE
  <2>1. g[i] = PlanField(cols, p, f)
    BY <1>1, <1>5
  <2>2. /\ p = [left |-> p.left, clauses |-> p.clauses, refused |-> p.refused]
        /\ p.clauses = {} /\ p.refused = FALSE
        /\ \A j \in 1..n : i - 1 < j => v.fields[j].name \in p.left
    BY <1>8
  <2>3. f.name \in p.left
    BY <1>1, <2>2
  <2>4. found = {f.name}
    BY <2>3 DEF Candidates
  <2>5. old = f.name
    BY <2>4
  <2>6. InPlace(cols, old, f)
    BY <1>6, <2>5 DEF InPlace, IsColumnOf
  <2>7. g[i] = [p EXCEPT !.left = p.left \ {old}]
    <3>1. found # {} /\ InPlace(cols, old, f)
      BY <2>4, <2>6
    <3> QED
      BY <2>1, <3>1 DEF PlanField
  <2> HIDE DEF p, f, found, old
  <2>8. /\ g[i] = [left |-> p.left \ {old}, clauses |-> p.clauses, refused |-> p.refused]
        /\ p.clauses = {} /\ p.refused = FALSE
    BY <2>2, <2>7
  <2>9. ASSUME NEW j \in 1..n, i < j
        PROVE  v.fields[j].name \in g[i].left
    <3>1. i - 1 < j
      BY <1>1, <2>9
    <3>2. v.fields[j].name \in p.left
      BY <2>2, <2>9, <3>1
    <3>3. v.fields[j].name # old
      BY <1>1, <2>5, <2>9 DEF f
    <3> QED
      BY <2>8, <3>2, <3>3
  <2> QED
    BY <2>8, <2>9
<1> HIDE DEF Good
<1> DEFINE T == {i \in 0..n : ~Good(i)}
<1>9. T = {}
  <2> SUFFICES ASSUME T # {} PROVE FALSE
    OBVIOUS
  <2>1. T \in SUBSET Nat
    BY <1>1
  <2>2. PICK i \in T : \A m \in T : i <= m
    BY <2>1, LeastNumber
  <2>3. i \in 1..n /\ i - 1 \in 0..n /\ ~(i <= i - 1)
    BY <1>1, <1>7, <2>2
  <2>4. Good(i - 1)
    BY <2>2, <2>3
  <2> QED
    BY <1>8, <2>2, <2>3, <2>4
<1>10. Good(n)
  BY <1>1, <1>9
<1>11. g[n].clauses = {} /\ g[n].refused = FALSE
  BY <1>10 DEF Good
<1> QED
  BY <1>4, <1>11

\* Nor does anything drift.
LEMMA DeclaredTablesDoNotDrift ==
  ASSUME NEW v \in DeclaredVersions, NEW def, AsDeclared(v, def)
  PROVE  ~HasDrift(v, def) /\ ~NeedsPrimaryKey(v, def) /\ LegacyKeys(v, def) = {}
<1>1. ASSUME NEW f \in FieldsOf(v)
      PROVE  /\ Candidates(def.cols, DOMAIN def.cols, f) = {f.name}
             /\ ~Drifts(def.cols[f.name], f) /\ ~IsLegacyKey(def.cols[f.name], f)
  <2>1. f.name \in DOMAIN def.cols /\ IsColumnOf(def.cols[f.name], f)
    BY DEF AsDeclared, FieldNames, FieldsOf
  <2> QED
    BY <2>1 DEF Candidates, Drifts, IsLegacyKey, IsColumnOf
<1>2. \A i \in DOMAIN v.fields : v.fields[i] \in FieldsOf(v)
  BY DEF FieldsOf, ToSet
<1>3. \A i \in DOMAIN v.fields : \A n \in Candidates(def.cols, DOMAIN def.cols, v.fields[i]) :
        ~Drifts(def.cols[n], v.fields[i])
  BY <1>1, <1>2
<1>4. ~HasDrift(v, def)
  BY <1>3 DEF HasDrift, AsDeclared
<1>5. ~NeedsPrimaryKey(v, def)
  BY DEF NeedsPrimaryKey, AsDeclared
<1>6. LegacyKeys(v, def) = {}
  BY <1>1 DEF LegacyKeys, LegacyColumns
<1> QED
  BY <1>4, <1>5, <1>6

\* Synchronisation has nothing to do, in whichever mode, and no script to print.
LEMMA DeclaredIsSettled ==
  ASSUME NEW v \in DeclaredVersions, NEW def, AsDeclared(v, def)
  PROVE  /\ IsSettled(v, def) /\ ~OffersScript(v, def)
         /\ \A e : Plan(v, def, e).columns \cup Plan(v, def, e).primaryKey = {}
<1> DEFINE align == ColumnClauses(v, def.cols)
           waiting == {c \in align.clauses : WaitsForKey(v, def, c)}
           missing == {AddIndex(i, v.indexes[i]) : i \in DOMAIN v.indexes \ DOMAIN def.indexes}
           late == {x \in missing : \E c \in waiting : c.name \in ToSet(x.index.cols)}
           first == (align.clauses \ waiting) \cup (missing \ late)
           second == IF NeedsPrimaryKey(v, def)
                       THEN waiting \cup {AddPrimaryKey(v.pk)} \cup late ELSE {}
<1>1. align.clauses = {} /\ align.refused = FALSE
  BY DeclaredColumnsStay
<1>2. ~HasDrift(v, def) /\ ~NeedsPrimaryKey(v, def) /\ LegacyKeys(v, def) = {}
  BY DeclaredTablesDoNotDrift
<1>3. missing = {}
  BY DEF AsDeclared
<1>4. first = {} /\ second = {}
  BY <1>1, <1>2, <1>3
<1>5. \A e : Plan(v, def, e).columns = first /\ Plan(v, def, e).primaryKey = second
  BY DEF Plan
<1>6. ~Plan(v, def, FALSE).refused
  BY <1>1, <1>2 DEF Plan
<1> HIDE DEF first, second
<1>7. IsSettled(v, def)
  BY <1>4, <1>5, <1>6 DEF IsSettled
<1>8. ~OffersScript(v, def)
  BY <1>2 DEF OffersScript
<1>9. ASSUME NEW e
      PROVE  Plan(v, def, e).columns \cup Plan(v, def, e).primaryKey = {}
  BY <1>4, <1>5
<1> QED
  BY <1>7, <1>8, <1>9

\* An ALTER without a clause leaves it as it is.
LEMMA UnalteredIsDeclared ==
  ASSUME NEW v \in DeclaredVersions, NEW def, AsDeclared(v, def)
  PROVE  AsDeclared(v, Altered(def, {}))
<1> DEFINE after == Altered(def, {})
<1>1. Replaced({}) = {} /\ OfColumns({}) = {}
  BY DEF Replaced, OfColumns
<1>2. after.cols = [n \in DOMAIN def.cols |-> def.cols[n]]
  BY <1>1 DEF Altered
<1>3. ASSUME NEW m, NEW names \in Seq(m)
      PROVE  Renamed({}, names) = names
  <2>1. Renamed({}, names) = [i \in DOMAIN names |-> names[i]]
    BY <1>1 DEF Renamed, NewName
  <2> QED
    BY <2>1
<1>4. HasKeyColumns(v)
  BY CasesAssumption DEF DeclaredVersions
<1>5. after.pk = v.pk
  <2>1. after.pk = Renamed({}, def.pk)
    BY DEF Altered
  <2>2. def.pk \in Seq(FieldNames(v))
    BY <1>4 DEF HasKeyColumns, AsDeclared
  <2>3. Renamed({}, def.pk) = def.pk
    BY <1>3, <2>2
  <2> QED
    BY <2>1, <2>3 DEF AsDeclared
<1>6. ASSUME NEW i \in DOMAIN v.indexes
      PROVE  i \in DOMAIN after.indexes /\ after.indexes[i] = v.indexes[i]
  <2> DEFINE index == v.indexes[i]
  <2>1. i \in DOMAIN def.indexes /\ def.indexes[i] = index
    BY DEF AsDeclared
  <2>2. /\ i \in DOMAIN after.indexes
        /\ after.indexes[i] = [index EXCEPT !.cols = Renamed({}, index.cols)]
    BY <2>1 DEF Altered
  <2>3. index \in [cols : Seq(FieldNames(v)), unique : BOOLEAN, whole : BOOLEAN,
                   kind : {"btree"}]
    BY <1>4 DEF HasKeyColumns
  <2>4. Renamed({}, index.cols) = index.cols
    BY <1>3, <2>3
  <2> HIDE DEF index
  <2>5. [index EXCEPT !.cols = index.cols] = index
    BY <2>3
  <2> QED
    BY <2>2, <2>4, <2>5 DEF index
<1> HIDE DEF after
<1>7. DOMAIN after.cols = DOMAIN def.cols /\ \A n \in DOMAIN def.cols : after.cols[n] = def.cols[n]
  BY <1>2
<1>8. \A f \in FieldsOf(v) : f.name \in FieldNames(v)
  BY DEF FieldsOf, FieldNames
<1>9. AsDeclared(v, after)
  <2>1. AreColumns(after.cols)
    <3>1. DOMAIN after.cols = DOMAIN def.cols
      BY <1>7
    <3> QED
      BY <1>2, <1>7, <3>1 DEF AreColumns
  <2> QED
    BY <1>5, <1>6, <1>7, <1>8, <2>1 DEF AsDeclared
<1> QED
  BY <1>9 DEF after

\* The type a shadow column starts with holds what the field declares.
LEMMA ShadowTypeMatches ==
  ASSUME NEW v \in DeclaredVersions, NEW def, NEW name \in FieldNames(v)
  PROVE  IsTypeMatch(ShadowType(v, def, name), FieldNamed(v, name).type)
<1> DEFINE type == FieldNamed(v, name).type
           current == def.cols[CHOOSE n \in ShadowColumns(v, def.cols)[name] : TRUE].type
<1>1. IsTypeMatch(type, type)
  <2>1. type \in Types
    BY FieldOfName, FieldsHaveTypes
  <2>2. type.size \in Nat
    BY <2>1 DEF Types
  <2>3. type.size >= type.size
    BY <2>2
  <2> HIDE DEF type
  <2> QED
    BY <2>3 DEF IsTypeMatch
<1>2. \/ ShadowType(v, def, name) = type
      \/ /\ IsTypeMatch(current, type)
         /\ ShadowType(v, def, name) = AlignedColumnType(current, type)
  BY DEF ShadowType
<1>3. AlignedColumnType(current, type) \in {current, type}
  BY DEF AlignedColumnType
<1> HIDE DEF type, current
<1>4. IsTypeMatch(ShadowType(v, def, name), type)
  BY <1>1, <1>2, <1>3
<1> QED
  BY <1>4 DEF type

\* The shadow table is declared as the version declares it, whatever the table online.
LEMMA ShadowIsDeclared ==
  ASSUME NEW v \in DeclaredVersions, NEW def, IsOnline(def)
  PROVE  AsDeclared(v, ShadowDef(v, def))
<1> DEFINE shadow == ShadowDef(v, def)
           types == ShadowTypes(v, def)
<1>1. DOMAIN shadow.cols = FieldNames(v)
  BY ShadowColumnTypes
<1>2. ASSUME NEW f \in FieldsOf(v)
      PROVE  IsColumnOf(shadow.cols[f.name], f)
  <2> DEFINE name == f.name
             type == types[name]
  <2>1. name \in FieldNames(v) /\ FieldNamed(v, name) = f
    <3>1. name \in FieldNames(v)
      BY DEF FieldNames, FieldsOf
    <3>2. FieldNamed(v, name) \in FieldsOf(v) /\ FieldNamed(v, name).name = name
      BY <3>1, FieldOfName
    <3>3. \A g, h \in FieldsOf(v) : g.name = h.name => g = h
      BY DeclaredFields DEF DistinctFields
    <3> QED
      BY <3>1, <3>2, <3>3
  <2>2. shadow.cols[name] = ShadowColumn(f, type)
    <3>1. shadow.cols = [m \in DOMAIN types |-> ShadowColumn(FieldNamed(v, m), types[m])]
      BY DEF ShadowDef
    <3> HIDE DEF shadow, types
    <3> QED
      BY <1>1, <2>1, <3>1
  <2>3. type.rank = f.type.rank \/ ~f.key
    <3>1. f.key => type.rank = 2
      BY <2>1, ShadowColumnTypes
    <3>2. f.key => f.type.rank = 2
      BY FieldsHaveTypes
    <3> QED
      BY <3>1, <3>2
  <2>4. IsTypeMatch(type, f.type)
    <3>1. Narrowed(v, ShadowTypesBefore(v, def), types)
      BY ShadowTypesAreNarrowed
    <3>2. type = ShadowTypesBefore(v, def)[name] \/ (f.key /\ type = f.type)
      BY <2>1, <3>1 DEF Narrowed
    <3>3. ShadowTypesBefore(v, def)[name] = ShadowType(v, def, name)
      BY <2>1 DEF ShadowTypesBefore
    <3>4. IsTypeMatch(ShadowType(v, def, name), f.type)
      BY <2>1, ShadowTypeMatches
    <3>5. f.type.size \in Nat
      BY FieldsHaveTypes DEF Types
    <3>6. f.type.size >= f.type.size
      BY <3>5
    <3>7. IsTypeMatch(f.type, f.type)
      BY <3>6 DEF IsTypeMatch
    <3> HIDE DEF type
    <3> QED
      BY <3>2, <3>3, <3>4, <3>7
  <2>5. ShadowColumn(f, type).num = f.num /\ ShadowColumn(f, type).attrs = f.attrs
        /\ ShadowColumn(f, type).type = type
    BY DEF ShadowColumn
  <2> HIDE DEF type, shadow, types
  <2> QED
    BY <2>2, <2>3, <2>4, <2>5 DEF IsColumnOf
<1>3. shadow.pk = v.pk
  BY DEF ShadowDef
<1>4. \A i \in DOMAIN v.indexes : i \in DOMAIN shadow.indexes /\ shadow.indexes[i] = v.indexes[i]
  BY DEF ShadowDef
<1>5. AreColumns(shadow.cols)
  <2>1. shadow.cols = [m \in DOMAIN types |-> ShadowColumn(FieldNamed(v, m), types[m])]
    BY DEF ShadowDef
  <2> HIDE DEF shadow, types
  <2> QED
    BY <2>1 DEF AreColumns
<1> HIDE DEF shadow
<1>6. AsDeclared(v, shadow)
  BY <1>1, <1>2, <1>3, <1>4, <1>5 DEF AsDeclared
<1> QED
  BY <1>6 DEF shadow

-----------------------------------------------------------------------------
(***************************************************************************)
(* After a rebuild                                                         *)
(***************************************************************************)
\* A rebuild script makes a table as declared, and touches no other column or index; another
\* script makes no table.
IsSettlingScript(v, s) ==
  /\ \A i \in DOMAIN s : s[i].op = "create" => AsDeclared(v, s[i].def)
  /\ IsRebuild(s) => (\A i \in DOMAIN s : s[i].op \in RebuildOps) /\ s[Len(s)].op = "rename"

\* Once the names are swapped the table is as declared, and nothing but the same rebuild can
\* be run on it.
IsSettledBy(v, s, def) == AsDeclared(v, def) /\ IsRebuild(s)

SettledInv ==
  /\ OnlineInv
  /\ IsSettlingScript(version, script)
  /\ IsThere(Shadow) => AsDeclared(version, tables[Shadow].def)
  /\ finished = "rebuilt" => IsSettledBy(version, script, tables[Table].def)

\* Whichever script SyncTable prints.
LEMMA ScriptsSettle ==
  ASSUME NEW v \in DeclaredVersions, NEW def, IsOnline(def)
  PROVE  IsSettlingScript(v, ScriptFor(v, def))
<1>1. CASE InPrimaryKey(v, def)
  <2> DEFINE s == RebuildScript(v, def)
  <2>1. /\ s[Len(s)].op = "rename"
        /\ \A i \in DOMAIN s :
             s[i].op \in RebuildOps /\ (s[i].op = "create" => s[i].def = ShadowDef(v, def))
    BY RebuildStatements
  <2>2. AsDeclared(v, ShadowDef(v, def))
    BY ShadowIsDeclared
  <2> HIDE DEF s
  <2>3. IsSettlingScript(v, s)
    BY <2>1, <2>2 DEF IsSettlingScript
  <2> QED
    BY <1>1, <2>3 DEF ScriptFor, s
<1>2. CASE ~InPrimaryKey(v, def)
  <2> DEFINE s == AlterScript(v, def)
  <2>1. IsAlterScript(s)
    BY AlterScriptShape
  <2> HIDE DEF s
  <2>2. \A i \in DOMAIN s : s[i].op \notin {"create", "rename"}
    BY <2>1 DEF IsAlterScript, InPlaceOps
  <2>3. ~IsRebuild(s)
    BY <2>2 DEF IsRebuild
  <2>4. IsSettlingScript(v, s)
    BY <2>2, <2>3 DEF IsSettlingScript
  <2> QED
    BY <1>2, <2>4 DEF ScriptFor, s
<1> QED
  BY <1>1, <1>2

\* A statement that does not swap the names: it keeps the invariant if it leaves a shadow
\* table as declared and, being one of a rebuild, the table's columns and indexes alone.
LEMMA RunKeepsSettled ==
  ASSUME SettledInv, OnlineInv', Running, NEW accepted, NEW after, Run(accepted, after),
         UNCHANGED InScript, script[at].op # "rename",
         accepted /\ Exists(after[Shadow].def) => AsDeclared(version, after[Shadow].def),
         accepted /\ script[at].op \in RebuildOps => after[Table].def = tables[Table].def
  PROVE  SettledInv'
<1>1. version' = version /\ script' = script
  BY DEF InScript
<1>2. tables' = tables \/ (accepted /\ tables' = after)
  BY DEF Run
<1>3. IsSettlingScript(version, script)'
  BY <1>1 DEF SettledInv
<1>4. (IsThere(Shadow) => AsDeclared(version, tables[Shadow].def))'
  BY <1>1, <1>2 DEF SettledInv, IsThere
<1>5. at \in DOMAIN script /\ Len(script) \in Nat /\ DOMAIN script = 1..Len(script)
  BY DEF SettledInv, OnlineInv, AreStatements
<1>6. finished' = "rebuilt" => finished = "rebuilt"
  <2>1. finished' # finished => ~(at < Len(script)) /\ finished' \in {"rebuilt", "altered"}
        /\ (finished' = "rebuilt" => IsRebuild(script))
    BY DEF Run
  <2>2. IsRebuild(script) => at < Len(script)
    <3>1. IsRebuild(script) => script[Len(script)].op = "rename"
      BY DEF SettledInv, IsSettlingScript
    <3> QED
      BY <1>5, <3>1
  <2> QED
    BY <2>1, <2>2
<1>7. (finished = "rebuilt" => IsSettledBy(version, script, tables[Table].def))'
  <2> SUFFICES ASSUME finished = "rebuilt"
               PROVE  IsSettledBy(version, script, tables'[Table].def)
    BY <1>1, <1>6
  <2>1. IsSettledBy(version, script, tables[Table].def)
    BY DEF SettledInv
  <2>2. script[at].op \in RebuildOps
    BY <1>5, <2>1 DEF SettledInv, IsSettlingScript, IsSettledBy
  <2>3. tables'[Table].def = tables[Table].def
    BY <1>2, <2>2
  <2> QED
    BY <2>1, <2>3
<1> QED
  BY <1>3, <1>4, <1>7 DEF SettledInv

\* Nor do the steps between statements that leave both tables' columns and indexes.
LEMMA QuietKeepsSettled ==
  ASSUME SettledInv, OnlineInv', version' = version, script' = script, finished' = finished,
         Exists(tables'[Shadow].def) => AsDeclared(version, tables'[Shadow].def),
         AsDeclared(version, tables[Table].def) => AsDeclared(version, tables'[Table].def)
  PROVE  SettledInv'
<1>1. IsSettlingScript(version, script)'
  BY DEF SettledInv
<1>2. (IsThere(Shadow) => AsDeclared(version, tables[Shadow].def))'
  BY DEF IsThere
<1>3. (finished = "rebuilt" => IsSettledBy(version, script, tables[Table].def))'
  BY DEF SettledInv, IsSettledBy
<1> QED
  BY <1>1, <1>2, <1>3 DEF SettledInv

\* What replacing one table does to the columns and indexes of the two.
LEMMA WithDef ==
  ASSUME AreOnline(tables), NEW name \in Names, NEW t
  PROVE  /\ With(name, t)[name] = t
         /\ \A other \in Names \ {name} : With(name, t)[other] = tables[other]
<1>1. tables = [n \in Names |-> tables[n]]
  BY DEF AreOnline
<1>2. With(name, t) = [n \in Names |-> IF n = name THEN t ELSE tables[n]]
  BY <1>1 DEF With
<1> QED
  BY <1>2

\* One step for each kind of statement.
LEMMA RunStatementKeepsSettled == SettledInv /\ RunStatement => SettledInv'
<1> SUFFICES ASSUME SettledInv, RunStatement PROVE SettledInv'
  OBVIOUS
<1> DEFINE t == tables[Table]
           x == script[at]
<1>1. /\ Running /\ x = script[at] /\ UNCHANGED InScript /\ OnlineInv /\ OnlineInv'
      /\ version' = version /\ script' = script
  <2>1. Running
    BY DEF RunStatement, SetStrict, CreateShadow, CopyRows, ReadCounter, RaiseCounter, SwapNames,
       DropIndex, FillNulls, AlterTable, Statement
  <2>2. UNCHANGED InScript
    BY DEF RunStatement, SetStrict, CreateShadow, CopyRows, ReadCounter, RaiseCounter, SwapNames,
       DropIndex, FillNulls, AlterTable
  <2>3. OnlineInv /\ OnlineInv'
    BY RunStatementKeepsOnline DEF SettledInv
  <2> QED
    BY <2>1, <2>2, <2>3 DEF InScript
<1>2. /\ AreOnline(tables) /\ Table \in Names /\ Shadow \in Names /\ Backup \in Names
      /\ Table # Shadow /\ Table # Backup /\ Shadow # Backup
      /\ tables = [n \in Names |-> tables[n]]
  BY <1>1, TableNames DEF OnlineInv, AreOnline
<1>3. ASSUME NEW name \in Names
      PROVE  tables[name] = [def |-> tables[name].def, rows |-> tables[name].rows,
                             auto |-> tables[name].auto]
  BY <1>2 DEF AreOnline
<1>4. Exists(tables[Shadow].def) => AsDeclared(version, tables[Shadow].def)
  BY DEF SettledInv, IsThere
<1>5. CASE SetStrict \/ ReadCounter
  <2>1. Run(TRUE, tables) /\ x.op # "rename"
    BY <1>5 DEF SetStrict, ReadCounter, Statement
  <2> QED
    BY <1>1, <1>4, <2>1, RunKeepsSettled
<1>6. CASE CreateShadow
  <2> DEFINE accepted == ~IsThere(Shadow) /\ KeysCreatable(x.def)
             new == [Missing EXCEPT !.def = x.def]
             after == With(Shadow, new)
  <2>1. x.op = "create" /\ Run(accepted, after)
    BY <1>6 DEF CreateShadow, Statement
  <2>2. AsDeclared(version, x.def)
    <3>1. at \in DOMAIN script
      BY <1>1 DEF OnlineInv
    <3> QED
      BY <2>1, <3>1 DEF SettledInv, IsSettlingScript
  <2>3. new.def = x.def
    BY DEF Missing
  <2> HIDE DEF accepted, new, x
  <2>4. after[Shadow] = new /\ after[Table] = tables[Table]
    BY <1>2, WithDef
  <2> HIDE DEF after
  <2> QED
    BY <1>1, <2>1, <2>2, <2>3, <2>4, RunKeepsSettled DEF x
<1>7. CASE CopyRows
  <2> DEFINE def == tables[Shadow].def
  <2>1. PICK accepted, copied :
          Run(accepted, With(Shadow, [def |-> def, rows |-> copied, auto |-> NextAuto(copied)]))
    BY <1>7 DEF CopyRows
  <2>2. x.op = "copy"
    BY <1>7 DEF CopyRows, Statement
  <2> DEFINE new == [def |-> def, rows |-> copied, auto |-> NextAuto(copied)]
             after == With(Shadow, new)
  <2>3. Run(accepted, after) /\ new.def = def
    BY <2>1
  <2> HIDE DEF new
  <2>4. after[Shadow] = new /\ after[Table] = tables[Table]
    BY <1>2, WithDef
  <2> HIDE DEF after
  <2> QED
    BY <1>1, <1>4, <2>2, <2>3, <2>4, RunKeepsSettled
<1>8. CASE RaiseCounter
  <2> DEFINE shadow == tables[Shadow]
             auto == AtLeast(counter, shadow.rows)
             after == [tables EXCEPT ![Shadow].auto = auto]
             new == [shadow EXCEPT !.auto = auto]
  <2>1. Run(IsThere(Shadow), after) /\ x.op = "rebase"
    BY <1>8 DEF RaiseCounter, Statement
  <2>2. after = With(Shadow, new)
    BY DEF With
  <2>3. shadow = [def |-> shadow.def, rows |-> shadow.rows, auto |-> shadow.auto]
    BY <1>2, <1>3
  <2> HIDE DEF auto, after
  <2>4. new.def = shadow.def
    <3> HIDE DEF shadow
    <3> QED
      BY <2>3
  <2> HIDE DEF new
  <2>5. after[Shadow] = new /\ after[Table] = tables[Table]
    BY <1>2, <2>2, WithDef
  <2> QED
    BY <1>1, <1>4, <2>1, <2>4, <2>5, RunKeepsSettled
<1>9. CASE SwapNames
  <2> DEFINE accepted == IsThere(Table) /\ IsThere(Shadow) /\ ~IsThere(Backup)
             after == [tables EXCEPT ![Backup] = tables[Table], ![Table] = tables[Shadow],
                                     ![Shadow] = Missing]
  <2>1. Run(accepted, after) /\ x.op = "rename"
    BY <1>9 DEF SwapNames, Statement
  <2>2. /\ after[Table] = tables[Shadow] /\ after[Shadow] = Missing
    BY <1>2
  <2>3. ~Exists(after[Shadow].def)
    BY <2>2, MissingIsOnline DEF Exists, NoTable
  <2>4. accepted => AsDeclared(version, after[Table].def)
    BY <1>4, <2>2 DEF IsThere
  <2>5. IsRebuild(script)
    <3>1. at \in DOMAIN script
      BY <1>1 DEF OnlineInv
    <3> QED
      BY <2>1, <3>1 DEF IsRebuild
  <2> HIDE DEF after, accepted
  <2>6. tables' = tables \/ (accepted /\ tables' = after)
    BY <2>1 DEF Run
  <2>7. finished' = finished \/ (accepted /\ tables' = after)
    BY <2>1 DEF Run
  <2>8. (IsThere(Shadow) => AsDeclared(version, tables[Shadow].def))'
    BY <1>1, <1>4, <2>3, <2>6 DEF IsThere
  <2>9. (finished = "rebuilt" => IsSettledBy(version, script, tables[Table].def))'
    BY <1>1, <2>4, <2>5, <2>6, <2>7 DEF SettledInv, IsSettledBy
  <2> QED
    BY <1>1, <2>8, <2>9 DEF SettledInv
<1>10. CASE DropIndex \/ AlterTable
  <2>1. PICK accepted, new : Run(accepted, With(Table, new))
    BY <1>10 DEF DropIndex, AlterTable
  <2>2. x.op \in {"drop index", "change column", "add index"}
    BY <1>10 DEF DropIndex, AlterTable, Statement
  <2> DEFINE after == With(Table, new)
  <2>3. after[Shadow] = tables[Shadow]
    BY <1>2, WithDef
  <2>4. Run(accepted, after)
    BY <2>1
  <2> HIDE DEF after
  <2>5. x.op # "rename" /\ x.op \notin RebuildOps
    BY <2>2 DEF RebuildOps
  <2> QED
    BY <1>1, <1>4, <2>3, <2>4, <2>5, RunKeepsSettled
<1>11. CASE FillNulls
  <2> DEFINE rows == Filled(t.rows, {x.name})
             accepted == x.name \in DOMAIN t.def.cols /\ NoDuplicates(t.def, rows)
             new == [t EXCEPT !.rows = rows]
             after == With(Table, new)
  <2>1. Run(accepted, after) /\ x.op = "fill"
    BY <1>11 DEF FillNulls, Statement
  <2>2. t = [def |-> t.def, rows |-> t.rows, auto |-> t.auto]
    BY <1>2, <1>3
  <2> HIDE DEF rows, accepted
  <2>3. new.def = t.def
    <3> HIDE DEF t
    <3> QED
      BY <2>2
  <2> HIDE DEF new
  <2>4. after[Shadow] = tables[Shadow] /\ after[Table] = new
    BY <1>2, WithDef
  <2> HIDE DEF after
  <2>5. x.op # "rename"
    BY <2>1
  <2> QED
    BY <1>1, <1>4, <2>1, <2>3, <2>4, <2>5, RunKeepsSettled
<1> QED
  BY <1>5, <1>6, <1>7, <1>8, <1>9, <1>10, <1>11 DEF RunStatement

\* And for the steps between them: a table as declared gets no other script, and there is
\* nothing to add to it.
LEMMA NextSettled == SettledInv /\ [MigrationNext]_migrationVars => SettledInv'
<1> SUFFICES ASSUME SettledInv, [MigrationNext]_migrationVars PROVE SettledInv'
  OBVIOUS
<1> DEFINE t == tables[Table]
<1>1. /\ version \in DeclaredVersions /\ AreOnline(tables) /\ OnlineInv'
      /\ Table \in Names /\ Shadow \in Names /\ Backup \in Names
      /\ Table # Shadow /\ Table # Backup /\ Shadow # Backup
  BY TableNames, NextOnline DEF SettledInv, OnlineInv
<1>2. t = [def |-> t.def, rows |-> t.rows, auto |-> t.auto] /\ IsOnline(t.def)
  BY <1>1 DEF AreOnline
<1>3. Exists(tables[Shadow].def) => AsDeclared(version, tables[Shadow].def)
  BY DEF SettledInv, IsThere
<1>4. CASE AskForScript
  <2>1. /\ script' = ScriptFor(version, t.def) /\ OffersScript(version, t.def)
        /\ version' = version /\ tables' = tables /\ finished' = finished
    BY <1>4 DEF AskForScript
  <2>2. IsSettlingScript(version, script)'
    BY <1>1, <1>2, <2>1, ScriptsSettle
  <2>3. (IsThere(Shadow) => AsDeclared(version, tables[Shadow].def))'
    BY <1>3, <2>1 DEF IsThere
  <2>4. ~AsDeclared(version, t.def)
    BY <1>1, <2>1, DeclaredIsSettled
  <2>5. finished' # "rebuilt"
    BY <2>1, <2>4 DEF SettledInv, IsSettledBy
  <2> QED
    BY <1>1, <2>2, <2>3, <2>5 DEF SettledInv
<1>5. CASE Restart
  <2>1. /\ tables' = With(Shadow, Missing)
        /\ version' = version /\ script' = script /\ finished' = finished
    BY <1>5 DEF Restart
  <2>2. tables'[Shadow] = Missing /\ tables'[Table] = tables[Table]
    BY <1>1, <2>1, WithDef
  <2>3. ~Exists(tables'[Shadow].def)
    BY <2>2, MissingIsOnline DEF Exists, NoTable
  <2> QED
    BY <1>1, <2>1, <2>2, <2>3, QuietKeepsSettled
<1>6. CASE PutOff
  <2>1. /\ version' = version /\ tables' = tables /\ script' = script /\ finished' = finished
    BY <1>6 DEF PutOff
  <2> QED
    BY <1>1, <1>3, <2>1, QuietKeepsSettled
<1>7. CASE Synchronise
  <2> DEFINE plan == Plan(version, t.def, version.expandOnly)
             both == plan.columns \cup plan.primaryKey
             new == AlteredTable(t, both)
             after == With(Table, new)
  <2>1. /\ tables' = after \/ tables' = tables
        /\ version' = version /\ script' = script /\ finished' = finished
    BY <1>7 DEF Synchronise
  <2>2. AsDeclared(version, t.def) => both = {}
    BY <1>1, DeclaredIsSettled
  <2> HIDE DEF plan, both
  <2>3. new.def = Altered(t.def, both)
    <3> DEFINE def == Altered(t.def, both)
               rows == Rewritten(def, t.rows, AlteredFrom(t.def, both))
    <3>1. new = [t EXCEPT !.def = def, !.rows = rows]
      BY DEF AlteredTable
    <3> HIDE DEF def, rows, t, new
    <3>2. [t EXCEPT !.def = def, !.rows = rows].def = def
      BY <1>2
    <3> QED
      BY <3>1, <3>2 DEF def
  <2> HIDE DEF new
  <2>4. AsDeclared(version, t.def) => AsDeclared(version, new.def)
    BY <1>1, <2>2, <2>3, UnalteredIsDeclared
  <2>5. after[Table] = new /\ after[Shadow] = tables[Shadow]
    BY <1>1, WithDef
  <2> HIDE DEF after
  <2>6. Exists(tables'[Shadow].def) => AsDeclared(version, tables'[Shadow].def)
    BY <1>3, <2>1, <2>5
  <2>7. AsDeclared(version, tables[Table].def) => AsDeclared(version, tables'[Table].def)
    BY <2>1, <2>4, <2>5
  <2> QED
    BY <1>1, <2>1, <2>6, <2>7, QuietKeepsSettled
<1>8. CASE DropBackup
  <2>1. /\ tables' = With(Backup, Missing)
        /\ version' = version /\ script' = script /\ finished' = finished
    BY <1>8 DEF DropBackup
  <2>2. tables'[Shadow] = tables[Shadow] /\ tables'[Table] = tables[Table]
    BY <1>1, <2>1, WithDef
  <2> QED
    BY <1>1, <1>3, <2>1, <2>2, QuietKeepsSettled
<1>9. ASSUME NEW r, DeleteRow(r)
      PROVE  SettledInv'
  <2> DEFINE new == [t EXCEPT !.rows = t.rows \ {r}]
  <2>1. /\ tables' = [tables EXCEPT ![Table].rows = tables[Table].rows \ {r}]
        /\ version' = version /\ script' = script /\ finished' = finished
    BY <1>9 DEF DeleteRow
  <2>2. tables' = With(Table, new)
    BY <2>1 DEF With
  <2>3. new.def = t.def
    <3> HIDE DEF t
    <3> QED
      BY <1>2
  <2> HIDE DEF new
  <2>4. tables'[Shadow] = tables[Shadow] /\ tables'[Table] = new
    BY <1>1, <2>2, WithDef
  <2> QED
    BY <1>1, <1>3, <2>1, <2>3, <2>4, QuietKeepsSettled
<1>10. ASSUME NEW x, InsertRow(x)
       PROVE  SettledInv'
  <2>1. PICK row : /\ tables' = With(Table, [t EXCEPT !.rows = t.rows \cup {row},
                                                    !.auto = t.auto + 1])
                   /\ version' = version /\ script' = script /\ finished' = finished
    BY <1>10 DEF InsertRow
  <2> DEFINE rows == t.rows \cup {row}
             auto == t.auto + 1
             new == [t EXCEPT !.rows = rows, !.auto = auto]
  <2>2. tables' = With(Table, new)
    BY <2>1
  <2> HIDE DEF rows, auto
  <2>3. new.def = t.def
    <3> HIDE DEF t, new
    <3>1. [t EXCEPT !.rows = rows, !.auto = auto] = [def |-> t.def, rows |-> rows, auto |-> auto]
      BY <1>2, ReplacedRows
    <3> QED
      BY <3>1 DEF new
  <2> HIDE DEF new
  <2>4. tables'[Shadow] = tables[Shadow] /\ tables'[Table] = new
    BY <1>1, <2>2, WithDef
  <2> QED
    BY <1>1, <1>3, <2>1, <2>3, <2>4, QuietKeepsSettled
<1>11. CASE UNCHANGED migrationVars
  <2>1. /\ version' = version /\ tables' = tables /\ script' = script /\ finished' = finished
    BY <1>11 DEF migrationVars
  <2> QED
    BY <1>1, <1>3, <2>1, QuietKeepsSettled
<1> QED
  BY <1>4, <1>5, <1>6, <1>7, <1>8, <1>9, <1>10, <1>11, RunStatementKeepsSettled
     DEF MigrationNext

\* At first there is no shadow table and no script.
LEMMA InitSettled == MigrationInit => SettledInv
<1> SUFFICES ASSUME MigrationInit PROVE SettledInv
  OBVIOUS
<1>1. PICK c \in Cases :
        /\ tables = [name \in {Table, Shadow, Backup} |->
                       IF name = Table THEN [def |-> c.def, rows |-> c.rows, auto |-> c.auto]
                                       ELSE Missing]
        /\ script = <<>> /\ finished = "no"
  BY DEF MigrationInit
<1>2. OnlineInv
  BY InitOnline
<1>3. tables[Shadow] = Missing
  BY <1>1, TableNames
<1>4. ~IsThere(Shadow)
  BY <1>3, MissingIsOnline DEF IsThere, Exists, NoTable
<1>5. IsSettlingScript(version, script)
  <2>1. DOMAIN script = {}
    BY <1>1
  <2> QED
    BY <2>1 DEF IsSettlingScript, IsRebuild
<1> QED
  BY <1>1, <1>2, <1>4, <1>5 DEF SettledInv

\* After a rebuild synchronisation finds nothing to do, whatever the table was, whatever failed
\* before, and whatever is run, dropped or written after it (also the same script once more).
THEOREM RebuildsSettle == MigrationSpec => []RebuiltTablesAreSettled
<1>1. MigrationInit => SettledInv
  BY InitSettled
<1>2. SettledInv /\ [MigrationNext]_migrationVars => SettledInv'
  BY NextSettled
<1>3. SettledInv => RebuiltTablesAreSettled
  BY DeclaredIsSettled DEF SettledInv, OnlineInv, IsSettledBy, RebuiltTablesAreSettled
<1> QED
  BY <1>1, <1>2, <1>3, PTL DEF MigrationSpec

(***************************************************************************)
(* What is read as a field                                                 *)
(***************************************************************************)
\* Two fields of a version differ in name and number.
LEMMA FieldsDiffer ==
  ASSUME NEW v \in DeclaredVersions
  PROVE  /\ \A f, g \in FieldsOf(v) : f # g => f.name # g.name /\ f.num # g.num
         /\ \A f \in FieldsOf(v) : \E k \in 1..Len(v.fields) : f = v.fields[k]
         /\ \A k \in 1..Len(v.fields) : v.fields[k] \in FieldsOf(v)
         /\ \A f \in FieldsOf(v) : f.name \in FieldNames(v) /\ f.num \in Nat \ {0}
         /\ \A n \in FieldNames(v) : \E f \in FieldsOf(v) : n = f.name
<1>1. /\ FieldsOf(v) = {v.fields[i] : i \in 1..Len(v.fields)}
      /\ \A i, j \in 1..Len(v.fields) : i # j =>
           v.fields[i].name # v.fields[j].name /\ v.fields[i].num # v.fields[j].num
  BY DeclaredFields DEF DistinctFields
<1>2. \A f, g \in FieldsOf(v) : f # g => f.name # g.name /\ f.num # g.num
  <2> TAKE f \in FieldsOf(v), g \in FieldsOf(v)
  <2>1. PICK i \in 1..Len(v.fields) : f = v.fields[i]
    BY <1>1
  <2>2. PICK j \in 1..Len(v.fields) : g = v.fields[j]
    BY <1>1
  <2> QED
    BY <1>1, <2>1, <2>2
<1>3. \A f \in FieldsOf(v) : f.num \in Nat \ {0}
  BY CasesAssumption DEF DeclaredVersions
<1>4. FieldNames(v) = {f.name : f \in FieldsOf(v)}
  BY DEF FieldNames, FieldsOf
<1> QED
  BY <1>1, <1>2, <1>3, <1>4

\* A field finds columns that have its name or its number, and that no other field finds.
LEMMA SyncApart ==
  ASSUME NEW v \in DeclaredVersions, NEW cols
  PROVE  /\ \A f \in FieldsOf(v) : SyncColumns(v, cols)[f.name] \subseteq ColumnsFor(cols, f)
         /\ \A f, g \in FieldsOf(v) : f # g =>
              SyncColumns(v, cols)[f.name] \cap SyncColumns(v, cols)[g.name] = {}
<1> DEFINE n == Len(v.fields)
           sync == SyncColumns(v, cols)
<1>1. PICK g : MatchesUpTo(v, cols, n, g) /\ sync = g[n].of
  BY DeclaredFields, MatchesAreUnfolded
<1>2. n \in Nat /\ \A i \in 0..n : MatchedSoFar(v, cols, g, i)
  BY <1>1, DeclaredFields, FieldsAreMatched
<1> HIDE DEF sync
<1>3. \A k \in 1..n : sync[v.fields[k].name] = Found(v, cols, g, k)
  <2>1. n \in 0..n /\ MatchedSoFar(v, cols, g, n)
    BY <1>2
  <2> QED
    BY <1>1, <2>1 DEF MatchedSoFar
<1>4. ASSUME NEW k \in 1..n
      PROVE  /\ Found(v, cols, g, k) \subseteq ColumnsFor(cols, v.fields[k])
             /\ \A j \in 1..(k - 1) : Found(v, cols, g, k) \cap Found(v, cols, g, j) = {}
  <2>1. k - 1 \in 0..n
    BY <1>2
  <2>2. \A x : x \in g[k - 1].left =>
              x \in DOMAIN cols /\ \A j \in 1..(k - 1) : x \notin Found(v, cols, g, j)
    BY <1>2, <2>1 DEF MatchedSoFar
  <2>3. Found(v, cols, g, k) \subseteq g[k - 1].left
    BY DEF Found, Candidates
  <2>4. Found(v, cols, g, k) \subseteq ColumnsFor(cols, v.fields[k])
    BY <2>2 DEF Found, Candidates, ColumnsFor
  <2> QED
    BY <2>2, <2>3, <2>4
<1>5. \A f \in FieldsOf(v) : sync[f.name] \subseteq ColumnsFor(cols, f)
  <2> TAKE f \in FieldsOf(v)
  <2>1. PICK k \in 1..n : f = v.fields[k]
    BY FieldsDiffer
  <2> QED
    BY <1>3, <1>4, <2>1
<1>6. \A f, h \in FieldsOf(v) : f # h => sync[f.name] \cap sync[h.name] = {}
  <2> TAKE f \in FieldsOf(v), h \in FieldsOf(v)
  <2> HAVE f # h
  <2>1. PICK k \in 1..n : f = v.fields[k]
    BY FieldsDiffer
  <2>2. PICK j \in 1..n : h = v.fields[j]
    BY FieldsDiffer
  <2>3. k # j
    BY <2>1, <2>2
  <2>4. j \in 1..(k - 1) \/ k \in 1..(j - 1)
    BY <1>2, <2>3
  <2>5. Found(v, cols, g, k) \cap Found(v, cols, g, j) = {}
    BY <1>4, <2>4
  <2> QED
    BY <1>3, <2>1, <2>2, <2>5
<1> QED
  BY <1>5, <1>6 DEF sync

\* A field takes what is for it among the columns that no other field takes.
LEMMA SyncOfField ==
  ASSUME NEW v \in DeclaredVersions, NEW cols, NEW f \in FieldsOf(v)
  PROVE  \E left \in SUBSET DOMAIN cols :
           /\ SyncColumns(v, cols)[f.name] = Candidates(cols, left, f)
           /\ \A x \in DOMAIN cols \ left :
                \E h \in FieldsOf(v) \ {f} : x \in SyncColumns(v, cols)[h.name]
<1> DEFINE n == Len(v.fields)
           sync == SyncColumns(v, cols)
<1>1. PICK g : MatchesUpTo(v, cols, n, g) /\ sync = g[n].of
  BY DeclaredFields, MatchesAreUnfolded
<1>2. n \in Nat /\ \A i \in 0..n : MatchedSoFar(v, cols, g, i)
  BY <1>1, DeclaredFields, FieldsAreMatched
<1> HIDE DEF sync
<1>3. \A k \in 1..n : sync[v.fields[k].name] = Found(v, cols, g, k)
  <2>1. n \in 0..n /\ MatchedSoFar(v, cols, g, n)
    BY <1>2
  <2> QED
    BY <1>1, <2>1 DEF MatchedSoFar
<1>4. PICK k \in 1..n : f = v.fields[k]
  BY FieldsDiffer
<1> DEFINE left == g[k - 1].left
<1>5. \A x : x \in left
             <=> x \in DOMAIN cols /\ \A j \in 1..(k - 1) : x \notin Found(v, cols, g, j)
  <2>1. k - 1 \in 0..n
    BY <1>2
  <2> QED
    BY <1>2, <2>1 DEF MatchedSoFar
<1>6. sync[f.name] = Candidates(cols, left, f)
  BY <1>3, <1>4 DEF Found
<1> HIDE DEF left
<1>7. ASSUME NEW x \in DOMAIN cols \ left
      PROVE  \E h \in FieldsOf(v) \ {f} : x \in sync[h.name]
  <2>1. PICK j \in 1..(k - 1) : x \in Found(v, cols, g, j)
    BY <1>5
  <2>2. j \in 1..n /\ j # k
    BY <1>2, <2>1
  <2>3. v.fields[j] \in FieldsOf(v) /\ v.fields[j] # f
    BY <1>4, <2>2, FieldsDiffer, DeclaredFields DEF DistinctFields
  <2> QED
    BY <1>3, <2>1, <2>2, <2>3
<1>8. left \in SUBSET DOMAIN cols
  BY <1>5
<1> QED
  BY <1>6, <1>7, <1>8 DEF sync

\* The columns with a field's number that have no field's name.
Unnamed(v, cols, f) == {n \in DOMAIN cols : n \notin FieldNames(v) /\ cols[n].num = f.num}

\* The shadow table's column, by field.
LEMMA ShadowOfField ==
  ASSUME NEW v \in DeclaredVersions, NEW cols, NEW f \in FieldsOf(v)
  PROVE  ShadowColumns(v, cols)[f.name] =
           IF f.name \in DOMAIN cols THEN {f.name} ELSE Unnamed(v, cols, f)
<1>1. PICK k \in 1..Len(v.fields) : f = v.fields[k]
  BY FieldsDiffer
<1>2. ShadowColumns(v, cols)[f.name] =
        IF f.name \in DOMAIN cols THEN {f.name}
          ELSE {n \in DOMAIN cols : /\ \A j \in 1..Len(v.fields) : n # v.fields[j].name
                                    /\ cols[n].num = f.num}
  <2>1. \A i \in 1..Len(v.fields) :
          ShadowColumns(v, cols)[v.fields[i].name] =
            IF v.fields[i].name \in DOMAIN cols THEN {v.fields[i].name}
              ELSE {n \in DOMAIN cols : /\ \A j \in 1..Len(v.fields) : n # v.fields[j].name
                                        /\ cols[n].num = v.fields[i].num}
    BY DeclaredFields, ShadowOf
  <2> QED
    BY <1>1, <2>1, Zenon
<1>3. \A n : n \in FieldNames(v) <=> \E j \in 1..Len(v.fields) : n = v.fields[j].name
  BY FieldsDiffer
<1>4. {n \in DOMAIN cols : /\ \A j \in 1..Len(v.fields) : n # v.fields[j].name
                          /\ cols[n].num = f.num} = Unnamed(v, cols, f)
  BY <1>3 DEF Unnamed
<1> QED
  BY <1>2, <1>4

\* A key whose columns are clear is read from the one that is for it, by both matchings.
LEMMA KeyIsRead ==
  ASSUME NEW v \in DeclaredVersions, NEW cols, KeysAreClear(v, cols),
         NEW f \in FieldsOf(v), f.key
  PROVE  /\ SyncColumns(v, cols)[f.name] = ColumnsFor(cols, f)
         /\ ShadowColumns(v, cols)[f.name] = ColumnsFor(cols, f)
<1>1. /\ \A m, n \in ColumnsFor(cols, f) : m = n
      /\ \A g \in FieldsOf(v) \ {f} : ColumnsFor(cols, f) \cap ColumnsFor(cols, g) = {}
  BY DEF KeysAreClear
<1>2. PICK left \in SUBSET DOMAIN cols :
        /\ SyncColumns(v, cols)[f.name] = Candidates(cols, left, f)
        /\ \A x \in DOMAIN cols \ left :
             \E h \in FieldsOf(v) \ {f} : x \in SyncColumns(v, cols)[h.name]
  BY SyncOfField
<1>3. ColumnsFor(cols, f) \subseteq left
  <2> SUFFICES ASSUME NEW x \in ColumnsFor(cols, f), x \notin left
               PROVE  FALSE
    OBVIOUS
  <2>1. x \in DOMAIN cols
    BY DEF ColumnsFor
  <2>2. PICK h \in FieldsOf(v) \ {f} : x \in SyncColumns(v, cols)[h.name]
    BY <1>2, <2>1
  <2>3. x \in ColumnsFor(cols, h)
    BY <2>2, SyncApart
  <2> QED
    BY <1>1, <2>2, <2>3
<1>4. Candidates(cols, left, f) = ColumnsFor(cols, f)
  BY <1>1, <1>3 DEF Candidates, ColumnsFor
<1>5. \A n \in ColumnsFor(cols, f) : n = f.name \/ n \notin FieldNames(v)
  <2> SUFFICES ASSUME NEW n \in ColumnsFor(cols, f), n # f.name, n \in FieldNames(v)
               PROVE  FALSE
    OBVIOUS
  <2>1. PICK g \in FieldsOf(v) : n = g.name
    BY FieldsDiffer
  <2>2. n \in ColumnsFor(cols, g) /\ g # f
    BY <2>1 DEF ColumnsFor
  <2> QED
    BY <1>1, <2>2
<1>6. ShadowColumns(v, cols)[f.name] = ColumnsFor(cols, f)
  <2>1. ShadowColumns(v, cols)[f.name] =
          IF f.name \in DOMAIN cols THEN {f.name} ELSE Unnamed(v, cols, f)
    BY ShadowOfField
  <2>2. CASE f.name \in DOMAIN cols
    <3>1. f.name \in ColumnsFor(cols, f)
      BY <2>2 DEF ColumnsFor
    <3>2. ColumnsFor(cols, f) = {f.name}
      BY <1>1, <3>1
    <3> QED
      BY <2>1, <2>2, <3>2
  <2>3. CASE f.name \notin DOMAIN cols
    <3>1. f.name \in FieldNames(v)
      BY FieldsDiffer
    <3>2. \A n : n \in Unnamed(v, cols, f) <=> n \in ColumnsFor(cols, f)
      BY <1>5, <2>3, <3>1 DEF ColumnsFor, Unnamed
    <3> QED
      BY <2>1, <2>3, <3>2
  <2> QED
    BY <2>2, <2>3
<1> QED
  BY <1>2, <1>4, <1>6

\* Where every field has the column of its name, it is read from it.
LEMMA NamesAreRead ==
  ASSUME NEW v \in DeclaredVersions, NEW cols, FieldNames(v) \subseteq DOMAIN cols,
         NEW f \in FieldsOf(v)
  PROVE  SyncColumns(v, cols)[f.name] = {f.name} /\ ShadowColumns(v, cols)[f.name] = {f.name}
<1>1. f.name \in DOMAIN cols
  BY FieldsDiffer
<1>2. ShadowColumns(v, cols)[f.name] = {f.name}
  BY <1>1, ShadowOfField
<1>3. ~NameIsReused(v, cols)
  <2>1. \A i \in DOMAIN v.fields : v.fields[i].name \in DOMAIN cols
    BY FieldsDiffer, DeclaredFields
  <2> QED
    BY <2>1 DEF NameIsReused
<1> QED
  BY <1>2, <1>3, MatchingsAgree

-----------------------------------------------------------------------------
(***************************************************************************)
(* What a step makes of the values that are read                           *)
(***************************************************************************)
UniqueIds(rows) == \A r, s \in rows : r.id = s.id => r = s

SameIds(rows, out) ==
  (\A r \in rows : \E s \in out : s.id = r.id) /\ (\A s \in out : \E r \in rows : s.id = r.id)

\* The column a field is read from, when both matchings read it from the same.
ReadFrom(v, cols, f) == CHOOSE n \in SyncColumns(v, cols)[f.name] : TRUE

IsAgreed(v, cols, f) ==
  /\ SyncColumns(v, cols)[f.name] # {}
  /\ SyncColumns(v, cols)[f.name] = ShadowColumns(v, cols)[f.name]

\* What was read before is read still.
Holds(now, then) ==
  /\ DOMAIN now = DOMAIN then
  /\ \A i \in DOMAIN then : \A name \in DOMAIN then[i] :
       name \in DOMAIN now[i] /\ Same(now[i][name], then[i][name])

\* Table u holds what was read from table t.
Carried(v, t, u) == Holds(Reading(v, u), Reading(v, t))

\* Both matchings say of every field where it is read from, and of nothing else.
LEMMA FieldsAreRead ==
  ASSUME NEW v \in DeclaredVersions, NEW cols
  PROVE  DOMAIN SyncColumns(v, cols) = FieldNames(v)
<1> DEFINE n == Len(v.fields)
<1>1. PICK g : MatchesUpTo(v, cols, n, g) /\ SyncColumns(v, cols) = g[n].of
  BY DeclaredFields, MatchesAreUnfolded
<1>2. n \in 0..n /\ MatchedSoFar(v, cols, g, n)
  BY <1>1, DeclaredFields, FieldsAreMatched
<1>3. DOMAIN g[n].of = {v.fields[k].name : k \in 1..n}
  BY <1>2 DEF MatchedSoFar
<1>4. {v.fields[k].name : k \in 1..n} = FieldNames(v)
  BY FieldsDiffer
<1> QED
  BY <1>1, <1>3, <1>4

\* What is read of a row.
LEMMA ReadingOf ==
  ASSUME NEW v \in DeclaredVersions, NEW t, UniqueIds(t.rows)
  PROVE  /\ DOMAIN Reading(v, t) = {r.id : r \in t.rows}
         /\ \A r \in t.rows :
              /\ DOMAIN Reading(v, t)[r.id] =
                   {f.name : f \in {g \in FieldsOf(v) : IsAgreed(v, t.def.cols, g)}}
              /\ \A f \in FieldsOf(v) : IsAgreed(v, t.def.cols, f) =>
                   Reading(v, t)[r.id][f.name] = r.vals[ReadFrom(v, t.def.cols, f)]
<1> DEFINE cols == t.def.cols
           of == SyncColumns(v, cols)
           shadow == ShadowColumns(v, cols)
           agreed == {name \in DOMAIN of : of[name] # {} /\ of[name] = shadow[name]}
           rowOf(i) == CHOOSE r \in t.rows : r.id = i
           now == [i \in {r.id : r \in t.rows} |->
                     [name \in agreed |-> rowOf(i).vals[CHOOSE n \in of[name] : TRUE]]]
<1>1. Reading(v, t) = now
  BY DEF Reading
<1>2. DOMAIN of = FieldNames(v)
  BY FieldsAreRead
<1>3. agreed = {f.name : f \in {g \in FieldsOf(v) : IsAgreed(v, cols, g)}}
  BY <1>2, FieldsDiffer DEF IsAgreed
<1>4. ASSUME NEW r \in t.rows
      PROVE  /\ DOMAIN now[r.id] = agreed
             /\ \A f \in FieldsOf(v) : IsAgreed(v, cols, f) =>
                  now[r.id][f.name] = r.vals[ReadFrom(v, cols, f)]
  <2>1. rowOf(r.id) = r
    BY DEF UniqueIds
  <2>2. r.id \in {s.id : s \in t.rows}
    OBVIOUS
  <2>3. now[r.id] = [name \in agreed |-> r.vals[CHOOSE n \in of[name] : TRUE]]
    <3>1. now[r.id] = [name \in agreed |-> rowOf(r.id).vals[CHOOSE n \in of[name] : TRUE]]
      BY <2>2, Zenon
    <3> HIDE DEF now, agreed, rowOf
    <3> QED
      BY <2>1, <3>1
  <2> HIDE DEF now, agreed
  <2>4. ASSUME NEW f \in FieldsOf(v), IsAgreed(v, cols, f)
        PROVE  now[r.id][f.name] = r.vals[ReadFrom(v, cols, f)]
    <3>1. f.name \in agreed
      BY <1>3, <2>4
    <3>2. now[r.id][f.name] = r.vals[CHOOSE n \in of[f.name] : TRUE]
      BY <2>3, <3>1
    <3> QED
      BY <3>2 DEF ReadFrom
  <2> QED
    BY <2>3, <2>4
<1>5. DOMAIN now = {r.id : r \in t.rows}
  OBVIOUS
<1> HIDE DEF now, agreed
<1> QED
  BY <1>1, <1>3, <1>4, <1>5

\* The same rows by id, what both matchings agree on they agree on still, and its value is
\* the same.
LEMMA CarriedRows ==
  ASSUME NEW v \in DeclaredVersions, NEW t, NEW u, UniqueIds(t.rows), UniqueIds(u.rows),
         SameIds(t.rows, u.rows),
         \A f \in FieldsOf(v) : IsAgreed(v, t.def.cols, f) => IsAgreed(v, u.def.cols, f),
         \A f \in FieldsOf(v) : IsAgreed(v, t.def.cols, f) =>
           \A r \in t.rows, s \in u.rows : s.id = r.id =>
             Same(s.vals[ReadFrom(v, u.def.cols, f)], r.vals[ReadFrom(v, t.def.cols, f)])
  PROVE  Carried(v, t, u)
<1> DEFINE now == Reading(v, u)
           then == Reading(v, t)
<1>1. DOMAIN now = {s.id : s \in u.rows} /\ DOMAIN then = {r.id : r \in t.rows}
  BY ReadingOf
<1>2. DOMAIN now = DOMAIN then
  BY <1>1 DEF SameIds
<1>3. ASSUME NEW i \in DOMAIN then, NEW name \in DOMAIN then[i]
      PROVE  name \in DOMAIN now[i] /\ Same(now[i][name], then[i][name])
  <2>1. PICK r \in t.rows : r.id = i
    BY <1>1
  <2>2. PICK s \in u.rows : s.id = i
    BY <2>1 DEF SameIds
  <2>3. PICK f \in FieldsOf(v) : IsAgreed(v, t.def.cols, f) /\ name = f.name
    <3>1. DOMAIN Reading(v, t)[r.id] =
            {f.name : f \in {g \in FieldsOf(v) : IsAgreed(v, t.def.cols, g)}}
      BY ReadingOf
    <3>2. name \in DOMAIN Reading(v, t)[r.id]
      BY <2>1
    <3> QED
      BY <3>1, <3>2
  <2>4. IsAgreed(v, u.def.cols, f)
    BY <2>3
  <2>5. name \in DOMAIN now[i] /\ now[i][name] = s.vals[ReadFrom(v, u.def.cols, f)]
    <3>1. \A w \in u.rows :
            /\ DOMAIN Reading(v, u)[w.id] =
                 {h.name : h \in {g \in FieldsOf(v) : IsAgreed(v, u.def.cols, g)}}
            /\ \A h \in FieldsOf(v) : IsAgreed(v, u.def.cols, h) =>
                 Reading(v, u)[w.id][h.name] = w.vals[ReadFrom(v, u.def.cols, h)]
      BY ReadingOf
    <3>2. f.name \in {h.name : h \in {g \in FieldsOf(v) : IsAgreed(v, u.def.cols, g)}}
      BY <2>4
    <3> QED
      BY <2>2, <2>3, <3>1, <3>2
  <2>6. then[i][name] = r.vals[ReadFrom(v, t.def.cols, f)]
    BY <2>1, <2>3, ReadingOf
  <2>7. Same(s.vals[ReadFrom(v, u.def.cols, f)], r.vals[ReadFrom(v, t.def.cols, f)])
    BY <2>1, <2>2, <2>3
  <2> HIDE DEF now, then
  <2> QED
    BY <2>5, <2>6, <2>7
<1> HIDE DEF now, then
<1>4. Holds(now, then)
  BY <1>2, <1>3 DEF Holds
<1> QED
  BY <1>4 DEF Carried, now, then

\* Twice is once.
LEMMA HoldsOn ==
  ASSUME NEW a, NEW b, NEW c, Holds(b, a), Holds(c, b)
  PROVE  Holds(c, a)
<1>1. DOMAIN c = DOMAIN a
  BY DEF Holds
<1>2. ASSUME NEW i \in DOMAIN a, NEW name \in DOMAIN a[i]
      PROVE  name \in DOMAIN c[i] /\ Same(c[i][name], a[i][name])
  <2>1. name \in DOMAIN b[i] /\ Same(b[i][name], a[i][name]) /\ i \in DOMAIN b
    BY DEF Holds
  <2>2. name \in DOMAIN c[i] /\ Same(c[i][name], b[i][name])
    BY <2>1 DEF Holds
  <2> QED
    BY <2>1, <2>2 DEF Same
<1> QED
  BY <1>1, <1>2 DEF Holds

\* The same columns and rows are read alike.
LEMMA ReadAlike ==
  ASSUME NEW v, NEW t, NEW u, u.def.cols = t.def.cols, u.rows = t.rows
  PROVE  Reading(v, u) = Reading(v, t)
BY DEF Reading

\* What is read holds itself.
LEMMA HoldsItself == \A a : Holds(a, a)
BY DEF Holds, Same

\* Rows that are written again: each once, and where its value fits it is the same.
LEMMA RewrittenValues ==
  ASSUME NEW def, NEW rows, UniqueIds(rows), NEW source, NEW out,
         out = Rewritten(def, rows, source)
  PROVE  /\ UniqueIds(out)
         /\ SameIds(rows, out)
         /\ \A s \in out : DOMAIN s.vals = DOMAIN def.cols
         /\ \A r \in rows, s \in out : s.id = r.id =>
              \A n \in DOMAIN def.cols \cap DOMAIN source :
                Storable(r.vals[source[n]], def.cols[n]) => s.vals[n] = r.vals[source[n]]
<1> DEFINE valsOf(r) == [n \in DOMAIN def.cols |->
                           IF n \in DOMAIN source THEN Stored(r.vals[source[n]], def.cols[n])
                                                  ELSE Default(def.cols[n])]
           rowOf(r) == [id |-> r.id, vals |-> valsOf(r)]
<1>1. out = {rowOf(r) : r \in rows}
  BY DEF Rewritten
<1>2. ASSUME NEW r
      PROVE  rowOf(r).id = r.id /\ rowOf(r).vals = valsOf(r)
  OBVIOUS
<1>3. ASSUME NEW r
      PROVE  /\ DOMAIN valsOf(r) = DOMAIN def.cols
             /\ \A n \in DOMAIN def.cols \cap DOMAIN source :
                  Storable(r.vals[source[n]], def.cols[n]) => valsOf(r)[n] = r.vals[source[n]]
  BY DEF Stored
<1> HIDE DEF valsOf, rowOf
<1>4. \A r \in rows, s \in out : s.id = r.id => s = rowOf(r)
  BY <1>1, <1>2 DEF UniqueIds
<1>5. \A s \in out : \E r \in rows : s.id = r.id /\ s = rowOf(r)
  BY <1>1, <1>2
<1>6. SameIds(rows, out)
  BY <1>1, <1>2 DEF SameIds
<1>7. UniqueIds(out)
  BY <1>4, <1>5 DEF UniqueIds
<1>8. \A s \in out : DOMAIN s.vals = DOMAIN def.cols
  <2> TAKE s \in out
  <2>1. PICK r \in rows : s = rowOf(r)
    BY <1>5
  <2> QED
    BY <1>2, <1>3, <2>1
<1>9. ASSUME NEW r \in rows, NEW s \in out, s.id = r.id,
             NEW n \in DOMAIN def.cols \cap DOMAIN source,
             Storable(r.vals[source[n]], def.cols[n])
      PROVE  s.vals[n] = r.vals[source[n]]
  <2>1. s.vals = valsOf(r)
    BY <1>2, <1>4, <1>9
  <2> QED
    BY <1>3, <1>9, <2>1
<1> QED
  BY <1>5, <1>6, <1>7, <1>8, <1>9

\* Rows whose NULLs are filled: each once, and no value is another but for those NULLs.
LEMMA FilledValues ==
  ASSUME NEW rows, AreRows(rows), UniqueIds(rows), NEW names, NEW out,
         out = Filled(rows, names)
  PROVE  /\ UniqueIds(out)
         /\ SameIds(rows, out)
         /\ \A r \in rows, s \in out : s.id = r.id =>
              /\ DOMAIN s.vals = DOMAIN r.vals
              /\ \A n \in DOMAIN r.vals : Same(s.vals[n], r.vals[n])
<1> DEFINE valsOf(r) == [n \in DOMAIN r.vals |->
                           IF n \in names /\ r.vals[n] = Null THEN Empty ELSE r.vals[n]]
           rowOf(r) == [r EXCEPT !.vals = valsOf(r)]
<1>1. out = {rowOf(r) : r \in rows}
  BY DEF Filled
<1>2. ASSUME NEW r \in rows
      PROVE  rowOf(r).id = r.id /\ rowOf(r).vals = valsOf(r)
  <2>1. r = [id |-> r.id, vals |-> r.vals]
    BY DEF AreRows, IsRow
  <2> HIDE DEF valsOf
  <2>2. rowOf(r) = [id |-> r.id, vals |-> valsOf(r)]
    BY <2>1
  <2> QED
    BY <2>2
<1>3. ASSUME NEW r
      PROVE  /\ DOMAIN valsOf(r) = DOMAIN r.vals
             /\ \A n \in DOMAIN r.vals : Same(valsOf(r)[n], r.vals[n])
  BY DEF Same
<1> HIDE DEF valsOf, rowOf
<1>4. \A r \in rows, s \in out : s.id = r.id => s = rowOf(r)
  BY <1>1, <1>2 DEF UniqueIds
<1>5. SameIds(rows, out)
  BY <1>1, <1>2 DEF SameIds
<1>6. UniqueIds(out)
  BY <1>1, <1>2, <1>4 DEF UniqueIds
<1> QED
  BY <1>2, <1>3, <1>4, <1>5, <1>6

\* What a field finds depends on the columns with its name or number alone.
LEMMA CandidatesFor ==
  ASSUME NEW cols, NEW cols2, NEW f, ColumnsFor(cols2, f) = ColumnsFor(cols, f),
         \A n \in ColumnsFor(cols, f) : cols2[n].num = cols[n].num,
         NEW left \in SUBSET DOMAIN cols, NEW left2 \in SUBSET DOMAIN cols2,
         \A n \in ColumnsFor(cols, f) : n \in left <=> n \in left2
  PROVE  Candidates(cols2, left2, f) = Candidates(cols, left, f)
<1>1. f.name \in left <=> f.name \in left2
  BY DEF ColumnsFor
<1>2. {n \in left : cols[n].num = f.num} = {n \in left2 : cols2[n].num = f.num}
  BY DEF ColumnsFor
<1> QED
  BY <1>1, <1>2 DEF Candidates

\* The shadow table is filled from the same column as long as the field has the same columns.
LEMMA ShadowAlike ==
  ASSUME NEW v \in DeclaredVersions, NEW cols, NEW cols2, NEW f \in FieldsOf(v),
         ColumnsFor(cols2, f) = ColumnsFor(cols, f),
         \A n \in ColumnsFor(cols, f) : cols2[n].num = cols[n].num
  PROVE  ShadowColumns(v, cols2)[f.name] = ShadowColumns(v, cols)[f.name]
<1>1. ShadowColumns(v, cols)[f.name] =
        IF f.name \in DOMAIN cols THEN {f.name} ELSE Unnamed(v, cols, f)
  BY ShadowOfField
<1>2. ShadowColumns(v, cols2)[f.name] =
        IF f.name \in DOMAIN cols2 THEN {f.name} ELSE Unnamed(v, cols2, f)
  BY ShadowOfField
<1>3. f.name \in DOMAIN cols <=> f.name \in DOMAIN cols2
  BY DEF ColumnsFor
<1>4. Unnamed(v, cols, f) = Unnamed(v, cols2, f)
  BY DEF ColumnsFor, Unnamed
<1> QED
  BY <1>1, <1>2, <1>3, <1>4

\* When the columns of one field change that no other has, the others are read as before.
LEMMA OthersAreRead ==
  ASSUME NEW v \in DeclaredVersions, NEW cols, NEW cols2, NEW f \in FieldsOf(v),
         \A g \in FieldsOf(v) \ {f} :
           /\ ColumnsFor(cols2, g) = ColumnsFor(cols, g)
           /\ \A n \in ColumnsFor(cols, g) : cols2[n].num = cols[n].num
           /\ ColumnsFor(cols, f) \cap ColumnsFor(cols, g) = {}
           /\ ColumnsFor(cols2, f) \cap ColumnsFor(cols2, g) = {}
  PROVE  \A g \in FieldsOf(v) \ {f} :
           /\ SyncColumns(v, cols2)[g.name] = SyncColumns(v, cols)[g.name]
           /\ ShadowColumns(v, cols2)[g.name] = ShadowColumns(v, cols)[g.name]
<1> DEFINE size == Len(v.fields)
           field(k) == v.fields[k]
<1>1. PICK a : MatchesUpTo(v, cols, size, a) /\ SyncColumns(v, cols) = a[size].of
  BY DeclaredFields, MatchesAreUnfolded
<1>2. PICK b : MatchesUpTo(v, cols2, size, b) /\ SyncColumns(v, cols2) = b[size].of
  BY DeclaredFields, MatchesAreUnfolded
<1>3. size \in Nat /\ \A i \in 0..size : MatchedSoFar(v, cols, a, i) /\ MatchedSoFar(v, cols2, b, i)
  BY <1>1, <1>2, DeclaredFields, FieldsAreMatched
<1>4. \A k \in 1..size : /\ SyncColumns(v, cols)[field(k).name] = Found(v, cols, a, k)
                      /\ SyncColumns(v, cols2)[field(k).name] = Found(v, cols2, b, k)
  <2>1. size \in 0..size /\ MatchedSoFar(v, cols, a, size) /\ MatchedSoFar(v, cols2, b, size)
    BY <1>3
  <2> QED
    BY <1>1, <1>2, <2>1 DEF MatchedSoFar
<1>5. \A k \in 1..size : field(k) \in FieldsOf(v)
  BY FieldsDiffer
<1>6. \A k \in 1..size : /\ Found(v, cols, a, k) \subseteq ColumnsFor(cols, field(k))
                      /\ Found(v, cols2, b, k) \subseteq ColumnsFor(cols2, field(k))
  <2> TAKE k \in 1..size
  <2>1. \A g \in FieldsOf(v) : /\ SyncColumns(v, cols)[g.name] \subseteq ColumnsFor(cols, g)
                               /\ SyncColumns(v, cols2)[g.name] \subseteq ColumnsFor(cols2, g)
    BY SyncApart
  <2> QED
    BY <1>4, <1>5, <2>1
<1> DEFINE T == {k \in 1..size : field(k) # f /\ Found(v, cols2, b, k) # Found(v, cols, a, k)}
<1>7. T = {}
  <2> SUFFICES ASSUME T # {} PROVE FALSE
    OBVIOUS
  <2>1. T \in SUBSET Nat
    BY <1>3
  <2>2. PICK k \in T : \A m \in T : k <= m
    BY <2>1, LeastNumber
  <2>3. k \in 1..size /\ k - 1 \in 0..size /\ field(k) \in FieldsOf(v) \ {f}
    BY <1>3, <1>5, <2>2
  <2>4. \A j \in 1..(k - 1) : j \in 1..size /\ j \notin T
    BY <1>3, <2>2, <2>3
  <2>5. /\ \A x : x \in a[k - 1].left
              <=> x \in DOMAIN cols /\ \A j \in 1..(k - 1) : x \notin Found(v, cols, a, j)
        /\ \A x : x \in b[k - 1].left
              <=> x \in DOMAIN cols2 /\ \A j \in 1..(k - 1) : x \notin Found(v, cols2, b, j)
    BY <1>3, <2>3 DEF MatchedSoFar
  <2> DEFINE h == field(k)
  <2>6. /\ ColumnsFor(cols2, h) = ColumnsFor(cols, h)
        /\ \A x \in ColumnsFor(cols, h) : cols2[x].num = cols[x].num
        /\ ColumnsFor(cols, f) \cap ColumnsFor(cols, h) = {}
        /\ ColumnsFor(cols2, f) \cap ColumnsFor(cols2, h) = {}
    BY <2>3
  <2>7. ASSUME NEW x \in ColumnsFor(cols, h), NEW j \in 1..(k - 1)
        PROVE  x \in Found(v, cols, a, j) <=> x \in Found(v, cols2, b, j)
    <3>1. CASE field(j) = f
      <4>1. x \notin ColumnsFor(cols, f) /\ x \notin ColumnsFor(cols2, f)
        BY <2>6, <2>7
      <4> QED
        BY <1>6, <2>4, <3>1, <4>1
    <3>2. CASE field(j) # f
      BY <2>4, <3>2
    <3> QED
      BY <3>1, <3>2
  <2>8. \A x \in ColumnsFor(cols, h) : x \in a[k - 1].left <=> x \in b[k - 1].left
    <3> TAKE x \in ColumnsFor(cols, h)
    <3>1. x \in DOMAIN cols /\ x \in DOMAIN cols2
      BY <2>6 DEF ColumnsFor
    <3> QED
      BY <2>5, <2>7, <3>1
  <2>9. a[k - 1].left \in SUBSET DOMAIN cols /\ b[k - 1].left \in SUBSET DOMAIN cols2
    BY <2>5
  <2>10. Candidates(cols2, b[k - 1].left, h) = Candidates(cols, a[k - 1].left, h)
    BY <2>6, <2>8, <2>9, CandidatesFor
  <2>11. Found(v, cols2, b, k) = Found(v, cols, a, k)
    BY <2>10 DEF Found
  <2> QED
    BY <2>2, <2>11
<1>8. ASSUME NEW g \in FieldsOf(v) \ {f}
      PROVE  SyncColumns(v, cols2)[g.name] = SyncColumns(v, cols)[g.name]
  <2>1. PICK k \in 1..size : g = field(k)
    BY FieldsDiffer
  <2>2. k \notin T /\ field(k) # f
    BY <1>7, <2>1
  <2> QED
    BY <1>4, <2>1, <2>2
<1>9. ASSUME NEW g \in FieldsOf(v) \ {f}
      PROVE  ShadowColumns(v, cols2)[g.name] = ShadowColumns(v, cols)[g.name]
  <2>1. /\ g \in FieldsOf(v) /\ ColumnsFor(cols2, g) = ColumnsFor(cols, g)
        /\ \A m \in ColumnsFor(cols, g) : cols2[m].num = cols[m].num
    OBVIOUS
  <2> QED
    BY <2>1, ShadowAlike
<1> QED
  BY <1>8, <1>9

\* What one MODIFY or CHANGE COLUMN makes of the columns.
Changed(cols, x, column) ==
  [n \in (DOMAIN cols \ {x.old}) \cup {x.name} |->
     IF n \in DOMAIN cols \ {x.old} THEN cols[n] ELSE column]

NewColumn(def, x) ==
  [type |-> x.type, attrs |-> x.attrs, num |-> x.num, born |-> def.cols[x.old].born]

ChangedFrom(cols, x) ==
  [n \in (DOMAIN cols \ {x.old}) \cup {x.name} |->
     IF n \in DOMAIN cols \ {x.old} THEN n ELSE x.old]

\* An ALTER that changes one column, and no other.
LEMMA OneChange ==
  ASSUME NEW def, NEW x, x.op = "change column", Executes(def, {x})
  PROVE  /\ x.old \in DOMAIN def.cols /\ x.name \notin DOMAIN def.cols \ {x.old}
         /\ Altered(def, {x}).cols = Changed(def.cols, x, NewColumn(def, x))
         /\ NewColumn(def, x).num = x.num
         /\ AlteredFrom(def, {x}) = ChangedFrom(def.cols, x)
<1> DEFINE kept == DOMAIN def.cols \ {x.old}
           clauses == {x}
           changed == {c \in clauses : c.op = "change column"}
           column(c) == [type |-> c.type, attrs |-> c.attrs, num |-> c.num,
                         born |-> IF c.op = "change column" THEN def.cols[c.old].born
                                    ELSE [num |-> c.num, name |-> c.name]]
<1>1. changed = {x} /\ OfColumns(clauses) = {x}
  BY DEF OfColumns
<1>2. Replaced(clauses) = {x.old}
  BY <1>1 DEF Replaced
<1>3. x.old \in DOMAIN def.cols /\ x.name \notin kept
  BY <1>1, <1>2 DEF Executes
<1>6. Altered(def, clauses).cols = Changed(def.cols, x, column(x))
  <2> DEFINE pick(n) == CHOOSE c \in OfColumns(clauses) : c.name = n
             names == {c.name : c \in OfColumns(clauses)}
             stay == DOMAIN def.cols \ Replaced(clauses)
  <2>1. Altered(def, clauses).cols =
          [n \in stay \cup names |-> IF n \in stay THEN def.cols[n] ELSE column(pick(n))]
    BY DEF Altered
  <2>2. pick(x.name) = x
    BY <1>1
  <2>3. names = {x.name}
    BY <1>1
  <2>4. stay = kept
    BY <1>2
  <2> HIDE DEF kept, column, pick, names, stay
  <2>5. Altered(def, clauses).cols =
          [n \in kept \cup {x.name} |-> IF n \in kept THEN def.cols[n] ELSE column(x)]
    BY <2>1, <2>2, <2>3, <2>4
  <2> QED
    BY <2>5 DEF Changed, kept
<1>7. column(x) = NewColumn(def, x) /\ NewColumn(def, x).num = x.num
  BY DEF NewColumn
<1>8. AlteredFrom(def, clauses) = ChangedFrom(def.cols, x)
  <2> DEFINE pick(n) == CHOOSE c \in changed : c.name = n
             names == {c.name : c \in changed}
             stay == DOMAIN def.cols \ {c.old : c \in changed}
  <2>1. AlteredFrom(def, clauses) =
          [n \in stay \cup names |-> IF n \in stay THEN n ELSE pick(n).old]
    BY DEF AlteredFrom
  <2>2. pick(x.name) = x
    BY <1>1
  <2>3. names = {x.name}
    BY <1>1
  <2>4. stay = kept
    <3>1. {c.old : c \in changed} = {x.old}
      BY <1>1
    <3> QED
      BY <3>1
  <2> HIDE DEF kept, pick, names, stay
  <2>5. AlteredFrom(def, clauses) =
          [n \in kept \cup {x.name} |-> IF n \in kept THEN n ELSE x.old]
    BY <2>1, <2>2, <2>3, <2>4
  <2> QED
    BY <2>5 DEF ChangedFrom, kept
<1> HIDE DEF column
<1> QED
  BY <1>3, <1>6, <1>7, <1>8 DEF kept

\* ADD INDEX changes no column.
LEMMA NoChange ==
  ASSUME NEW def, NEW x, x.op = "add index", def.cols = [n \in DOMAIN def.cols |-> def.cols[n]]
  PROVE  /\ Altered(def, {x}).cols = def.cols
         /\ AlteredFrom(def, {x}) = [n \in DOMAIN def.cols |-> n]
<1> DEFINE clauses == {x}
<1>1. Replaced(clauses) = {} /\ OfColumns(clauses) = {}
  BY DEF Replaced, OfColumns
<1>2. {c \in clauses : c.op = "change column"} = {}
  OBVIOUS
<1>3. Altered(def, clauses).cols = [n \in DOMAIN def.cols |-> def.cols[n]]
  BY <1>1 DEF Altered
<1>4. AlteredFrom(def, clauses) = [n \in DOMAIN def.cols |-> n]
  BY <1>2 DEF AlteredFrom
<1> QED
  BY <1>3, <1>4

-----------------------------------------------------------------------------
(***************************************************************************)
(* What an ALTER makes of the values that are read                         *)
(***************************************************************************)
\* Ids are unique and below the counter, and a row has a value for each column.
IsKept(t) ==
  /\ IsStoredTable(t)
  /\ UniqueIds(t.rows)
  /\ \A r \in t.rows : r.id < t.auto /\ DOMAIN r.vals = DOMAIN t.def.cols

\* An ALTER keeps that.
LEMMA AlteredIsKept ==
  ASSUME NEW t, IsKept(t), NEW clauses
  PROVE  /\ IsKept(AlteredTable(t, clauses))
         /\ AlteredTable(t, clauses).def = Altered(t.def, clauses)
         /\ AlteredTable(t, clauses).rows =
              Rewritten(Altered(t.def, clauses), t.rows, AlteredFrom(t.def, clauses))
<1> DEFINE def == Altered(t.def, clauses)
           from == AlteredFrom(t.def, clauses)
           rows == Rewritten(def, t.rows, from)
           new == AlteredTable(t, clauses)
<1>1. IsStoredTable(t) /\ UniqueIds(t.rows) /\ \A r \in t.rows : r.id < t.auto
  BY DEF IsKept
<1>2. IsStoredTable(new) /\ new.auto = t.auto
  BY <1>1, AlteredIsTable
<1>3. new.def = def /\ new.rows = rows
  <2>1. new = [t EXCEPT !.def = def, !.rows = rows]
    BY DEF AlteredTable
  <2>2. t = [def |-> t.def, rows |-> t.rows, auto |-> t.auto]
    BY <1>1 DEF IsStoredTable
  <2> DEFINE u == [t EXCEPT !.def = def]
  <2> HIDE DEF def, rows, new
  <2>3. u = [def |-> def, rows |-> t.rows, auto |-> t.auto]
    BY <2>2
  <2>4. [t EXCEPT !.def = def, !.rows = rows] = [u EXCEPT !.rows = rows]
    OBVIOUS
  <2> HIDE DEF u
  <2>5. [u EXCEPT !.rows = rows] = [def |-> def, rows |-> rows, auto |-> t.auto]
    BY <2>3
  <2> QED
    BY <2>1, <2>4, <2>5
<1>4. /\ UniqueIds(rows) /\ SameIds(t.rows, rows)
      /\ \A s \in rows : DOMAIN s.vals = DOMAIN def.cols
  <2>1. rows = Rewritten(def, t.rows, from)
    OBVIOUS
  <2> HIDE DEF def, from, rows
  <2>2. UniqueIds(rows) /\ SameIds(t.rows, rows)
    BY <1>1, <2>1, RewrittenValues
  <2>3. \A s \in rows : DOMAIN s.vals = DOMAIN def.cols
    BY <1>1, <2>1, RewrittenValues
  <2> QED
    BY <2>2, <2>3
<1> HIDE DEF def, rows, new, from
<1>5. IsKept(new)
  BY <1>1, <1>2, <1>3, <1>4 DEF IsKept, SameIds
<1> QED
  BY <1>3, <1>5 DEF def, rows, new, from

\* Where every value fits, and each field is read from the column that its own column became,
\* nothing is lost.
LEMMA AlteredIsCarried ==
  ASSUME NEW v \in DeclaredVersions, NEW t, IsKept(t), NEW clauses,
         AllStorable(Altered(t.def, clauses), t.rows, AlteredFrom(t.def, clauses)),
         \A f \in FieldsOf(v) : IsAgreed(v, t.def.cols, f) =>
           /\ IsAgreed(v, Altered(t.def, clauses).cols, f)
           /\ ReadFrom(v, Altered(t.def, clauses).cols, f) \in DOMAIN Altered(t.def, clauses).cols
           /\ ReadFrom(v, Altered(t.def, clauses).cols, f) \in DOMAIN AlteredFrom(t.def, clauses)
           /\ AlteredFrom(t.def, clauses)[ReadFrom(v, Altered(t.def, clauses).cols, f)]
                = ReadFrom(v, t.def.cols, f)
  PROVE  Carried(v, t, AlteredTable(t, clauses))
<1> DEFINE def == Altered(t.def, clauses)
           from == AlteredFrom(t.def, clauses)
           rows == Rewritten(def, t.rows, from)
           new == AlteredTable(t, clauses)
<1>1. UniqueIds(t.rows)
  BY DEF IsKept
<1>2. new.def = def /\ new.rows = rows
  BY AlteredIsKept
<1>3. /\ UniqueIds(rows)
      /\ SameIds(t.rows, rows)
      /\ \A r \in t.rows, s \in rows : s.id = r.id =>
           \A n \in DOMAIN def.cols \cap DOMAIN from :
             Storable(r.vals[from[n]], def.cols[n]) => s.vals[n] = r.vals[from[n]]
  <2>1. rows = Rewritten(def, t.rows, from)
    OBVIOUS
  <2> HIDE DEF def, from, rows
  <2> QED
    BY <1>1, <2>1, RewrittenValues
<1>4. \A f \in FieldsOf(v) : IsAgreed(v, t.def.cols, f) =>
        /\ IsAgreed(v, def.cols, f)
        /\ ReadFrom(v, def.cols, f) \in DOMAIN def.cols \cap DOMAIN from
        /\ from[ReadFrom(v, def.cols, f)] = ReadFrom(v, t.def.cols, f)
  OBVIOUS
<1>5. \A r \in t.rows, n \in DOMAIN from : Storable(r.vals[from[n]], def.cols[n])
  BY DEF AllStorable
<1> HIDE DEF def, from, rows, new
<1>6. \A f \in FieldsOf(v) : IsAgreed(v, t.def.cols, f) =>
        \A r \in t.rows, s \in rows : s.id = r.id =>
          Same(s.vals[ReadFrom(v, def.cols, f)], r.vals[ReadFrom(v, t.def.cols, f)])
  <2> SUFFICES ASSUME NEW f \in FieldsOf(v), IsAgreed(v, t.def.cols, f),
                      NEW r \in t.rows, NEW s \in rows, s.id = r.id
               PROVE  s.vals[ReadFrom(v, def.cols, f)] = r.vals[ReadFrom(v, t.def.cols, f)]
    BY DEF Same
  <2> DEFINE n == ReadFrom(v, def.cols, f)
  <2>1. n \in DOMAIN def.cols \cap DOMAIN from /\ from[n] = ReadFrom(v, t.def.cols, f)
    BY <1>4
  <2>2. Storable(r.vals[from[n]], def.cols[n])
    BY <1>5, <2>1
  <2>3. s.vals[n] = r.vals[from[n]]
    BY <1>3, <2>1, <2>2
  <2> QED
    BY <2>1, <2>3
<1>7. /\ UniqueIds(new.rows)
      /\ SameIds(t.rows, new.rows)
      /\ \A f \in FieldsOf(v) : IsAgreed(v, t.def.cols, f) => IsAgreed(v, new.def.cols, f)
      /\ \A f \in FieldsOf(v) : IsAgreed(v, t.def.cols, f) =>
           \A r \in t.rows, s \in new.rows : s.id = r.id =>
             Same(s.vals[ReadFrom(v, new.def.cols, f)], r.vals[ReadFrom(v, t.def.cols, f)])
  BY <1>2, <1>3, <1>4, <1>6
<1>8. Carried(v, t, new)
  BY <1>1, <1>7, CarriedRows
<1> QED
  BY <1>8 DEF new

\* A statement of the script about an old column that is there, or was renamed.
IsSource(v, cols, old, f) ==
  old \in ColumnsFor(cols, f) \/ (old \notin DOMAIN cols /\ old \notin FieldNames(v))

\* What is still to be done to the columns by a script that alters the table.
IsAhead(v, cols, s, i) ==
  \A k \in DOMAIN s : k >= i /\ s[k].op = "change column" =>
    \E f \in FieldsOf(v) : f.key /\ \E old, column :
      s[k] = ToKeyColumn(column, old, f) /\ IsSource(v, cols, old, f)

\* The column of a key becomes the declared one: nothing else changes.
LEMMA KeyIsChanged ==
  ASSUME NEW v \in DeclaredVersions, NEW cols, KeysAreClear(v, cols),
         NEW f \in FieldsOf(v), f.key, NEW x, x.old \in ColumnsFor(cols, f), x.name = f.name,
         x.name \notin DOMAIN cols \ {x.old}, NEW column, column.num = f.num,
         NEW cols2, cols2 = Changed(cols, x, column)
  PROVE  /\ ColumnsFor(cols, f) = {x.old} /\ ColumnsFor(cols2, f) = {f.name}
         /\ \A g \in FieldsOf(v) \ {f} :
              /\ ColumnsFor(cols2, g) = ColumnsFor(cols, g)
              /\ \A n \in ColumnsFor(cols, g) :
                   n \in DOMAIN cols \ {x.old} /\ cols2[n].num = cols[n].num
              /\ ColumnsFor(cols, f) \cap ColumnsFor(cols, g) = {}
              /\ ColumnsFor(cols2, f) \cap ColumnsFor(cols2, g) = {}
<1> DEFINE kept == DOMAIN cols \ {x.old}
<1>1. /\ \A m, n \in ColumnsFor(cols, f) : m = n
      /\ \A g \in FieldsOf(v) \ {f} : ColumnsFor(cols, f) \cap ColumnsFor(cols, g) = {}
  BY DEF KeysAreClear
<1>2. ColumnsFor(cols, f) = {x.old}
  BY <1>1
<1>3. /\ DOMAIN cols2 = kept \cup {f.name}
      /\ \A n \in kept : cols2[n] = cols[n]
      /\ cols2[f.name].num = f.num
  BY DEF Changed
<1>4. ColumnsFor(cols2, f) = {f.name}
  <2>1. \A n \in kept : n \notin ColumnsFor(cols, f)
    BY <1>2
  <2>2. \A n \in kept : n \notin ColumnsFor(cols2, f)
    BY <1>3, <2>1 DEF ColumnsFor
  <2>3. f.name \in ColumnsFor(cols2, f)
    BY <1>3 DEF ColumnsFor
  <2>4. ColumnsFor(cols2, f) \subseteq kept \cup {f.name}
    BY <1>3 DEF ColumnsFor
  <2> HIDE DEF kept
  <2> QED
    BY <2>2, <2>3, <2>4
<1>5. ASSUME NEW g \in FieldsOf(v) \ {f}
      PROVE  /\ ColumnsFor(cols2, g) = ColumnsFor(cols, g)
             /\ \A n \in ColumnsFor(cols, g) : n \in kept /\ cols2[n].num = cols[n].num
  <2>1. g.name # f.name /\ g.num # f.num
    BY FieldsDiffer
  <2>2. x.old \notin ColumnsFor(cols, g)
    BY <1>1
  <2>3. \A n \in ColumnsFor(cols, g) : n \in kept
    BY <2>2 DEF ColumnsFor
  <2>4. f.name \notin ColumnsFor(cols2, g)
    BY <1>3, <2>1 DEF ColumnsFor
  <2>5. \A n \in kept : n \in ColumnsFor(cols2, g) <=> n \in ColumnsFor(cols, g)
    BY <1>3 DEF ColumnsFor
  <2>6. ColumnsFor(cols2, g) \subseteq kept \cup {f.name}
    BY <1>3 DEF ColumnsFor
  <2> HIDE DEF kept
  <2> QED
    BY <1>3, <2>3, <2>4, <2>5, <2>6
<1>6. \A g \in FieldsOf(v) \ {f} : ColumnsFor(cols2, f) \cap ColumnsFor(cols2, g) = {}
  <2> TAKE g \in FieldsOf(v) \ {f}
  <2>1. f.name \notin ColumnsFor(cols2, g)
    <3>1. g.name # f.name /\ g.num # f.num
      BY FieldsDiffer
    <3> QED
      BY <1>3, <3>1 DEF ColumnsFor
  <2> QED
    BY <1>4, <2>1
<1> QED
  BY <1>1, <1>2, <1>4, <1>5, <1>6

\* So the keys are clear still, and what is ahead of the script too.
LEMMA KeyStaysClear ==
  ASSUME NEW v \in DeclaredVersions, NEW cols, KeysAreClear(v, cols),
         NEW f \in FieldsOf(v), f.key, NEW x, x.old \in ColumnsFor(cols, f), x.name = f.name,
         x.name \notin DOMAIN cols \ {x.old}, NEW column, column.num = f.num,
         NEW cols2, cols2 = Changed(cols, x, column)
  PROVE  /\ KeysAreClear(v, cols2)
         /\ \A g \in FieldsOf(v) : \A old :
              IsSource(v, cols, old, g) => IsSource(v, cols2, old, g)
<1>1. /\ ColumnsFor(cols, f) = {x.old} /\ ColumnsFor(cols2, f) = {f.name}
      /\ \A g \in FieldsOf(v) \ {f} :
           /\ ColumnsFor(cols2, g) = ColumnsFor(cols, g)
           /\ ColumnsFor(cols, f) \cap ColumnsFor(cols, g) = {}
           /\ ColumnsFor(cols2, f) \cap ColumnsFor(cols2, g) = {}
  BY KeyIsChanged
<1>2. ASSUME NEW h \in FieldsOf(v), h.key
      PROVE  /\ \A m, n \in ColumnsFor(cols2, h) : m = n
             /\ \A g \in FieldsOf(v) \ {h} : ColumnsFor(cols2, h) \cap ColumnsFor(cols2, g) = {}
  <2>1. /\ \A m, n \in ColumnsFor(cols, h) : m = n
        /\ \A g \in FieldsOf(v) \ {h} : ColumnsFor(cols, h) \cap ColumnsFor(cols, g) = {}
    BY <1>2 DEF KeysAreClear
  <2>2. CASE h = f
    BY <1>1, <2>2
  <2>3. CASE h # f
    <3>1. \A g \in FieldsOf(v) \ {h} : ColumnsFor(cols2, h) \cap ColumnsFor(cols2, g) = {}
      <4> TAKE g \in FieldsOf(v) \ {h}
      <4>1. CASE g = f
        BY <1>1, <2>3, <4>1
      <4>2. CASE g # f
        BY <1>1, <2>1, <2>3, <4>2
      <4> QED
        BY <4>1, <4>2
    <3>2. ColumnsFor(cols2, h) = ColumnsFor(cols, h)
      BY <1>1, <2>3
    <3> QED
      BY <2>1, <3>1, <3>2
  <2> QED
    BY <2>2, <2>3
<1>3. KeysAreClear(v, cols2)
  BY <1>2 DEF KeysAreClear
<1>4. DOMAIN cols2 = (DOMAIN cols \ {x.old}) \cup {f.name}
  BY DEF Changed
<1>5. f.name \in FieldNames(v)
  BY FieldsDiffer
<1>6. ASSUME NEW g \in FieldsOf(v), NEW old, IsSource(v, cols, old, g)
      PROVE  IsSource(v, cols2, old, g)
  <2>1. CASE old \notin DOMAIN cols /\ old \notin FieldNames(v)
    BY <1>4, <1>5, <2>1 DEF IsSource
  <2>2. CASE old \in ColumnsFor(cols, g) /\ g # f
    BY <1>1, <2>2 DEF IsSource
  <2>3. CASE old \in ColumnsFor(cols, g) /\ g = f
    <3>1. old = x.old
      BY <1>1, <2>3
    <3>2. CASE old = f.name
      BY <1>1, <2>3, <3>2 DEF IsSource
    <3>3. CASE old # f.name
      <4>1. old \notin DOMAIN cols2
        BY <1>4, <3>1, <3>3
      <4>2. old \notin FieldNames(v)
        <5> SUFFICES ASSUME old \in FieldNames(v) PROVE FALSE
          OBVIOUS
        <5>1. PICK h \in FieldsOf(v) : old = h.name
          BY FieldsDiffer
        <5>2. h \in FieldsOf(v) \ {f} /\ old \in ColumnsFor(cols, h)
          BY <2>3, <3>3, <5>1 DEF ColumnsFor
        <5> QED
          BY <1>1, <2>3, <5>2
      <4> QED
        BY <4>1, <4>2 DEF IsSource
    <3> QED
      BY <3>2, <3>3
  <2> QED
    BY <1>6, <2>1, <2>2, <2>3 DEF IsSource
<1> QED
  BY <1>3, <1>6

\* And it is read from the column of its name, every other field as before.
LEMMA KeyIsReadStill ==
  ASSUME NEW v \in DeclaredVersions, NEW cols, KeysAreClear(v, cols),
         NEW f \in FieldsOf(v), f.key, NEW x, x.old \in ColumnsFor(cols, f), x.name = f.name,
         x.name \notin DOMAIN cols \ {x.old}, NEW column, column.num = f.num,
         NEW cols2, cols2 = Changed(cols, x, column), NEW g \in FieldsOf(v),
         IsAgreed(v, cols, g)
  PROVE  /\ IsAgreed(v, cols2, g) /\ ReadFrom(v, cols2, g) \in DOMAIN cols2
         /\ IF ReadFrom(v, cols2, g) \in DOMAIN cols \ {x.old}
              THEN ReadFrom(v, cols, g) = ReadFrom(v, cols2, g)
              ELSE ReadFrom(v, cols, g) = x.old
<1>1. /\ ColumnsFor(cols, f) = {x.old} /\ ColumnsFor(cols2, f) = {f.name}
      /\ \A h \in FieldsOf(v) \ {f} :
           /\ ColumnsFor(cols2, h) = ColumnsFor(cols, h)
           /\ \A n \in ColumnsFor(cols, h) :
                n \in DOMAIN cols \ {x.old} /\ cols2[n].num = cols[n].num
           /\ ColumnsFor(cols, f) \cap ColumnsFor(cols, h) = {}
           /\ ColumnsFor(cols2, f) \cap ColumnsFor(cols2, h) = {}
  BY KeyIsChanged
<1>2. KeysAreClear(v, cols2)
  BY KeyStaysClear
<1>3. DOMAIN cols2 = (DOMAIN cols \ {x.old}) \cup {f.name}
  BY DEF Changed
<1>4. CASE g = f
  <2>1. SyncColumns(v, cols)[f.name] = {x.old}
    BY <1>1, KeyIsRead
  <2>2. SyncColumns(v, cols2)[f.name] = {f.name} /\ ShadowColumns(v, cols2)[f.name] = {f.name}
    BY <1>1, <1>2, KeyIsRead
  <2>3. IsAgreed(v, cols2, f)
    BY <2>2 DEF IsAgreed
  <2>4. ReadFrom(v, cols, f) = x.old /\ ReadFrom(v, cols2, f) = f.name
    BY <2>1, <2>2 DEF ReadFrom
  <2> QED
    BY <1>3, <1>4, <2>3, <2>4
<1>5. CASE g # f
  <2>1. /\ SyncColumns(v, cols2)[g.name] = SyncColumns(v, cols)[g.name]
        /\ ShadowColumns(v, cols2)[g.name] = ShadowColumns(v, cols)[g.name]
    BY <1>1, <1>5, OthersAreRead
  <2>2. IsAgreed(v, cols2, g) /\ ReadFrom(v, cols2, g) = ReadFrom(v, cols, g)
    BY <2>1 DEF IsAgreed, ReadFrom
  <2>3. SyncColumns(v, cols)[g.name] \subseteq ColumnsFor(cols, g)
    BY SyncApart
  <2>4. ReadFrom(v, cols, g) \in ColumnsFor(cols, g)
    BY <2>3 DEF ReadFrom, IsAgreed
  <2>5. ReadFrom(v, cols, g) \in DOMAIN cols \ {x.old}
    BY <1>1, <1>5, <2>4
  <2> QED
    BY <1>3, <2>2, <2>5
<1> QED
  BY <1>4, <1>5

\* The statement keeps what is read, and what is ahead.
LEMMA KeyAltered ==
  ASSUME NEW v \in DeclaredVersions, NEW t, IsKept(t), KeysAreClear(v, t.def.cols),
         NEW f \in FieldsOf(v), f.key, NEW column, NEW old, IsSource(v, t.def.cols, old, f),
         NEW x, x = ToKeyColumn(column, old, f), Alters(t, {x}, TRUE)
  PROVE  /\ Carried(v, t, AlteredTable(t, {x}))
         /\ KeysAreClear(v, AlteredTable(t, {x}).def.cols)
         /\ \A g \in FieldsOf(v) : \A o :
              IsSource(v, t.def.cols, o, g) => IsSource(v, AlteredTable(t, {x}).def.cols, o, g)
<1> DEFINE clauses == {x}
           cols == t.def.cols
           def2 == Altered(t.def, clauses)
           from == AlteredFrom(t.def, clauses)
           kept == DOMAIN cols \ {x.old}
<1>1. x.op = "change column" /\ x.old = old /\ x.name = f.name /\ x.num = f.num
  <2> DEFINE c == ChangeColumn(old, column, f)
  <2>1. c = [op |-> "change column", old |-> old, name |-> f.name,
             type |-> AlignedColumnType(column.type, f.type), attrs |-> f.attrs, num |-> f.num]
    BY DEF ChangeColumn
  <2>2. x = [c EXCEPT !.type = f.type]
    BY DEF ToKeyColumn
  <2> HIDE DEF c
  <2> QED
    BY <2>1, <2>2
<1>2. Executes(t.def, clauses) /\ AllStorable(def2, t.rows, from)
  <2>1. Altered(t.def, clauses) = AlteredTable(t, clauses).def
    BY AlteredIsKept
  <2> QED
    BY <2>1 DEF Alters
<1>3. PICK col : col.num = f.num /\ def2.cols = Changed(cols, x, col)
  <2>1. /\ Altered(t.def, {x}).cols = Changed(t.def.cols, x, NewColumn(t.def, x))
        /\ NewColumn(t.def, x).num = x.num
    BY <1>1, <1>2, OneChange
  <2> QED
    BY <1>1, <2>1
<1>4. /\ x.old \in DOMAIN cols /\ x.name \notin kept
      /\ from = [n \in kept \cup {x.name} |-> IF n \in kept THEN n ELSE x.old]
  <2>1. /\ x.old \in DOMAIN t.def.cols /\ x.name \notin DOMAIN t.def.cols \ {x.old}
        /\ AlteredFrom(t.def, {x}) = ChangedFrom(t.def.cols, x)
    BY <1>1, <1>2, OneChange
  <2> QED
    BY <2>1 DEF ChangedFrom
<1>5. x.old \in ColumnsFor(cols, f)
  BY <1>1, <1>4 DEF IsSource
<1>6. AlteredTable(t, clauses).def = def2
  BY AlteredIsKept
<1>7. /\ KeysAreClear(v, def2.cols)
      /\ \A g \in FieldsOf(v) : \A o : IsSource(v, cols, o, g) => IsSource(v, def2.cols, o, g)
  <2> DEFINE cols2 == def2.cols
  <2>1. /\ x.old \in ColumnsFor(cols, f) /\ x.name = f.name
        /\ x.name \notin DOMAIN cols \ {x.old} /\ cols2 = Changed(cols, x, col)
    BY <1>1, <1>3, <1>4, <1>5
  <2> HIDE DEF cols2, cols
  <2>2. KeysAreClear(v, cols2)
    BY <1>3, <2>1, KeyStaysClear DEF cols
  <2>3. \A g \in FieldsOf(v) : \A o : IsSource(v, cols, o, g) => IsSource(v, cols2, o, g)
    BY <1>3, <2>1, KeyStaysClear DEF cols
  <2> QED
    BY <2>2, <2>3 DEF cols2
<1>8. DOMAIN def2.cols = kept \cup {x.name} /\ DOMAIN from = kept \cup {x.name}
  BY <1>3, <1>4 DEF Changed
<1>9. ASSUME NEW g \in FieldsOf(v), IsAgreed(v, cols, g)
      PROVE  /\ IsAgreed(v, def2.cols, g)
             /\ ReadFrom(v, def2.cols, g) \in DOMAIN def2.cols
             /\ ReadFrom(v, def2.cols, g) \in DOMAIN from
             /\ from[ReadFrom(v, def2.cols, g)] = ReadFrom(v, cols, g)
  <2> HIDE DEF def2
  <2>1. /\ IsAgreed(v, def2.cols, g) /\ ReadFrom(v, def2.cols, g) \in DOMAIN def2.cols
        /\ IF ReadFrom(v, def2.cols, g) \in kept
             THEN ReadFrom(v, cols, g) = ReadFrom(v, def2.cols, g)
             ELSE ReadFrom(v, cols, g) = x.old
    <3> DEFINE cols2 == def2.cols
    <3>1. /\ x.old \in ColumnsFor(cols, f) /\ x.name = f.name
          /\ x.name \notin DOMAIN cols \ {x.old} /\ cols2 = Changed(cols, x, col)
      BY <1>1, <1>3, <1>4, <1>5
    <3>2. KeysAreClear(v, cols)
      OBVIOUS
    <3> HIDE DEF cols2, cols
    <3> QED
      BY <1>3, <1>9, <3>1, <3>2, KeyIsReadStill DEF cols2
  <2> HIDE DEF kept, from
  <2> QED
    BY <1>4, <1>8, <2>1
<1>10. Carried(v, t, AlteredTable(t, clauses))
  BY <1>2, <1>9, AlteredIsCarried
<1> HIDE DEF def2
<1> QED
  BY <1>6, <1>7, <1>10

\* ADD INDEX leaves the columns as they are.
LEMMA IndexAdded ==
  ASSUME NEW v \in DeclaredVersions, NEW t, IsKept(t), AreColumns(t.def.cols),
         NEW x, x.op = "add index", Alters(t, {x}, TRUE)
  PROVE  /\ Carried(v, t, AlteredTable(t, {x}))
         /\ AlteredTable(t, {x}).def.cols = t.def.cols
<1> DEFINE clauses == {x}
           cols == t.def.cols
           def2 == Altered(t.def, clauses)
           from == AlteredFrom(t.def, clauses)
<1>1. t.def.cols = [n \in DOMAIN t.def.cols |-> t.def.cols[n]]
  BY DEF AreColumns
<1>2. def2.cols = cols /\ from = [n \in DOMAIN cols |-> n]
  BY <1>1, NoChange
<1>3. AlteredTable(t, clauses).def = def2
  BY AlteredIsKept
<1>4. AllStorable(def2, t.rows, from)
  BY <1>3 DEF Alters
<1>5. ASSUME NEW g \in FieldsOf(v), IsAgreed(v, cols, g)
      PROVE  ReadFrom(v, cols, g) \in DOMAIN cols
  <2>1. SyncColumns(v, cols)[g.name] \subseteq ColumnsFor(cols, g)
    BY SyncApart
  <2> QED
    BY <1>5, <2>1 DEF ReadFrom, IsAgreed, ColumnsFor
<1>6. \A g \in FieldsOf(v) : IsAgreed(v, cols, g) =>
        /\ IsAgreed(v, def2.cols, g)
        /\ ReadFrom(v, def2.cols, g) \in DOMAIN def2.cols
        /\ ReadFrom(v, def2.cols, g) \in DOMAIN from
        /\ from[ReadFrom(v, def2.cols, g)] = ReadFrom(v, cols, g)
  <2> TAKE g \in FieldsOf(v)
  <2> HIDE DEF def2, from, cols
  <2> QED
    BY <1>2, <1>5
<1>7. Carried(v, t, AlteredTable(t, clauses))
  BY <1>4, <1>6, AlteredIsCarried
<1> QED
  BY <1>2, <1>3, <1>7

-----------------------------------------------------------------------------
(***************************************************************************)
(* What synchronisation makes of them                                      *)
(***************************************************************************)
\* What is planned for a field that finds these columns.
ClauseFor(cols, found, f) ==
  LET old == CHOOSE n \in found : TRUE
  IN IF found = {} THEN {AddColumn(f)}
     ELSE IF InPlace(cols, old, f) THEN {} ELSE {ChangeColumn(old, cols[old], f)}

\* It plans with the columns it matches.
LEMMA PlannedOnce ==
  ASSUME NEW v \in DeclaredVersions, NEW cols, ~NumberIsAmbiguous(cols),
         NEW f \in FieldsOf(v), NEW left \in SUBSET DOMAIN cols, NEW p, p.left = left,
         p = [left |-> p.left, clauses |-> p.clauses, refused |-> p.refused],
         NEW q, q = PlanField(cols, p, f),
         NEW found, found = Candidates(cols, left, f)
  PROVE  /\ q.left = left \ found
         /\ q = [left |-> q.left, clauses |-> q.clauses, refused |-> q.refused]
         /\ q.clauses = p.clauses \cup ClauseFor(cols, found, f)
         /\ \A m, n \in found : m = n
<1> DEFINE old == CHOOSE n \in found : TRUE
           one == AddColumn(f)
           two == ChangeColumn(old, cols[old], f)
<1>1. \A m, n \in found : m = n
  <2>1. f.num # 0
    BY FieldsDiffer
  <2>2. \A m, n \in left : cols[m].num = f.num /\ cols[n].num = f.num => m = n
    BY <2>1 DEF NumberIsAmbiguous
  <2> QED
    BY <2>2 DEF Candidates
<1>2. found # {} => found = {old}
  BY <1>1
<1>3. \/ found = {} /\ q = [p EXCEPT !.clauses = p.clauses \cup {one}]
      \/ found # {} /\ InPlace(cols, old, f) /\ q = [p EXCEPT !.left = p.left \ {old}]
      \/ /\ found # {} /\ ~InPlace(cols, old, f)
         /\ q = [left |-> p.left \ {old}, clauses |-> p.clauses \cup {two},
                 refused |-> p.refused \/ Inconvertible(cols[old], f)]
  BY DEF PlanField
<1>4. ClauseFor(cols, found, f) =
        IF found = {} THEN {one} ELSE IF InPlace(cols, old, f) THEN {} ELSE {two}
  BY DEF ClauseFor
<1> HIDE DEF one, two, old
<1>5. CASE found = {} /\ q = [p EXCEPT !.clauses = p.clauses \cup {one}]
  <2>1. q = [left |-> p.left, clauses |-> p.clauses \cup {one}, refused |-> p.refused]
    BY <1>5
  <2> QED
    BY <1>1, <1>4, <1>5, <2>1
<1>6. CASE found # {} /\ InPlace(cols, old, f) /\ q = [p EXCEPT !.left = p.left \ {old}]
  <2>1. q = [left |-> p.left \ {old}, clauses |-> p.clauses, refused |-> p.refused]
    BY <1>6
  <2> QED
    BY <1>1, <1>2, <1>4, <1>6, <2>1
<1>7. CASE /\ found # {} /\ ~InPlace(cols, old, f)
           /\ q = [left |-> p.left \ {old}, clauses |-> p.clauses \cup {two},
                   refused |-> p.refused \/ Inconvertible(cols[old], f)]
  BY <1>1, <1>2, <1>4, <1>7
<1> QED
  BY <1>3, <1>5, <1>6, <1>7

\* So the clauses about columns are one for each field, at most, about the column it is read
\* from.
LEMMA PlannedAsMatched ==
  ASSUME NEW v \in DeclaredVersions, NEW cols, ~NumberIsAmbiguous(cols)
  PROVE  /\ \A x : x \in ColumnClauses(v, cols).clauses
               <=> \E f \in FieldsOf(v) : x \in ClauseFor(cols, SyncColumns(v, cols)[f.name], f)
         /\ \A f \in FieldsOf(v) : \A m, n \in SyncColumns(v, cols)[f.name] : m = n
<1> DEFINE size == Len(v.fields)
           field(k) == v.fields[k]
<1>1. PICK g : MatchesUpTo(v, cols, size, g) /\ SyncColumns(v, cols) = g[size].of
  BY DeclaredFields, MatchesAreUnfolded
<1>2. size \in Nat /\ \A i \in 0..size : MatchedSoFar(v, cols, g, i)
  BY <1>1, DeclaredFields, FieldsAreMatched
<1>3. \A k \in 1..size : SyncColumns(v, cols)[field(k).name] = Found(v, cols, g, k)
  <2>1. size \in 0..size /\ MatchedSoFar(v, cols, g, size)
    BY <1>2
  <2> QED
    BY <1>1, <2>1 DEF MatchedSoFar
<1>4. \E p : PlannedUpTo(v, cols, size, p)
  BY <1>2, PlannedExist
<1> DEFINE planned == CHOOSE p : PlannedUpTo(v, cols, size, p)
<1>5. ColumnClauses(v, cols) = planned[size]
  BY DEF ColumnClauses, PlannedUpTo, NoFieldPlanned
<1>6. PICK p : PlannedUpTo(v, cols, size, p) /\ ColumnClauses(v, cols) = p[size]
  BY <1>4, <1>5
<1> HIDE DEF planned
<1>7. \A i \in 0..size : p[i] = IF i = 0 THEN NoFieldPlanned(cols)
                                         ELSE PlanField(cols, p[i - 1], field(i))
  BY <1>6 DEF PlannedUpTo
<1>8. \A k \in 1..size : field(k) \in FieldsOf(v)
  BY FieldsDiffer
<1>9. \A i \in 0..size : g[i] = IF i = 0 THEN NoneMatched(cols)
                                         ELSE MatchField(cols, g[i - 1], field(i))
  BY <1>1 DEF MatchesUpTo
<1> DEFINE clause(k) == ClauseFor(cols, Found(v, cols, g, k), field(k))
           Good(i) ==
             /\ p[i] = [left |-> p[i].left, clauses |-> p[i].clauses, refused |-> p[i].refused]
             /\ p[i].left = g[i].left /\ p[i].left \in SUBSET DOMAIN cols
             /\ \A x : x \in p[i].clauses <=> \E k \in 1..i : x \in clause(k)
             /\ \A k \in 1..i : \A m, n \in Found(v, cols, g, k) : m = n
<1> HIDE DEF size, clause
<1>10. Good(0)
  <2>1. p[0] = NoFieldPlanned(cols) /\ g[0] = NoneMatched(cols)
    BY <1>2, <1>7, <1>9
  <2> QED
    BY <2>1 DEF NoFieldPlanned, NoneMatched
<1>11. ASSUME NEW i \in 1..size, Good(i - 1)
       PROVE  Good(i)
  <2> DEFINE f == field(i)
             before == p[i - 1]
             after == p[i]
             left == g[i - 1].left
             found == Found(v, cols, g, i)
  <2>1. f \in FieldsOf(v) /\ i \in 0..size /\ i # 0
    BY <1>2, <1>8
  <2>2. after = PlanField(cols, before, f) /\ g[i] = MatchField(cols, g[i - 1], f)
    BY <1>7, <1>9, <2>1
  <2>3. found = Candidates(cols, left, f)
    BY DEF Found
  <2>4. g[i].left = left \ found
    BY <2>2, <2>3 DEF MatchField
  <2>5. /\ before = [left |-> before.left, clauses |-> before.clauses, refused |-> before.refused]
        /\ before.left = left /\ left \in SUBSET DOMAIN cols
        /\ \A x : x \in before.clauses <=> \E k \in 1..(i - 1) : x \in clause(k)
        /\ \A k \in 1..(i - 1) : \A m, n \in Found(v, cols, g, k) : m = n
    BY <1>11
  <2>6. clause(i) = ClauseFor(cols, found, f)
    BY DEF clause
  <2> HIDE DEF f, before, after, left, found, field
  <2>7. /\ after.left = left \ found
        /\ after = [left |-> after.left, clauses |-> after.clauses, refused |-> after.refused]
        /\ after.clauses = before.clauses \cup ClauseFor(cols, found, f)
        /\ \A m, n \in found : m = n
    BY <2>1, <2>2, <2>3, <2>5, PlannedOnce
  <2>8. \A k : k \in 1..i <=> k \in 1..(i - 1) \/ k = i
    BY <1>2
  <2>9. \A x : x \in after.clauses <=> \E k \in 1..i : x \in clause(k)
    BY <2>5, <2>6, <2>7, <2>8
  <2>10. \A k \in 1..i : \A m, n \in Found(v, cols, g, k) : m = n
    BY <2>5, <2>7, <2>8 DEF found
  <2>11. after.left = g[i].left /\ after.left \in SUBSET DOMAIN cols
    BY <2>4, <2>5, <2>7
  <2> QED
    BY <2>7, <2>9, <2>10, <2>11 DEF after
<1> HIDE DEF Good
<1> DEFINE T == {i \in 0..size : ~Good(i)}
<1>12. T = {}
  <2> SUFFICES ASSUME T # {} PROVE FALSE
    OBVIOUS
  <2>1. T \in SUBSET Nat
    BY <1>2
  <2>2. PICK i \in T : \A m \in T : i <= m
    BY <2>1, LeastNumber
  <2>3. i \in 1..size /\ i - 1 \in 0..size /\ ~(i <= i - 1)
    BY <1>2, <1>10, <2>2
  <2>4. Good(i - 1)
    BY <2>2, <2>3
  <2> QED
    BY <1>11, <2>2, <2>3, <2>4
<1>13. Good(size)
  BY <1>2, <1>12
<1>14. /\ \A x : x \in p[size].clauses <=> \E k \in 1..size : x \in clause(k)
       /\ \A k \in 1..size : \A m, n \in Found(v, cols, g, k) : m = n
  BY <1>13 DEF Good
<1>15. \A k \in 1..size : clause(k) = ClauseFor(cols, SyncColumns(v, cols)[field(k).name], field(k))
  BY <1>3 DEF clause
<1>16. \A f \in FieldsOf(v) : \E k \in 1..size : f = field(k)
  BY FieldsDiffer DEF size
<1> HIDE DEF field
<1>17. \A x : x \in p[size].clauses
          <=> \E f \in FieldsOf(v) : x \in ClauseFor(cols, SyncColumns(v, cols)[f.name], f)
  <2> TAKE x
  <2>1. ASSUME x \in p[size].clauses
        PROVE  \E f \in FieldsOf(v) : x \in ClauseFor(cols, SyncColumns(v, cols)[f.name], f)
    <3>1. PICK k \in 1..size : x \in clause(k)
      BY <1>14, <2>1
    <3> QED
      BY <1>8, <1>15, <3>1
  <2>2. ASSUME NEW f \in FieldsOf(v), x \in ClauseFor(cols, SyncColumns(v, cols)[f.name], f)
        PROVE  x \in p[size].clauses
    <3>1. PICK k \in 1..size : f = field(k)
      BY <1>16
    <3>2. x \in clause(k)
      BY <1>15, <2>2, <3>1
    <3> QED
      BY <1>14, <3>2
  <2> QED
    BY <2>1, <2>2
<1>18. \A f \in FieldsOf(v) : \A m, n \in SyncColumns(v, cols)[f.name] : m = n
  <2> TAKE f \in FieldsOf(v)
  <2>1. PICK k \in 1..size : f = field(k)
    BY <1>16
  <2> QED
    BY <1>3, <1>14, <2>1
<1> QED
  BY <1>6, <1>17, <1>18

\* The clauses about columns are one for each field, at most.
IsOfFields(v, cols, clauses) ==
  \A x : x \in OfColumns(clauses)
    <=> \E f \in FieldsOf(v) : x \in ClauseFor(cols, SyncColumns(v, cols)[f.name], f)

\* The two ALTERs of a plan have the planned clauses about columns and no other.
LEMMA PlannedColumns ==
  ASSUME NEW v \in DeclaredVersions, NEW t, NEW e, ~NumberIsAmbiguous(t.cols), NEW both,
         both = Plan(v, t, e).columns \cup Plan(v, t, e).primaryKey
  PROVE  IsOfFields(v, t.cols, both)
<1> DEFINE clauses == ColumnClauses(v, t.cols).clauses
           waiting == {c \in clauses : WaitsForKey(v, t, c)}
           missing == {AddIndex(i, v.indexes[i]) : i \in DOMAIN v.indexes \ DOMAIN t.indexes}
           late == {x \in missing : \E c \in waiting : c.name \in ToSet(x.index.cols)}
           first == (clauses \ waiting) \cup (missing \ late)
           second == IF NeedsPrimaryKey(v, t)
                       THEN waiting \cup {AddPrimaryKey(v.pk)} \cup late ELSE {}
<1>1. \A x : x \in clauses
        <=> \E f \in FieldsOf(v) : x \in ClauseFor(t.cols, SyncColumns(v, t.cols)[f.name], f)
  BY PlannedAsMatched
<1>2. \A x \in clauses : x.op \in {"add column", "change column"}
  <2> TAKE x \in clauses
  <2>1. PICK f \in FieldsOf(v) : x \in ClauseFor(t.cols, SyncColumns(v, t.cols)[f.name], f)
    BY <1>1
  <2>2. x = AddColumn(f) \/ \E old, column : x = ChangeColumn(old, column, f)
    BY <2>1 DEF ClauseFor
  <2>3. \A g : AddColumn(g).op = "add column"
    BY DEF AddColumn
  <2>4. \A old, column, g : ChangeColumn(old, column, g).op = "change column"
    BY DEF ChangeColumn
  <2> QED
    BY <2>2, <2>3, <2>4
<1>3. \A x \in missing : x.op = "add index"
  <2>1. \A i, index : AddIndex(i, index).op = "add index"
    BY DEF AddIndex
  <2> QED
    BY <2>1
<1>4. AddPrimaryKey(v.pk).op = "add primary key"
  BY DEF AddPrimaryKey
<1>5. both = first \cup second
  <2>1. Plan(v, t, e).columns = first /\ Plan(v, t, e).primaryKey = second
    BY DEF Plan
  <2> QED
    BY <2>1
<1>6. ~NeedsPrimaryKey(v, t) => waiting = {}
  BY DEF WaitsForKey
<1>7. waiting \subseteq clauses /\ late \subseteq missing
  OBVIOUS
<1> HIDE DEF clauses, waiting, missing, late
<1>8. \A x : x \in OfColumns(both) <=> x \in clauses
  BY <1>2, <1>3, <1>4, <1>5, <1>6, <1>7 DEF OfColumns
<1> QED
  BY <1>1, <1>8 DEF IsOfFields

\* A column is read by one field at most.
LEMMA ReadOnce ==
  ASSUME NEW v \in DeclaredVersions, NEW cols, ~NumberIsAmbiguous(cols), NEW f \in FieldsOf(v),
         SyncColumns(v, cols)[f.name] # {}
  PROVE  /\ SyncColumns(v, cols)[f.name] = {ReadFrom(v, cols, f)}
         /\ ReadFrom(v, cols, f) \in DOMAIN cols
         /\ \A h \in FieldsOf(v) : SyncColumns(v, cols)[h.name] # {} =>
              (ReadFrom(v, cols, h) = ReadFrom(v, cols, f) => h = f)
<1>1. \A h \in FieldsOf(v) : \A m, n \in SyncColumns(v, cols)[h.name] : m = n
  BY PlannedAsMatched
<1>2. \A h \in FieldsOf(v) : SyncColumns(v, cols)[h.name] # {} =>
        SyncColumns(v, cols)[h.name] = {ReadFrom(v, cols, h)}
  BY <1>1 DEF ReadFrom
<1>3. SyncColumns(v, cols)[f.name] \subseteq ColumnsFor(cols, f)
  BY SyncApart
<1>4. ReadFrom(v, cols, f) \in DOMAIN cols
  BY <1>2, <1>3 DEF ColumnsFor
<1>5. \A g, h \in FieldsOf(v) : g # h =>
        SyncColumns(v, cols)[g.name] \cap SyncColumns(v, cols)[h.name] = {}
  BY SyncApart
<1>6. ASSUME NEW h \in FieldsOf(v), SyncColumns(v, cols)[h.name] # {},
             ReadFrom(v, cols, h) = ReadFrom(v, cols, f), h # f
      PROVE  FALSE
  <2>1. SyncColumns(v, cols)[h.name] \cap SyncColumns(v, cols)[f.name] = {}
    BY <1>5, <1>6
  <2> QED
    BY <1>2, <1>6, <2>1
<1> QED
  BY <1>2, <1>4, <1>6

\* The clause of a field, by its kind.
IsAdded(v, cols, f) == SyncColumns(v, cols)[f.name] = {}
IsInPlace(v, cols, f) == ~IsAdded(v, cols, f) /\ InPlace(cols, ReadFrom(v, cols, f), f)

\* What is planned for a field, by where it is read from.
LEMMA ClauseOfField ==
  ASSUME NEW v, NEW cols, NEW f
  PROVE  ClauseFor(cols, SyncColumns(v, cols)[f.name], f) =
           IF IsAdded(v, cols, f) THEN {AddColumn(f)}
           ELSE IF IsInPlace(v, cols, f) THEN {}
           ELSE {ChangeColumn(ReadFrom(v, cols, f), cols[ReadFrom(v, cols, f)], f)}
BY DEF ClauseFor, IsAdded, IsInPlace, ReadFrom

\* Every field has the column of its name, which is the one it was read from if it was; other
\* columns stay, and were no field's.
IsSynchronised(v, cols, cols2, from) ==
  /\ \A f \in FieldsOf(v) :
       /\ f.name \in DOMAIN cols2 /\ cols2[f.name].num = f.num
       /\ SyncColumns(v, cols)[f.name] # {} =>
            f.name \in DOMAIN from /\ from[f.name] = ReadFrom(v, cols, f)
  /\ \A n \in DOMAIN cols2 : n \notin FieldNames(v) =>
       /\ n \in DOMAIN cols /\ cols2[n] = cols[n]
       /\ \A f \in FieldsOf(v) : n \notin SyncColumns(v, cols)[f.name]

\* After the planned clauses the table is like that.
LEMMA Synchronised ==
  ASSUME NEW v \in DeclaredVersions, NEW def, ~NumberIsAmbiguous(def.cols), NEW clauses,
         IsOfFields(v, def.cols, clauses), Executes(def, clauses),
         NEW cols2, cols2 = Altered(def, clauses).cols, NEW from, from = AlteredFrom(def, clauses)
  PROVE  IsSynchronised(v, def.cols, cols2, from)
<1> DEFINE cols == def.cols
           all == OfColumns(clauses)
           kept == DOMAIN cols \ Replaced(clauses)
           changed == {c \in clauses : c.op = "change column"}
           clauseOf(n) == CHOOSE c \in all : c.name = n
           column(c) == [type |-> c.type, attrs |-> c.attrs, num |-> c.num,
                         born |-> IF c.op = "change column" THEN cols[c.old].born
                                    ELSE [num |-> c.num, name |-> c.name]]
           changeOf(n) == CHOOSE c \in changed : c.name = n
           one(f) == AddColumn(f)
           two(f) == ChangeColumn(ReadFrom(v, cols, f), cols[ReadFrom(v, cols, f)], f)
<1>1. ASSUME NEW f
      PROVE  /\ one(f).op = "add column" /\ one(f).name = f.name /\ one(f).num = f.num
             /\ two(f).op = "change column" /\ two(f).name = f.name /\ two(f).num = f.num
             /\ two(f).old = ReadFrom(v, cols, f)
  BY DEF AddColumn, ChangeColumn
<1>2. \A x : x \in all
        <=> \E f \in FieldsOf(v) : \/ IsAdded(v, cols, f) /\ x = one(f)
                                   \/ ~IsAdded(v, cols, f) /\ ~IsInPlace(v, cols, f) /\ x = two(f)
  <2>1. ASSUME NEW x, NEW f \in FieldsOf(v)
        PROVE  x \in ClauseFor(cols, SyncColumns(v, cols)[f.name], f)
                 <=> \/ IsAdded(v, cols, f) /\ x = one(f)
                     \/ ~IsAdded(v, cols, f) /\ ~IsInPlace(v, cols, f) /\ x = two(f)
    <3> HIDE DEF one, two
    <3>1. ClauseFor(cols, SyncColumns(v, cols)[f.name], f) =
            IF IsAdded(v, cols, f) THEN {one(f)}
            ELSE IF IsInPlace(v, cols, f) THEN {} ELSE {two(f)}
      BY ClauseOfField DEF one, two
    <3> QED
      BY <3>1
  <2>2. \A x : x \in all
          <=> \E f \in FieldsOf(v) : x \in ClauseFor(cols, SyncColumns(v, cols)[f.name], f)
    BY DEF IsOfFields
  <2> HIDE DEF one, two, all
  <2> QED
    BY <2>1, <2>2
<1>3. /\ \A c, d \in all : c # d => c.name # d.name
      /\ \A c \in all : c.name \notin kept
  BY DEF Executes
<1>4. /\ DOMAIN cols2 = kept \cup {c.name : c \in all}
      /\ \A n \in kept : cols2[n] = cols[n]
      /\ \A n \in DOMAIN cols2 \ kept : cols2[n] = column(clauseOf(n))
  <2>1. cols2 = [n \in kept \cup {c.name : c \in all} |->
                   IF n \in kept THEN cols[n] ELSE column(clauseOf(n))]
    BY DEF Altered
  <2> HIDE DEF kept, column, clauseOf
  <2> QED
    BY <2>1
<1>5. changed = {c \in all : c.op = "change column"}
  BY DEF OfColumns
<1>6. Replaced(clauses) = {c.old : c \in changed}
  BY DEF Replaced
<1>7. /\ DOMAIN from = kept \cup {c.name : c \in changed}
      /\ \A n \in kept : from[n] = n
      /\ \A n \in DOMAIN from \ kept : from[n] = changeOf(n).old
  <2> DEFINE stay == DOMAIN cols \ {c.old : c \in changed}
  <2>1. from = [n \in stay \cup {c.name : c \in changed} |->
                  IF n \in stay THEN n ELSE changeOf(n).old]
    BY DEF AlteredFrom
  <2>2. stay = kept
    BY <1>6
  <2> HIDE DEF stay, kept, changed, changeOf
  <2>3. DOMAIN from = stay \cup {c.name : c \in changed}
    BY <2>1
  <2>4. \A n \in stay : from[n] = n
    BY <2>1
  <2>5. \A n \in DOMAIN from \ stay : from[n] = changeOf(n).old
    BY <2>1
  <2> QED
    BY <2>2, <2>3, <2>4, <2>5
<1>8. ASSUME NEW c \in all
      PROVE  c.name \in DOMAIN cols2 \ kept /\ cols2[c.name].num = c.num
  <2>1. clauseOf(c.name) = c
    BY <1>3
  <2>2. c.name \in DOMAIN cols2 \ kept
    BY <1>3, <1>4
  <2>3. column(c).num = c.num
    OBVIOUS
  <2> QED
    BY <1>4, <2>1, <2>2, <2>3
<1>9. ASSUME NEW c \in changed
      PROVE  c.name \in DOMAIN from /\ from[c.name] = c.old
  <2>1. c \in all /\ \A d \in changed : d \in all
    BY <1>5
  <2>2. changeOf(c.name) = c
    BY <1>3, <2>1
  <2>3. c.name \in DOMAIN from \ kept
    BY <1>3, <1>7, <2>1
  <2> QED
    BY <1>7, <2>2, <2>3
<1> HIDE DEF all, kept, changed, clauseOf, column, changeOf, one, two
<1>10. ASSUME NEW f \in FieldsOf(v)
       PROVE  /\ f.name \in DOMAIN cols2 /\ cols2[f.name].num = f.num
              /\ SyncColumns(v, cols)[f.name] # {} =>
                   f.name \in DOMAIN from /\ from[f.name] = ReadFrom(v, cols, f)
  <2>1. CASE IsAdded(v, cols, f)
    <3>1. one(f) \in all
      BY <1>2, <2>1
    <3>2. one(f).name = f.name /\ one(f).num = f.num
      BY <1>1
    <3>3. SyncColumns(v, cols)[f.name] = {}
      BY <2>1 DEF IsAdded
    <3>4. one(f).name \in DOMAIN cols2 /\ cols2[one(f).name].num = one(f).num
      BY <1>8, <3>1
    <3> QED
      BY <3>2, <3>3, <3>4
  <2>2. CASE ~IsAdded(v, cols, f) /\ ~IsInPlace(v, cols, f)
    <3>1. two(f) \in all
      BY <1>2, <2>2
    <3>2. two(f) \in changed
      BY <1>1, <1>5, <3>1
    <3> QED
      BY <1>1, <1>8, <1>9, <3>1, <3>2
  <2>3. CASE IsInPlace(v, cols, f)
    <3>1. /\ SyncColumns(v, cols)[f.name] # {} /\ ReadFrom(v, cols, f) = f.name
          /\ cols[f.name].num = f.num
      BY <2>3 DEF IsInPlace, IsAdded, InPlace
    <3>2. /\ f.name \in DOMAIN cols
          /\ \A h \in FieldsOf(v) : SyncColumns(v, cols)[h.name] # {} =>
               (ReadFrom(v, cols, h) = f.name => h = f)
      BY <3>1, ReadOnce
    <3>3. f.name \notin Replaced(clauses)
      <4> SUFFICES ASSUME NEW c \in changed, c.old = f.name
                   PROVE  FALSE
        BY <1>6
      <4>1. c \in all /\ c.op = "change column"
        BY <1>5
      <4>2. PICK h \in FieldsOf(v) :
              \/ IsAdded(v, cols, h) /\ c = one(h)
              \/ ~IsAdded(v, cols, h) /\ ~IsInPlace(v, cols, h) /\ c = two(h)
        BY <1>2, <4>1
      <4>3. ~IsAdded(v, cols, h) /\ ~IsInPlace(v, cols, h) /\ ReadFrom(v, cols, h) = f.name
        BY <1>1, <4>1, <4>2
      <4>4. h = f
        BY <3>2, <4>3 DEF IsAdded
      <4> QED
        BY <2>3, <4>3, <4>4
    <3>4. f.name \in kept
      BY <3>2, <3>3 DEF kept
    <3> QED
      BY <1>4, <1>7, <3>1, <3>4
  <2> QED
    BY <2>1, <2>2, <2>3
<1>11. ASSUME NEW n \in DOMAIN cols2, n \notin FieldNames(v)
       PROVE  /\ n \in DOMAIN cols /\ cols2[n] = cols[n]
              /\ \A f \in FieldsOf(v) : n \notin SyncColumns(v, cols)[f.name]
  <2>1. \A c \in all : c.name \in FieldNames(v)
    <3> TAKE c \in all
    <3>1. PICK h \in FieldsOf(v) : c = one(h) \/ c = two(h)
      BY <1>2
    <3>2. c.name = h.name
      BY <1>1, <3>1
    <3> QED
      BY <3>2, FieldsDiffer
  <2>2. n \in kept
    BY <1>4, <1>11, <2>1
  <2>3. n \in DOMAIN cols /\ n \notin Replaced(clauses)
    BY <2>2 DEF kept
  <2>4. ASSUME NEW f \in FieldsOf(v), n \in SyncColumns(v, cols)[f.name]
        PROVE  FALSE
    <3>1. n = ReadFrom(v, cols, f) /\ ~IsAdded(v, cols, f)
      BY <2>4, ReadOnce DEF IsAdded
    <3>2. n # f.name
      BY <1>11, FieldsDiffer
    <3>3. ~IsInPlace(v, cols, f)
      BY <3>1, <3>2 DEF IsInPlace, InPlace
    <3>4. two(f) \in all
      BY <1>2, <3>1, <3>3
    <3>5. two(f) \in changed /\ two(f).old = n
      BY <1>1, <1>5, <3>1, <3>4
    <3> QED
      BY <1>6, <2>3, <3>5
  <2> QED
    BY <1>4, <2>2, <2>3, <2>4
<1> QED
  BY <1>10, <1>11 DEF IsSynchronised

\* Where a number is ambiguous the plan is refused, whatever the fields are.
LEMMA AmbiguousIsRefused ==
  ASSUME NEW v \in DeclaredVersions, NEW cols, NumberIsAmbiguous(cols)
  PROVE  ColumnClauses(v, cols).refused
<1> DEFINE size == Len(v.fields)
<1>1. size \in Nat
  BY DeclaredFields
<1>2. \E p : PlannedUpTo(v, cols, size, p)
  BY <1>1, PlannedExist
<1> DEFINE planned == CHOOSE p : PlannedUpTo(v, cols, size, p)
<1>3. ColumnClauses(v, cols) = planned[size]
  BY DEF ColumnClauses, PlannedUpTo, NoFieldPlanned
<1>4. PICK p : PlannedUpTo(v, cols, size, p) /\ ColumnClauses(v, cols) = p[size]
  BY <1>2, <1>3
<1> HIDE DEF planned, size
<1>5. \A i \in 0..size : p[i] = IF i = 0 THEN NoFieldPlanned(cols)
                                         ELSE PlanField(cols, p[i - 1], v.fields[i])
  BY <1>4 DEF PlannedUpTo
<1> DEFINE IsRefused(q) ==
             q = [left |-> q.left, clauses |-> q.clauses, refused |-> q.refused] /\ q.refused
<1>6. IsRefused(p[0])
  <2>1. p[0] = NoFieldPlanned(cols)
    BY <1>1, <1>5
  <2>2. IsRefused(NoFieldPlanned(cols))
    BY DEF NoFieldPlanned
  <2> HIDE DEF IsRefused
  <2> QED
    BY <2>1, <2>2
<1>7. ASSUME NEW q, IsRefused(q), NEW f
      PROVE  IsRefused(PlanField(cols, q, f))
  <2> DEFINE found == Candidates(cols, q.left, f)
             old == CHOOSE n \in found : TRUE
             new == PlanField(cols, q, f)
             no == Inconvertible(cols[old], f)
             both == q.clauses \cup {ChangeColumn(old, cols[old], f)}
             more == q.clauses \cup {AddColumn(f)}
             less == q.left \ {old}
  <2>1. \/ new = [q EXCEPT !.clauses = more]
        \/ new = [q EXCEPT !.left = less]
        \/ new = [left |-> less, clauses |-> both, refused |-> q.refused \/ no]
    BY DEF PlanField
  <2>2. q = [left |-> q.left, clauses |-> q.clauses, refused |-> q.refused] /\ q.refused
    BY <1>7
  <2> HIDE DEF new, no, both, more, less
  <2>3. CASE new = [q EXCEPT !.clauses = more]
    <3>1. new = [left |-> q.left, clauses |-> more, refused |-> q.refused]
      BY <2>2, <2>3
    <3> QED
      BY <2>2, <3>1 DEF new
  <2>4. CASE new = [q EXCEPT !.left = less]
    <3>1. new = [left |-> less, clauses |-> q.clauses, refused |-> q.refused]
      BY <2>2, <2>4
    <3> QED
      BY <2>2, <3>1 DEF new
  <2>5. CASE new = [left |-> less, clauses |-> both, refused |-> q.refused \/ no]
    <3>1. new.refused
      BY <2>2, <2>5
    <3> QED
      BY <2>5, <3>1 DEF new
  <2> QED
    BY <2>1, <2>3, <2>4, <2>5 DEF new
<1> HIDE DEF IsRefused
<1> DEFINE T == {i \in 0..size : ~IsRefused(p[i])}
<1>8. T = {}
  <2> SUFFICES ASSUME T # {} PROVE FALSE
    OBVIOUS
  <2>1. T \in SUBSET Nat
    BY <1>1
  <2>2. PICK i \in T : \A m \in T : i <= m
    BY <2>1, LeastNumber
  <2>3. i \in 0..size /\ i # 0 /\ i - 1 \in 0..size /\ ~(i <= i - 1)
    BY <1>1, <1>6, <2>2
  <2>4. IsRefused(p[i - 1])
    BY <2>2, <2>3
  <2>5. p[i] = PlanField(cols, p[i - 1], v.fields[i])
    BY <1>5, <2>3
  <2> QED
    BY <1>7, <2>2, <2>4, <2>5
<1>9. IsRefused(p[size])
  BY <1>1, <1>8 DEF size
<1> QED
  BY <1>4, <1>9 DEF IsRefused

\* When synchronisation has added and changed what it plans, every field is read from the column
\* its own became, and the keys are clear as before.
LEMMA SynchronisedIsCarried ==
  ASSUME NEW v \in DeclaredVersions, NEW t, IsKept(t), KeysAreClear(v, t.def.cols), NEW e,
         ~Plan(v, t.def, e).refused, NEW both,
         both = Plan(v, t.def, e).columns \cup Plan(v, t.def, e).primaryKey,
         Alters(t, both, TRUE)
  PROVE  Carried(v, t, AlteredTable(t, both)) /\ KeysAreClear(v, AlteredTable(t, both).def.cols)
<1> DEFINE def == t.def
           cols == def.cols
           after == Altered(def, both)
           cols2 == after.cols
           from == AlteredFrom(def, both)
<1>1. ~NumberIsAmbiguous(cols)
  <2>1. ~ColumnClauses(v, cols).refused
    BY DEF Plan
  <2> QED
    BY <2>1, AmbiguousIsRefused
<1>2. Executes(def, both) /\ AllStorable(after, t.rows, from)
  <2>1. AlteredTable(t, both).def = after
    BY AlteredIsKept
  <2> QED
    BY <2>1 DEF Alters
<1>3. IsOfFields(v, cols, both)
  BY <1>1, PlannedColumns
<1>0. /\ cols2 = Altered(def, both).cols /\ from = AlteredFrom(def, both)
      /\ ~NumberIsAmbiguous(def.cols) /\ Executes(def, both) /\ IsOfFields(v, def.cols, both)
  BY <1>1, <1>2, <1>3
<1> HIDE DEF cols2, from, def
<1>4. IsSynchronised(v, def.cols, cols2, from)
  BY <1>0, Synchronised
<1> USE DEF def
<1>5. FieldNames(v) \subseteq DOMAIN cols2
  BY <1>4, FieldsDiffer DEF IsSynchronised
<1>6. ASSUME NEW f \in FieldsOf(v)
      PROVE  /\ SyncColumns(v, cols2)[f.name] = {f.name}
             /\ IsAgreed(v, cols2, f) /\ ReadFrom(v, cols2, f) = f.name
  <2>1. SyncColumns(v, cols2)[f.name] = {f.name} /\ ShadowColumns(v, cols2)[f.name] = {f.name}
    BY <1>5, NamesAreRead
  <2> QED
    BY <2>1 DEF IsAgreed, ReadFrom
<1>7. \A f \in FieldsOf(v) : IsAgreed(v, cols, f) =>
        /\ IsAgreed(v, cols2, f)
        /\ ReadFrom(v, cols2, f) \in DOMAIN cols2 /\ ReadFrom(v, cols2, f) \in DOMAIN from
        /\ from[ReadFrom(v, cols2, f)] = ReadFrom(v, cols, f)
  BY <1>4, <1>6 DEF IsAgreed, IsSynchronised
<1>8. Carried(v, t, AlteredTable(t, both))
  BY <1>2, <1>7, AlteredIsCarried DEF cols2, from
<1>9. ASSUME NEW f \in FieldsOf(v), f.key, NEW n \in ColumnsFor(cols2, f)
      PROVE  n = f.name
  <2>1. n \in DOMAIN cols2 /\ (n = f.name \/ cols2[n].num = f.num)
    BY <1>9 DEF ColumnsFor
  <2>2. CASE n \in FieldNames(v)
    <3>1. PICK g \in FieldsOf(v) : n = g.name
      BY <2>2, FieldsDiffer
    <3>2. cols2[n].num = g.num
      BY <1>4, <3>1, FieldsDiffer DEF IsSynchronised
    <3> QED
      BY <2>1, <3>1, <3>2, FieldsDiffer
  <2>3. CASE n \notin FieldNames(v)
    <3>1. n \in DOMAIN cols /\ cols2[n] = cols[n] /\ n \notin SyncColumns(v, cols)[f.name]
      BY <1>4, <2>1, <2>3 DEF IsSynchronised
    <3>2. n \in ColumnsFor(cols, f)
      BY <2>1, <3>1 DEF ColumnsFor
    <3>3. SyncColumns(v, cols)[f.name] = ColumnsFor(cols, f)
      BY <1>9, KeyIsRead
    <3> QED
      BY <3>1, <3>2, <3>3
  <2> QED
    BY <2>2, <2>3
<1>10. KeysAreClear(v, cols2)
  <2> SUFFICES ASSUME NEW f \in FieldsOf(v), f.key
               PROVE  /\ \A m, n \in ColumnsFor(cols2, f) : m = n
                      /\ \A g \in FieldsOf(v) \ {f} :
                           ColumnsFor(cols2, f) \cap ColumnsFor(cols2, g) = {}
    BY DEF KeysAreClear
  <2>1. \A m, n \in ColumnsFor(cols2, f) : m = n
    BY <1>9
  <2>2. ASSUME NEW g \in FieldsOf(v) \ {f}, NEW n \in ColumnsFor(cols2, f) \cap ColumnsFor(cols2, g)
        PROVE  FALSE
    <3>1. n = f.name
      BY <1>9
    <3>2. cols2[n].num = f.num
      BY <1>4, <3>1, FieldsDiffer DEF IsSynchronised
    <3>3. n = g.name \/ cols2[n].num = g.num
      BY DEF ColumnsFor
    <3> QED
      BY <3>1, <3>2, <3>3, FieldsDiffer
  <2> QED
    BY <2>1, <2>2
<1>11. AlteredTable(t, both).def.cols = cols2
  <2>1. AlteredTable(t, both).def = after
    BY AlteredIsKept
  <2> QED
    BY <2>1 DEF cols2
<1> QED
  BY <1>8, <1>10, <1>11

\* A table as declared has clear keys.
LEMMA DeclaredKeysAreClear ==
  ASSUME NEW v \in DeclaredVersions, NEW def, AsDeclared(v, def)
  PROVE  KeysAreClear(v, def.cols)
<1> DEFINE cols == def.cols
<1>1. \A f \in FieldsOf(v) : f.name \in DOMAIN cols /\ cols[f.name].num = f.num
  BY FieldsDiffer DEF AsDeclared, IsColumnOf
<1>2. ASSUME NEW f \in FieldsOf(v), NEW n \in ColumnsFor(cols, f)
      PROVE  n = f.name
  <2>1. n \in DOMAIN cols /\ (n = f.name \/ cols[n].num = f.num)
    BY DEF ColumnsFor
  <2>2. PICK g \in FieldsOf(v) : n = g.name
    BY <2>1, FieldsDiffer DEF AsDeclared
  <2> QED
    BY <1>1, <2>1, <2>2, FieldsDiffer
<1>3. \A f, g \in FieldsOf(v) : f # g => f.name # g.name
  BY FieldsDiffer
<1> HIDE DEF cols
<1>4. \A f \in FieldsOf(v) : \A m, n \in ColumnsFor(cols, f) : m = n
  BY <1>2
<1>5. ASSUME NEW f \in FieldsOf(v), NEW g \in FieldsOf(v) \ {f}
      PROVE  ColumnsFor(cols, f) \cap ColumnsFor(cols, g) = {}
  <2>1. \A n \in ColumnsFor(cols, f) : n = f.name
    BY <1>2
  <2>2. \A n \in ColumnsFor(cols, g) : n = g.name
    BY <1>2
  <2> QED
    BY <1>3, <2>1, <2>2
<1> QED
  BY <1>4, <1>5 DEF KeysAreClear, cols

-----------------------------------------------------------------------------
(***************************************************************************)
(* What a rebuild makes of them                                            *)
(***************************************************************************)
\* The column each field of the shadow table is copied from.
CopySource(v, def) ==
  LET sources == ShadowColumns(v, def.cols)
  IN [name \in {n \in DOMAIN sources : sources[n] # {}} |-> CHOOSE n \in sources[name] : TRUE]

\* The statements in their order: two between the copy and the swap, or none.
IsInOrder(s, v, def) ==
  /\ s[1].op = "strict"
  /\ s[2].op = "create" /\ s[2].def = ShadowDef(v, def)
  /\ s[3].op = "copy" /\ s[3].source = CopySource(v, def)
  /\ \A i \in DOMAIN s : i > 3 => s[i].op \in {"read counter", "rebase", "rename"}

\* legacyKeyRebuildSQL prints its statements in this order.
LEMMA RebuildOrder ==
  ASSUME NEW v, NEW def
  PROVE  IsInOrder(RebuildScript(v, def), v, def)
<1> DEFINE s == RebuildScript(v, def)
           source == CopySource(v, def)
           create == [op |-> "create", def |-> ShadowDef(v, def)]
           strict_ == [op |-> "strict"]
           read == [op |-> "read counter"]
           rebase == [op |-> "rebase"]
           rename == [op |-> "rename"]
           two == IF HasAutoIncrement(v) THEN <<read, rebase>> ELSE <<>>
<1>1. \E filled : s = <<strict_, create, [op |-> "copy", source |-> source, filled |-> filled]>>
                      \o two \o <<rename>>
  BY DEF RebuildScript, CopySource
<1>2. \E copy : /\ copy.op = "copy" /\ copy.source = source
                /\ s = <<strict_, create, copy>> \o two \o <<rename>>
  <2>1. \A filled : /\ [op |-> "copy", source |-> source, filled |-> filled].op = "copy"
                    /\ [op |-> "copy", source |-> source, filled |-> filled].source = source
    OBVIOUS
  <2> HIDE DEF s, create, strict_, read, rebase, rename, two, source
  <2> QED
    BY <1>1, <2>1
<1>3. PICK copy : /\ copy.op = "copy" /\ copy.source = source
                  /\ s = <<strict_, create, copy>> \o two \o <<rename>>
  BY <1>2
<1>4. two = <<read, rebase>> \/ two = <<>>
  OBVIOUS
<1>5. /\ strict_.op = "strict" /\ create.op = "create" /\ create.def = ShadowDef(v, def)
      /\ read.op = "read counter" /\ rebase.op = "rebase" /\ rename.op = "rename"
  OBVIOUS
<1> HIDE DEF s, source, create, strict_, read, rebase, rename, two
<1>6. CASE two = <<read, rebase>>
  <2>1. /\ Len(s) = 6 /\ DOMAIN s = 1..6
        /\ s[1] = strict_ /\ s[2] = create /\ s[3] = copy /\ s[4] = read /\ s[5] = rebase
        /\ s[6] = rename
    BY <1>3, <1>6
  <2>2. \A i \in DOMAIN s : i = 1 \/ i = 2 \/ i = 3 \/ i = 4 \/ i = 5 \/ i = 6
    BY <2>1
  <2>3. \A i \in DOMAIN s : i > 3 => i = 4 \/ i = 5 \/ i = 6
    BY <2>1, <2>2
  <2>4. \A i \in DOMAIN s : i > 3 => s[i].op \in {"read counter", "rebase", "rename"}
    BY <1>5, <2>1, <2>3
  <2> QED
    BY <1>3, <1>5, <2>1, <2>4 DEF s, source, IsInOrder
<1>7. CASE two = <<>>
  <2>1. /\ Len(s) = 4 /\ DOMAIN s = 1..4
        /\ s[1] = strict_ /\ s[2] = create /\ s[3] = copy /\ s[4] = rename
    BY <1>3, <1>7
  <2>2. \A i \in DOMAIN s : i = 1 \/ i = 2 \/ i = 3 \/ i = 4
    BY <2>1
  <2>3. \A i \in DOMAIN s : i > 3 => i = 4
    BY <2>1, <2>2
  <2>4. \A i \in DOMAIN s : i > 3 => s[i].op \in {"read counter", "rebase", "rename"}
    BY <1>5, <2>1, <2>3
  <2> QED
    BY <1>3, <1>5, <2>1, <2>4 DEF s, source, IsInOrder
<1> QED
  BY <1>4, <1>6, <1>7

\* A copy has ids of its own to give, whatever is copied from where.
LEMMA CopyIsKept ==
  ASSUME NEW t, IsKept(t), NEW names, NEW def, NEW source,
         NEW rows, rows = Filled(t.rows, names),
         NEW copied, copied = Rewritten(def, rows, source),
         NEW u, u = [def |-> def, rows |-> copied, auto |-> NextAuto(copied)]
  PROVE  IsKept(u)
<1>1. AreRows(t.rows) /\ UniqueIds(t.rows)
  BY DEF IsKept, IsStoredTable
<1>2. UniqueIds(rows)
  BY <1>1, FilledValues
<1>3. UniqueIds(copied) /\ \A s \in copied : DOMAIN s.vals = DOMAIN def.cols
  <2>1. UniqueIds(copied)
    BY <1>2, RewrittenValues
  <2>2. ASSUME NEW s \in copied
        PROVE  DOMAIN s.vals = DOMAIN def.cols
    <3> DEFINE val(r, n) == IF n \in DOMAIN source THEN Stored(r.vals[source[n]], def.cols[n])
                                                    ELSE Default(def.cols[n])
    <3>1. \E r \in rows : s = [id |-> r.id, vals |-> [n \in DOMAIN def.cols |-> val(r, n)]]
      BY DEF Rewritten
    <3> HIDE DEF val
    <3> QED
      BY <3>1
  <2> QED
    BY <2>1, <2>2
<1>4. AreRows(rows) /\ AreRows(copied)
  <2>1. AreRows(rows)
    BY <1>1, FilledRows
  <2> QED
    BY <2>1, RewrittenRows
<1>5. NextAuto(copied) \in Nat \ {0} /\ \A s \in copied : s.id < NextAuto(copied)
  <2>1. 0 \in Nat
    OBVIOUS
  <2> QED
    BY <1>4, <2>1, Counters
<1>6. u.def = def /\ u.rows = copied /\ u.auto = NextAuto(copied)
  OBVIOUS
<1> QED
  BY <1>3, <1>4, <1>5, <1>6 DEF IsKept, IsStoredTable

\* Where a value fits it is the same in the copy.
FittingValuesStay(def, rows, source, out) ==
  \A m \in rows, s \in out : s.id = m.id =>
    \A n \in DOMAIN def.cols \cap DOMAIN source :
      Storable(m.vals[source[n]], def.cols[n]) => s.vals[n] = m.vals[source[n]]

\* Rows that are copied keep their ids, and the values that fit.
LEMMA CopiedValues ==
  ASSUME NEW def, NEW rows, UniqueIds(rows), NEW source, NEW out,
         out = Rewritten(def, rows, source)
  PROVE  UniqueIds(out) /\ SameIds(rows, out) /\ FittingValuesStay(def, rows, source, out)
BY RewrittenValues DEF FittingValuesStay

\* One that cuts nothing has what was read of each row.
LEMMA CopyIsCarried ==
  ASSUME NEW v \in DeclaredVersions, NEW t, IsKept(t), IsOnline(t.def), NEW names,
         NEW def, def = ShadowDef(v, t.def), NEW source, source = CopySource(v, t.def),
         NEW rows, rows = Filled(t.rows, names), AllStorable(def, rows, source),
         NEW copied, copied = Rewritten(def, rows, source),
         NEW u, u.def = def, u.rows = copied
  PROVE  Carried(v, t, u)
<1> DEFINE cols == t.def.cols
<1>1. /\ AreRows(t.rows) /\ UniqueIds(t.rows) /\ \A r \in t.rows : DOMAIN r.vals = DOMAIN cols
  BY DEF IsKept, IsStoredTable
<1>2. /\ UniqueIds(rows) /\ SameIds(t.rows, rows)
      /\ \A r \in t.rows, m \in rows : m.id = r.id =>
           /\ DOMAIN m.vals = DOMAIN r.vals
           /\ \A n \in DOMAIN r.vals : Same(m.vals[n], r.vals[n])
  BY <1>1, FilledValues
<1>3. /\ UniqueIds(copied) /\ SameIds(rows, copied)
      /\ \A m \in rows, s \in copied : s.id = m.id =>
           \A n \in DOMAIN def.cols \cap DOMAIN source :
             Storable(m.vals[source[n]], def.cols[n]) => s.vals[n] = m.vals[source[n]]
  <2>1. UniqueIds(rows) /\ copied = Rewritten(def, rows, source)
    BY <1>2
  <2>2. UniqueIds(copied) /\ SameIds(rows, copied) /\ FittingValuesStay(def, rows, source, copied)
    BY ONLY <2>1, CopiedValues
  <2> QED
    BY <2>2 DEF FittingValuesStay
<1>8. FieldNames(v) = DOMAIN def.cols
  BY ShadowIsDeclared DEF AsDeclared
<1>9. ASSUME NEW f \in FieldsOf(v)
      PROVE  IsAgreed(v, def.cols, f) /\ ReadFrom(v, def.cols, f) = f.name
  <2>1. /\ SyncColumns(v, def.cols)[f.name] = {f.name}
        /\ ShadowColumns(v, def.cols)[f.name] = {f.name}
    BY <1>8, NamesAreRead
  <2> QED
    BY <2>1 DEF IsAgreed, ReadFrom
<1>10. ASSUME NEW f \in FieldsOf(v), IsAgreed(v, cols, f)
       PROVE  /\ f.name \in DOMAIN def.cols \cap DOMAIN source
              /\ source[f.name] = ReadFrom(v, cols, f)
              /\ ReadFrom(v, cols, f) \in DOMAIN cols
  <2> DEFINE sources == ShadowColumns(v, cols)
             copies == {n \in DOMAIN sources : sources[n] # {}}
  <2>1. DOMAIN sources = {g.name : g \in FieldsOf(v)}
    BY DEF ShadowColumns
  <2>2. f.name \in DOMAIN sources
    BY <2>1
  <2>3. sources[f.name] = SyncColumns(v, cols)[f.name] /\ sources[f.name] # {}
    BY <1>10 DEF IsAgreed
  <2>4. source = [name \in copies |-> CHOOSE n \in sources[name] : TRUE]
    BY DEF CopySource
  <2>5. f.name \in copies
    BY <2>2, <2>3
  <2> HIDE DEF sources, copies
  <2>6. f.name \in DOMAIN source /\ source[f.name] = CHOOSE n \in sources[f.name] : TRUE
    BY <2>4, <2>5
  <2>7. source[f.name] = ReadFrom(v, cols, f)
    BY <2>3, <2>6 DEF ReadFrom
  <2>8. ReadFrom(v, cols, f) \in SyncColumns(v, cols)[f.name]
    BY <2>3 DEF ReadFrom
  <2>9. SyncColumns(v, cols)[f.name] \subseteq ColumnsFor(cols, f)
    BY SyncApart
  <2>10. ReadFrom(v, cols, f) \in DOMAIN cols
    BY <2>8, <2>9 DEF ColumnsFor
  <2>11. f.name \in DOMAIN def.cols
    BY <1>8, FieldsDiffer
  <2> QED
    BY <2>6, <2>7, <2>10, <2>11
<1>11. \A m \in rows, n \in DOMAIN source : Storable(m.vals[source[n]], def.cols[n])
  BY DEF AllStorable
<1>12. SameIds(t.rows, copied)
  BY <1>2, <1>3 DEF SameIds
<1> HIDE DEF cols
<1>13. ASSUME NEW f \in FieldsOf(v), IsAgreed(v, cols, f),
              NEW r \in t.rows, NEW s \in copied, s.id = r.id
       PROVE  Same(s.vals[f.name], r.vals[ReadFrom(v, cols, f)])
  <2> DEFINE n == f.name
             c == source[n]
  <2>1. n \in DOMAIN def.cols \cap DOMAIN source /\ c = ReadFrom(v, cols, f) /\ c \in DOMAIN cols
    BY <1>10, <1>13
  <2>2. PICK m \in rows : m.id = r.id
    BY <1>2 DEF SameIds
  <2> HIDE DEF n, c
  <2>3. Storable(m.vals[c], def.cols[n])
    BY <1>11, <2>1 DEF c
  <2>4. s.vals[n] = m.vals[c]
    BY <1>3, <1>13, <2>1, <2>2, <2>3 DEF c
  <2>5. c \in DOMAIN r.vals
    BY <1>1, <2>1 DEF cols
  <2>6. Same(m.vals[c], r.vals[c])
    BY <1>2, <2>2, <2>5
  <2> QED
    BY <2>1, <2>4, <2>6 DEF n
<1>14. /\ UniqueIds(t.rows) /\ UniqueIds(u.rows) /\ SameIds(t.rows, u.rows)
       /\ \A f \in FieldsOf(v) : IsAgreed(v, t.def.cols, f) => IsAgreed(v, u.def.cols, f)
       /\ \A f \in FieldsOf(v) : IsAgreed(v, t.def.cols, f) =>
            \A r \in t.rows, s \in u.rows : s.id = r.id =>
              Same(s.vals[ReadFrom(v, u.def.cols, f)], r.vals[ReadFrom(v, t.def.cols, f)])
  BY <1>1, <1>3, <1>9, <1>12, <1>13 DEF cols
<1>15. Carried(v, t, u)
  BY <1>14, CarriedRows
<1> QED
  BY <1>15

\* What is read of some rows of a table.
IsPartOf(few, all) ==
  \A i \in DOMAIN few : /\ DOMAIN few[i] = DOMAIN all[i]
                        /\ \A name \in DOMAIN all[i] : few[i][name] = all[i][name]

\* What is read of a row does not depend on the others.
LEMMA RowsApart ==
  ASSUME NEW v \in DeclaredVersions, NEW t, UniqueIds(t.rows),
         NEW u, u.def = t.def, u.rows \subseteq t.rows
  PROVE  /\ IsPartOf(Reading(v, u), Reading(v, t))
         /\ \A i : i \in DOMAIN Reading(v, u) <=> \E r \in u.rows : i = r.id
         /\ \A i : i \in DOMAIN Reading(v, t) <=> \E r \in t.rows : i = r.id
<1> DEFINE cols == t.def.cols
           names == {f.name : f \in {g \in FieldsOf(v) : IsAgreed(v, cols, g)}}
           few == Reading(v, u)
           all == Reading(v, t)
<1>1. UniqueIds(u.rows)
  BY DEF UniqueIds
<1>2. /\ DOMAIN few = {r.id : r \in u.rows}
      /\ \A r \in u.rows :
           /\ DOMAIN few[r.id] = names
           /\ \A f \in FieldsOf(v) : IsAgreed(v, cols, f) =>
                few[r.id][f.name] = r.vals[ReadFrom(v, cols, f)]
  <2> DEFINE same == {f.name : f \in {g \in FieldsOf(v) : IsAgreed(v, u.def.cols, g)}}
  <2>1. /\ DOMAIN few = {r.id : r \in u.rows}
        /\ \A r \in u.rows :
             /\ DOMAIN few[r.id] = same
             /\ \A f \in FieldsOf(v) : IsAgreed(v, u.def.cols, f) =>
                  few[r.id][f.name] = r.vals[ReadFrom(v, u.def.cols, f)]
    BY ONLY <1>1, v \in DeclaredVersions, ReadingOf
  <2>2. u.def.cols = cols /\ same = names
    OBVIOUS
  <2> HIDE DEF few, same, names, cols
  <2> QED
    BY <2>1, <2>2
<1>3. /\ DOMAIN all = {r.id : r \in t.rows}
      /\ \A r \in t.rows :
           /\ DOMAIN all[r.id] = names
           /\ \A f \in FieldsOf(v) : IsAgreed(v, cols, f) =>
                all[r.id][f.name] = r.vals[ReadFrom(v, cols, f)]
  BY ReadingOf
<1>4. \A n \in names : \E f \in FieldsOf(v) : IsAgreed(v, cols, f) /\ n = f.name
  OBVIOUS
<1> HIDE DEF names, few, all, cols
<1>5. ASSUME NEW i \in DOMAIN few
      PROVE  /\ DOMAIN few[i] = DOMAIN all[i]
             /\ \A name \in DOMAIN all[i] : few[i][name] = all[i][name]
  <2>1. PICK r \in u.rows : i = r.id
    BY <1>2
  <2>2. r \in t.rows
    OBVIOUS
  <2>3. DOMAIN few[i] = names /\ DOMAIN all[i] = names
    BY <1>2, <1>3, <2>1, <2>2
  <2>4. ASSUME NEW name \in names
        PROVE  few[i][name] = all[i][name]
    <3>1. PICK f \in FieldsOf(v) : IsAgreed(v, cols, f) /\ name = f.name
      BY <1>4
    <3> QED
      BY <1>2, <1>3, <2>1, <2>2, <3>1
  <2> QED
    BY <2>3, <2>4
<1>6. IsPartOf(few, all)
  BY <1>5 DEF IsPartOf
<1>7. /\ \A i : i \in DOMAIN few <=> \E r \in u.rows : i = r.id
      /\ \A i : i \in DOMAIN all <=> \E r \in t.rows : i = r.id
  BY <1>2, <1>3
<1> QED
  BY <1>6, <1>7 DEF few, all

-----------------------------------------------------------------------------
(***************************************************************************)
(* No row is lost, and no value                                            *)
(***************************************************************************)
IsToRebuild(v, s, def) == s = RebuildScript(v, def) /\ LegacyKeys(v, def) # {}

\* The names are swapped: while it is run again the old table is there, so they are not
\* swapped back.
IsRebuilt == AsDeclared(version, tables[Table].def) /\ (IsThere(Backup) \/ ~InWindow)

\* What a script has done before its statement i: the columns of the keys it has altered are
\* declared; the shadow table is created, then it holds what the table does.
IsOnItsWay(v, s, i, ts) ==
  /\ ~IsRebuild(s) => IsAhead(v, ts[Table].def.cols, s, i)
  /\ IsToRebuild(v, s, ts[Table].def) =>
       /\ i > 2 => ts[Shadow].def = ShadowDef(v, ts[Table].def)
       /\ i > 3 => Carried(v, ts[Table], ts[Shadow])

AreKept(ts) == \A name \in Names : IsKept(ts[name])

AreRead(v, t) == KeysAreClear(v, t.def.cols) /\ AreColumns(t.def.cols)

KeptInv ==
  /\ SettledInv
  /\ AreKept(tables) /\ AreRead(version, tables[Table])
  /\ counter \in Nat
  /\ Holds(Reading(version, tables[Table]), live)
  /\ script # <<>> => script[1].op = "strict"
  /\ Running => at = 1 \/ strict = TRUE
  /\ IsRebuild(script) => IsToRebuild(version, script, tables[Table].def) \/ IsRebuilt
  /\ Running => IsOnItsWay(version, script, at, tables)

\* A statement keeps the invariant if it leaves the values in the table and, being one of a
\* rebuild, the table's columns, unless it swaps the names.
LEMMA RunKeepsValues ==
  ASSUME KeptInv, SettledInv', Running, NEW accepted, NEW after, Run(accepted, after),
         UNCHANGED InScript, strict' = TRUE, counter' \in Nat,
         accepted => /\ AreKept(after) /\ AreRead(version, after[Table])
                     /\ Carried(version, tables[Table], after[Table]),
         accepted /\ IsRebuild(script) =>
           \/ after[Table].def = tables[Table].def /\ after[Backup] = tables[Backup]
           \/ AsDeclared(version, after[Table].def) /\ Exists(after[Backup].def),
         accepted /\ at < Len(script) => IsOnItsWay(version, script, at + 1, after)
  PROVE  KeptInv'
<1>1. version' = version /\ script' = script /\ live' = live
  BY DEF InScript, history
<1>2. tables' = tables \/ (accepted /\ tables' = after)
  BY DEF Run
<1>3. Running' => accepted /\ tables' = after /\ at' = at + 1 /\ at < Len(script)
  BY DEF Run, Goto, Running
<1>4. AreKept(tables') /\ AreRead(version, tables'[Table])
  BY <1>2 DEF KeptInv
<1>5. Holds(Reading(version, tables'[Table]), live)
  <2>1. Holds(Reading(version, tables[Table]), live)
    BY DEF KeptInv
  <2>2. accepted => Holds(Reading(version, after[Table]), Reading(version, tables[Table]))
    BY DEF Carried
  <2>3. accepted => Holds(Reading(version, after[Table]), live)
    BY <2>1, <2>2, HoldsOn
  <2> QED
    BY <1>2, <2>1, <2>3
<1>6. (script # <<>> => script[1].op = "strict")'
  BY <1>1 DEF KeptInv
<1>7. ASSUME IsRebuild(script)
      PROVE  IsToRebuild(version, script, tables'[Table].def) \/ IsRebuilt'
  <2>1. InWindow
    BY DEF Running, InWindow
  <2>2. \/ IsToRebuild(version, script, tables[Table].def)
        \/ AsDeclared(version, tables[Table].def) /\ Exists(tables[Backup].def)
    BY <1>7, <2>1 DEF KeptInv, IsRebuilt, IsThere
  <2>3. CASE tables'[Table].def = tables[Table].def /\ tables'[Backup] = tables[Backup]
    BY <1>1, <2>2, <2>3 DEF IsRebuilt, IsThere
  <2>4. CASE AsDeclared(version, tables'[Table].def) /\ Exists(tables'[Backup].def)
    BY <1>1, <2>4 DEF IsRebuilt, IsThere
  <2> QED
    BY <1>2, <1>7, <2>3, <2>4
<1>8. (Running => IsOnItsWay(version, script, at, tables))'
  BY <1>1, <1>3
<1> QED
  BY <1>1, <1>4, <1>5, <1>6, <1>7, <1>8 DEF KeptInv

\* A step between the statements does if no script is begun but the same rebuild again.
LEMMA QuietKeepsValues ==
  ASSUME KeptInv, SettledInv', version' = version, script' = script, counter' \in Nat,
         AreKept(tables'), AreRead(version, tables'[Table]),
         Holds(Reading(version, tables'[Table]), live'),
         IsRebuild(script) => IsToRebuild(version, script, tables'[Table].def) \/ IsRebuilt',
         Running' => at' = 1 /\ IsRebuild(script)
  PROVE  KeptInv'
<1>1. (script # <<>> => script[1].op = "strict")'
  BY DEF KeptInv
<1>2. (Running => IsOnItsWay(version, script, at, tables))'
  <2>1. ~(1 > 2) /\ ~(1 > 3)
    OBVIOUS
  <2> QED
    BY <2>1 DEF IsOnItsWay
<1> QED
  BY <1>1, <1>2 DEF KeptInv

\* A key of the old form drifts, so synchronisation does nothing.
LEMMA LegacyIsRefused ==
  ASSUME NEW v \in DeclaredVersions, NEW def, LegacyKeys(v, def) # {}, NEW e
  PROVE  Plan(v, def, e).refused
<1>1. PICK f \in FieldsOf(v) : LegacyColumns(def, f) # {}
  BY DEF LegacyKeys
<1>2. PICK n \in Candidates(def.cols, DOMAIN def.cols, f) : IsLegacyKey(def.cols[n], f)
  BY <1>1 DEF LegacyColumns
<1>3. PICK k \in 1..Len(v.fields) : f = v.fields[k]
  BY FieldsDiffer
<1>4. k \in DOMAIN v.fields
  BY <1>3, DeclaredFields DEF FieldsOf
<1>5. HasDrift(v, def)
  BY <1>2, <1>3, <1>4 DEF HasDrift, Drifts
<1> QED
  BY <1>5 DEF Plan

\* The script of a table to rebuild swaps names.
LEMMA ToRebuildIsRebuild ==
  ASSUME NEW v, NEW s, NEW def, IsToRebuild(v, s, def)
  PROVE  IsRebuild(s)
<1>1. /\ Len(s) \in Nat \ {0} /\ DOMAIN s = 1..Len(s)
      /\ s[Len(s)].op = "rename"
  BY RebuildStatements DEF IsToRebuild
<1>2. Len(s) \in DOMAIN s
  BY <1>1
<1> QED
  BY <1>1, <1>2 DEF IsRebuild

\* Where the statement is that runs, and in what session.
LEMMA RunsAt ==
  ASSUME KeptInv, NEW op, Statement(op)
  PROVE  /\ Running /\ at \in DOMAIN script /\ at \in Nat /\ script[at].op = op
         /\ op # "strict" => strict = TRUE
         /\ op \in {"drop index", "fill", "change column", "add index"} => ~IsRebuild(script)
         /\ IsToRebuild(version, script, tables[Table].def) =>
              /\ op = "strict" => at = 1
              /\ op = "create" => at = 2 /\ script[at].def = ShadowDef(version, tables[Table].def)
              /\ op = "copy" => at = 3 /\ script[at].source = CopySource(version, tables[Table].def)
              /\ op \in {"read counter", "rebase", "rename"} => at > 3
<1>1. /\ Running /\ script[at].op = op /\ at \in DOMAIN script
      /\ Len(script) \in Nat /\ DOMAIN script = 1..Len(script)
  BY DEF KeptInv, SettledInv, OnlineInv, AreStatements, Statement
<1>2. at \in Nat /\ script # <<>>
  BY <1>1
<1>3. op # "strict" => strict = TRUE
  BY <1>1, <1>2 DEF KeptInv
<1>4. op \in {"drop index", "fill", "change column", "add index"} => ~IsRebuild(script)
  BY <1>1 DEF KeptInv, SettledInv, IsSettlingScript, RebuildOps
<1>5. ASSUME IsToRebuild(version, script, tables[Table].def)
      PROVE  /\ op = "strict" => at = 1
             /\ op = "create" => at = 2 /\ script[at].def = ShadowDef(version, tables[Table].def)
             /\ op = "copy" => at = 3 /\ script[at].source = CopySource(version, tables[Table].def)
             /\ op \in {"read counter", "rebase", "rename"} => at > 3
  <2> DEFINE def == tables[Table].def
  <2>1. IsInOrder(script, version, def)
    BY <1>5, RebuildOrder DEF IsToRebuild
  <2>2. at = 1 \/ at = 2 \/ at = 3 \/ at > 3
    BY <1>1
  <2> HIDE DEF def
  <2>3. CASE at = 1
    BY <1>1, <2>1, <2>3 DEF IsInOrder
  <2>4. CASE at = 2
    BY <1>1, <2>1, <2>4 DEF def, IsInOrder
  <2>5. CASE at = 3
    BY <1>1, <2>1, <2>5 DEF def, IsInOrder
  <2>6. CASE at > 3
    BY <1>1, <2>1, <2>6 DEF IsInOrder
  <2> QED
    BY <2>2, <2>3, <2>4, <2>5, <2>6
<1> QED
  BY <1>1, <1>2, <1>3, <1>4, <1>5

\* What is left of a script.
LEMMA AheadGoesOn ==
  ASSUME NEW v, NEW cols, NEW s, DOMAIN s = 1..Len(s), Len(s) \in Nat, NEW i \in Nat,
         IsAhead(v, cols, s, i)
  PROVE  IsAhead(v, cols, s, i + 1)
<1>1. \A k \in DOMAIN s : k >= i + 1 => k >= i
  OBVIOUS
<1> QED
  BY <1>1 DEF IsAhead

\* A statement about the shadow table.
LEMMA ShadowKeepsValues ==
  ASSUME KeptInv, SettledInv', NEW op, Statement(op),
         NEW accepted, NEW after, Run(accepted, after), UNCHANGED InScript,
         strict' = TRUE, counter' \in Nat,
         after[Table] = tables[Table], after[Backup] = tables[Backup],
         accepted => IsKept(after[Shadow]),
         accepted /\ IsToRebuild(version, script, tables[Table].def) =>
           /\ at + 1 > 2 => after[Shadow].def = ShadowDef(version, tables[Table].def)
           /\ at + 1 > 3 => Carried(version, tables[Table], after[Shadow])
  PROVE  KeptInv'
<1>1. /\ Running /\ at \in DOMAIN script /\ at \in Nat
      /\ Len(script) \in Nat /\ DOMAIN script = 1..Len(script)
  BY RunsAt DEF KeptInv, SettledInv, OnlineInv, AreStatements
<1>2. AreKept(tables) /\ AreRead(version, tables[Table])
  BY DEF KeptInv
<1>3. accepted => AreKept(after)
  <2>1. IsKept(tables[Table]) /\ IsKept(tables[Backup])
    BY <1>2, TableNames DEF AreKept
  <2> QED
    BY <2>1 DEF AreKept, Names
<1>4. Carried(version, tables[Table], after[Table])
  BY HoldsItself DEF Carried
<1>5. IsOnItsWay(version, script, at, tables)
  BY <1>1 DEF KeptInv
<1>6. accepted => IsOnItsWay(version, script, at + 1, after)
  <2>1. ~IsRebuild(script) => IsAhead(version, after[Table].def.cols, script, at + 1)
    BY <1>1, <1>5, AheadGoesOn DEF IsOnItsWay
  <2> QED
    BY <2>1 DEF IsOnItsWay
<1> QED
  BY <1>1, <1>2, <1>3, <1>4, <1>6, RunKeepsValues

\* A statement of a script that alters the table.
LEMMA InPlaceKeepsValues ==
  ASSUME KeptInv, SettledInv', NEW op, Statement(op),
         op \in {"drop index", "fill", "change column", "add index"},
         NEW accepted, NEW new, Run(accepted, With(Table, new)), UNCHANGED InScript,
         UNCHANGED session,
         accepted => /\ IsKept(new) /\ AreRead(version, new) /\ Carried(version, tables[Table], new)
                     /\ IsAhead(version, new.def.cols, script, at + 1)
  PROVE  KeptInv'
<1> DEFINE after == With(Table, new)
<1>1. Running /\ ~IsRebuild(script) /\ strict' = TRUE /\ counter' \in Nat
  <2>1. strict' = strict /\ counter' = counter
    BY DEF session
  <2> QED
    BY <2>1, RunsAt DEF KeptInv
<1>2. AreKept(tables) /\ AreOnline(tables)
  BY DEF KeptInv, SettledInv, OnlineInv
<1>3. after[Table] = new /\ \A other \in Names \ {Table} : after[other] = tables[other]
  <2>1. Table \in Names
    BY TableNames
  <2>2. With(Table, new)[Table] = new
    BY <1>2, <2>1, WithDef
  <2>3. \A other \in Names \ {Table} : With(Table, new)[other] = tables[other]
    BY <1>2, <2>1, WithDef
  <2> QED
    BY <2>2, <2>3
<1>4. Run(accepted, after)
  OBVIOUS
<1> HIDE DEF after
<1>5. accepted => AreKept(after)
  BY <1>2, <1>3 DEF AreKept
<1>6. accepted => IsOnItsWay(version, script, at + 1, after)
  <2>1. \A def : ~IsToRebuild(version, script, def)
    BY <1>1, ToRebuildIsRebuild
  <2> QED
    BY <1>3, <2>1 DEF IsOnItsWay
<1> QED
  BY <1>1, <1>3, <1>4, <1>5, <1>6, RunKeepsValues

\* Every statement but the one that sets sql_mode runs in a strict session.
LEMMA RunsStrictly ==
  ASSUME KeptInv, NEW op, Statement(op), op # "strict"
  PROVE  Running /\ at \in DOMAIN script /\ script[at].op = op /\ strict = TRUE
<1>1. Running /\ at \in DOMAIN script /\ script[at].op = op
  BY RunsAt
<1>2. strict = TRUE
  BY RunsAt
<1> QED
  BY <1>1, <1>2

\* One lemma for each statement: SET sql_mode changes no table,
LEMMA SetStrictKeepsValues == KeptInv /\ SettledInv' /\ SetStrict => KeptInv'
<1> SUFFICES ASSUME KeptInv, SettledInv', SetStrict PROVE KeptInv'
  OBVIOUS
<1> DEFINE after == tables
           accepted == TRUE
<1>1. /\ Statement("strict") /\ Run(accepted, after) /\ UNCHANGED InScript /\ strict' = TRUE
      /\ counter' = counter
  BY DEF SetStrict
<1>2. /\ after[Table] = tables[Table] /\ after[Backup] = tables[Backup] /\ counter \in Nat
      /\ IsKept(after[Shadow])
  BY TableNames DEF KeptInv, AreKept
<1>3. ASSUME IsToRebuild(version, script, tables[Table].def)
      PROVE  ~(at + 1 > 2) /\ ~(at + 1 > 3)
  <2>1. at = 1
    BY <1>1, <1>3, RunsAt
  <2> QED
    BY <2>1
<1> HIDE DEF after, accepted
<1> QED
  BY <1>1, <1>2, <1>3, ShadowKeepsValues

\* nor does the reading of the counter,
LEMMA ReadCounterKeepsValues == KeptInv /\ SettledInv' /\ ReadCounter => KeptInv'
<1> SUFFICES ASSUME KeptInv, SettledInv', ReadCounter PROVE KeptInv'
  OBVIOUS
<1> DEFINE after == tables
           accepted == TRUE
<1>1. /\ Statement("read counter") /\ Run(accepted, after) /\ UNCHANGED InScript
      /\ strict' = strict /\ counter' = tables[Table].auto
  BY DEF ReadCounter
<1>2. /\ after[Table] = tables[Table] /\ after[Backup] = tables[Backup]
      /\ IsKept(after[Shadow]) /\ IsKept(tables[Table])
  BY TableNames DEF KeptInv, AreKept
<1>3. strict' = TRUE /\ counter' \in Nat /\ Running
  <2>1. "read counter" # "strict"
    OBVIOUS
  <2>2. Running /\ strict = TRUE
    BY <1>1, <2>1, RunsStrictly
  <2>3. counter' \in Nat
    BY <1>1, <1>2 DEF IsKept, IsStoredTable
  <2> QED
    BY <1>1, <2>2, <2>3
<1>4. ASSUME IsToRebuild(version, script, tables[Table].def)
      PROVE  /\ after[Shadow].def = ShadowDef(version, tables[Table].def)
             /\ Carried(version, tables[Table], after[Shadow])
  <2>1. at > 3 /\ at \in Nat
    BY <1>1, <1>4, RunsAt
  <2>2. at > 2
    BY <2>1
  <2>3. IsOnItsWay(version, script, at, tables)
    BY <1>3 DEF KeptInv
  <2> QED
    BY <1>4, <2>1, <2>2, <2>3 DEF IsOnItsWay
<1> HIDE DEF after, accepted
<1> QED
  BY <1>1, <1>2, <1>3, <1>4, ShadowKeepsValues

\* the new table has no rows yet,
LEMMA CreateShadowKeepsValues == KeptInv /\ SettledInv' /\ CreateShadow => KeptInv'
<1> SUFFICES ASSUME KeptInv, SettledInv', CreateShadow PROVE KeptInv'
  OBVIOUS
<1> DEFINE def == script[at].def
           new == [Missing EXCEPT !.def = def]
           accepted == ~IsThere(Shadow) /\ KeysCreatable(def)
           after == With(Shadow, new)
<1>1. /\ Statement("create") /\ Run(accepted, after) /\ UNCHANGED InScript
      /\ strict' = strict /\ counter' = counter
  BY DEF CreateShadow, session
<1>2. AreKept(tables) /\ AreOnline(tables) /\ counter \in Nat
  BY DEF KeptInv, SettledInv, OnlineInv
<1>3. /\ after[Shadow] = new /\ after[Table] = tables[Table] /\ after[Backup] = tables[Backup]
  BY <1>2, TableNames, WithDef
<1>4. new = [def |-> def, rows |-> {}, auto |-> 1]
  BY DEF Missing
<1> HIDE DEF def, new, accepted, after
<1>5. IsKept(new)
  <2>1. AreRows({})
    BY FS_EmptySet DEF AreRows
  <2> QED
    BY <1>4, <2>1 DEF IsKept, IsStoredTable, UniqueIds
<1>6. ASSUME IsToRebuild(version, script, tables[Table].def)
      PROVE  new.def = ShadowDef(version, tables[Table].def) /\ ~(at + 1 > 3)
  <2>1. at = 2 /\ def = ShadowDef(version, tables[Table].def)
    BY <1>1, <1>6, RunsAt DEF def
  <2> QED
    BY <1>4, <2>1
<1>7. strict' = TRUE /\ counter' \in Nat
  <2>1. "create" # "strict"
    OBVIOUS
  <2>2. strict = TRUE
    BY <1>1, <2>1, RunsStrictly
  <2> QED
    BY <1>1, <1>2, <2>2
<1> QED
  BY <1>1, <1>3, <1>5, <1>6, <1>7, ShadowKeepsValues

\* in a strict session the copy cuts nothing,
LEMMA CopyRowsKeepsValues == KeptInv /\ SettledInv' /\ CopyRows => KeptInv'
<1> SUFFICES ASSUME KeptInv, SettledInv', CopyRows PROVE KeptInv'
  OBVIOUS
<1> DEFINE t == tables[Table]
           source == script[at].source
           def == tables[Shadow].def
           names == {source[name] : name \in script[at].filled}
           rows == Filled(t.rows, names)
           copied == Rewritten(def, rows, source)
           new == [def |-> def, rows |-> copied, auto |-> NextAuto(copied)]
           after == With(Shadow, new)
           accepted == /\ IsThere(Shadow) /\ Range(source) \subseteq DOMAIN t.def.cols
                       /\ strict => AllStorable(def, rows, source)
                       /\ NoDuplicates(def, copied)
<1>1. /\ Statement("copy") /\ Run(accepted, after) /\ UNCHANGED InScript
      /\ strict' = strict /\ counter' = counter
  BY DEF CopyRows, session
<1>2. AreKept(tables) /\ AreOnline(tables) /\ counter \in Nat /\ version \in DeclaredVersions
  BY DEF KeptInv, SettledInv, OnlineInv
<1>3. /\ after[Shadow] = new /\ after[Table] = tables[Table] /\ after[Backup] = tables[Backup]
  BY <1>2, TableNames, WithDef
<1>4. rows = Filled(t.rows, names) /\ copied = Rewritten(def, rows, source)
      /\ new = [def |-> def, rows |-> copied, auto |-> NextAuto(copied)]
      /\ new.def = def /\ new.rows = copied
  OBVIOUS
<1>5. strict = TRUE /\ (accepted => AllStorable(def, rows, source))
  <2>1. "copy" # "strict"
    OBVIOUS
  <2>2. strict = TRUE
    BY <1>1, <2>1, RunsStrictly
  <2> QED
    BY <2>2
<1>6. IsKept(t) /\ IsOnline(t.def)
  BY <1>2, TableNames DEF AreKept, AreOnline
<1> HIDE DEF source, names, rows, copied, new, after, accepted
<1>7. IsKept(new)
  BY <1>4, <1>6, CopyIsKept
<1>8. ASSUME accepted, IsToRebuild(version, script, tables[Table].def)
      PROVE  new.def = ShadowDef(version, tables[Table].def) /\ Carried(version, tables[Table], new)
  <2>1. at = 3 /\ source = CopySource(version, t.def)
    BY <1>1, <1>8, RunsAt DEF source
  <2>2. IsOnItsWay(version, script, at, tables)
    BY <1>1, RunsAt DEF KeptInv
  <2>3. def = ShadowDef(version, t.def)
    BY <1>8, <2>1, <2>2 DEF IsOnItsWay
  <2> HIDE DEF def, t
  <2>4. Carried(version, t, new)
    BY <1>2, <1>4, <1>5, <1>6, <1>8, <2>1, <2>3, CopyIsCarried
  <2> QED
    BY <1>4, <2>3, <2>4 DEF t
<1> QED
  BY <1>1, <1>2, <1>3, <1>5, <1>7, <1>8, ShadowKeepsValues

\* raising the counter leaves the rows,
LEMMA RaiseCounterKeepsValues == KeptInv /\ SettledInv' /\ RaiseCounter => KeptInv'
<1> SUFFICES ASSUME KeptInv, SettledInv', RaiseCounter PROVE KeptInv'
  OBVIOUS
<1> DEFINE shadow == tables[Shadow]
           auto == AtLeast(counter, shadow.rows)
           after == [tables EXCEPT ![Shadow].auto = auto]
           new == [shadow EXCEPT !.auto = auto]
           accepted == IsThere(Shadow)
<1>1. /\ Statement("rebase") /\ Run(accepted, after) /\ UNCHANGED InScript
      /\ strict' = strict /\ counter' = counter
  BY DEF RaiseCounter, session
<1>2. AreKept(tables) /\ AreOnline(tables) /\ counter \in Nat
  BY DEF KeptInv, SettledInv, OnlineInv
<1>3. after = With(Shadow, new)
  BY DEF With
<1>4. IsKept(shadow)
  BY <1>2, TableNames DEF AreKept
<1> HIDE DEF shadow, after, accepted
<1>5. auto \in Nat \ {0} /\ \A r \in shadow.rows : r.id < auto
  BY <1>2, <1>4, Counters DEF IsKept, IsStoredTable
<1> HIDE DEF auto
<1>6. new = [def |-> shadow.def, rows |-> shadow.rows, auto |-> auto]
  BY <1>4 DEF IsKept, IsStoredTable
<1> HIDE DEF new
<1>7. IsKept(new) /\ new.def = shadow.def /\ new.rows = shadow.rows
  BY <1>4, <1>5, <1>6 DEF IsKept, IsStoredTable
<1>8. /\ after[Shadow] = new /\ after[Table] = tables[Table] /\ after[Backup] = tables[Backup]
  BY <1>2, <1>3, TableNames, WithDef
<1>9. strict' = TRUE /\ counter' \in Nat /\ Running
  <2>1. "rebase" # "strict"
    OBVIOUS
  <2>2. Running /\ strict = TRUE
    BY <1>1, <2>1, RunsStrictly
  <2> QED
    BY <1>1, <1>2, <2>2
<1>10. ASSUME IsToRebuild(version, script, tables[Table].def)
       PROVE  /\ new.def = ShadowDef(version, tables[Table].def)
              /\ Carried(version, tables[Table], new)
  <2>1. at > 3 /\ at \in Nat
    BY <1>1, <1>10, RunsAt
  <2>2. at > 2
    BY <2>1
  <2>3. IsOnItsWay(version, script, at, tables)
    BY <1>9 DEF KeptInv
  <2>4. /\ shadow.def = ShadowDef(version, tables[Table].def)
        /\ Carried(version, tables[Table], shadow)
    BY <1>10, <2>1, <2>2, <2>3 DEF IsOnItsWay, shadow
  <2>5. Reading(version, new) = Reading(version, shadow)
    BY <1>7, ReadAlike
  <2> QED
    BY <1>7, <2>4, <2>5 DEF Carried
<1> QED
  BY <1>1, <1>8, <1>7, <1>9, <1>10, ShadowKeepsValues

\* and the names are swapped when the new table holds what the old one does: never for a table
\* that is rebuilt already.
LEMMA SwapNamesKeepsValues == KeptInv /\ SettledInv' /\ SwapNames => KeptInv'
<1> SUFFICES ASSUME KeptInv, SettledInv', SwapNames PROVE KeptInv'
  OBVIOUS
<1> DEFINE accepted == IsThere(Table) /\ IsThere(Shadow) /\ ~IsThere(Backup)
           after == [tables EXCEPT ![Backup] = tables[Table], ![Table] = tables[Shadow],
                                   ![Shadow] = Missing]
<1>1. /\ Statement("rename") /\ Run(accepted, after) /\ UNCHANGED InScript
      /\ strict' = strict /\ counter' = counter
  BY DEF SwapNames, session
<1>2. /\ AreKept(tables) /\ AreOnline(tables) /\ counter \in Nat /\ version \in DeclaredVersions
  BY DEF KeptInv, SettledInv, OnlineInv
<1>3. /\ after[Backup] = tables[Table] /\ after[Table] = tables[Shadow] /\ after[Shadow] = Missing
  <2>1. tables = [n \in Names |-> tables[n]]
    BY <1>2 DEF AreOnline
  <2> QED
    BY <2>1, TableNames
<1>4. Running /\ at \in DOMAIN script /\ script[at].op = "rename" /\ strict = TRUE
  <2>1. "rename" # "strict"
    OBVIOUS
  <2> QED
    BY <1>1, <2>1, RunsStrictly
<1>5. IsRebuild(script)
  BY <1>4 DEF IsRebuild
<1>6. accepted => /\ AsDeclared(version, tables[Shadow].def) /\ Exists(tables[Table].def)
                  /\ ~Exists(tables[Backup].def)
  BY DEF KeptInv, SettledInv, IsThere
<1> HIDE DEF accepted, after
<1>7. AreKept(after)
  <2>1. AreRows({})
    BY FS_EmptySet DEF AreRows
  <2>2. IsKept(Missing)
    BY <2>1 DEF IsKept, IsStoredTable, UniqueIds, Missing
  <2> QED
    BY <1>2, <1>3, <2>2, TableNames DEF AreKept, Names
<1>8. accepted => AreRead(version, after[Table])
  BY <1>2, <1>3, <1>6, DeclaredKeysAreClear DEF AreRead, AsDeclared
<1>9. accepted => Carried(version, tables[Table], after[Table])
  <2>1. InWindow
    BY <1>4 DEF Running, InWindow
  <2>2. accepted => IsToRebuild(version, script, tables[Table].def)
    BY <1>5, <1>6, <2>1 DEF KeptInv, IsRebuilt, IsThere
  <2>3. accepted => at > 3
    BY <1>1, <2>2, RunsAt
  <2>4. IsOnItsWay(version, script, at, tables)
    BY <1>4 DEF KeptInv
  <2> QED
    BY <1>3, <2>2, <2>3, <2>4 DEF IsOnItsWay
<1>10. accepted => IsOnItsWay(version, script, at + 1, after)
  <2>1. accepted => LegacyKeys(version, after[Table].def) = {}
    BY <1>2, <1>3, <1>6, DeclaredTablesDoNotDrift
  <2> QED
    BY <1>5, <2>1 DEF IsOnItsWay, IsToRebuild
<1> QED
  BY <1>1, <1>2, <1>3, <1>4, <1>6, <1>7, <1>8, <1>9, <1>10, RunKeepsValues

\* Where a statement that alters the table finds it.
LEMMA RunsInPlace ==
  ASSUME KeptInv, NEW op, Statement(op),
         op \in {"drop index", "fill", "change column", "add index"}
  PROVE  /\ version \in DeclaredVersions /\ IsKept(tables[Table]) /\ IsOnline(tables[Table].def)
         /\ AreRead(version, tables[Table])
         /\ at \in DOMAIN script /\ at \in Nat /\ script[at].op = op
         /\ DOMAIN script = 1..Len(script) /\ Len(script) \in Nat
         /\ strict = TRUE
         /\ IsAhead(version, tables[Table].def.cols, script, at)
         /\ IsAhead(version, tables[Table].def.cols, script, at + 1)
<1>1. op # "strict"
  OBVIOUS
<1>2. Running /\ at \in DOMAIN script /\ script[at].op = op /\ strict = TRUE
  BY <1>1, RunsStrictly
<1>3. at \in Nat /\ ~IsRebuild(script)
  BY RunsAt
<1>4. /\ version \in DeclaredVersions /\ AreOnline(tables) /\ AreKept(tables)
      /\ AreRead(version, tables[Table])
      /\ DOMAIN script = 1..Len(script) /\ Len(script) \in Nat
  BY DEF KeptInv, SettledInv, OnlineInv, AreStatements
<1>5. IsKept(tables[Table]) /\ IsOnline(tables[Table].def)
  BY <1>4, TableNames DEF AreKept, AreOnline
<1>6. IsAhead(version, tables[Table].def.cols, script, at)
  BY <1>2, <1>3 DEF KeptInv, IsOnItsWay
<1>7. IsAhead(version, tables[Table].def.cols, script, at + 1)
  BY <1>3, <1>4, <1>6, AheadGoesOn
<1> QED
  BY <1>2, <1>3, <1>4, <1>5, <1>6, <1>7

\* Without an index the table holds the same,
LEMMA DropIndexKeepsValues == KeptInv /\ SettledInv' /\ DropIndex => KeptInv'
<1> SUFFICES ASSUME KeptInv, SettledInv', DropIndex PROVE KeptInv'
  OBVIOUS
<1> DEFINE t == tables[Table]
           x == script[at]
           indexes == [i \in DOMAIN t.def.indexes \ {x.name} |-> t.def.indexes[i]]
           accepted == x.name \in DOMAIN t.def.indexes
           new == [t EXCEPT !.def.indexes = indexes]
           def == [t.def EXCEPT !.indexes = indexes]
<1>1. /\ Statement("drop index") /\ Run(accepted, With(Table, new))
      /\ UNCHANGED InScript /\ UNCHANGED session
  BY DEF DropIndex
<1>2. "drop index" \in {"drop index", "fill", "change column", "add index"}
  OBVIOUS
<1>3. /\ version \in DeclaredVersions /\ IsKept(t) /\ IsOnline(t.def) /\ AreRead(version, t)
      /\ IsAhead(version, t.def.cols, script, at + 1)
  BY <1>1, <1>2, RunsInPlace
<1>4. new = [t EXCEPT !.def = def]
  OBVIOUS
<1> HIDE DEF indexes, accepted, new
<1>5. def.cols = t.def.cols
  BY <1>3 DEF IsOnline, IsTable
<1> HIDE DEF def
<1>6. new = [def |-> def, rows |-> t.rows, auto |-> t.auto]
  <2> HIDE DEF t
  <2> QED
    BY <1>3, <1>4 DEF IsKept, IsStoredTable
<1>7. new.def.cols = t.def.cols /\ new.rows = t.rows
  BY <1>5, <1>6
<1>8. IsKept(new)
  BY <1>3, <1>5, <1>6 DEF IsKept, IsStoredTable
<1>9. Carried(version, t, new)
  <2>1. Reading(version, new) = Reading(version, t)
    BY <1>7, ReadAlike
  <2> QED
    BY <2>1, HoldsItself DEF Carried
<1>10. AreRead(version, new) /\ IsAhead(version, new.def.cols, script, at + 1)
  BY <1>3, <1>7 DEF AreRead
<1> QED
  BY <1>1, <1>2, <1>8, <1>9, <1>10, InPlaceKeepsValues

\* with '' for NULL it holds the same but for that,
LEMMA FillNullsKeepsValues == KeptInv /\ SettledInv' /\ FillNulls => KeptInv'
<1> SUFFICES ASSUME KeptInv, SettledInv', FillNulls PROVE KeptInv'
  OBVIOUS
<1> DEFINE t == tables[Table]
           cols == t.def.cols
           rows == Filled(t.rows, {script[at].name})
           accepted == script[at].name \in DOMAIN t.def.cols /\ NoDuplicates(t.def, rows)
           new == [t EXCEPT !.rows = rows]
<1>1. /\ Statement("fill") /\ Run(accepted, With(Table, new))
      /\ UNCHANGED InScript /\ UNCHANGED session
  BY DEF FillNulls
<1>2. "fill" \in {"drop index", "fill", "change column", "add index"}
  OBVIOUS
<1>3. /\ version \in DeclaredVersions /\ IsKept(t) /\ AreRead(version, t)
      /\ IsAhead(version, t.def.cols, script, at + 1)
  BY <1>1, <1>2, RunsInPlace
<1>4. /\ t = [def |-> t.def, rows |-> t.rows, auto |-> t.auto] /\ AreRows(t.rows)
      /\ t.auto \in Nat \ {0} /\ UniqueIds(t.rows)
      /\ \A r \in t.rows : r.id < t.auto /\ DOMAIN r.vals = DOMAIN cols
  BY <1>3 DEF IsKept, IsStoredTable
<1>5. rows = Filled(t.rows, {script[at].name})
  OBVIOUS
<1>6. AreRows(rows)
  BY <1>4, FilledRows
<1> HIDE DEF rows
<1>7. /\ UniqueIds(rows) /\ SameIds(t.rows, rows)
      /\ \A r \in t.rows, s \in rows : s.id = r.id =>
           /\ DOMAIN s.vals = DOMAIN r.vals
           /\ \A n \in DOMAIN r.vals : Same(s.vals[n], r.vals[n])
  BY <1>4, <1>5, FilledValues
<1>8. new = [def |-> t.def, rows |-> rows, auto |-> t.auto]
  <2> HIDE DEF t
  <2> QED
    BY <1>4
<1> HIDE DEF accepted, new
<1>9. new.def = t.def /\ new.rows = rows /\ new.auto = t.auto
  BY <1>8
<1>10. IsKept(new)
  <2>1. \A s \in rows : s.id < t.auto /\ DOMAIN s.vals = DOMAIN cols
    BY <1>4, <1>7 DEF SameIds
  <2> QED
    BY <1>4, <1>6, <1>7, <1>8, <1>9, <2>1 DEF IsKept, IsStoredTable
<1>11. Carried(version, t, new)
  <2> SUFFICES \A f \in FieldsOf(version) : IsAgreed(version, cols, f) =>
                 \A r \in t.rows, s \in rows : s.id = r.id =>
                   Same(s.vals[ReadFrom(version, cols, f)], r.vals[ReadFrom(version, cols, f)])
    BY <1>3, <1>4, <1>7, <1>9, CarriedRows
  <2> TAKE f \in FieldsOf(version)
  <2> HAVE IsAgreed(version, cols, f)
  <2>1. ReadFrom(version, cols, f) \in SyncColumns(version, cols)[f.name]
    BY DEF IsAgreed, ReadFrom
  <2>2. SyncColumns(version, cols)[f.name] \subseteq ColumnsFor(cols, f)
    BY <1>3, SyncApart
  <2>3. ReadFrom(version, cols, f) \in DOMAIN cols
    BY <2>1, <2>2 DEF ColumnsFor
  <2> QED
    BY <1>4, <1>7, <2>3
<1>12. AreRead(version, new) /\ IsAhead(version, new.def.cols, script, at + 1)
  BY <1>3, <1>9 DEF AreRead
<1> QED
  BY <1>1, <1>2, <1>10, <1>11, <1>12, InPlaceKeepsValues

\* An altered table's columns are a function again.
LEMMA AlteredColumns ==
  ASSUME NEW def, NEW clauses
  PROVE  AreColumns(Altered(def, clauses).cols)
<1> DEFINE c == Altered(def, clauses).cols
<1> QED
  BY DEF Altered, AreColumns

\* Every number is at least itself.
LEMMA AtLeastItself == \A n \in Nat : n >= n
OBVIOUS

\* The column that is changed next.
LEMMA NextIsChanged ==
  ASSUME NEW v, NEW cols, NEW s, NEW i \in Nat, i \in DOMAIN s, IsAhead(v, cols, s, i),
         s[i].op = "change column"
  PROVE  \E f \in FieldsOf(v) : f.key /\ \E old, column :
           s[i] = ToKeyColumn(column, old, f) /\ IsSource(v, cols, old, f)
<1> DEFINE IsChange(k) == \E f \in FieldsOf(v) : f.key /\ \E old, column :
                            s[k] = ToKeyColumn(column, old, f) /\ IsSource(v, cols, old, f)
<1>1. \A k \in DOMAIN s : k >= i /\ s[k].op = "change column" => IsChange(k)
  BY DEF IsAhead
<1>2. IsChange(i)
  <2> HIDE DEF IsChange
  <2>1. i >= i
    BY AtLeastItself
  <2> QED
    BY <1>1, <2>1
<1> QED
  BY <1>2

\* and an ALTER of a key's column, or for an index, leaves what was read of each row.
LEMMA AlterTableKeepsValues == KeptInv /\ SettledInv' /\ AlterTable => KeptInv'
<1> SUFFICES ASSUME KeptInv, SettledInv', AlterTable PROVE KeptInv'
  OBVIOUS
<1> DEFINE t == tables[Table]
           x == script[at]
           cols == t.def.cols
           accepted == Alters(t, {x}, strict)
           new == AlteredTable(t, {x})
<1>1. PICK op \in {"change column", "add index"} :
        /\ Statement(op) /\ Run(accepted, With(Table, new))
        /\ UNCHANGED InScript /\ UNCHANGED session
  BY DEF AlterTable
<1>2. op \in {"drop index", "fill", "change column", "add index"}
  OBVIOUS
<1>3. /\ version \in DeclaredVersions /\ IsKept(t) /\ AreRead(version, t)
      /\ at \in DOMAIN script /\ at \in Nat /\ x.op = op
      /\ strict = TRUE
      /\ IsAhead(version, cols, script, at) /\ IsAhead(version, cols, script, at + 1)
  BY <1>1, <1>2, RunsInPlace
<1>4. x = script[at] /\ accepted = Alters(t, {x}, strict)
  OBVIOUS
<1>5. accepted => Alters(t, {x}, TRUE)
  BY <1>3
<1> HIDE DEF accepted, x
<1>6. IsKept(new) /\ new.def = Altered(t.def, {x})
  BY <1>3, AlteredIsKept
<1>7. AreColumns(new.def.cols)
  BY <1>6, AlteredColumns
<1>8. KeysAreClear(version, cols) /\ AreColumns(cols)
  BY <1>3 DEF AreRead
<1> HIDE DEF t
<1>9. CASE op = "add index"
  <2>1. accepted => Carried(version, t, new) /\ new.def.cols = t.def.cols
    BY <1>3, <1>5, <1>8, <1>9, IndexAdded DEF t
  <2>2. accepted => AreRead(version, new) /\ IsAhead(version, new.def.cols, script, at + 1)
    BY <1>3, <1>7, <1>8, <2>1 DEF AreRead
  <2> HIDE DEF new
  <2> QED
    BY <1>1, <1>2, <1>6, <2>1, <2>2, InPlaceKeepsValues DEF t
<1>10. CASE op = "change column"
  <2>1. PICK f \in FieldsOf(version) : f.key /\ \E old, column :
          x = ToKeyColumn(column, old, f) /\ IsSource(version, cols, old, f)
    <3>1. script[at].op = "change column"
      <4>1. script[at].op = op
        BY <1>3, <1>4
      <4> QED
        BY <1>10, <4>1
    <3>2. IsAhead(version, cols, script, at) /\ at \in DOMAIN script /\ at \in Nat
      BY <1>3
    <3> HIDE DEF cols
    <3>3. \E f \in FieldsOf(version) : f.key /\ \E old, column :
            script[at] = ToKeyColumn(column, old, f) /\ IsSource(version, cols, old, f)
      BY <3>1, <3>2, NextIsChanged
    <3> QED
      BY <1>4, <3>3
  <2>2. PICK old, column :
          x = ToKeyColumn(column, old, f) /\ IsSource(version, cols, old, f)
    BY <2>1
  <2>3. ASSUME accepted
        PROVE  /\ Carried(version, t, new) /\ KeysAreClear(version, new.def.cols)
               /\ \A g \in FieldsOf(version) : \A o :
                    IsSource(version, cols, o, g) => IsSource(version, new.def.cols, o, g)
    BY <1>3, <1>5, <1>8, <2>1, <2>2, <2>3, KeyAltered
  <2> HIDE DEF new
  <2>4. ASSUME accepted
        PROVE  IsAhead(version, new.def.cols, script, at + 1)
    <3> HIDE DEF cols
    <3>1. \A g \in FieldsOf(version) : \A o :
            IsSource(version, cols, o, g) => IsSource(version, new.def.cols, o, g)
      BY <2>3, <2>4 DEF cols
    <3> QED
      BY <1>3, <3>1 DEF IsAhead
  <2>5. accepted => AreRead(version, new)
    BY <1>7, <2>3 DEF AreRead
  <2> QED
    BY <1>1, <1>2, <1>6, <2>3, <2>4, <2>5, InPlaceKeepsValues DEF t
<1> QED
  BY <1>9, <1>10

\* No statement loses a value.
LEMMA RunStatementKeepsValues == KeptInv /\ SettledInv' /\ RunStatement => KeptInv'
BY SetStrictKeepsValues, CreateShadowKeepsValues, CopyRowsKeepsValues, ReadCounterKeepsValues,
   RaiseCounterKeepsValues, SwapNamesKeepsValues, DropIndexKeepsValues, FillNullsKeepsValues,
   AlterTableKeepsValues DEF RunStatement

\* What is known of the rows, with what is read of one of them.
Known(l, id, now) == [i \in DOMAIN l \cup {id} |-> IF i = id THEN now[i] ELSE l[i]]

\* A row more, with the next id: the rest is read as before.
LEMMA RowAdded ==
  ASSUME NEW v \in DeclaredVersions, NEW t, IsKept(t), NEW vals, DOMAIN vals = DOMAIN t.def.cols,
         NEW row, row = [id |-> t.auto, vals |-> vals], NEW rows, rows = t.rows \cup {row},
         NEW u, u = [def |-> t.def, rows |-> rows, auto |-> t.auto + 1],
         NEW l, Holds(Reading(v, t), l), NEW added, added = Known(l, t.auto, Reading(v, u))
  PROVE  IsKept(u) /\ Holds(Reading(v, u), added)
<1>1. /\ AreRows(t.rows) /\ t.auto \in Nat \ {0} /\ UniqueIds(t.rows)
      /\ \A r \in t.rows : r.id < t.auto /\ DOMAIN r.vals = DOMAIN t.def.cols
  BY DEF IsKept, IsStoredTable
<1>2. \A r \in t.rows : r.id \in Nat /\ r.id # t.auto /\ r.id < t.auto + 1
  BY <1>1 DEF AreRows, IsRow
<1>3. row.id = t.auto /\ row.vals = vals /\ IsRow(row)
  BY <1>1 DEF IsRow
<1>4. u.def = t.def /\ u.rows = rows /\ u.auto = t.auto + 1
  OBVIOUS
<1>5. AreRows(rows)
  BY <1>1, <1>3, FS_AddElement DEF AreRows
<1>6. UniqueIds(rows)
  BY <1>1, <1>2, <1>3 DEF UniqueIds
<1>7. IsKept(u)
  <2>1. \A r \in rows : r.id < t.auto + 1 /\ DOMAIN r.vals = DOMAIN t.def.cols
    BY <1>1, <1>2, <1>3
  <2>2. t.auto + 1 \in Nat \ {0}
    BY <1>1
  <2> QED
    BY <1>4, <1>5, <1>6, <2>1, <2>2 DEF IsKept, IsStoredTable
<1> DEFINE now == Reading(v, u)
           then == Reading(v, t)
<1>8. /\ IsPartOf(then, now)
      /\ \A i : i \in DOMAIN then <=> \E r \in t.rows : i = r.id
      /\ \A i : i \in DOMAIN now <=> \E r \in u.rows : i = r.id
  <2>1. UniqueIds(u.rows) /\ t.def = u.def /\ t.rows \subseteq u.rows
    BY <1>4, <1>6
  <2> QED
    BY ONLY <2>1, v \in DeclaredVersions, RowsApart
<1>9. DOMAIN now = DOMAIN then \cup {t.auto}
  <2> HIDE DEF now, then
  <2>1. \A r : r \in u.rows <=> r \in t.rows \/ r = row
    BY <1>4
  <2>2. \A i : i \in DOMAIN now <=> i \in DOMAIN then \/ i = t.auto
    BY <1>3, <1>8, <2>1
  <2> QED
    BY <2>2
<1>10. /\ DOMAIN then = DOMAIN l
       /\ \A i \in DOMAIN l : \A name \in DOMAIN l[i] :
            name \in DOMAIN then[i] /\ Same(then[i][name], l[i][name])
  BY DEF Holds
<1>11. \A i \in DOMAIN added : i # t.auto => i \in DOMAIN l /\ added[i] = l[i]
  BY DEF Known
<1>12. DOMAIN added = DOMAIN l \cup {t.auto} /\ added[t.auto] = now[t.auto]
  BY DEF Known
<1> HIDE DEF now, then
<1>13. DOMAIN now = DOMAIN added
  BY <1>9, <1>10, <1>12
<1>14. ASSUME NEW i \in DOMAIN added, NEW name \in DOMAIN added[i]
       PROVE  name \in DOMAIN now[i] /\ Same(now[i][name], added[i][name])
  <2>1. CASE i = t.auto
    BY <1>12, <1>14, <2>1 DEF Same
  <2>2. CASE i # t.auto
    <3>1. i \in DOMAIN l /\ added[i] = l[i] /\ i \in DOMAIN then
      BY <1>10, <1>11, <2>2
    <3>2. name \in DOMAIN then[i] /\ Same(then[i][name], l[i][name])
      BY <1>10, <1>14, <3>1
    <3>3. name \in DOMAIN now[i] /\ then[i][name] = now[i][name]
      BY <1>8, <3>1, <3>2 DEF IsPartOf
    <3> QED
      BY <3>1, <3>2, <3>3
  <2> QED
    BY <2>1, <2>2
<1>15. Holds(now, added)
  BY <1>13, <1>14 DEF Holds
<1> QED
  BY <1>7, <1>15 DEF now

\* A row less: the rest is read as before.
LEMMA RowRemoved ==
  ASSUME NEW v \in DeclaredVersions, NEW t, IsKept(t), NEW row \in t.rows,
         NEW rows, rows = t.rows \ {row},
         NEW u, u = [def |-> t.def, rows |-> rows, auto |-> t.auto],
         NEW l, Holds(Reading(v, t), l), NEW rest,
         rest = [i \in DOMAIN l \ {row.id} |-> l[i]]
  PROVE  IsKept(u) /\ Holds(Reading(v, u), rest)
<1>1. /\ AreRows(t.rows) /\ t.auto \in Nat \ {0} /\ UniqueIds(t.rows)
      /\ \A r \in t.rows : r.id < t.auto /\ DOMAIN r.vals = DOMAIN t.def.cols
  BY DEF IsKept, IsStoredTable
<1>2. u.def = t.def /\ u.rows = rows /\ u.auto = t.auto
  OBVIOUS
<1>3. AreRows(rows)
  BY <1>1, FS_Subset DEF AreRows
<1>4. UniqueIds(rows)
  BY <1>1 DEF UniqueIds
<1>5. IsKept(u)
  BY <1>1, <1>2, <1>3, <1>4 DEF IsKept, IsStoredTable
<1> DEFINE now == Reading(v, u)
           then == Reading(v, t)
<1>6. /\ IsPartOf(now, then)
      /\ \A i : i \in DOMAIN now <=> \E r \in u.rows : i = r.id
      /\ \A i : i \in DOMAIN then <=> \E r \in t.rows : i = r.id
  BY <1>1, <1>2, RowsApart
<1>7. DOMAIN now = DOMAIN then \ {row.id}
  <2> HIDE DEF now, then
  <2>1. \A r : r \in u.rows <=> r \in t.rows /\ r # row
    BY <1>2
  <2>2. \A r \in t.rows : r.id = row.id <=> r = row
    BY <1>1 DEF UniqueIds
  <2>3. \A i : i \in DOMAIN now <=> i \in DOMAIN then /\ i # row.id
    BY <1>6, <2>1, <2>2
  <2> QED
    BY <2>3
<1>8. /\ DOMAIN then = DOMAIN l
      /\ \A i \in DOMAIN l : \A name \in DOMAIN l[i] :
           name \in DOMAIN then[i] /\ Same(then[i][name], l[i][name])
  BY DEF Holds
<1>9. DOMAIN rest = DOMAIN l \ {row.id} /\ \A i \in DOMAIN rest : rest[i] = l[i]
  OBVIOUS
<1> HIDE DEF now, then
<1>10. DOMAIN now = DOMAIN rest
  BY <1>7, <1>8, <1>9
<1>11. ASSUME NEW i \in DOMAIN rest, NEW name \in DOMAIN rest[i]
       PROVE  name \in DOMAIN now[i] /\ Same(now[i][name], rest[i][name])
  <2>1. i \in DOMAIN l /\ rest[i] = l[i] /\ i \in DOMAIN now
    BY <1>9, <1>10
  <2>2. name \in DOMAIN then[i] /\ Same(then[i][name], l[i][name])
    BY <1>8, <1>11, <2>1
  <2>3. name \in DOMAIN now[i] /\ now[i][name] = then[i][name]
    BY <1>6, <2>1, <2>2 DEF IsPartOf
  <2> QED
    BY <2>1, <2>2, <2>3
<1>12. Holds(now, rest)
  BY <1>10, <1>11 DEF Holds
<1> QED
  BY <1>5, <1>12 DEF now

\* The script that alters the table begins ahead of all the columns it changes.
LEMMA AlterScriptIsAhead ==
  ASSUME NEW v \in DeclaredVersions, NEW def
  PROVE  IsAhead(v, def.cols, AlterScript(v, def), 1)
<1> DEFINE s == AlterScript(v, def)
<1>1. \A i \in DOMAIN s : IsAlterStatement(v, def, s[i])
  BY AlterScriptStatements
<1> HIDE DEF s
<1> SUFFICES ASSUME NEW k \in DOMAIN s, s[k].op = "change column"
             PROVE  \E f \in FieldsOf(v) : f.key /\ \E old, column :
                      s[k] = ToKeyColumn(column, old, f) /\ IsSource(v, def.cols, old, f)
  BY DEF IsAhead, s
<1>2. \A i \in DOMAIN v.indexes : AddIndex(i, v.indexes[i]).op = "add index"
  BY DEF AddIndex
<1>3. PICK f \in LegacyKeys(v, def) : \E old \in LegacyColumns(def, f) : \E column :
        s[k] = ToKeyColumn(column, old, f)
  BY <1>1, <1>2 DEF IsAlterStatement
<1>4. PICK old \in LegacyColumns(def, f) : \E column : s[k] = ToKeyColumn(column, old, f)
  BY <1>3
<1>5. f \in FieldsOf(v)
  BY <1>3 DEF LegacyKeys
<1>6. old \in Candidates(def.cols, DOMAIN def.cols, f) /\ IsLegacyKey(def.cols[old], f)
  BY <1>4 DEF LegacyColumns
<1>7. f.key
  BY <1>6 DEF IsLegacyKey
<1>8. IsSource(v, def.cols, old, f)
  BY <1>6 DEF IsSource, Candidates, ColumnsFor
<1> QED
  BY <1>4, <1>5, <1>7, <1>8

\* The tables after one of them is replaced.
LEMMA KeptWith ==
  ASSUME KeptInv, NEW name \in Names, NEW t, IsKept(t)
  PROVE  AreKept(With(name, t))
<1>1. AreOnline(tables) /\ AreKept(tables)
  BY DEF KeptInv, SettledInv, OnlineInv
<1>2. /\ With(name, t)[name] = t
      /\ \A other \in Names \ {name} : With(name, t)[other] = tables[other]
  BY <1>1, WithDef
<1> QED
  BY <1>1, <1>2 DEF AreKept

\* A table without rows is kept.
LEMMA MissingIsKept == IsKept(Missing)
<1>1. AreRows({})
  BY FS_EmptySet DEF AreRows
<1> QED
  BY <1>1 DEF IsKept, IsStoredTable, UniqueIds, Missing

\* A new script begins ahead of all it changes.
LEMMA AskForScriptKeepsValues == KeptInv /\ SettledInv' /\ AskForScript => KeptInv'
<1> SUFFICES ASSUME KeptInv, SettledInv', AskForScript PROVE KeptInv'
  OBVIOUS
<1> DEFINE def == tables[Table].def
<1>1. /\ OffersScript(version, def) /\ script' = ScriptFor(version, def)
      /\ version' = version /\ tables' = tables /\ live' = live
      /\ at' = 1 /\ strict' = FALSE /\ counter' = 1
  BY DEF AskForScript, Goto, NewSession, history
<1>2. version \in DeclaredVersions /\ LegacyKeys(version, def) # {}
  BY <1>1 DEF KeptInv, SettledInv, OnlineInv, OffersScript
<1> HIDE DEF def
<1>3. ASSUME InPrimaryKey(version, def)
      PROVE  /\ script'[1].op = "strict"
             /\ IsRebuild(script') /\ IsToRebuild(version, script', def)
  <2>1. script' = RebuildScript(version, def)
    BY <1>1, <1>3 DEF ScriptFor
  <2>2. IsInOrder(RebuildScript(version, def), version, def)
    BY RebuildOrder
  <2>3. script'[1].op = "strict"
    BY <2>1, <2>2 DEF IsInOrder
  <2>4. IsToRebuild(version, script', def)
    BY <1>2, <2>1 DEF IsToRebuild
  <2>5. IsRebuild(script')
    BY <2>4, ToRebuildIsRebuild
  <2> QED
    BY <2>3, <2>4, <2>5
<1>4. ASSUME ~InPrimaryKey(version, def)
      PROVE  /\ script'[1].op = "strict"
             /\ ~IsRebuild(script') /\ IsAhead(version, def.cols, script', 1)
  <2>1. script' = AlterScript(version, def)
    BY <1>1, <1>4 DEF ScriptFor
  <2>2. IsAlterScript(script') /\ script'[1].op = "strict"
    BY <1>2, <2>1, AlterScriptStatements
  <2>3. ~IsRebuild(script')
    BY <2>2 DEF IsAlterScript, InPlaceOps, IsRebuild
  <2>4. IsAhead(version, def.cols, script', 1)
    BY <1>2, <2>1, AlterScriptIsAhead
  <2> QED
    BY <2>2, <2>3, <2>4
<1>5. /\ script'[1].op = "strict"
      /\ IsRebuild(script') => IsToRebuild(version, script', def)
      /\ ~IsRebuild(script') => IsAhead(version, def.cols, script', 1)
  BY <1>3, <1>4
<1>6. IsOnItsWay(version, script', 1, tables)
  <2>1. ~(1 > 2) /\ ~(1 > 3)
    OBVIOUS
  <2> QED
    BY <1>5, <2>1 DEF IsOnItsWay, def
<1>7. /\ AreKept(tables') /\ AreRead(version', tables'[Table]) /\ counter' \in Nat
      /\ Holds(Reading(version', tables'[Table]), live')
  BY <1>1 DEF KeptInv
<1>8. (IsRebuild(script) => IsToRebuild(version, script, tables[Table].def) \/ IsRebuilt)'
  BY <1>1, <1>5 DEF def
<1>9. (Running => IsOnItsWay(version, script, at, tables))'
  BY <1>1, <1>6
<1>10. (Running => at = 1 \/ strict = TRUE)'
  BY <1>1
<1> QED
  BY <1>5, <1>7, <1>8, <1>9, <1>10 DEF KeptInv

\* Synchronisation keeps what it reads; a table that is to be rebuilt it refuses.
LEMMA SynchroniseKeepsValues == KeptInv /\ SettledInv' /\ Synchronise => KeptInv'
<1> SUFFICES ASSUME KeptInv, SettledInv', Synchronise PROVE KeptInv'
  OBVIOUS
<1> DEFINE t == tables[Table]
           e == version.expandOnly
           both == Plan(version, t.def, e).columns \cup Plan(version, t.def, e).primaryKey
           new == AlteredTable(t, both)
           done == both # {} /\ Alters(t, both, TRUE)
<1>1. /\ ~Plan(version, t.def, e).refused
      /\ tables' = tables \/ (done /\ tables' = With(Table, new))
      /\ operator' \in {"accepted", "failed"}
      /\ both = {} => operator' = "accepted"
      /\ version' = version /\ script' = script /\ counter' = counter /\ live' = live
  BY DEF Synchronise, Goto, session, history
<1>2. /\ version \in DeclaredVersions /\ AreOnline(tables) /\ AreKept(tables) /\ counter \in Nat
      /\ AreRead(version, t) /\ Holds(Reading(version, t), live)
      /\ IsRebuild(script) => IsToRebuild(version, script, t.def) \/ IsRebuilt
  BY DEF KeptInv, SettledInv, OnlineInv
<1>3. IsKept(t) /\ KeysAreClear(version, t.def.cols)
  BY <1>2, TableNames DEF AreKept, AreRead
<1>4. AsDeclared(version, t.def) => both = {}
  BY <1>2, DeclaredIsSettled
<1>5. IsRebuild(script) => AsDeclared(version, t.def)
  BY <1>1, <1>2, LegacyIsRefused DEF IsToRebuild, IsRebuilt
<1>6. ~Running' /\ (both = {} => ~InWindow')
  BY <1>1 DEF Running, InWindow
<1>7. both = Plan(version, t.def, e).columns \cup Plan(version, t.def, e).primaryKey
  OBVIOUS
<1> HIDE DEF both, t, e
<1>8. done => Carried(version, t, new) /\ KeysAreClear(version, new.def.cols)
  BY <1>1, <1>2, <1>3, <1>7, SynchronisedIsCarried
<1>9. IsKept(new) /\ AreColumns(new.def.cols)
  BY <1>3, AlteredIsKept, AlteredColumns
<1> HIDE DEF new
<1>10. AreKept(With(Table, new)) /\ With(Table, new)[Table] = new
  BY <1>2, <1>9, KeptWith, WithDef, TableNames
<1>11. AreKept(tables') /\ AreRead(version, tables'[Table])
  BY <1>1, <1>2, <1>8, <1>9, <1>10 DEF AreRead, t
<1>12. Holds(Reading(version, tables'[Table]), live')
  <2>1. done => Holds(Reading(version, new), live)
    BY <1>2, <1>8, HoldsOn DEF Carried
  <2> QED
    BY <1>1, <1>2, <1>10, <2>1 DEF t
<1>13. IsRebuild(script) => IsRebuilt'
  <2> SUFFICES ASSUME IsRebuild(script) PROVE IsRebuilt'
    OBVIOUS
  <2>1. AsDeclared(version, t.def) /\ both = {}
    BY <1>4, <1>5
  <2>2. tables' = tables /\ ~InWindow'
    BY <1>1, <1>6, <2>1
  <2> QED
    BY <1>1, <2>1, <2>2 DEF IsRebuilt, t
<1> QED
  BY <1>1, <1>2, <1>6, <1>11, <1>12, <1>13, QuietKeepsValues

\* The rebuild that is begun again has no shadow table yet,
LEMMA RestartKeepsValues == KeptInv /\ SettledInv' /\ Restart => KeptInv'
<1> SUFFICES ASSUME KeptInv, SettledInv', Restart PROVE KeptInv'
  OBVIOUS
<1>1. /\ operator = "failed" /\ IsRebuild(script) /\ tables' = With(Shadow, Missing)
      /\ at' = 1 /\ counter' = 1
      /\ version' = version /\ script' = script /\ live' = live
  BY DEF Restart, Goto, NewSession, history
<1>2. /\ AreOnline(tables) /\ AreRead(version, tables[Table])
      /\ Holds(Reading(version, tables[Table]), live)
      /\ IsToRebuild(version, script, tables[Table].def) \/ IsRebuilt
  BY <1>1 DEF KeptInv, SettledInv, OnlineInv
<1>3. tables'[Table] = tables[Table] /\ tables'[Backup] = tables[Backup]
  BY <1>1, <1>2, TableNames, WithDef
<1>4. AreKept(tables')
  BY <1>1, MissingIsKept, KeptWith, TableNames
<1>5. IsRebuilt => IsRebuilt'
  BY <1>1, <1>3 DEF IsRebuilt, IsThere, InWindow
<1>6. counter' \in Nat
  BY <1>1
<1> QED
  BY <1>1, <1>2, <1>3, <1>4, <1>5, <1>6, QuietKeepsValues

\* and one that is put off leaves the table as it is.
LEMMA PutOffKeepsValues == KeptInv /\ SettledInv' /\ PutOff => KeptInv'
<1> SUFFICES ASSUME KeptInv, SettledInv', PutOff PROVE KeptInv'
  OBVIOUS
<1>1. /\ operator' = "idle" /\ tables' = tables /\ counter' = counter
      /\ version' = version /\ script' = script /\ live' = live
  BY DEF PutOff, Goto, session, history
<1>2. ~Running' /\ ~InWindow'
  BY <1>1 DEF Running, InWindow
<1>3. IsRebuilt => IsRebuilt'
  BY <1>1, <1>2 DEF IsRebuilt
<1> QED
  BY <1>1, <1>2, <1>3, QuietKeepsValues DEF KeptInv

\* The old table is dropped when no script runs.
LEMMA DropBackupKeepsValues == KeptInv /\ SettledInv' /\ DropBackup => KeptInv'
<1> SUFFICES ASSUME KeptInv, SettledInv', DropBackup PROVE KeptInv'
  OBVIOUS
<1>1. /\ ~InWindow /\ operator' = operator /\ tables' = With(Backup, Missing)
      /\ counter' = counter /\ version' = version /\ script' = script /\ live' = live
  BY DEF DropBackup, session, history
<1>2. AreOnline(tables)
  BY DEF KeptInv, SettledInv, OnlineInv
<1>3. tables'[Table] = tables[Table]
  BY <1>1, <1>2, TableNames, WithDef
<1>4. AreKept(tables')
  BY <1>1, MissingIsKept, KeptWith, TableNames
<1>5. ~Running' /\ ~InWindow'
  BY <1>1 DEF Running, InWindow
<1>6. IsRebuilt => IsRebuilt'
  BY <1>1, <1>3, <1>5 DEF IsRebuilt
<1> QED
  BY <1>1, <1>3, <1>4, <1>5, <1>6, QuietKeepsValues DEF KeptInv

\* Writers come and go between the windows; no column changes.
LEMMA WritesKeepValues ==
  ASSUME KeptInv, SettledInv', ~InWindow, operator' = operator, version' = version,
         script' = script, UNCHANGED session, NEW new, IsKept(new), new.def = tables[Table].def,
         tables' = With(Table, new), Holds(Reading(version, new), live')
  PROVE  KeptInv'
<1>1. AreOnline(tables) /\ AreRead(version, tables[Table]) /\ counter \in Nat
  BY DEF KeptInv, SettledInv, OnlineInv
<1>2. tables'[Table] = new
  BY <1>1, TableNames, WithDef
<1>3. AreKept(tables')
  BY KeptWith, TableNames
<1>4. ~Running' /\ ~InWindow' /\ counter' = counter
  BY DEF Running, InWindow, session
<1>5. IsRebuilt => IsRebuilt'
  BY <1>2, <1>4 DEF IsRebuilt
<1>6. AreRead(version, tables'[Table])
  BY <1>1, <1>2 DEF AreRead
<1>7. IsRebuild(script) => IsToRebuild(version, script, tables'[Table].def) \/ IsRebuilt'
  BY <1>2, <1>5 DEF KeptInv
<1> QED
  BY <1>1, <1>2, <1>3, <1>4, <1>6, <1>7, QuietKeepsValues

\* A row is inserted,
LEMMA InsertRowKeepsValues ==
  ASSUME NEW x
  PROVE  KeptInv /\ SettledInv' /\ InsertRow(x) => KeptInv'
<1> SUFFICES ASSUME KeptInv, SettledInv', InsertRow(x) PROVE KeptInv'
  OBVIOUS
<1> DEFINE t == tables[Table]
           vals == NewRow(t.def, x)
           row == [id |-> t.auto, vals |-> vals]
           rows == t.rows \cup {row}
           auto == t.auto + 1
           new == [t EXCEPT !.rows = rows, !.auto = auto]
           u == [def |-> t.def, rows |-> rows, auto |-> auto]
           added == [i \in DOMAIN live \cup {t.auto} |->
                       IF i = t.auto THEN Reading(version, new)[i] ELSE live[i]]
<1>1. /\ ~InWindow /\ operator' = operator /\ tables' = With(Table, new)
      /\ version' = version /\ script' = script /\ UNCHANGED session
  BY DEF InsertRow, session
<1>2. live' = added
  BY DEF InsertRow
<1>3. /\ version \in DeclaredVersions /\ IsKept(t) /\ Holds(Reading(version, t), live)
  BY TableNames DEF KeptInv, SettledInv, OnlineInv, AreKept
<1>4. DOMAIN vals = DOMAIN t.def.cols
  BY DEF NewRow
<1>5. t = [def |-> t.def, rows |-> t.rows, auto |-> t.auto]
  BY <1>3 DEF IsKept, IsStoredTable
<1>6. row = [id |-> t.auto, vals |-> vals] /\ rows = t.rows \cup {row} /\ auto = t.auto + 1
  OBVIOUS
<1> HIDE DEF vals, row, rows, auto, t
<1>7. new = u
  BY <1>5, ReplacedRows
<1>8. added = Known(live, t.auto, Reading(version, u))
  BY <1>7 DEF Known
<1>9. u = [def |-> t.def, rows |-> rows, auto |-> t.auto + 1]
  BY <1>6
<1>10. u.def = t.def
  OBVIOUS
<1> HIDE DEF u, new, added
<1>11. IsKept(u) /\ Holds(Reading(version, u), added)
  BY <1>3, <1>4, <1>6, <1>8, <1>9, RowAdded
<1> QED
  BY <1>1, <1>2, <1>7, <1>10, <1>11, WritesKeepValues DEF t

\* or deleted.
LEMMA DeleteRowKeepsValues ==
  ASSUME NEW r \in tables[Table].rows
  PROVE  KeptInv /\ SettledInv' /\ DeleteRow(r) => KeptInv'
<1> SUFFICES ASSUME KeptInv, SettledInv', DeleteRow(r) PROVE KeptInv'
  OBVIOUS
<1> DEFINE t == tables[Table]
           rows == t.rows \ {r}
           new == [t EXCEPT !.rows = rows]
           u == [def |-> t.def, rows |-> rows, auto |-> t.auto]
           rest == [i \in DOMAIN live \ {r.id} |-> live[i]]
<1>1. /\ ~InWindow /\ operator' = operator
      /\ tables' = [tables EXCEPT ![Table].rows = tables[Table].rows \ {r}]
      /\ version' = version /\ script' = script /\ UNCHANGED session /\ live' = rest
  BY DEF DeleteRow, session
<1>2. tables' = With(Table, new)
  BY <1>1 DEF With
<1>3. /\ version \in DeclaredVersions /\ IsKept(t) /\ Holds(Reading(version, t), live)
  BY TableNames DEF KeptInv, SettledInv, OnlineInv, AreKept
<1>4. t = [def |-> t.def, rows |-> t.rows, auto |-> t.auto]
  BY <1>3 DEF IsKept, IsStoredTable
<1>5. rows = t.rows \ {r} /\ r \in t.rows
  OBVIOUS
<1> HIDE DEF rows, t
<1>6. new = u
  BY <1>4
<1>7. u = [def |-> t.def, rows |-> rows, auto |-> t.auto] /\ u.def = t.def
  OBVIOUS
<1>8. rest = [i \in DOMAIN live \ {r.id} |-> live[i]]
  OBVIOUS
<1> HIDE DEF u, new, rest
<1>9. IsKept(u) /\ Holds(Reading(version, u), rest)
  BY <1>3, <1>5, <1>7, <1>8, RowRemoved
<1> QED
  BY <1>1, <1>2, <1>6, <1>7, <1>9, WritesKeepValues DEF t

\* The invariant is inductive.
LEMMA NextKept == KeptInv /\ [MigrationNext]_migrationVars => KeptInv'
<1> SUFFICES ASSUME KeptInv, [MigrationNext]_migrationVars PROVE KeptInv'
  OBVIOUS
<1>1. SettledInv'
  BY NextSettled DEF KeptInv
<1>2. CASE UNCHANGED migrationVars
  <2>1. /\ version' = version /\ tables' = tables /\ operator' = operator /\ script' = script
        /\ at' = at /\ strict' = strict /\ counter' = counter /\ live' = live
    BY <1>2 DEF migrationVars
  <2>2. (Running <=> Running') /\ (IsRebuilt <=> IsRebuilt')
    BY <2>1 DEF Running, IsRebuilt, InWindow, IsThere
  <2> QED
    BY <1>1, <2>1, <2>2 DEF KeptInv
<1>3. CASE \E x \in NewKeys : InsertRow(x)
  BY <1>1, <1>3, InsertRowKeepsValues
<1>4. CASE \E r \in tables[Table].rows : DeleteRow(r)
  BY <1>1, <1>4, DeleteRowKeepsValues
<1> QED
  BY <1>1, <1>2, <1>3, <1>4, RunStatementKeepsValues, AskForScriptKeepsValues,
     RestartKeepsValues, PutOffKeepsValues, SynchroniseKeepsValues, DropBackupKeepsValues
     DEF MigrationNext

\* At first the table holds what is read of it, and no script runs.
LEMMA InitKept ==
  ASSUME \A c \in Cases : KeysAreClear(c.version, c.def.cols)
  PROVE  MigrationInit => KeptInv
<1> SUFFICES ASSUME MigrationInit PROVE KeptInv
  OBVIOUS
<1>1. PICK c \in Cases :
        /\ version = c.version
        /\ tables = [name \in {Table, Shadow, Backup} |->
                       IF name = Table THEN [def |-> c.def, rows |-> c.rows, auto |-> c.auto]
                                       ELSE Missing]
        /\ live = Reading(c.version, [def |-> c.def, rows |-> c.rows])
        /\ operator = "idle" /\ script = <<>> /\ counter = 1
  BY DEF MigrationInit
<1>2. SettledInv
  BY InitSettled
<1> DEFINE t == [def |-> c.def, rows |-> c.rows, auto |-> c.auto]
           bare == [def |-> c.def, rows |-> c.rows]
<1>3. tables[Table] = t /\ tables[Shadow] = Missing /\ tables[Backup] = Missing
  BY <1>1, TableNames
<1>4. IsKept(t)
  <2>1. /\ IsFiniteSet(c.rows) /\ c.auto \in Nat \ {0}
        /\ \A r \in c.rows : IsRow(r) /\ r.id < c.auto /\ DOMAIN r.vals = DOMAIN c.def.cols
        /\ \A r, s \in c.rows : r.id = s.id => r = s
    BY CasesAssumption
  <2> QED
    BY <2>1 DEF IsKept, IsStoredTable, AreRows, UniqueIds
<1>5. AreRead(version, t)
  BY <1>1, CasesAssumption DEF AreRead
<1>6. t.def.cols = bare.def.cols /\ t.rows = bare.rows
  OBVIOUS
<1> HIDE DEF t, bare
<1>7. AreKept(tables)
  BY <1>3, <1>4, MissingIsKept DEF AreKept, Names
<1>8. Holds(Reading(version, tables[Table]), live)
  <2>1. Reading(version, t) = Reading(version, bare)
    BY <1>6, ReadAlike
  <2> QED
    BY <1>1, <1>3, <2>1, HoldsItself DEF bare
<1>9. ~Running /\ ~IsRebuild(script) /\ counter \in Nat
  BY <1>1 DEF Running, IsRebuild
<1> QED
  BY <1>1, <1>2, <1>3, <1>5, <1>7, <1>8, <1>9 DEF KeptInv

\* Whatever statement of a migration script fails, is repeated, put off or followed by writers
\* or by SyncTable, the table holds the rows that were written and not deleted, with what the
\* program read of them, if each string key has one column at most and that one is no other
\* field's.
THEOREM RowsSurvive ==
  ASSUME \A c \in Cases : KeysAreClear(c.version, c.def.cols)
  PROVE  MigrationSpec => []RowsSurviveMigration
<1>1. MigrationInit => KeptInv
  BY InitKept
<1>2. KeptInv /\ [MigrationNext]_migrationVars => KeptInv'
  BY NextKept
<1>3. KeptInv => RowsSurviveMigration
  BY DEF KeptInv, Holds, RowsSurviveMigration
<1> QED
  BY <1>1, <1>2, <1>3, PTL DEF MigrationSpec
=============================================================================
