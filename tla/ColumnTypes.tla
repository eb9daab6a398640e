---------------------------- MODULE ColumnTypes ----------------------------
(***************************************************************************)
(* MySQL column types as schema synchronisation compares them              *)
(* (proto2mysql.go): a family of types ordered by rank, a size within a    *)
(* rank (characters, fractional digits), and the sign of an integer.  Types *)
(* that belong to none of the code's families are families of one type.    *)
(***************************************************************************)
EXTENDS Integers

CONSTANT Families   \* "integer", "text", "binary", "float", "datetime", ...

Types == [family : Families, rank : Nat, size : Nat, unsigned : BOOLEAN]

\* A rename or an ALTER converts between types of one family only.
IsRenameConvertible(current, target) == current.family = target.family

UnsafeSignednessChange(current, target) ==
  current.family = target.family /\ current.unsigned # target.unsigned

\* The column as it is holds what the target type holds: no ALTER for the type.
IsTypeMatch(current, target) ==
  /\ current.family = target.family
  /\ current.unsigned = target.unsigned
  /\ IF current.rank # target.rank THEN current.rank >= target.rank
                                   ELSE current.size >= target.size

NarrowingSuppressed(current, target) ==
  /\ current.family = target.family
  /\ \/ /\ current.rank > target.rank
        /\ current.unsigned = target.unsigned
     \/ current.rank = target.rank /\ current.size > target.size

KeepsCurrent(current, target) ==
  UnsafeSignednessChange(current, target) \/ NarrowingSuppressed(current, target)

\* A bug the code had: the target type whenever the column is altered at all.
MutantAlignedType(current, target) == target

\* The type an ALTER writes.
AlignedColumnType(current, target) ==
  IF KeepsCurrent(current, target) THEN current ELSE target
-----------------------------------------------------------------------------
\* What columns really hold, apart from the comparisons above: bytes of an integer,
\* bytes of the longest text, fractional digits.
Capacity(type) ==
  CASE type.family = "integer" -> <<1, 2, 3, 4, 8>>[type.rank]
    [] type.family = "text" ->
         IF type.rank <= 2 THEN 4 * type.size
                           ELSE <<255, 65535, 16777215, 2147483647>>[type.rank - 2]
    [] type.family = "binary" ->
         IF type.rank <= 2 THEN type.size
                           ELSE <<255, 65535, 16777215, 2147483647>>[type.rank - 2]
    [] OTHER -> 100 * type.rank + type.size

HoldsAllOf(wider, type) ==
  /\ wider.family = type.family
  /\ wider.unsigned = type.unsigned
  /\ Capacity(wider) >= Capacity(type)
=============================================================================
