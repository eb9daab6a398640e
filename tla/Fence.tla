------------------------------- MODULE Fence -------------------------------
(***************************************************************************)
(* Fences of SaveConditional (conditional_save.go): the tuple of version   *)
(* columns a row carries, ordered lexicographically with the first column  *)
(* most significant, and the two places where the code compares fences:    *)
(* the predicate in the WHERE clause of the UPDATE, evaluated by MySQL,    *)
(* and conditionHolds, evaluated by the client on the fence it read back.  *)
(***************************************************************************)
EXTENDS Naturals

CONSTANTS
  FenceWidth,   \* number of fence columns (len(SaveOptions.FenceFields))
  FenceValues   \* values of one fence column (uint32 / uint64)

ASSUME FenceAssumption ==
  /\ FenceWidth \in Nat \ {0}
  /\ FenceValues \subseteq Nat
  /\ 0 \in FenceValues

Columns == 1..FenceWidth
Fences == [Columns -> FenceValues]
ZeroFence == [i \in Columns |-> 0]

\* slices.Compare(stored, wanted) < 0: the first differing column decides.
Older(stored, wanted) ==
  \E i \in Columns : /\ stored[i] < wanted[i]
                     /\ \A j \in 1..(i - 1) : stored[j] = wanted[j]

ConditionHolds(stored, wanted, allowEqual) ==
  \/ Older(stored, wanted)
  \/ allowEqual /\ stored = wanted

(***************************************************************************)
(* The predicate of the UPDATE, (a < ? OR (a = ? AND (b < ?))) with <= in  *)
(* the last column under AllowEqual, read as the disjunction it denotes:   *)
(* one disjunct per column, guarded by equality of the columns before it.  *)
(***************************************************************************)
FencePredicateOneColumn(stored, wanted, allowEqual) ==
  \E i \in Columns : \/ stored[i] < wanted[i]
                     \/ allowEqual /\ i = FenceWidth /\ stored[i] = wanted[i]

FencePredicate(stored, wanted, allowEqual) ==
  \E i \in Columns :
    /\ \A j \in 1..(i - 1) : stored[j] = wanted[j]
    /\ \/ stored[i] < wanted[i]
       \/ allowEqual /\ i = FenceWidth /\ stored[i] = wanted[i]
=============================================================================
