----------------------------- MODULE MC_SaveRow -----------------------------
(***************************************************************************)
(* Small instances of SaveRow: two keys, two bodies with the same value of *)
(* the alternate UNIQUE column and one with another, lossy a value the     *)
(* online column cannot hold.                                              *)
(***************************************************************************)
EXTENDS SaveRow, TLC

CONSTANTS k1, k2, b1, b2, b3, lossy, aliasA, aliasB

MCAlias == [b \in Bodies |-> IF b = b3 THEN aliasB ELSE aliasA]
MCCoerce == [b \in Bodies |-> IF b = lossy THEN b1 ELSE b]
MCSymmetry == Permutations(Calls)
MCInitialTables == {t \in Tables : Stored(t)}

One(k, b) == [key |-> k, body |-> b]

\* k2 with b2 is a message whose key column cannot hold its value.
MCUnfit == {One(k2, b2)}

\* Every Save of k1, and batches of two rows: the same row twice, two rows that can
\* collide on the UNIQUE column, a batch that is refused, an empty batch.
MCBatches ==
  {<<One(k1, b)>> : b \in Bodies}
    \cup {<<>>,
          <<One(k1, b1), One(k1, b2)>>,
          <<One(k2, b3), One(k1, b1)>>,
          <<One(k1, b1), One(k2, b2)>>}

\* Single Saves of one row, by columns that store what is written.
MCSaves == {<<One(k1, b)>> : b \in {b1, b2}}
=============================================================================
