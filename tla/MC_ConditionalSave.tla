------------------------- MODULE MC_ConditionalSave -------------------------
(***************************************************************************)
(* Small instances of ConditionalSave.  k1 is the row the calls fight for; *)
(* k2 is a row that can only get in the way through the alternate UNIQUE   *)
(* column.  Only body b3 has the alternate value aliasB, and lossy is a    *)
(* value the online column cannot hold: it reads back as b1.               *)
(***************************************************************************)
EXTENDS ConditionalSave, TLC

CONSTANTS k1, k2, b1, b2, b3, lossy, aliasA, aliasB

MCAlias == [b \in Bodies |-> IF b = b3 THEN aliasB ELSE aliasA]
MCCoerce == [b \in Bodies |-> IF b = lossy THEN b1 ELSE b]

\* Everything a caller can ask of k1: each mode, every fence, every body.  A legacy
\* writer does not know the fence columns, so its message carries zeros.
MCRequests ==
  {r \in [key : {k1}, mode : Modes, fence : Fences, body : Bodies] :
     ~Fenced(r) => r.fence = ZeroFence}

\* Callers that use no fence: tables whose rows may be deleted.
MCLegacyRequests == {r \in MCRequests : ~Fenced(r)}

MCSymmetry == Permutations(Calls)

\* Any row or none at k1; at k2 any body, under the fence 0.
MCInitialTables ==
  {t \in Tables :
     /\ UniqueAlias(t)
     /\ \A k \in Keys : t[k] # None => Coerce[t[k].body] = t[k].body
     /\ t[k2] # None => t[k2].fence = ZeroFence}
=============================================================================
