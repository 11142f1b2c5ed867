--------------------------- MODULE MCSortedTroves ---------------------------
(***************************************************************************)
(* Small instances of SortedTroves: a few owners, ratios with ties, every  *)
(* hint.                                                                   *)
(***************************************************************************)
EXTENDS SortedTroves

Symmetry == Permutations(Ids)
=============================================================================
