--------------------------- MODULE MCStabilityPool ---------------------------
(***************************************************************************)
(* Small instances of StabilityPool.  As in the contract SCALE_FACTOR is   *)
(* the square root of DECIMAL_PRECISION, so that one liquidation of more   *)
(* than 90% of the pool changes the scale.                                 *)
(***************************************************************************)
EXTENDS StabilityPool, TLC

Symmetry == Permutations(Accounts)
=============================================================================
