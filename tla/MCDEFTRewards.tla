--------------------------- MODULE MCDEFTRewards ---------------------------
(***************************************************************************)
(* A small instance of DEFTRewards: two providers, a reward that the       *)
(* period does not divide, and a curve that issues a tenth of the          *)
(* remaining DEFT per minute of two ticks.                                 *)
(***************************************************************************)
EXTENDS DEFTRewards, TLC

CONSTANTS p1, p2

ProvidersSymmetry == Permutations(Providers)
=============================================================================
