------------------------------- MODULE MCFees -------------------------------
(***************************************************************************)
(* A small instance of Fees.  One is 1000; a minute is three ticks and the *)
(* rate loses a tenth of its value in it.  Fees have the deployed floors   *)
(* and maximum (0.5% and 5%).                                              *)
(***************************************************************************)
EXTENDS Fees, TLC

CONSTANTS s1, s2

StakersSymmetry == Permutations(Stakers)
=============================================================================
