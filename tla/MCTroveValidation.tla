-------------------------- MODULE MCTroveValidation --------------------------
(***************************************************************************)
(* A small instance of TroveValidation, with the proportions of MCProtocol.*)
(***************************************************************************)
EXTENDS TroveValidation

CONSTANTS b1, b2, b3, keeper

TwoPrices == {10000, 16000}
Empty == {}
Symmetry == Permutations(Borrowers)
=============================================================================
