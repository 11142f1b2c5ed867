----------------------------- MODULE LiquityMath -----------------------------
(***************************************************************************)
(* The fixed-point arithmetic of Dependencies/LiquityMath.sol and the      *)
(* protocol constants of Dependencies/LiquityBase.sol.                     *)
(*                                                                         *)
(* Amounts are natural numbers.  The contracts work with 18 decimals; here *)
(* the precision and every threshold are parameters, so that a small       *)
(* instance can be enumerated and a theorem holds for the deployed values. *)
(***************************************************************************)
EXTENDS Integers

CONSTANTS
    DECIMAL_PRECISION,      \* one, as a fixed-point number (1e18)
    NICR_PRECISION,         \* one, as a nominal collateral ratio (1e20)
    MCR,                    \* minimum collateral ratio of one trove (110%)
    CCR,                    \* critical ratio of the whole system (150%)
    USDD_GAS_COMPENSATION,  \* USDD reserved in the gas pool per trove
    MIN_NET_DEBT,           \* smallest net debt of a trove
    PERCENT_DIVISOR,        \* divides a trove's collateral to give the
                            \* collateral part of the gas compensation
    MAX_UINT                \* uint256(-1), the ratio of a debt of zero

ASSUME MathAssumption ==
    /\ DECIMAL_PRECISION \in Nat \ {0}
    /\ NICR_PRECISION \in Nat \ {0}
    /\ MCR \in Nat
    /\ CCR \in Nat
    /\ DECIMAL_PRECISION < MCR
    /\ MCR < CCR
    /\ MAX_UINT \in Nat
    /\ CCR < MAX_UINT
    /\ USDD_GAS_COMPENSATION \in Nat \ {0}
    /\ MIN_NET_DEBT \in Nat \ {0}
    /\ PERCENT_DIVISOR \in Nat \ {0}

\* _100pct of LiquityBase: a collateral ratio of 100%
_100pct == DECIMAL_PRECISION

-----------------------------------------------------------------------------
(* LiquityMath.sol *)

min(a, b) == IF a < b THEN a ELSE b

\* The ratio that orders SortedTroves: it does not depend on the price.
computeNominalCR(coll, debt) ==
    IF debt > 0 THEN (coll * NICR_PRECISION) \div debt ELSE MAX_UINT

computeCR(coll, debt, price) ==
    IF debt > 0 THEN (coll * price) \div debt ELSE MAX_UINT

-----------------------------------------------------------------------------
(* LiquityBase.sol *)

\* Mutant: the reserve is not taken off the debt.
debtWithReserve(debt) == debt

getCompositeDebt(debt) == debt + USDD_GAS_COMPENSATION

getNetDebt(debt) == debt - USDD_GAS_COMPENSATION

getCollGasCompensation(entireColl) == entireColl \div PERCENT_DIVISOR

\* TroveManager._calcBorrowingFee and _calcRedemptionFee before its check
feeOf(rate, amount) == (rate * amount) \div DECIMAL_PRECISION
=============================================================================
