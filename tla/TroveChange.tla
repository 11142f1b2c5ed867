----------------------------- MODULE TroveChange -----------------------------
(***************************************************************************)
(* The client's own account of a trove: lib-base/src/Trove.ts computes     *)
(* which change leads from one trove to another and where a change leads,  *)
(* and dev-frontend's validateTroveChange.tsx decides whether the change   *)
(* may be sent.  Decimal divides as the contracts do, rounding down.       *)
(***************************************************************************)
EXTENDS LiquityMath

\* Trove.  A parameter of a change that is not given is zero.
Trove(collateral, debt) == [collateral |-> collateral, debt |-> debt]
emptyTrove == Trove(0, 0)

Change(type, deposit, withdraw, borrow, repay) ==
    [type |-> type, deposit |-> deposit, withdraw |-> withdraw,
     borrow |-> borrow, repay |-> repay]
NoChange == Change("none", 0, 0, 0, 0)

collateralRatio(t, price) == computeCR(t.collateral, t.debt, price)
collateralRatioIsBelowMinimum(t, price) == collateralRatio(t, price) < MCR
collateralRatioIsBelowCritical(t, price) == collateralRatio(t, price) < CCR

add(t, u) == Trove(t.collateral + u.collateral, t.debt + u.debt)

\* Never below zero
less(x, y) == IF x > y THEN x - y ELSE 0
subtract(t, u) == Trove(less(t.collateral, u.collateral), less(t.debt, u.debt))

applyFee(rate, amount) == (amount * (DECIMAL_PRECISION + rate)) \div DECIMAL_PRECISION

\* _divCeil
unapplyFee(rate, amount) ==
    (amount * DECIMAL_PRECISION + DECIMAL_PRECISION + rate - 1) \div (DECIMAL_PRECISION + rate)

\* whatChanged, with _debtChange and _collateralChange.
whatChanged(t, that, rate) ==
    IF t = that THEN NoChange
    ELSE IF t = emptyTrove
    THEN IF that.debt < USDD_GAS_COMPENSATION
         THEN Change("invalidCreation", 0, 0, 0, 0)
         ELSE Change("creation", that.collateral, 0,
                     unapplyFee(rate, getNetDebt(that.debt)), 0)
    ELSE IF that = emptyTrove
    THEN Change("closure", 0, t.collateral, 0, getNetDebt(t.debt))
    ELSE Change("adjustment",
                less(that.collateral, t.collateral), less(t.collateral, that.collateral),
                unapplyFee(rate, less(that.debt, t.debt)), less(t.debt, that.debt))

\* apply.  What an invalid creation leads to does not matter: it is refused.
applyChange(t, change, rate) ==
    CASE change.type = "creation" ->
             Trove(change.deposit, USDD_GAS_COMPENSATION + applyFee(rate, change.borrow))
      [] change.type = "adjustment" ->
             subtract(add(t, Trove(change.deposit, applyFee(rate, change.borrow))),
                      Trove(change.withdraw, change.repay))
      [] OTHER -> emptyTrove

-----------------------------------------------------------------------------
(* The refusals of validateTroveChange, in the order of the code.  `total' *)
(* is the collateral and debt of the whole system.                         *)

\* Mutant: the total ratio is not looked at.
refusedForNoTotal(change, original, afterFee, total, price) == FALSE

belowMinimumRefused(change, afterFee, price) ==
    /\ \/ change.type = "creation"
       \/ change.type = "adjustment" /\ (change.withdraw > 0 \/ change.borrow > 0)
    /\ collateralRatioIsBelowMinimum(afterFee, price)

totalBelowCriticalRefused(change, original, afterFee, total, price) ==
    /\ change.type \in {"creation", "adjustment"}
    /\ ~collateralRatioIsBelowCritical(total, price)
    /\ collateralRatioIsBelowCritical(add(subtract(total, original), afterFee), price)

recoveryModeRefused(change, original, afterFee, price) ==
    \/ change.type = "creation" /\ collateralRatioIsBelowCritical(afterFee, price)
    \/ change.type = "closure"
    \/ /\ change.type = "adjustment"
       /\ collateralRatio(afterFee, price) < collateralRatio(original, price)

validChange(original, change, rate, price, total, balance, numberOfTroves) ==
    LET afterFee == applyChange(original, change, rate)
    IN  /\ change.type \notin {"none", "invalidCreation"}
        /\ change.type # "closure" => afterFee.debt >= MIN_NET_DEBT + USDD_GAS_COMPENSATION
        /\ ~belowMinimumRefused(change, afterFee, price)
        /\ ~totalBelowCriticalRefused(change, original, afterFee, total, price)
        /\ change.repay <= balance
        /\ ~(collateralRatioIsBelowCritical(total, price)
             /\ recoveryModeRefused(change, original, afterFee, price))
        /\ ~(change.type = "closure" /\ numberOfTroves = 1)
=============================================================================
