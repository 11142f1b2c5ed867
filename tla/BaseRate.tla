------------------------------ MODULE BaseRate ------------------------------
(***************************************************************************)
(* The base rate of TroveManager.sol, from which borrowing and redemption  *)
(* fees are computed: it rises with every redemption and decays with time. *)
(* The client library's copy of the computation (lib-base, Fees.ts) quotes *)
(* a fee before the transaction that pays it is mined.                     *)
(***************************************************************************)
EXTENDS DecPow, Clock

CONSTANTS
    MINUTE_DECAY_FACTOR,    \* what is left of the rate after a minute
    SECONDS_IN_ONE_MINUTE,
    BETA,                   \* divides the redeemed fraction of the supply
    BORROWING_FEE_FLOOR,
    REDEMPTION_FEE_FLOOR,
    MAX_BORROWING_FEE,
    SLIPPAGE,               \* what a client accepts above the quoted rate
    None                    \* no quote

ASSUME RateAssumption ==
    /\ MINUTE_DECAY_FACTOR \in 0..(DECIMAL_PRECISION - 1)
    /\ SECONDS_IN_ONE_MINUTE \in Nat \ {0}
    /\ BETA \in Nat \ {0}
    /\ BORROWING_FEE_FLOOR \in 0..DECIMAL_PRECISION
    /\ REDEMPTION_FEE_FLOOR \in 0..DECIMAL_PRECISION
    /\ MAX_BORROWING_FEE \in BORROWING_FEE_FLOOR..DECIMAL_PRECISION
    /\ SLIPPAGE \in 0..(DECIMAL_PRECISION - MAX_BORROWING_FEE)

VARIABLES
    baseRate,
    lastFeeOperationTime,
    recoveryMode,           \* the price and others' troves decide
    quote,                  \* the rate the client was shown, or None
    redeemed                \* history: rate and time of the last redemption

rateVars == <<now, baseRate, lastFeeOperationTime, recoveryMode, quote, redeemed>>

lesser(a, b) == IF a < b THEN a ELSE b

-----------------------------------------------------------------------------
(* TroveManager.sol *)

minutesPassedSinceLastFeeOp == (now - lastFeeOperationTime) \div SECONDS_IN_ONE_MINUTE

calcDecayedBaseRate ==
    (baseRate * decPow(MINUTE_DECAY_FACTOR, minutesPassedSinceLastFeeOp))
        \div DECIMAL_PRECISION

\* Mutant: every operation restarts the clock, so that operations less than
\* a minute apart stop the decay.
restartClock == now

\* The clock is restarted at the current second, not at the last whole
\* minute: the seconds in between never count.
updateLastFeeOpTime ==
    IF now - lastFeeOperationTime >= SECONDS_IN_ONE_MINUTE
    THEN now ELSE lastFeeOperationTime

calcBorrowingRate(rate) == lesser(BORROWING_FEE_FLOOR + rate, MAX_BORROWING_FEE)

calcRedemptionRate(rate) == lesser(REDEMPTION_FEE_FLOOR + rate, DECIMAL_PRECISION)

rateFee(rate, amount) == (rate * amount) \div DECIMAL_PRECISION

\* LiquityBase._requireUserAcceptsFee
userAcceptsFee(fee, amount, maxFeePercentage) ==
    (fee * DECIMAL_PRECISION) \div amount <= maxFeePercentage

\* decayBaseRateFromBorrowing
decayBaseRate ==
    /\ baseRate' = calcDecayedBaseRate
    /\ lastFeeOperationTime' = updateLastFeeOpTime

\* The borrowing fee of BorrowerOperations._triggerBorrowingFee: the rate
\* decays first and the fee is computed from the new one.
borrowingFee(amount) == rateFee(calcBorrowingRate(calcDecayedBaseRate), amount)

rateAfterRedemption(collDrawn, price, supply) ==
    lesser(calcDecayedBaseRate + ((collDrawn * price) \div supply) \div BETA,
           DECIMAL_PRECISION)

\* _updateBaseRateFromRedemption; assert(newBaseRate > 0) undoes a redemption
\* that is too small to register.
updateBaseRateFromRedemption(collDrawn, price, supply) ==
    LET rate == rateAfterRedemption(collDrawn, price, supply)
    IN  /\ rate > 0
        /\ baseRate' = rate
        /\ lastFeeOperationTime' = updateLastFeeOpTime
        /\ redeemed' = [rate |-> rate, time |-> now]

\* The fee of _redeemCollateral, computed from the rate just raised
redemptionFee(collDrawn, price, supply) ==
    rateFee(calcRedemptionRate(rateAfterRedemption(collDrawn, price, supply)), collDrawn)

-----------------------------------------------------------------------------
(* The client library: Decimal.ts and Fees.ts *)

\* Decimal.pow: the loop halves the exponent with a shift
shifting[e \in Nat] ==
    [x \in Nat |-> [y \in Nat |->
        IF e <= 1 THEN decMul(x, y)
        ELSE shifting[e \div 2][decMul(x, x)][IF e % 2 = 1 THEN decMul(x, y) ELSE y]]]

clientPow(base, exponent) ==
    IF exponent = 0 THEN DECIMAL_PRECISION
    ELSE IF exponent = 1 THEN base
    ELSE shifting[exponent][base][DECIMAL_PRECISION]

\* Mutant: a part of a minute counts as a whole one.
clientBaseRateEarly(when) ==
    (clientPow(MINUTE_DECAY_FACTOR,
               (when - lastFeeOperationTime + SECONDS_IN_ONE_MINUTE - 1)
                   \div SECONDS_IN_ONE_MINUTE) * baseRate) \div DECIMAL_PRECISION

\* Fees.baseRate(when), from the state of the latest block.  A negative time
\* is taken for zero.
clientBaseRate(when) ==
    LET since == IF when > lastFeeOperationTime THEN when - lastFeeOperationTime ELSE 0
    IN  (clientPow(MINUTE_DECAY_FACTOR, since \div SECONDS_IN_ONE_MINUTE) * baseRate)
            \div DECIMAL_PRECISION

\* Fees.borrowingRate(when): in Recovery Mode borrowing is free
clientBorrowingRate(when) ==
    IF recoveryMode THEN 0
    ELSE lesser(BORROWING_FEE_FLOOR + clientBaseRate(when), MAX_BORROWING_FEE)

\* Fees.redemptionRate(redeemedFractionOfSupply, when)
clientRedemptionRate(fraction, when) ==
    lesser(REDEMPTION_FEE_FLOOR + fraction \div BETA + clientBaseRate(when),
           DECIMAL_PRECISION)
=============================================================================
