-------------------------------- MODULE Fees --------------------------------
(***************************************************************************)
(* Where fees come from and where they go: BaseRate sets them, borrowers   *)
(* and redeemers pay them, DEFTStaking shares them out.                    *)
(*                                                                         *)
(* A borrower who uses the client library first quotes a fee, from the     *)
(* state of the latest block, and then submits it as the maximum: others'  *)
(* transactions, time and changes of mode come between the two.            *)
(***************************************************************************)
EXTENDS BaseRate, DEFTStaking

CONSTANTS
    BorrowAmounts,          \* inputs: USDD borrowed,
    DrawnColl,              \* collateral drawn by a redemption,
    Supply,                 \* USDD in existence,
    StakeAmounts            \* DEFT staked and unstaked

ASSUME FeesAssumption ==
    /\ STAKING_PRECISION = DECIMAL_PRECISION
    /\ BorrowAmounts \subseteq Nat \ {0}
    /\ DrawnColl \subseteq Nat \ {0}
    /\ Supply \in Nat \ {0}
    /\ StakeAmounts \subseteq Nat

vars == <<rateVars, stakingVars, ops>>

Init ==
    /\ now = 0
    /\ baseRate = 0
    /\ lastFeeOperationTime = 0
    /\ recoveryMode = FALSE
    /\ quote = None
    /\ redeemed = [rate |-> 0, time |-> 0]
    /\ StakingInit
    /\ ops = 0

-----------------------------------------------------------------------------

Tick ==
    /\ secondPasses
    /\ UNCHANGED <<baseRate, lastFeeOperationTime, recoveryMode, quote, redeemed, stakingVars>>

\* External: the price moves, or others' operations move the total ratio.
modeChanges ==
    /\ transaction
    /\ recoveryMode' = ~recoveryMode
    /\ UNCHANGED <<now, baseRate, lastFeeOperationTime, quote, redeemed, stakingVars>>

\* BorrowerOperations._requireValidMaxFeePercentage
validMaxFee(max) ==
    /\ max <= DECIMAL_PRECISION
    /\ recoveryMode \/ BORROWING_FEE_FLOOR <= max

\* _triggerBorrowingFee
triggerBorrowingFee(amount, max) ==
    /\ decayBaseRate
    /\ userAcceptsFee(borrowingFee(amount), amount, max)
    /\ increaseF_USDD(borrowingFee(amount))

\* The fee of _openTrove and _adjustTrove: in Recovery Mode there is none, and
\* the base rate does not decay.
chargeFee(amount, max) ==
    /\ validMaxFee(max)
    /\ IF recoveryMode THEN UNCHANGED <<baseRate, lastFeeOperationTime, stakingVars>>
       ELSE triggerBorrowingFee(amount, max)

\* A borrower who accepts any fee
borrow(amount) ==
    /\ transaction
    /\ chargeFee(amount, DECIMAL_PRECISION)
    /\ UNCHANGED <<now, recoveryMode, quote, redeemed>>

\* TroveManager.tsx and PopulatableEthersLiquity: the maximum is the rate
\* at the latest block and a tolerance.
quoteFee ==
    /\ quote = None
    /\ quote' = [rate |-> clientBorrowingRate(now), recovery |-> recoveryMode,
                 redeemed |-> redeemed]
    /\ UNCHANGED <<now, baseRate, lastFeeOperationTime, recoveryMode, redeemed,
                   stakingVars, ops>>

borrowQuoted(amount) ==
    /\ transaction
    /\ quote # None
    /\ chargeFee(amount, quote.rate + SLIPPAGE)
    /\ quote' = None
    /\ UNCHANGED <<now, recoveryMode, redeemed>>

\* The end of _redeemCollateral: the base rate, the fee, its checks and its
\* transfer.  The face value of the collateral is its amount.
redeem(drawn) ==
    LET fee == redemptionFee(drawn, DECIMAL_PRECISION, Supply)
    IN  /\ transaction
        /\ updateBaseRateFromRedemption(drawn, DECIMAL_PRECISION, Supply)
        /\ fee < drawn
        /\ increaseF_COLL(fee)
        /\ UNCHANGED <<now, recoveryMode, quote>>

stakeDEFT ==
    \E u \in Stakers, amount \in StakeAmounts :
        /\ transaction
        /\ stake(u, amount)
        /\ UNCHANGED rateVars

unstakeDEFT ==
    \E u \in Stakers, amount \in StakeAmounts :
        /\ transaction
        /\ unstake(u, amount)
        /\ UNCHANGED rateVars

Next ==
    \/ Tick
    \/ modeChanges
    \/ quoteFee
    \/ \E amount \in BorrowAmounts : borrow(amount)
    \/ \E amount \in BorrowAmounts : borrowQuoted(amount)
    \/ \E drawn \in DrawnColl : redeem(drawn)
    \/ stakeDEFT
    \/ unstakeDEFT

Spec == Init /\ [][Next]_vars

-----------------------------------------------------------------------------

\* No amount is negative, and the base rate is at most 100%.
TypeOK ==
    /\ StakingTypeOK
    /\ now \in Nat
    /\ baseRate \in 0..DECIMAL_PRECISION
    /\ lastFeeOperationTime \in 0..now
    /\ recoveryMode \in BOOLEAN
    /\ quote \in {None} \cup [rate : 0..DECIMAL_PRECISION, recovery : BOOLEAN,
                              redeemed : [rate : Nat, time : Nat]]

\* However often fee operations come, the base rate keeps decaying: since the
\* last redemption at least half of the minutes that passed have counted.
\* The code drops the seconds beyond a whole minute at each operation, and
\* leaves the clock alone within a minute of the last.
DecayNotStalled ==
    LET elapsed == (now - redeemed.time) \div (2 * SECONDS_IN_ONE_MINUTE)
    IN  calcDecayedBaseRate
            <= (redeemed.rate * power[MINUTE_DECAY_FACTOR, elapsed])
                    \div DECIMAL_PRECISION + 1

\* Exponentiation by squaring decays the rate like one multiplication per
\* minute, up to rounding.
DecayIsPower ==
    LET expected == (baseRate * power[MINUTE_DECAY_FACTOR, minutesPassedSinceLastFeeOp])
                        \div DECIMAL_PRECISION
    IN  calcDecayedBaseRate \in (expected - 1)..(expected + 1)

\* The contract takes the maximum fee.
acceptsFee(amount, max) ==
    /\ validMaxFee(max)
    /\ recoveryMode \/ userAcceptsFee(borrowingFee(amount), amount, max)

\* A transaction with the maximum of a quote made in Normal Mode is not refused
\* for its fee, whatever happens before it is mined, the mode changing back and
\* forth included, unless there was another redemption: the rate alone covers the
\* fee.  A quote made in Recovery Mode is 0, so that its maximum, the tolerance, is
\* good only while that mode lasts or once the rate has decayed to the tolerance.
QuotedFeeAccepted ==
    (quote # None /\ quote.redeemed = redeemed)
        => \A amount \in BorrowAmounts :
               IF ~quote.recovery
               THEN /\ userAcceptsFee(borrowingFee(amount), amount, quote.rate)
                    /\ validMaxFee(quote.rate + SLIPPAGE)
               ELSE (recoveryMode \/ calcBorrowingRate(calcDecayedBaseRate) <= SLIPPAGE)
                        => acceptsFee(amount, quote.rate + SLIPPAGE)

\* The same for a redemption that is mined in the block after the quote: the
\* client's rate is not below the contract's.
QuotedRedemptionAccepted ==
    \A drawn \in DrawnColl :
        LET fraction == (drawn * DECIMAL_PRECISION) \div Supply
        IN  userAcceptsFee(redemptionFee(drawn, DECIMAL_PRECISION, Supply), drawn,
                           clientRedemptionRate(fraction, now))

\* All stakers can be paid what they are shown, at the same time, and all
\* staked DEFT can be returned.
GainsBacked ==
    /\ allUSDDGains <= usddHeld
    /\ allCollGains <= collHeld
    /\ deftHeld = totalDEFTStaked
    /\ totalDEFTStaked = SumFunction(stakes)

\* A fee that arrives while somebody stakes goes to the stakers, up to the
\* rounding of the fee per token and of each gain.  A fee that arrives while
\* nobody stakes goes to nobody, those who stake later included.
FeesReachStakers ==
    [][LET fees == (usddHeld' - usddHeld) + (collHeld' - collHeld)
           gained == (allUSDDGains' - allUSDDGains) + (allCollGains' - allCollGains)
           rounding == 1 + totalDEFTStaked \div STAKING_PRECISION + Cardinality(Stakers)
       IN  (stakes' = stakes /\ F_Snapshots' = F_Snapshots)
               => IF totalDEFTStaked > 0 THEN gained >= fees - rounding ELSE gained = 0]_vars

\* Staking and unstaking pay the caller what they were due, start their gains
\* at zero, and change nobody else's.
OperationsSettle ==
    [][\A u \in Stakers :
           (stakes'[u] # stakes[u])
               => /\ getPendingUSDDGain(u)' = 0
                  /\ getPendingCollGain(u)' = 0
                  /\ usddHeld - usddHeld' = getPendingUSDDGain(u)
                  /\ collHeld - collHeld' = getPendingCollGain(u)
                  /\ \A v \in Stakers \ {u} :
                         /\ getPendingUSDDGain(v)' = getPendingUSDDGain(v)
                         /\ getPendingCollGain(v)' = getPendingCollGain(v)]_vars

\* The decay of the base rate is the one intended: that of a power, which no
\* frequency of operations stops (_calcDecayedBaseRate, _updateLastFeeOpTime).
DecaySound == DecayNotStalled /\ DecayIsPower

\* What the client quotes as the maximum fee the contracts accept.
QuotesAccepted == QuotedFeeAccepted /\ QuotedRedemptionAccepted

\* The staking contract owns what it shows to its stakers.
StakingInv == TypeOK /\ GainsBacked

\* Fees go to those who stake when they arrive and are paid to them once.
StakersPaid == FeesReachStakers /\ OperationsSettle
=============================================================================
