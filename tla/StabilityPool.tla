---------------------------- MODULE StabilityPool ----------------------------
(***************************************************************************)
(* StabilityPool.sol for one collateral token, with the part of            *)
(* CommunityIssuance.sol it calls.                                         *)
(*                                                                         *)
(* A liquidation reduces every deposit by the same factor and pays every   *)
(* depositor the same amount per unit.  The pool does not visit the        *)
(* deposits: it keeps the running product P of the factors and the sums S  *)
(* and G of the payments, each deposit keeps the values they had when it   *)
(* last changed, and what it is worth follows from the quotient.  P is     *)
(* scaled up when it becomes small (currentScale) and starts again when    *)
(* the pool is emptied (currentEpoch).                                     *)
(*                                                                         *)
(* A step is one transaction.  One whose subtraction would underflow, or   *)
(* whose requirement fails, reverts: it is not a step.                     *)
(***************************************************************************)
EXTENDS Integers, FiniteSets, FiniteSetsExt, Functions

CONSTANTS
    Accounts,           \* addresses of depositors and front ends
    Zero,               \* address(0), the tag of a deposit without front end
    DECIMAL_PRECISION,
    SCALE_FACTOR,       \* also the 1e9 below which a remainder is dropped
    MCR,
    DEFTSupplyCap,      \* what CommunityIssuance may issue
    USDDBalance,        \* USDD each account has at first
    Amounts,            \* inputs: deposits and withdrawals,
    Debts,              \* debts offset by a liquidation,
    CollRatios,         \* collateral that comes with each unit of debt,
    Issuances,          \* DEFT issued since the last operation,
    KickbackRates,      \* rates of front ends,
    LowestICRs,         \* collateral ratios of the lowest trove
    MaxOffsets          \* bound: liquidations in a behaviour

ASSUME PoolAssumption ==
    /\ IsFiniteSet(Accounts)
    /\ Zero \notin Accounts
    /\ DECIMAL_PRECISION \in Nat \ {0}
    /\ SCALE_FACTOR \in Nat \ {0}
    /\ SCALE_FACTOR * SCALE_FACTOR <= DECIMAL_PRECISION
    /\ MCR \in Nat
    /\ DEFTSupplyCap \in Nat
    /\ USDDBalance \in Nat
    /\ Amounts \subseteq Nat
    /\ Debts \subseteq Nat
    /\ CollRatios \subseteq Nat
    /\ Issuances \subseteq Nat
    /\ KickbackRates \subseteq 0..DECIMAL_PRECISION
    /\ LowestICRs \subseteq Nat
    /\ MaxOffsets \in Nat

VARIABLES
    COLL,                       \* collateral held for depositors
    totalUSDDDeposits,          \* USDD held
    deposits,                   \* account -> initialValue, frontEndTag
    depositSnapshots,           \* account -> S, P, G, scale, epoch
    frontEnds,                  \* account -> kickbackRate, registered
    frontEndStakes,             \* front end, or Zero -> tagged deposits
    frontEndSnapshots,          \* front end, or Zero -> P, G, scale, epoch
    P, currentScale, currentEpoch,
    epochToScaleToSum,          \* <<epoch, scale>> -> S, 0 where undefined
    epochToScaleToG,            \* <<epoch, scale>> -> G, 0 where undefined
    lastDEFTError, lastCollError_Offset, lastUSDDLossError_Offset,
    usdd,                       \* USDDToken: balances of the accounts
    totalDEFTIssued,            \* CommunityIssuance.totalDEFTIssued
    deftSent,                   \* DEFT that CommunityIssuance has sent
    offsets                     \* history: liquidations so far

depositVars == <<deposits, depositSnapshots>>
frontEndVars == <<frontEndStakes, frontEndSnapshots>>
productVars == <<P, currentScale, currentEpoch, epochToScaleToSum,
                 lastCollError_Offset, lastUSDDLossError_Offset>>
issuanceVars == <<epochToScaleToG, lastDEFTError, totalDEFTIssued>>
vars == <<COLL, totalUSDDDeposits, depositVars, frontEnds, frontEndVars,
          productVars, issuanceVars, usdd, deftSent, offsets>>

-----------------------------------------------------------------------------
(* Sums and snapshots *)

Tags == Accounts \cup {Zero}
Here == <<currentEpoch, currentScale>>
sumAt(f, at) == IF at \in DOMAIN f THEN f[at] ELSE 0
addAt(f, at, x) ==
    [k \in DOMAIN f \cup {at} |-> sumAt(f, k) + (IF k = at THEN x ELSE 0)]

Snapshot(s, p, g, scale, epoch) ==
    [S |-> s, P |-> p, G |-> g, scale |-> scale, epoch |-> epoch]
NoSnapshot == Snapshot(0, 0, 0, 0, 0)

\* The part of a sum that a stake has seen since its snapshot: in the scale
\* of the snapshot and in the next one.  A stake of more than one scale ago
\* is worth nothing, so later scales are not looked at.
portion(f, snap, from) ==
    (sumAt(f, <<snap.epoch, snap.scale>>) - from)
        + sumAt(f, <<snap.epoch, snap.scale + 1>>) \div SCALE_FACTOR

gainFrom(stake, f, snap, from) ==
    ((stake * portion(f, snap, from)) \div snap.P) \div DECIMAL_PRECISION

getDepositorCollGain(d) ==
    IF deposits[d].initialValue = 0 THEN 0
    ELSE gainFrom(deposits[d].initialValue, epochToScaleToSum,
                  depositSnapshots[d], depositSnapshots[d].S)

kickbackOf(tag) ==
    IF tag = Zero THEN DECIMAL_PRECISION ELSE frontEnds[tag].kickbackRate

\* G is the sum after the issuance that precedes every payment.
getDepositorDEFTGain(d, G) ==
    IF deposits[d].initialValue = 0 THEN 0
    ELSE (kickbackOf(deposits[d].frontEndTag)
             * gainFrom(deposits[d].initialValue, G, depositSnapshots[d],
                        depositSnapshots[d].G)) \div DECIMAL_PRECISION

getFrontEndDEFTGain(f, G) ==
    IF frontEndStakes[f] = 0 THEN 0
    ELSE ((DECIMAL_PRECISION - frontEnds[f].kickbackRate)
             * gainFrom(frontEndStakes[f], G, frontEndSnapshots[f],
                        frontEndSnapshots[f].G)) \div DECIMAL_PRECISION

\* Mutant: a stake survives the emptying of the pool.
compoundedAcrossEpochs(stake, snap) ==
    LET kept == IF currentScale = snap.scale THEN (stake * P) \div snap.P
                ELSE ((stake * P) \div snap.P) \div SCALE_FACTOR
    IN IF stake = 0 \/ kept < stake \div SCALE_FACTOR THEN 0 ELSE kept

getCompoundedStakeFromSnapshots(stake, snap) ==
    LET scaleDiff == currentScale - snap.scale
        kept == CASE scaleDiff = 0 -> (stake * P) \div snap.P
                  [] scaleDiff = 1 ->
                         ((stake * P) \div snap.P) \div SCALE_FACTOR
                  [] OTHER -> 0
    IN IF stake = 0 \/ snap.epoch < currentEpoch
              \/ kept < stake \div SCALE_FACTOR
       THEN 0 ELSE kept

getCompoundedUSDDDeposit(d) ==
    getCompoundedStakeFromSnapshots(deposits[d].initialValue,
                                    depositSnapshots[d])
getCompoundedFrontEndStake(f) ==
    getCompoundedStakeFromSnapshots(frontEndStakes[f], frontEndSnapshots[f])

-----------------------------------------------------------------------------
(* The issuance of DEFT.  With an empty pool the DEFT issued is lost. *)

issued(amount) == totalUSDDDeposits # 0 /\ amount # 0
DEFTNumerator(amount) == amount * DECIMAL_PRECISION + lastDEFTError
GAfter(amount) ==
    IF ~issued(amount) THEN epochToScaleToG
    ELSE addAt(epochToScaleToG, Here,
               (DEFTNumerator(amount) \div totalUSDDDeposits) * P)

triggerDEFTIssuance(amount) ==
    /\ totalDEFTIssued + amount <= DEFTSupplyCap
    /\ totalDEFTIssued' = totalDEFTIssued + amount
    /\ epochToScaleToG' = GAfter(amount)
    /\ lastDEFTError' = IF issued(amount)
                        THEN DEFTNumerator(amount) % totalUSDDDeposits
                        ELSE lastDEFTError

-----------------------------------------------------------------------------
(* The depositor's operations *)

snapshotNow(value, S, G) ==
    IF value = 0 THEN NoSnapshot
    ELSE Snapshot(S, P, G, currentScale, currentEpoch)

\* Mutant: the snapshot of G is the one from before the issuance.
snapshotOfOldG(d, value, tag, G) ==
    /\ deposits' = [deposits EXCEPT ![d] =
                        [initialValue |-> value,
                         frontEndTag |-> IF value = 0 THEN Zero ELSE tag]]
    /\ depositSnapshots' = [depositSnapshots EXCEPT ![d] =
                        snapshotNow(value, sumAt(epochToScaleToSum, Here),
                                    sumAt(epochToScaleToG, Here))]

updateDepositAndSnapshots(d, value, tag, G) ==
    /\ deposits' = [deposits EXCEPT ![d] =
                        [initialValue |-> value,
                         frontEndTag |-> IF value = 0 THEN Zero ELSE tag]]
    /\ depositSnapshots' = [depositSnapshots EXCEPT ![d] =
                        snapshotNow(value, sumAt(epochToScaleToSum, Here),
                                    sumAt(G, Here))]

updateFrontEndStakeAndSnapshots(f, value, G) ==
    /\ frontEndStakes' = [frontEndStakes EXCEPT ![f] = value]
    /\ frontEndSnapshots' = [frontEndSnapshots EXCEPT ![f] =
                                 snapshotNow(value, 0, sumAt(G, Here))]

DEFTGains(d, tag, G) ==
    getDepositorDEFTGain(d, G)
        + (IF tag = Zero THEN 0 ELSE getFrontEndDEFTGain(tag, G))

\* The gains are paid, then the stakes and snapshots set anew.
settle(d, tag, deposit, stake, issuance) ==
    LET G == GAfter(issuance)
    IN /\ triggerDEFTIssuance(issuance)
       /\ COLL >= getDepositorCollGain(d)
       /\ COLL' = COLL - getDepositorCollGain(d)
       /\ deftSent' = deftSent + DEFTGains(d, tag, G)
       /\ deftSent' <= DEFTSupplyCap
       /\ updateFrontEndStakeAndSnapshots(tag, stake, G)
       /\ updateDepositAndSnapshots(d, deposit, tag, G)
       /\ UNCHANGED <<frontEnds, productVars, offsets>>

provideToSP(d, amount, frontEndTag, issuance) ==
    LET tag == IF deposits[d].initialValue = 0 THEN frontEndTag
                                               ELSE deposits[d].frontEndTag
    IN /\ frontEndTag # Zero => frontEnds[frontEndTag].registered
       /\ ~frontEnds[d].registered
       /\ amount > 0
       /\ amount <= usdd[d]
       /\ settle(d, tag, getCompoundedUSDDDeposit(d) + amount,
                 getCompoundedFrontEndStake(tag) + amount, issuance)
       /\ usdd' = [usdd EXCEPT ![d] = @ - amount]
       /\ totalUSDDDeposits' = totalUSDDDeposits + amount

lower(a, b) == IF a < b THEN a ELSE b

withdrawFromSP(d, amount, lowestICR, issuance) ==
    LET tag == deposits[d].frontEndTag
        compounded == getCompoundedUSDDDeposit(d)
        toWithdraw == lower(amount, compounded)
    IN /\ amount # 0 => lowestICR >= MCR
       /\ deposits[d].initialValue > 0
       /\ toWithdraw <= getCompoundedFrontEndStake(tag)
       /\ toWithdraw <= totalUSDDDeposits
       /\ settle(d, tag, compounded - toWithdraw,
                 getCompoundedFrontEndStake(tag) - toWithdraw, issuance)
       /\ usdd' = [usdd EXCEPT ![d] = @ + toWithdraw]
       /\ totalUSDDDeposits' = totalUSDDDeposits - toWithdraw

\* The gain goes into the depositor's open trove, if it has one.
withdrawCollGainToTrove(d, hasTrove, issuance) ==
    LET tag == deposits[d].frontEndTag
    IN /\ deposits[d].initialValue > 0
       /\ hasTrove
       /\ getDepositorCollGain(d) > 0
       /\ settle(d, tag, getCompoundedUSDDDeposit(d),
                 getCompoundedFrontEndStake(tag), issuance)
       /\ UNCHANGED <<usdd, totalUSDDDeposits>>

registerFrontEnd(f, kickbackRate) ==
    /\ ~frontEnds[f].registered
    /\ deposits[f].initialValue = 0
    /\ kickbackRate <= DECIMAL_PRECISION
    /\ frontEnds' = [frontEnds EXCEPT ![f] =
                         [kickbackRate |-> kickbackRate, registered |-> TRUE]]
    /\ UNCHANGED <<COLL, totalUSDDDeposits, depositVars, frontEndVars,
                   productVars, issuanceVars, usdd, deftSent, offsets>>

-----------------------------------------------------------------------------
(* The liquidation's operation *)

collPerUnit(coll) ==
    (coll * DECIMAL_PRECISION + lastCollError_Offset) \div totalUSDDDeposits
collError(coll) ==
    (coll * DECIMAL_PRECISION + lastCollError_Offset) % totalUSDDDeposits

USDDLossNumerator(debt) == debt * DECIMAL_PRECISION - lastUSDDLossError_Offset

\* Mutant: the loss is rounded down.
lossRoundedDown(debt) ==
    IF debt = totalUSDDDeposits THEN DECIMAL_PRECISION
    ELSE USDDLossNumerator(debt) \div totalUSDDDeposits

\* Rounded up, so that the deposits never exceed what the pool holds
lossPerUnit(debt) ==
    IF debt = totalUSDDDeposits THEN DECIMAL_PRECISION
    ELSE USDDLossNumerator(debt) \div totalUSDDDeposits + 1
lossError(debt) ==
    IF debt = totalUSDDDeposits THEN 0
    ELSE lossPerUnit(debt) * totalUSDDDeposits - USDDLossNumerator(debt)

newProductFactor(debt) == DECIMAL_PRECISION - lossPerUnit(debt)
productTooSmall(debt) ==
    (P * newProductFactor(debt)) \div DECIMAL_PRECISION < SCALE_FACTOR
newP(debt) ==
    IF newProductFactor(debt) = 0 THEN DECIMAL_PRECISION
    ELSE IF productTooSmall(debt)
         THEN (P * newProductFactor(debt) * SCALE_FACTOR)
                  \div DECIMAL_PRECISION
         ELSE (P * newProductFactor(debt)) \div DECIMAL_PRECISION

\* The sum is updated with the P from before the loss.
updateRewardSumAndProduct(debt, coll) ==
    /\ epochToScaleToSum' = addAt(epochToScaleToSum, Here,
                                  collPerUnit(coll) * P)
    /\ currentEpoch' = IF newProductFactor(debt) = 0 THEN currentEpoch + 1
                                                     ELSE currentEpoch
    /\ currentScale' = IF newProductFactor(debt) = 0 THEN 0
                       ELSE IF productTooSmall(debt) THEN currentScale + 1
                       ELSE currentScale
    /\ P' = newP(debt)

\* The numbers that SafeMath and the assertions of offset check
OffsetSafe(debt) ==
    /\ debt <= totalUSDDDeposits
    /\ debt = totalUSDDDeposits \/ USDDLossNumerator(debt) >= 0
    /\ lossPerUnit(debt) <= DECIMAL_PRECISION
    /\ newP(debt) > 0

\* TroveManager offsets at most what the pool holds.
offset(debt, coll, issuance) ==
    /\ offsets < MaxOffsets
    /\ totalUSDDDeposits # 0
    /\ debt \in 1..totalUSDDDeposits
    /\ OffsetSafe(debt)
    /\ triggerDEFTIssuance(issuance)
    /\ updateRewardSumAndProduct(debt, coll)
    /\ lastCollError_Offset' = collError(coll)
    /\ lastUSDDLossError_Offset' = lossError(debt)
    /\ totalUSDDDeposits' = totalUSDDDeposits - debt
    /\ COLL' = COLL + coll
    /\ offsets' = offsets + 1
    /\ UNCHANGED <<depositVars, frontEnds, frontEndVars, usdd, deftSent>>

-----------------------------------------------------------------------------

Init ==
    /\ COLL = 0
    /\ totalUSDDDeposits = 0
    /\ deposits = [d \in Accounts |-> [initialValue |-> 0,
                                       frontEndTag |-> Zero]]
    /\ depositSnapshots = [d \in Accounts |-> NoSnapshot]
    /\ frontEnds = [f \in Accounts |-> [kickbackRate |-> 0,
                                        registered |-> FALSE]]
    /\ frontEndStakes = [f \in Tags |-> 0]
    /\ frontEndSnapshots = [f \in Tags |-> NoSnapshot]
    /\ P = DECIMAL_PRECISION
    /\ currentScale = 0
    /\ currentEpoch = 0
    /\ epochToScaleToSum = [k \in {<<0, 0>>} |-> 0]
    /\ epochToScaleToG = [k \in {<<0, 0>>} |-> 0]
    /\ lastDEFTError = 0
    /\ lastCollError_Offset = 0
    /\ lastUSDDLossError_Offset = 0
    /\ usdd = [d \in Accounts |-> USDDBalance]
    /\ totalDEFTIssued = 0
    /\ deftSent = 0
    /\ offsets = 0

\* Every amount, or, for an amount above the deposit, all of it
Next ==
    \/ \E d \in Accounts, amount \in Amounts, tag \in Tags, i \in Issuances :
           provideToSP(d, amount, tag, i)
    \/ \E d \in Accounts, amount \in Amounts \cup {0}, icr \in LowestICRs,
          i \in Issuances : withdrawFromSP(d, amount, icr, i)
    \/ \E d \in Accounts, hasTrove \in BOOLEAN, i \in Issuances :
           withdrawCollGainToTrove(d, hasTrove, i)
    \/ \E f \in Accounts, k \in KickbackRates : registerFrontEnd(f, k)
    \/ \E debt \in Debts, ratio \in CollRatios, i \in Issuances :
           LET offsetDebt == lower(debt, totalUSDDDeposits)
           IN offset(offsetDebt, offsetDebt * ratio, i)

Spec == Init /\ [][Next]_vars

-----------------------------------------------------------------------------
(* Properties *)

SnapshotSet ==
    [S: Nat, P: Nat, G: Nat, scale: Nat, epoch: Nat]

\* The pool's amounts are natural, P never exceeds the precision although
\* its error is fed back into the next loss, and no more DEFT is issued or
\* sent than the supply cap allows.
TypeOK ==
    /\ COLL \in Nat
    /\ totalUSDDDeposits \in Nat
    /\ deposits \in [Accounts -> [initialValue: Nat, frontEndTag: Tags]]
    /\ depositSnapshots \in [Accounts -> SnapshotSet]
    /\ frontEnds \in [Accounts -> [kickbackRate: 0..DECIMAL_PRECISION,
                                   registered: BOOLEAN]]
    /\ frontEndStakes \in [Tags -> Nat]
    /\ frontEndSnapshots \in [Tags -> SnapshotSet]
    /\ P \in 1..DECIMAL_PRECISION
    /\ currentScale \in Nat
    /\ currentEpoch \in Nat
    /\ lastDEFTError \in Nat
    /\ lastCollError_Offset \in Nat
    /\ lastUSDDLossError_Offset \in Nat
    /\ usdd \in [Accounts -> Nat]
    /\ totalDEFTIssued \in 0..DEFTSupplyCap
    /\ deftSent \in 0..DEFTSupplyCap
    /\ offsets \in Nat

\* The correction of the rounding in P may leave the deposits that much, a
\* DECIMAL_PRECISION-th of all the USDD there is, above what the pool holds.
\* However many liquidations there have been, the errors do not add up.
USDDSupply == Cardinality(Accounts) * USDDBalance
Slack == IF offsets = 0 THEN 0 ELSE USDDSupply \div DECIMAL_PRECISION
allDeposits == SumFunction([d \in Accounts |-> getCompoundedUSDDDeposit(d)])

\* The pool can pay back every deposit at once, up to that error: neither
\* changes of scale nor the emptying of the pool leave a claim behind.
DepositsNearlyBacked == allDeposits <= totalUSDDDeposits + Slack

\* The pool can pay every depositor's collateral gain at once, up to the
\* collateral of that error in each liquidation.
CollGainsNearlyBacked ==
    SumFunction([d \in Accounts |-> getDepositorCollGain(d)])
        <= COLL + offsets * Slack * Max(CollRatios)

\* What depositors and front ends may claim, with what they have got, was
\* issued.  Before any liquidation this is exact; afterwards the claims may
\* be too large in the same proportion as the deposits.
DEFTGainsNearlyBacked ==
    LET claim(a) == getDepositorDEFTGain(a, epochToScaleToG)
                        + getFrontEndDEFTGain(a, epochToScaleToG)
    IN deftSent + SumFunction([a \in Accounts |-> claim(a)])
           <= totalDEFTIssued * (1 + offsets * Slack)

\* The deposits of the pool, with the product P that compounds them.
PoolInv == TypeOK /\ DepositsNearlyBacked

\* Both kinds of gains can be paid, up to the error of the deposits.
GainsNearlyBacked == CollGainsNearlyBacked /\ DEFTGainsNearlyBacked

\* No operation, be it another's or a liquidation at any scale, lowers the
\* collateral gain or raises the deposit of a depositor who does nothing.
OthersUntouched ==
    [][\A d \in Accounts :
           (/\ deposits'[d] = deposits[d]
            /\ depositSnapshots'[d] = depositSnapshots[d]) =>
           /\ getDepositorCollGain(d)' >= getDepositorCollGain(d)
           /\ getCompoundedUSDDDeposit(d)' <= getCompoundedUSDDDeposit(d)]_vars
=============================================================================
