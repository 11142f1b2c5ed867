---------------------------- MODULE ProtocolState ----------------------------
(***************************************************************************)
(* The storage the USDD contracts share: the troves, stakes and reward     *)
(* accumulators of TroveManager.sol, the balances recorded by ActivePool,  *)
(* DefaultPool, CollSurplusPool and StabilityPool, the USDD token's        *)
(* balances, the sorted list of troves, and the views computed from them.  *)
(*                                                                         *)
(* Every external call runs as one EVM transaction.  A transaction that    *)
(* loops over troves is modelled one trove per step: pc says which loop is *)
(* running, and `saved' holds the storage to which a failing transaction   *)
(* is rolled back.  Nothing interleaves with a transaction in flight.      *)
(***************************************************************************)
EXTENDS LiquityMath, Sequences, FiniteSets, SequencesExt

CONSTANTS
    Borrowers,      \* accounts that may own a trove
    Keepers,        \* accounts that liquidate and redeem
    NoOne,          \* address(0)
    Prices,         \* answers of priceFeed.fetchPrice, in DECIMAL_PRECISION
    MaxTx           \* bound: number of transactions in a behaviour

Users == Borrowers \cup Keepers

ASSUME StateAssumption ==
    /\ IsFiniteSet(Borrowers)
    /\ IsFiniteSet(Keepers)
    /\ NoOne \notin Users
    /\ Prices \subseteq Nat \ {0}
    /\ MaxTx \in Nat

VARIABLES
    Troves,                     \* status, coll, debt and stake of each trove
    rewardSnapshots,            \* L_COLL and L_USDDDebt when last applied
    TroveOwners,                \* unordered array of owners (index i at i+1)
    arrayIndex,                 \* Troves[b].arrayIndex
    sortedTroves,               \* SortedTroves, head (highest NICR) first
    totalStakes,
    totalStakesSnapshot,        \* taken at the last liquidation ...
    totalCollateralSnapshot,    \* ... with the system collateral
    L_COLL,                     \* collateral gained per unit staked
    L_USDDDebt,                 \* debt gained per unit staked
    lastETHError,               \* lastETHError_Redistribution
    lastUSDDDebtError           \* lastUSDDDebtError_Redistribution

troveVars == <<Troves, rewardSnapshots, TroveOwners, arrayIndex, sortedTroves,
               totalStakes>>
snapshotVars == <<totalStakesSnapshot, totalCollateralSnapshot>>
rewardVars == <<L_COLL, L_USDDDebt, lastETHError, lastUSDDDebtError>>

VARIABLES
    activePool,                 \* recorded collateral and debt
    defaultPool,                \* the same for liquidated, unapplied troves
    COLLS,                      \* CollSurplusPool's recorded collateral
    surplusOf,                  \* CollSurplusPool.balances
    stabilityPool,              \* totalUSDDDeposits and COLL
    stakingColl,                \* collateral held by DEFTStaking
    wethHeld                    \* WETH owned by all the contracts together

poolVars == <<activePool, defaultPool, COLLS, surplusOf, stabilityPool,
              stakingColl, wethHeld>>

VARIABLES
    totalSupply,                \* USDDToken._totalSupply
    balances,                   \* USDD of the users
    gasPoolUSDD,                \* USDD of the gas pool
    stabilityPoolUSDD,          \* USDD of the stability pool
    stakingUSDD                 \* USDD of DEFTStaking

usddVars == <<totalSupply, balances, gasPoolUSDD, stabilityPoolUSDD,
              stakingUSDD>>

VARIABLES
    pc,                         \* "idle", "liquidating" or "redeeming"
    saved,                      \* storage when the transaction began
    txCount,                    \* transactions begun so far
    panicked                    \* an assert or SafeMath check has failed

controlVars == <<pc, saved, txCount, panicked>>

-----------------------------------------------------------------------------
(* Types *)

StatusSet == {"nonExistent", "active", "closedByOwner",
              "closedByLiquidation", "closedByRedemption"}
TroveSet == [status: StatusSet, coll: Nat, debt: Nat, stake: Nat]
RewardSnapshotSet == [COLL: Nat, USDDDebt: Nat]
PoolSet == [coll: Nat, debt: Nat]
StabilityPoolSet == [deposits: Nat, coll: Nat]

TroveOf(status, coll, debt, stake) ==
    [status |-> status, coll |-> coll, debt |-> debt, stake |-> stake]

Active(b) == Troves[b].status = "active"
ActiveTroves == {b \in Borrowers : Active(b)}

-----------------------------------------------------------------------------
(* Pools: a call that adds or takes collateral and debt.  `Covers' is the  *)
(* SafeMath check of the subtractions.                                     *)

\* Mutant: receiveColl forgets to record the collateral.
PoolPlusDebt(p, coll, debt) == [coll |-> p.coll, debt |-> p.debt + debt]

PoolPlus(p, coll, debt) == [coll |-> p.coll + coll, debt |-> p.debt + debt]
PoolMinus(p, coll, debt) == [coll |-> p.coll - coll, debt |-> p.debt - debt]
Covers(p, coll, debt) == coll <= p.coll /\ debt <= p.debt

getEntireSystemColl == activePool.coll + defaultPool.coll
getEntireSystemDebt == activePool.debt + defaultPool.debt
getTCR(price) == computeCR(getEntireSystemColl, getEntireSystemDebt, price)
checkRecoveryMode(price) == getTCR(price) < CCR

-----------------------------------------------------------------------------
(* Redistribution gains of one trove *)

getPendingCollReward(b) ==
    IF Active(b)
    THEN (Troves[b].stake * (L_COLL - rewardSnapshots[b].COLL))
             \div DECIMAL_PRECISION
    ELSE 0

getPendingUSDDDebtReward(b) ==
    IF Active(b)
    THEN (Troves[b].stake * (L_USDDDebt - rewardSnapshots[b].USDDDebt))
             \div DECIMAL_PRECISION
    ELSE 0

\* Only the collateral snapshot is compared.
hasPendingRewards(b) == Active(b) /\ rewardSnapshots[b].COLL < L_COLL

\* Troves[b] with its pending gains: getEntireDebtAndColl
entireColl(b) == Troves[b].coll + getPendingCollReward(b)
entireDebt(b) == Troves[b].debt + getPendingUSDDDebtReward(b)

getNominalICR(b) == computeNominalCR(entireColl(b), entireDebt(b))
getCurrentICR(b, price) == computeCR(entireColl(b), entireDebt(b), price)

\* What _applyPendingRewards moves from the default to the active pool
appliedColl(b) == IF hasPendingRewards(b) THEN getPendingCollReward(b) ELSE 0
appliedDebt(b) ==
    IF hasPendingRewards(b) THEN getPendingUSDDDebtReward(b) ELSE 0
\* ... the trove it leaves
collApplied(b) == Troves[b].coll + appliedColl(b)
debtApplied(b) == Troves[b].debt + appliedDebt(b)
\* ... and the snapshot
\* Mutant: applies the rewards without a new snapshot.
oldSnapshot(b) == rewardSnapshots[b]

appliedSnapshot(b) ==
    IF hasPendingRewards(b)
    THEN [COLL |-> L_COLL, USDDDebt |-> L_USDDDebt]
    ELSE rewardSnapshots[b]

\* The snapshots never run ahead of the sums they were copied from: the
\* SafeMath check of getPendingCollReward and getPendingUSDDDebtReward.
SnapshotsCovered(b) ==
    /\ rewardSnapshots[b].COLL <= L_COLL
    /\ rewardSnapshots[b].USDDDebt <= L_USDDDebt

-----------------------------------------------------------------------------
(* Stakes *)

\* The assert and the division of _computeNewStake
StakeComputable == totalCollateralSnapshot # 0 => totalStakesSnapshot > 0

computeNewStake(coll) ==
    IF totalCollateralSnapshot = 0
    THEN coll
    ELSE (coll * totalStakesSnapshot) \div totalCollateralSnapshot

\* _removeStake: the total without the trove's stake
removeStake(b) == totalStakes - Troves[b].stake

-----------------------------------------------------------------------------
(* SortedTroves, as the sequence it stands for.  An insertion ends at some *)
(* position between a node with no smaller and one with no larger NICR:    *)
(* which one depends on the caller's hints.                                *)

contains(b) == \E i \in 1..Len(sortedTroves) : sortedTroves[i] = b

ListPosition(list, b) == CHOOSE i \in 1..Len(list) : list[i] = b
Without(list, b) == RemoveAt(list, ListPosition(list, b))

validInsertPosition(list, nicr, i) ==
    /\ i = 1 \/ getNominalICR(list[i - 1]) >= nicr
    /\ i = Len(list) + 1 \/ nicr >= getNominalICR(list[i])

insertPositions(list, nicr) ==
    {i \in 1..(Len(list) + 1) : validInsertPosition(list, nicr, i)}

\* insert and reInsert (list is then the list without b)
InsertInto(list, b, nicr) ==
    /\ nicr > 0
    /\ \E i \in insertPositions(list, nicr) :
          sortedTroves' = InsertAt(list, i, b)

\* The pointers of a node that is not in the list are address(0).
getPrev(b) ==
    IF contains(b) /\ ListPosition(sortedTroves, b) > 1
    THEN sortedTroves[ListPosition(sortedTroves, b) - 1]
    ELSE NoOne
getLast == IF sortedTroves = <<>> THEN NoOne ELSE Last(sortedTroves)
getFirst == IF sortedTroves = <<>> THEN NoOne ELSE Head(sortedTroves)

-----------------------------------------------------------------------------
(* TroveOwners: an array with swap-and-pop removal *)

addTroveOwnerToArray(b) ==
    /\ TroveOwners' = Append(TroveOwners, b)
    /\ arrayIndex' = [arrayIndex EXCEPT ![b] = Len(TroveOwners)]

\* Mutant: the moved owner keeps its old index.
removeWithoutReindex(b) ==
    LET idxLast == Len(TroveOwners) - 1
        addressToMove == TroveOwners[idxLast + 1]
        moved == [TroveOwners EXCEPT ![arrayIndex[b] + 1] = addressToMove]
    IN /\ arrayIndex[b] <= idxLast
       /\ TroveOwners' = SubSeq(moved, 1, idxLast)
       /\ UNCHANGED arrayIndex

removeTroveOwner(b) ==
    LET idxLast == Len(TroveOwners) - 1
        addressToMove == TroveOwners[idxLast + 1]
        moved == [TroveOwners EXCEPT ![arrayIndex[b] + 1] = addressToMove]
    IN /\ arrayIndex[b] <= idxLast
       /\ TroveOwners' = SubSeq(moved, 1, idxLast)
       /\ arrayIndex' = [arrayIndex EXCEPT ![addressToMove] = arrayIndex[b]]

-----------------------------------------------------------------------------
(* _removeStake followed by _closeTrove.  MoreThanOneTrove is the require  *)
(* of _closeTrove, the rest are the checks it and its callees make.        *)

MoreThanOneTrove == Len(TroveOwners) > 1 /\ Len(sortedTroves) > 1

closeTrove(b, closedStatus) ==
    /\ MoreThanOneTrove
    /\ Troves[b].stake <= totalStakes
    /\ totalStakes' = removeStake(b)
    /\ Troves' = [Troves EXCEPT ![b] = TroveOf(closedStatus, 0, 0, 0)]
    /\ rewardSnapshots' =
           [rewardSnapshots EXCEPT ![b] = [COLL |-> 0, USDDDebt |-> 0]]
    /\ removeTroveOwner(b)
    /\ contains(b)
    /\ sortedTroves' = Without(sortedTroves, b)

-----------------------------------------------------------------------------
(* Transactions *)

Storage ==
    [Troves |-> Troves, rewardSnapshots |-> rewardSnapshots,
     TroveOwners |-> TroveOwners, arrayIndex |-> arrayIndex,
     sortedTroves |-> sortedTroves, totalStakes |-> totalStakes,
     totalStakesSnapshot |-> totalStakesSnapshot,
     totalCollateralSnapshot |-> totalCollateralSnapshot,
     L_COLL |-> L_COLL, L_USDDDebt |-> L_USDDDebt,
     lastETHError |-> lastETHError, lastUSDDDebtError |-> lastUSDDDebtError,
     activePool |-> activePool, defaultPool |-> defaultPool,
     COLLS |-> COLLS, surplusOf |-> surplusOf,
     stabilityPool |-> stabilityPool, stakingColl |-> stakingColl,
     wethHeld |-> wethHeld, totalSupply |-> totalSupply,
     balances |-> balances, gasPoolUSDD |-> gasPoolUSDD,
     stabilityPoolUSDD |-> stabilityPoolUSDD, stakingUSDD |-> stakingUSDD]

NothingSaved == <<>>

\* A transaction without a loop: it begins and ends in one step.
Transact ==
    /\ pc = "idle"
    /\ txCount < MaxTx
    /\ txCount' = txCount + 1
    /\ UNCHANGED <<pc, saved, panicked>>

\* A transaction that loops begins ...
BeginTx(loop) ==
    /\ pc = "idle"
    /\ txCount < MaxTx
    /\ txCount' = txCount + 1
    /\ pc' = loop
    /\ saved' = Storage
    /\ UNCHANGED panicked

\* ... and commits ...
CommitTx ==
    /\ pc' = "idle"
    /\ saved' = NothingSaved
    /\ UNCHANGED <<txCount, panicked>>

\* ... or reverts, undoing all it wrote.
RevertTx ==
    /\ Troves' = saved.Troves
    /\ rewardSnapshots' = saved.rewardSnapshots
    /\ TroveOwners' = saved.TroveOwners
    /\ arrayIndex' = saved.arrayIndex
    /\ sortedTroves' = saved.sortedTroves
    /\ totalStakes' = saved.totalStakes
    /\ totalStakesSnapshot' = saved.totalStakesSnapshot
    /\ totalCollateralSnapshot' = saved.totalCollateralSnapshot
    /\ L_COLL' = saved.L_COLL
    /\ L_USDDDebt' = saved.L_USDDDebt
    /\ lastETHError' = saved.lastETHError
    /\ lastUSDDDebtError' = saved.lastUSDDDebtError
    /\ activePool' = saved.activePool
    /\ defaultPool' = saved.defaultPool
    /\ COLLS' = saved.COLLS
    /\ surplusOf' = saved.surplusOf
    /\ stabilityPool' = saved.stabilityPool
    /\ stakingColl' = saved.stakingColl
    /\ wethHeld' = saved.wethHeld
    /\ totalSupply' = saved.totalSupply
    /\ balances' = saved.balances
    /\ gasPoolUSDD' = saved.gasPoolUSDD
    /\ stabilityPoolUSDD' = saved.stabilityPoolUSDD
    /\ stakingUSDD' = saved.stakingUSDD
    /\ pc' = "idle"
    /\ saved' = NothingSaved
    /\ UNCHANGED txCount
=============================================================================
