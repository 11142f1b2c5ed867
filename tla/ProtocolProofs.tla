---------------------------- MODULE ProtocolProofs ----------------------------
(***************************************************************************)
(* For every set of borrowers and keepers, every price and every choice of *)
(* the protocol's constants: the types of Protocol and its two ledgers,    *)
(* USDD against debt and WETH against recorded collateral, are invariant;  *)
(* and so are the books of all contracts, which agree with the troves      *)
(* between the steps of a loop and after a revert too.  Liquidation and    *)
(* redemption take no more than they should, borrowers keep the system in  *)
(* Normal Mode, and an open trove stays whole.  Where rounding has neither *)
(* taken an open trove's stake nor hidden its debt, the redistributed debt *)
(* is covered, a stake can be computed and no check fails inside a loop.   *)
(***************************************************************************)
EXTENDS Protocol, DataTheorems

(* Arithmetic and the views *)

\* A quotient of natural numbers is one (every `div' of the contracts).
LEMMA DivNat ==
    ASSUME NEW x \in Nat, NEW y \in Nat, y > 0
    PROVE  x \div y \in Nat
  OBVIOUS

\* What a division leaves is a natural number (the carried errors).
LEMMA RemainderNat ==
    ASSUME NEW x \in Nat, NEW y \in Nat, y > 0
    PROVE  x - (x \div y) * y \in Nat
  OBVIOUS

\* fetchPrice answers a positive number.
LEMMA PriceType ==
    ASSUME NEW price \in Prices
    PROVE  price \in Nat /\ price > 0
  BY StateAssumption

\* The pending rewards are natural numbers where the snapshots do not run
\* ahead of the sums (getPendingCollReward, getPendingUSDDDebtReward).
LEMMA PendingTypes ==
    ASSUME TroveTypes, RewardTypes, NEW b \in Borrowers, SnapshotsCovered(b)
    PROVE  /\ getPendingCollReward(b) \in Nat
           /\ getPendingUSDDDebtReward(b) \in Nat
<1> DEFINE gainC == L_COLL - rewardSnapshots[b].COLL
           gainD == L_USDDDebt - rewardSnapshots[b].USDDDebt
<1>1. /\ Troves[b].stake \in Nat
      /\ gainC \in Nat
      /\ gainD \in Nat
  <2>1. Troves[b] \in TroveSet /\ rewardSnapshots[b] \in RewardSnapshotSet
    BY DEF TroveTypes
  <2>2. Troves[b].stake \in Nat
    BY <2>1 DEF TroveSet
  <2>3. /\ rewardSnapshots[b].COLL \in Nat
        /\ rewardSnapshots[b].USDDDebt \in Nat
    BY <2>1 DEF RewardSnapshotSet
  <2> QED
    BY <2>2, <2>3 DEF RewardTypes, SnapshotsCovered
<1>2. /\ Troves[b].stake * gainC \in Nat
      /\ Troves[b].stake * gainD \in Nat
  <2> HIDE DEF gainC, gainD
  <2> QED BY <1>1
<1>3. DECIMAL_PRECISION \in Nat /\ DECIMAL_PRECISION > 0
  BY MathAssumption
<1>4. /\ (Troves[b].stake * gainC) \div DECIMAL_PRECISION \in Nat
      /\ (Troves[b].stake * gainD) \div DECIMAL_PRECISION \in Nat
  <2> HIDE DEF gainC, gainD
  <2> QED BY <1>2, <1>3, DivNat
<1> QED
  BY <1>4 DEF getPendingCollReward, getPendingUSDDDebtReward

\* What _applyPendingRewards moves and leaves behind has its type.
LEMMA AppliedTypes ==
    ASSUME TroveTypes, RewardTypes, NEW b \in Borrowers, SnapshotsCovered(b)
    PROVE  /\ appliedColl(b) \in Nat
           /\ appliedDebt(b) \in Nat
           /\ collApplied(b) \in Nat
           /\ debtApplied(b) \in Nat
           /\ collApplied(b) = Troves[b].coll + appliedColl(b)
           /\ debtApplied(b) = Troves[b].debt + appliedDebt(b)
           /\ appliedSnapshot(b) \in RewardSnapshotSet
<1>1. Troves[b].coll \in Nat /\ Troves[b].debt \in Nat
  BY DEF TroveTypes, TroveSet
<1>2. appliedColl(b) \in Nat /\ appliedDebt(b) \in Nat
  BY PendingTypes DEF appliedColl, appliedDebt
<1>3. appliedSnapshot(b) \in RewardSnapshotSet
  BY DEF appliedSnapshot, RewardSnapshotSet, RewardTypes, TroveTypes
<1> QED
  BY <1>1, <1>2, <1>3 DEF collApplied, debtApplied

\* _computeNewStake returns a natural number when its assert holds.
LEMMA StakeType ==
    ASSUME RewardTypes, StakeComputable, NEW coll \in Nat
    PROVE  computeNewStake(coll) \in Nat
<1>1. CASE totalCollateralSnapshot = 0
  BY <1>1 DEF computeNewStake
<1>2. CASE totalCollateralSnapshot # 0
  <2>1. coll * totalStakesSnapshot \in Nat
    BY DEF RewardTypes
  <2>2. totalCollateralSnapshot \in Nat /\ totalCollateralSnapshot > 0
    BY <1>2 DEF RewardTypes
  <2> QED
    BY <1>2, <2>1, <2>2, DivNat DEF computeNewStake
<1> QED BY <1>1, <1>2

\* The lists keep their type: SortedTroves.insert and remove.
LEMMA InsertType ==
    ASSUME NEW list \in Seq(Borrowers), NEW b \in Borrowers, NEW nicr,
           InsertInto(list, b, nicr)
    PROVE  sortedTroves' \in Seq(Borrowers)
<1>1. PICK i \in 1..(Len(list) + 1) : sortedTroves' = InsertAt(list, i, b)
  BY DEF InsertInto, insertPositions
<1>2. /\ SubSeq(list, 1, i - 1) \in Seq(Borrowers)
      /\ SubSeq(list, i, Len(list)) \in Seq(Borrowers)
      /\ <<b>> \in Seq(Borrowers)
  OBVIOUS
<1> QED
  BY <1>1, <1>2 DEF InsertAt

\* SortedTroves.remove leaves a list of borrowers.
LEMMA WithoutType ==
    ASSUME sortedTroves \in Seq(Borrowers), NEW b, contains(b)
    PROVE  Without(sortedTroves, b) \in Seq(Borrowers)
<1> DEFINE i == ListPosition(sortedTroves, b)
<1>1. i \in 1..Len(sortedTroves)
  BY DEF contains, ListPosition
<1>2. /\ SubSeq(sortedTroves, 1, i - 1) \in Seq(Borrowers)
      /\ SubSeq(sortedTroves, i + 1, Len(sortedTroves)) \in Seq(Borrowers)
  <2> HIDE DEF i
  <2> QED BY <1>1
<1> QED
  BY <1>2 DEF Without, RemoveAt

\* SortedTroves.getPrev answers a borrower or address(0).
LEMMA PrevType ==
    ASSUME sortedTroves \in Seq(Borrowers), NEW b
    PROVE  getPrev(b) \in Borrowers \cup {NoOne}
<1> DEFINE j == ListPosition(sortedTroves, b)
<1>1. CASE contains(b) /\ j > 1
  <2>1. j \in 1..Len(sortedTroves)
    BY <1>1 DEF ListPosition, contains
  <2>2. j - 1 \in 1..Len(sortedTroves)
    <3> HIDE DEF j
    <3> QED BY <1>1, <2>1
  <2> QED
    BY <1>1, <2>2 DEF getPrev
<1> QED
  BY <1>1 DEF getPrev

\* _closeTrove and _removeStake keep the types of the troves.
LEMMA CloseTypes ==
    ASSUME TroveTypes, NEW b \in Borrowers, NEW s \in StatusSet,
           closeTrove(b, s)
    PROVE  TroveTypes'
<1>1. Troves' \in [Borrowers -> TroveSet]
  BY DEF closeTrove, TroveTypes, TroveSet, TroveOf
<1>2. rewardSnapshots' \in [Borrowers -> RewardSnapshotSet]
  BY DEF closeTrove, TroveTypes, RewardSnapshotSet
<1>3. TroveOwners' \in Seq(Borrowers)
  <2> DEFINE idxLast == Len(TroveOwners) - 1
             moved == [TroveOwners EXCEPT ![arrayIndex[b] + 1] =
                           TroveOwners[idxLast + 1]]
  <2>1. arrayIndex[b] \in Nat /\ arrayIndex[b] <= idxLast
    BY DEF closeTrove, removeTroveOwner, TroveTypes
  <2>2. moved \in Seq(Borrowers) /\ Len(moved) = Len(TroveOwners)
    BY <2>1 DEF TroveTypes
  <2>3. SubSeq(moved, 1, idxLast) \in Seq(Borrowers)
    <3> HIDE DEF moved
    <3> QED BY <2>1, <2>2 DEF TroveTypes
  <2> QED BY <2>3 DEF closeTrove, removeTroveOwner
<1>4. arrayIndex' \in [Borrowers -> Nat]
  BY DEF closeTrove, removeTroveOwner, TroveTypes
<1>5. sortedTroves' \in Seq(Borrowers)
  BY WithoutType DEF closeTrove, TroveTypes
<1>6. totalStakes' \in Nat
  BY DEF closeTrove, removeStake, TroveTypes, TroveSet
<1> QED
  BY <1>1, <1>2, <1>3, <1>4, <1>5, <1>6 DEF TroveTypes

\* The fields of the pools
LEMMA PoolFields ==
    ASSUME PoolTypes
    PROVE  /\ activePool.coll \in Nat /\ activePool.debt \in Nat
           /\ defaultPool.coll \in Nat /\ defaultPool.debt \in Nat
           /\ stabilityPool.coll \in Nat /\ stabilityPool.deposits \in Nat
  BY DEF PoolTypes, PoolSet, StabilityPoolSet

\* A fee is a natural number.
LEMMA FeeType ==
    ASSUME NEW rate \in Nat, NEW amount \in Nat
    PROVE  feeOf(rate, amount) \in Nat
<1>1. rate * amount \in Nat
  OBVIOUS
<1> QED
  BY <1>1, DivNat, MathAssumption DEF feeOf

-----------------------------------------------------------------------------
(* Transactions without a loop *)

\* Between the steps of a transaction nothing is restored, and an atomic
\* transaction leaves the control state and the loops' locals alone.
LEMMA TransactControl ==
    ASSUME LedgerInv, Transact, UNCHANGED <<liqVars, redVars>>
    PROVE  ControlTypes' /\ LoopTypes' /\ SavedBalanced' /\ pc = "idle"
<1>1. ControlTypes' /\ SavedBalanced'
  BY DEF LedgerInv, TypeOK, ControlTypes, Transact, SavedBalanced
<1>2. LoopTypes'
  BY DEF LedgerInv, TypeOK, LoopTypes, liqVars, redVars, Transact
<1> QED BY <1>1, <1>2 DEF Transact

\* openTrove mints what the new trove owes and takes in its collateral.
LEMMA OpenTroveStep ==
    ASSUME LedgerInv, UNCHANGED <<liqVars, redVars>>,
           NEW b \in Borrowers, NEW price \in Prices, NEW c \in OpenColl,
           NEW a \in OpenUSDD, NEW rate \in BorrowingRates,
           openTrove(b, price, c, a, rate)
    PROVE  LedgerInv'
<1> DEFINE fee == IF checkRecoveryMode(price) THEN 0 ELSE feeOf(rate, a)
           stake == computeNewStake(Troves[b].coll + c)
           debt == a + fee + USDD_GAS_COMPENSATION
<1>1. /\ TroveTypes /\ RewardTypes /\ PoolTypes /\ TokenTypes
      /\ SupplyMatchesDebt /\ CollateralAccountedFor
  BY DEF LedgerInv, TypeOK
<1>2. c \in Nat /\ a \in Nat /\ rate \in Nat
      /\ USDD_GAS_COMPENSATION \in Nat
  BY BorrowerAssumption, MathAssumption
<1>3. fee \in Nat
  BY <1>2, FeeType
<1>4. Troves[b] \in TroveSet
  BY <1>1 DEF TroveTypes
<1>5. /\ Troves[b].coll \in Nat /\ Troves[b].debt \in Nat
      /\ Troves[b].stake \in Nat
  BY <1>4 DEF TroveSet
<1>6. stake \in Nat
  BY <1>1, <1>2, <1>5, StakeType DEF openTrove
<1> HIDE DEF fee, stake
<1>7. TroveTypes'
  <2>1. Troves' \in [Borrowers -> TroveSet]
    <3>1. TroveOf("active", Troves[b].coll + c, Troves[b].debt + debt, stake)
              \in TroveSet
      BY <1>2, <1>3, <1>5, <1>6 DEF TroveOf, TroveSet, StatusSet
    <3>2. Troves' = [Troves EXCEPT ![b] =
              TroveOf("active", Troves[b].coll + c, Troves[b].debt + debt,
                      stake)]
      BY DEF openTrove, fee, stake, getCompositeDebt
    <3> QED BY <1>1, <3>1, <3>2 DEF TroveTypes
  <2>2. rewardSnapshots' \in [Borrowers -> RewardSnapshotSet]
    BY <1>1 DEF openTrove, TroveTypes, RewardTypes, RewardSnapshotSet
  <2>3. TroveOwners' \in Seq(Borrowers) /\ arrayIndex' \in [Borrowers -> Nat]
    BY <1>1 DEF openTrove, addTroveOwnerToArray, TroveTypes
  <2>4. sortedTroves' \in Seq(Borrowers)
    BY <1>1, InsertType DEF openTrove, TroveTypes
  <2>5. totalStakes' \in Nat
    BY <1>1, <1>5, <1>6 DEF openTrove, removeStake, TroveTypes, stake
  <2> QED BY <2>1, <2>2, <2>3, <2>4, <2>5 DEF TroveTypes
<1>8. /\ activePool' = [coll |-> activePool.coll + c,
                        debt |-> activePool.debt + debt]
      /\ totalSupply' = totalSupply + fee + a + USDD_GAS_COMPENSATION
      /\ wethHeld' = wethHeld + c
      /\ UNCHANGED <<defaultPool, COLLS, surplusOf, stabilityPool,
                     stakingColl, stabilityPoolUSDD>>
  BY DEF openTrove, PoolPlus, fee, getCompositeDebt
<1>9. RewardTypes'
  BY <1>1 DEF openTrove, snapshotVars, rewardVars, RewardTypes
<1>10. PoolTypes'
  BY <1>1, <1>2, <1>3, <1>8, PoolFields DEF PoolTypes, PoolSet
<1>11. TokenTypes'
  <2>1. balances' \in [Users -> Nat]
    BY <1>1, <1>2 DEF openTrove, TokenTypes, Users
  <2>2. gasPoolUSDD' \in Nat /\ stakingUSDD' \in Nat
    BY <1>1, <1>2, <1>3 DEF openTrove, TokenTypes, fee
  <2> QED BY <1>1, <1>2, <1>3, <1>8, <2>1, <2>2 DEF TokenTypes
<1>12. SupplyMatchesDebt'
  BY <1>1, <1>2, <1>3, <1>8, PoolFields
     DEF SupplyMatchesDebt, getEntireSystemDebt, TokenTypes
<1>13. CollateralAccountedFor'
  BY <1>1, <1>2, <1>8, PoolFields DEF CollateralAccountedFor, PoolTypes
<1> QED
  BY <1>7, <1>9, <1>10, <1>11, <1>12, <1>13, TransactControl
     DEF LedgerInv, TypeOK, openTrove

\* _adjustTrove: the trove and the pools change by the same amounts.
LEMMA AdjustFacts ==
    ASSUME LedgerInv, NEW b \in Borrowers, NEW price,
           NEW adj \in AdjustmentSet, NEW rate \in Nat,
           updateTroveFromAdjustment(b, price, adj, rate)
    PROVE  /\ TroveTypes'
           /\ adjustmentFee(price, adj, rate) \in Nat
           /\ activePool' \in PoolSet
           /\ defaultPool' \in PoolSet
           /\ activePool'.coll + defaultPool'.coll
                  = activePool.coll + defaultPool.coll + adj.collIn
                        - adj.collOut
           /\ activePool'.debt + defaultPool'.debt
                  = activePool.debt + defaultPool.debt
                        + (IF adj.increase
                           THEN adj.usdd + adjustmentFee(price, adj, rate)
                           ELSE 0 - adj.usdd)
<1> DEFINE fee == adjustmentFee(price, adj, rate)
           coll == newTroveColl(b, adj)
           debt == newTroveDebt(b, adj, fee)
           stake == computeNewStake(coll)
<1>1. /\ TroveTypes /\ RewardTypes /\ PoolTypes
      /\ SnapshotsCovered(b) /\ StakeComputable
  BY DEF LedgerInv, TypeOK, updateTroveFromAdjustment
<1>2. /\ adj.collIn \in Nat /\ adj.collOut \in Nat /\ adj.usdd \in Nat
      /\ adj.increase \in BOOLEAN
  BY DEF AdjustmentSet
<1>3. fee \in Nat
  BY <1>2, FeeType DEF adjustmentFee
<1>4. /\ appliedColl(b) \in Nat /\ appliedDebt(b) \in Nat
      /\ collApplied(b) \in Nat /\ debtApplied(b) \in Nat
      /\ appliedSnapshot(b) \in RewardSnapshotSet
  BY <1>1, AppliedTypes
<1>5. adjustRequires(b, price, adj, fee)
  BY DEF updateTroveFromAdjustment
<1>6. coll \in Nat /\ debt \in Nat
  <2>1. /\ adj.collOut <= collApplied(b)
        /\ ~adj.increase => adj.usdd <= debtApplied(b)
    BY <1>5 DEF adjustRequires
  <2> HIDE DEF fee
  <2> QED BY <1>2, <1>3, <1>4, <2>1 DEF newTroveColl, newTroveDebt
<1>7. stake \in Nat
  <2> HIDE DEF coll
  <2> QED BY <1>1, <1>6, StakeType
<1>8. Troves[b].stake \in Nat
  <2>1. Troves[b] \in TroveSet
    BY <1>1 DEF TroveTypes
  <2> QED BY <2>1 DEF TroveSet
<1>9. TroveTypes'
  <2>1. Troves' \in [Borrowers -> TroveSet]
    <3>1. TroveOf("active", coll, debt, stake) \in TroveSet
      <4> HIDE DEF coll, debt, stake
      <4> QED BY <1>6, <1>7 DEF TroveOf, TroveSet, StatusSet
    <3>2. Troves' = [Troves EXCEPT ![b] =
                         TroveOf("active", coll, debt, stake)]
      BY DEF updateTroveFromAdjustment
    <3> HIDE DEF coll, debt, stake
    <3> QED BY <1>1, <3>1, <3>2 DEF TroveTypes
  <2>2. rewardSnapshots' \in [Borrowers -> RewardSnapshotSet]
    <3>1. rewardSnapshots' =
              [rewardSnapshots EXCEPT ![b] = appliedSnapshot(b)]
      BY DEF updateTroveFromAdjustment
    <3> QED BY <1>1, <1>4, <3>1 DEF TroveTypes
  <2>3. TroveOwners' \in Seq(Borrowers) /\ arrayIndex' \in [Borrowers -> Nat]
    BY <1>1 DEF updateTroveFromAdjustment, TroveTypes
  <2>4. sortedTroves' \in Seq(Borrowers)
    <3>1. Without(sortedTroves, b) \in Seq(Borrowers)
      BY <1>1, WithoutType DEF updateTroveFromAdjustment, TroveTypes
    <3>2. InsertInto(Without(sortedTroves, b), b,
                     computeNominalCR(coll, debt))
      BY DEF updateTroveFromAdjustment
    <3> HIDE DEF coll, debt
    <3> QED BY <3>1, <3>2, InsertType
  <2>5. totalStakes' \in Nat
    <3>1. /\ Troves[b].stake <= totalStakes
          /\ totalStakes' = removeStake(b) + stake
      BY DEF updateTroveFromAdjustment
    <3> HIDE DEF stake
    <3> QED BY <1>1, <1>7, <1>8, <3>1 DEF removeStake, TroveTypes
  <2> QED BY <2>1, <2>2, <2>3, <2>4, <2>5 DEF TroveTypes
<1>10. /\ Covers(defaultPool, appliedColl(b), appliedDebt(b))
       /\ defaultPool' =
              PoolMinus(defaultPool, appliedColl(b), appliedDebt(b))
       /\ adj.collOut <= activePool.coll + appliedColl(b)
       /\ ~adj.increase => adj.usdd <= activePool.debt + appliedDebt(b)
       /\ activePool' = [
              coll |-> activePool.coll + appliedColl(b) + adj.collIn
                           - adj.collOut,
              debt |-> activePool.debt + appliedDebt(b)
                           + (IF adj.increase THEN adj.usdd + fee
                                              ELSE 0 - adj.usdd)]
  BY DEF updateTroveFromAdjustment
<1> HIDE DEF fee
<1>11. activePool' \in PoolSet /\ defaultPool' \in PoolSet
  BY <1>1, <1>2, <1>3, <1>4, <1>10, PoolFields
     DEF PoolSet, PoolMinus, Covers
<1>12. /\ activePool'.coll + defaultPool'.coll
              = activePool.coll + defaultPool.coll + adj.collIn - adj.collOut
       /\ activePool'.debt + defaultPool'.debt
              = activePool.debt + defaultPool.debt
                    + (IF adj.increase THEN adj.usdd + fee
                                       ELSE 0 - adj.usdd)
  BY <1>1, <1>2, <1>3, <1>4, <1>10, PoolFields DEF PoolMinus
<1> QED
  BY <1>3, <1>9, <1>11, <1>12 DEF fee

\* adjustTrove: the tokens minted, burned and moved match the pools.
LEMMA AdjustTroveStep ==
    ASSUME LedgerInv, UNCHANGED <<liqVars, redVars>>,
           NEW b \in Borrowers, NEW price \in Prices,
           NEW adj \in Adjustments, NEW rate \in BorrowingRates,
           adjustTrove(b, price, adj, rate)
    PROVE  LedgerInv'
<1> DEFINE fee == adjustmentFee(price, adj, rate)
<1>1. /\ RewardTypes /\ PoolTypes /\ TokenTypes
      /\ SupplyMatchesDebt /\ CollateralAccountedFor
  BY DEF LedgerInv, TypeOK
<1>2. adj \in AdjustmentSet /\ rate \in Nat
  BY BorrowerAssumption
<1>3. /\ adj.collIn \in Nat /\ adj.collOut \in Nat /\ adj.usdd \in Nat
      /\ adj.increase \in BOOLEAN
  BY <1>2 DEF AdjustmentSet
<1>4. /\ TroveTypes' /\ fee \in Nat
      /\ activePool' \in PoolSet /\ defaultPool' \in PoolSet
      /\ activePool'.coll + defaultPool'.coll
             = activePool.coll + defaultPool.coll + adj.collIn - adj.collOut
      /\ activePool'.debt + defaultPool'.debt
             = activePool.debt + defaultPool.debt
                   + (IF adj.increase THEN adj.usdd + fee
                                      ELSE 0 - adj.usdd)
  BY <1>2, AdjustFacts DEF adjustTrove
<1>5. /\ activePool'.coll \in Nat /\ activePool'.debt \in Nat
      /\ defaultPool'.coll \in Nat /\ defaultPool'.debt \in Nat
  BY <1>4 DEF PoolSet
<1>6. /\ wethHeld' = wethHeld + adj.collIn - adj.collOut
      /\ UNCHANGED <<COLLS, surplusOf, stabilityPool, stakingColl,
                     gasPoolUSDD, stabilityPoolUSDD>>
      /\ totalSupply' = totalSupply + (IF adj.increase THEN adj.usdd + fee
                                                       ELSE 0 - adj.usdd)
      /\ stakingUSDD' = IF adj.increase THEN stakingUSDD + fee
                                        ELSE stakingUSDD
  BY <1>1, <1>3, <1>4 DEF adjustTrove, TokenTypes
<1>7. balances' \in [Users -> Nat]
  <2>1. CASE adj.increase
    BY <1>1, <1>3, <2>1 DEF adjustTrove, TokenTypes, Users
  <2>2. CASE ~adj.increase
    BY <1>1, <1>3, <2>2 DEF adjustTrove, TokenTypes, Users
  <2> QED BY <2>1, <2>2
<1> HIDE DEF fee
<1>8. SupplyMatchesDebt'
  BY <1>1, <1>3, <1>4, <1>5, <1>6, PoolFields
     DEF SupplyMatchesDebt, getEntireSystemDebt, TokenTypes
<1>9. CollateralAccountedFor'
  BY <1>1, <1>3, <1>4, <1>5, <1>6, PoolFields
     DEF CollateralAccountedFor, PoolTypes
<1>10. PoolTypes'
  <2>1. wethHeld' \in Nat
    BY <1>1, <1>5, <1>6, <1>9, PoolFields
       DEF CollateralAccountedFor, PoolTypes
  <2> QED BY <1>1, <1>4, <1>6, <2>1 DEF PoolTypes
<1>11. TokenTypes'
  <2>1. totalSupply' \in Nat
    BY <1>5, <1>8 DEF SupplyMatchesDebt, getEntireSystemDebt
  <2>2. stakingUSDD' \in Nat
    BY <1>1, <1>4, <1>6 DEF TokenTypes
  <2> QED BY <1>1, <1>6, <1>7, <2>1, <2>2 DEF TokenTypes
<1>12. RewardTypes'
  BY <1>1 DEF adjustTrove, snapshotVars, rewardVars, RewardTypes
<1> QED
  BY <1>4, <1>8, <1>9, <1>10, <1>11, <1>12, TransactControl
     DEF LedgerInv, TypeOK, adjustTrove

\* withdrawCollGainToTrove: collateral moves from the stability pool to the
\* active pool.
LEMMA CollGainStep ==
    ASSUME LedgerInv, UNCHANGED <<liqVars, redVars>>,
           NEW b \in Borrowers, NEW price \in Prices,
           withdrawCollGainToTrove(b, price)
    PROVE  LedgerInv'
<1> DEFINE adj == [collIn |-> stabilityPool.coll, collOut |-> 0, usdd |-> 0,
                   increase |-> FALSE]
<1>1. /\ RewardTypes /\ PoolTypes /\ TokenTypes
      /\ SupplyMatchesDebt /\ CollateralAccountedFor
  BY DEF LedgerInv, TypeOK
<1>2. adj \in AdjustmentSet
  BY <1>1, PoolFields DEF AdjustmentSet
<1>3. /\ adj.collIn = stabilityPool.coll /\ adj.collOut = 0
      /\ adj.usdd = 0 /\ adj.increase = FALSE
  OBVIOUS
<1>4. updateTroveFromAdjustment(b, price, adj, 0)
  BY DEF withdrawCollGainToTrove
<1> HIDE DEF adj
<1>5. /\ TroveTypes'
      /\ activePool' \in PoolSet /\ defaultPool' \in PoolSet
      /\ activePool'.coll + defaultPool'.coll
             = activePool.coll + defaultPool.coll + stabilityPool.coll - 0
      /\ activePool'.debt + defaultPool'.debt
             = activePool.debt + defaultPool.debt + (0 - 0)
  BY <1>2, <1>3, <1>4, AdjustFacts
<1>6. /\ stabilityPool' = [deposits |-> stabilityPool.deposits, coll |-> 0]
      /\ UNCHANGED <<COLLS, surplusOf, stakingColl, wethHeld>>
      /\ UNCHANGED usddVars
  BY DEF withdrawCollGainToTrove
<1>7. SupplyMatchesDebt'
  BY <1>1, <1>5, <1>6, PoolFields
     DEF SupplyMatchesDebt, getEntireSystemDebt, TokenTypes, usddVars
<1>8. CollateralAccountedFor'
  <2>1. activePool'.coll \in Nat /\ defaultPool'.coll \in Nat
    BY <1>5 DEF PoolSet
  <2> QED
    BY <1>1, <1>5, <1>6, <2>1, PoolFields
       DEF CollateralAccountedFor, PoolTypes
<1>9. PoolTypes'
  BY <1>1, <1>5, <1>6, PoolFields DEF PoolTypes, StabilityPoolSet
<1>10. TokenTypes' /\ RewardTypes'
  BY <1>1, <1>6 DEF withdrawCollGainToTrove, usddVars, snapshotVars,
                    rewardVars, TokenTypes, RewardTypes
<1> QED
  BY <1>5, <1>7, <1>8, <1>9, <1>10, TransactControl
     DEF LedgerInv, TypeOK, withdrawCollGainToTrove

\* closeTrove burns what the trove owes and gives back its collateral.
LEMMA CloseTroveStep ==
    ASSUME LedgerInv, UNCHANGED <<liqVars, redVars>>,
           NEW b \in Borrowers, NEW price \in Prices,
           closeTroveByOwner(b, price)
    PROVE  LedgerInv'
<1>1. /\ TroveTypes /\ RewardTypes /\ PoolTypes /\ TokenTypes
      /\ SupplyMatchesDebt /\ CollateralAccountedFor /\ SnapshotsCovered(b)
  BY DEF LedgerInv, TypeOK, closeTroveByOwner
<1>2. /\ appliedColl(b) \in Nat /\ appliedDebt(b) \in Nat
      /\ collApplied(b) \in Nat /\ debtApplied(b) \in Nat
  BY <1>1, AppliedTypes
<1>3. TroveTypes'
  BY <1>1, CloseTypes DEF closeTroveByOwner, StatusSet
<1>4. /\ Covers(defaultPool, appliedColl(b), appliedDebt(b))
      /\ debtApplied(b) >= USDD_GAS_COMPENSATION
      /\ balances[b] >= getNetDebt(debtApplied(b))
      /\ collApplied(b) <= activePool.coll + appliedColl(b)
      /\ debtApplied(b) <= activePool.debt + appliedDebt(b)
      /\ defaultPool' =
             PoolMinus(defaultPool, appliedColl(b), appliedDebt(b))
      /\ activePool' = [
             coll |-> activePool.coll + appliedColl(b) - collApplied(b),
             debt |-> activePool.debt + appliedDebt(b) - debtApplied(b)]
      /\ wethHeld' = wethHeld - collApplied(b)
      /\ USDD_GAS_COMPENSATION <= gasPoolUSDD
      /\ totalSupply' = totalSupply - debtApplied(b)
      /\ balances' = [balances EXCEPT ![b] = @ - getNetDebt(debtApplied(b))]
      /\ gasPoolUSDD' = gasPoolUSDD - USDD_GAS_COMPENSATION
      /\ UNCHANGED <<COLLS, surplusOf, stabilityPool, stakingColl,
                     stabilityPoolUSDD, stakingUSDD>>
  BY DEF closeTroveByOwner
<1>5. /\ activePool' \in PoolSet /\ defaultPool' \in PoolSet
      /\ activePool'.coll + defaultPool'.coll
             = activePool.coll + defaultPool.coll - collApplied(b)
      /\ activePool'.debt + defaultPool'.debt
             = activePool.debt + defaultPool.debt - debtApplied(b)
  BY <1>1, <1>2, <1>4, PoolFields DEF PoolSet, PoolMinus, Covers
<1>6. /\ activePool'.coll \in Nat /\ activePool'.debt \in Nat
      /\ defaultPool'.coll \in Nat /\ defaultPool'.debt \in Nat
  BY <1>5 DEF PoolSet
<1>7. SupplyMatchesDebt'
  BY <1>1, <1>2, <1>4, <1>5, <1>6, PoolFields
     DEF SupplyMatchesDebt, getEntireSystemDebt, TokenTypes
<1>8. CollateralAccountedFor'
  BY <1>1, <1>2, <1>4, <1>5, <1>6, PoolFields
     DEF CollateralAccountedFor, PoolTypes
<1>9. PoolTypes'
  <2>1. wethHeld' \in Nat
    BY <1>1, <1>4, <1>6, <1>8, PoolFields
       DEF CollateralAccountedFor, PoolTypes
  <2> QED BY <1>1, <1>4, <1>5, <2>1 DEF PoolTypes
<1>10. TokenTypes'
  <2>1. totalSupply' \in Nat
    BY <1>6, <1>7 DEF SupplyMatchesDebt, getEntireSystemDebt
  <2>2. USDD_GAS_COMPENSATION \in Nat
    BY MathAssumption
  <2>3. getNetDebt(debtApplied(b)) \in Nat
    BY <1>2, <1>4, <2>2 DEF getNetDebt
  <2>4. balances' \in [Users -> Nat]
    BY <1>1, <1>4, <2>3 DEF TokenTypes, Users
  <2>5. gasPoolUSDD' \in Nat
    BY <1>1, <1>4, <2>2 DEF TokenTypes
  <2> QED BY <1>1, <1>4, <2>1, <2>4, <2>5 DEF TokenTypes
<1>11. RewardTypes'
  BY <1>1 DEF closeTroveByOwner, snapshotVars, rewardVars, RewardTypes
<1> QED
  BY <1>3, <1>7, <1>8, <1>9, <1>10, <1>11, TransactControl
     DEF LedgerInv, TypeOK, closeTroveByOwner

\* claimCollateral pays a surplus out of CollSurplusPool.
LEMMA ClaimStep ==
    ASSUME LedgerInv, UNCHANGED <<liqVars, redVars>>, NEW b \in Borrowers,
           claimCollateral(b)
    PROVE  LedgerInv'
<1>1. /\ TroveTypes /\ RewardTypes /\ PoolTypes /\ TokenTypes
      /\ SupplyMatchesDebt /\ CollateralAccountedFor
  BY DEF LedgerInv, TypeOK
<1>2. /\ surplusOf[b] <= COLLS
      /\ surplusOf' = [surplusOf EXCEPT ![b] = 0]
      /\ COLLS' = COLLS - surplusOf[b]
      /\ wethHeld' = wethHeld - surplusOf[b]
      /\ UNCHANGED <<troveVars, snapshotVars, rewardVars, activePool,
                     defaultPool, stabilityPool, stakingColl, usddVars>>
  BY DEF claimCollateral
<1>3. CollateralAccountedFor' /\ COLLS' \in Nat
  BY <1>1, <1>2, PoolFields DEF CollateralAccountedFor, PoolTypes
<1>4. PoolTypes'
  <2>1. wethHeld' \in Nat
    BY <1>1, <1>2, <1>3, PoolFields DEF CollateralAccountedFor, PoolTypes
  <2> QED BY <1>1, <1>2, <1>3, <2>1 DEF PoolTypes
<1>5. TroveTypes' /\ RewardTypes' /\ TokenTypes' /\ SupplyMatchesDebt'
  BY <1>1, <1>2 DEF troveVars, snapshotVars, rewardVars, usddVars, TroveTypes,
     RewardTypes, TokenTypes, SupplyMatchesDebt, getEntireSystemDebt
<1> QED
  BY <1>3, <1>4, <1>5, TransactControl DEF LedgerInv, TypeOK, claimCollateral

\* A deposit or withdrawal moves USDD between a user and the pool, and may
\* pay out collateral the pool has gained.
LEMMA DepositorStepInv ==
    ASSUME LedgerInv, UNCHANGED <<liqVars, redVars>>,
           NEW u \in Users, NEW price \in Prices, DepositorStep(u, price)
    PROVE  LedgerInv'
<1> PICK a \in DepositAmounts, gain \in collGains :
        provideToSP(u, a, gain) \/ withdrawFromSP(u, a, gain, price)
  BY DEF DepositorStep
<1>1. /\ TroveTypes /\ RewardTypes /\ PoolTypes /\ TokenTypes
      /\ SupplyMatchesDebt /\ CollateralAccountedFor
  BY DEF LedgerInv, TypeOK
<1>2. a \in Nat
  BY BorrowerAssumption
<1>3. gain \in Nat /\ gain <= stabilityPool.coll
  BY <1>1, PoolFields DEF collGains
<1>4. /\ UNCHANGED <<troveVars, snapshotVars, rewardVars, activePool,
                     defaultPool, COLLS, surplusOf, stakingColl, totalSupply,
                     gasPoolUSDD, stakingUSDD>>
      /\ stabilityPool'.coll = stabilityPool.coll - gain
      /\ wethHeld' = wethHeld - gain
      /\ Transact
  BY DEF provideToSP, withdrawFromSP
<1>5. /\ stabilityPool' \in StabilityPoolSet
      /\ stabilityPoolUSDD' \in Nat
      /\ balances' \in [Users -> Nat]
  <2>1. CASE provideToSP(u, a, gain)
    BY <1>1, <1>2, <1>3, <2>1, PoolFields
       DEF provideToSP, StabilityPoolSet, TokenTypes
  <2>2. CASE withdrawFromSP(u, a, gain, price)
    <3> DEFINE withdrawn == min(a, stabilityPool.deposits)
    <3>1. withdrawn \in Nat /\ withdrawn <= stabilityPool.deposits
      BY <1>1, <1>2, PoolFields DEF min
    <3>2. /\ withdrawn <= stabilityPoolUSDD
          /\ stabilityPoolUSDD' = stabilityPoolUSDD - withdrawn
          /\ balances' = [balances EXCEPT ![u] = @ + withdrawn]
          /\ stabilityPool' =
                 [deposits |-> stabilityPool.deposits - withdrawn,
                  coll |-> stabilityPool.coll - gain]
      BY <2>2 DEF withdrawFromSP
    <3> HIDE DEF withdrawn
    <3> QED
      BY <1>1, <1>3, <3>1, <3>2, PoolFields DEF StabilityPoolSet, TokenTypes
  <2> QED BY <2>1, <2>2
<1>6. CollateralAccountedFor'
  BY <1>1, <1>3, <1>4, PoolFields DEF CollateralAccountedFor, PoolTypes
<1>7. PoolTypes'
  <2>1. stabilityPool'.coll \in Nat
    BY <1>5 DEF StabilityPoolSet
  <2>2. wethHeld' \in Nat
    BY <1>1, <1>4, <1>6, <2>1, PoolFields
       DEF CollateralAccountedFor, PoolTypes
  <2> QED BY <1>1, <1>4, <1>5, <2>2 DEF PoolTypes
<1>8. TroveTypes' /\ RewardTypes' /\ TokenTypes' /\ SupplyMatchesDebt'
  BY <1>1, <1>4, <1>5 DEF troveVars, snapshotVars, rewardVars, TroveTypes,
     RewardTypes, TokenTypes, SupplyMatchesDebt, getEntireSystemDebt
<1> QED
  BY <1>4, <1>6, <1>7, <1>8, TransactControl DEF LedgerInv, TypeOK

\* A transfer between users changes neither ledger.
LEMMA TransferStep ==
    ASSUME LedgerInv, UNCHANGED <<liqVars, redVars>>,
           NEW u \in Users, NEW v \in Users, NEW a \in TransferAmounts,
           transferUSDD(u, v, a)
    PROVE  LedgerInv'
<1>1. /\ TroveTypes /\ RewardTypes /\ PoolTypes /\ TokenTypes
      /\ SupplyMatchesDebt /\ CollateralAccountedFor
  BY DEF LedgerInv, TypeOK
<1>2. a \in Nat
  BY BorrowerAssumption
<1>3. balances' \in [Users -> Nat]
  BY <1>1, <1>2 DEF transferUSDD, TokenTypes
<1>4. UNCHANGED <<troveVars, snapshotVars, rewardVars, poolVars, totalSupply,
                  gasPoolUSDD, stabilityPoolUSDD, stakingUSDD>>
  BY DEF transferUSDD
<1>5. /\ TroveTypes' /\ RewardTypes' /\ PoolTypes' /\ TokenTypes'
      /\ SupplyMatchesDebt' /\ CollateralAccountedFor'
  BY <1>1, <1>3, <1>4 DEF troveVars, snapshotVars, rewardVars, poolVars,
     TroveTypes, RewardTypes, PoolTypes, TokenTypes, SupplyMatchesDebt,
     getEntireSystemDebt, CollateralAccountedFor
<1> QED
  BY <1>5, TransactControl DEF LedgerInv, TypeOK, transferUSDD

-----------------------------------------------------------------------------
(* Transactions with a loop: begin and revert *)

\* The storage is saved as it is, so it can be restored.
LEMMA BeginTxFacts ==
    ASSUME LedgerInv, NEW loop \in {"liquidating", "redeeming"},
           BeginTx(loop),
           UNCHANGED <<troveVars, snapshotVars, rewardVars, poolVars,
                       usddVars>>
    PROVE  /\ TroveTypes' /\ RewardTypes' /\ PoolTypes' /\ TokenTypes'
           /\ SupplyMatchesDebt' /\ CollateralAccountedFor'
           /\ ControlTypes' /\ SavedBalanced'
<1>1. /\ TroveTypes /\ RewardTypes /\ PoolTypes /\ TokenTypes
      /\ ControlTypes /\ SupplyMatchesDebt /\ CollateralAccountedFor
  BY DEF LedgerInv, TypeOK
<1>2. /\ TroveTypes' /\ RewardTypes' /\ PoolTypes' /\ TokenTypes'
      /\ SupplyMatchesDebt' /\ CollateralAccountedFor'
  BY <1>1 DEF troveVars, snapshotVars, rewardVars, poolVars, usddVars,
     TroveTypes, RewardTypes, PoolTypes, TokenTypes, SupplyMatchesDebt,
     getEntireSystemDebt, CollateralAccountedFor
<1>3. Storage \in SavedSet
  BY <1>1 DEF Storage, SavedSet, TroveTypes, RewardTypes, PoolTypes,
     TokenTypes
<1>4. ControlTypes'
  BY <1>1, <1>3 DEF BeginTx, ControlTypes
<1>5. /\ Storage.totalSupply = totalSupply
      /\ Storage.activePool = activePool
      /\ Storage.defaultPool = defaultPool
      /\ Storage.COLLS = COLLS
      /\ Storage.stabilityPool = stabilityPool
      /\ Storage.stakingColl = stakingColl
      /\ Storage.wethHeld = wethHeld
  BY DEF Storage
<1>6. SavedBalanced'
  <2>1. saved' = Storage
    BY DEF BeginTx
  <2> QED
    BY <1>1, <1>5, <2>1 DEF SavedBalanced, SupplyMatchesDebt,
       getEntireSystemDebt, CollateralAccountedFor
<1> QED BY <1>2, <1>4, <1>6

\* A revert restores storage of the right types and balanced.
LEMMA RevertTxFacts ==
    ASSUME LedgerInv, pc # "idle", RevertTx, panicked' \in BOOLEAN
    PROVE  /\ TroveTypes' /\ RewardTypes' /\ PoolTypes' /\ TokenTypes'
           /\ SupplyMatchesDebt' /\ CollateralAccountedFor'
           /\ ControlTypes' /\ SavedBalanced'
<1>1. saved \in SavedSet /\ txCount \in Nat /\ SavedBalanced
  BY DEF LedgerInv, TypeOK, ControlTypes
<1>2. TroveTypes' /\ RewardTypes'
  BY <1>1 DEF RevertTx, SavedSet, TroveTypes, RewardTypes
<1>3. PoolTypes' /\ TokenTypes'
  BY <1>1 DEF RevertTx, SavedSet, PoolTypes, TokenTypes
<1>4. SupplyMatchesDebt' /\ CollateralAccountedFor'
  BY <1>1 DEF RevertTx, SavedBalanced, SupplyMatchesDebt,
     getEntireSystemDebt, CollateralAccountedFor
<1>5. ControlTypes' /\ SavedBalanced'
  BY <1>1 DEF RevertTx, ControlTypes, SavedBalanced
<1> QED BY <1>2, <1>3, <1>4, <1>5

\* A step inside a loop leaves what is saved alone.
LEMMA LoopControl ==
    ASSUME LedgerInv, UNCHANGED controlVars
    PROVE  ControlTypes' /\ SavedBalanced' /\ pc' = pc
  BY DEF LedgerInv, TypeOK, ControlTypes, SavedBalanced, controlVars

-----------------------------------------------------------------------------
(* Liquidation *)

\* SortedTroves.getFirst and getLast answer a borrower or address(0).
LEMMA FirstLastType ==
    ASSUME sortedTroves \in Seq(Borrowers)
    PROVE  /\ getFirst \in Borrowers \cup {NoOne}
           /\ getLast \in Borrowers \cup {NoOne}
<1>1. CASE sortedTroves = <<>>
  BY <1>1 DEF getFirst, getLast
<1>2. CASE sortedTroves # <<>>
  <2>1. Len(sortedTroves) \in 1..Len(sortedTroves) /\ 1 \in 1..Len(sortedTroves)
    BY <1>2
  <2>2. sortedTroves[Len(sortedTroves)] \in Borrowers /\ Head(sortedTroves) \in Borrowers
    BY <1>2, <2>1
  <2> QED BY <1>2, <2>2 DEF getFirst, getLast, Last
<1> QED BY <1>1, <1>2

\* A liquidation begins: the storage is saved, the totals are zero.
LEMMA BeginLiquidationStep ==
    ASSUME LedgerInv, UNCHANGED redVars, NEW k \in Keepers,
           NEW price \in Prices, NEW loop \in {"sequence", "batch"},
           NEW n \in Nat, NEW todo \in Seq(Borrowers),
           beginLiquidation(loop, k, price, n, todo)
    PROVE  LedgerInv'
<1>1. BeginTx("liquidating")
      /\ UNCHANGED <<troveVars, snapshotVars, rewardVars, poolVars, usddVars>>
  BY DEF beginLiquidation
<1>2. TroveTypes /\ PoolTypes /\ LoopTypes
  BY DEF LedgerInv, TypeOK
<1>3. price \in Nat /\ k \in Users /\ k # NoOne
  BY StateAssumption DEF Users
<1>4. checkRecoveryMode(price) \in BOOLEAN
  BY DEF checkRecoveryMode
<1>5. liqArgs' \in LiqArgsSet
  BY <1>2, <1>3, <1>4, FirstLastType
     DEF beginLiquidation, LiqArgsSet, TroveTypes
<1>6. cursor' \in CursorSet
  BY <1>2, FirstLastType DEF beginLiquidation, CursorSet, TroveTypes
<1>7. running' \in RunningSet
  BY <1>2, PoolFields DEF beginLiquidation, RunningSet, getEntireSystemDebt,
     getEntireSystemColl
<1>8. totals' \in ValuesSet
  BY DEF beginLiquidation, zeroVals, Values, ValuesSet
<1>9. /\ liqArgs'.price = price /\ liqArgs'.liquidator = k
      /\ pc' = "liquidating"
  BY DEF beginLiquidation, BeginTx
<1>10. LoopTypes'
  BY <1>2, <1>3, <1>5, <1>6, <1>7, <1>8, <1>9 DEF LoopTypes, redVars
<1> QED
  BY <1>1, <1>10, BeginTxFacts DEF LedgerInv, TypeOK

\* The trove an iteration looks at is a borrower's.
LEMMA CurrentUserType ==
    ASSUME LedgerInv, ~LoopOver
    PROVE  /\ currentUser \in Borrowers
           /\ liqArgs.loop = "batch" => cursor.todo # <<>>
           /\ liqArgs.loop # "batch" => cursor.n > 0
<1>1. /\ sortedTroves \in Seq(Borrowers) /\ cursor.user \in Borrowers \cup {NoOne}
      /\ cursor.todo \in Seq(Borrowers) /\ cursor.n \in Nat
  BY DEF LedgerInv, TypeOK, TroveTypes, LoopTypes, CursorSet
<1>2. CASE liqArgs.loop = "batch"
  <2>1. cursor.todo # <<>>
    BY <1>2 DEF LoopOver
  <2> QED BY <1>1, <1>2, <2>1 DEF currentUser
<1>3. CASE liqArgs.loop # "batch"
  <2>1. currentUser # NoOne /\ cursor.n # 0
    BY <1>3 DEF LoopOver
  <2>2. currentUser = cursor.user \/ currentUser = getLast
    BY <1>3 DEF currentUser
  <2> QED BY <1>1, <1>3, <2>1, <2>2, FirstLastType
<1> QED BY <1>2, <1>3

\* The loop moves on to a borrower, or to address(0).
LEMMA CursorAfterType ==
    ASSUME LedgerInv, ~LoopOver
    PROVE  cursorAfter \in CursorSet
<1>1. /\ sortedTroves \in Seq(Borrowers)
      /\ cursor.todo \in Seq(Borrowers) /\ cursor.n \in Nat
  BY DEF LedgerInv, TypeOK, TroveTypes, LoopTypes, CursorSet
<1>2. (IF liqArgs.loop = "batch" THEN 0 ELSE cursor.n - 1) \in Nat
  BY <1>1, CurrentUserType
<1>3. (IF liqArgs.loop = "batch" THEN Tail(cursor.todo) ELSE <<>>)
          \in Seq(Borrowers)
  BY <1>1, CurrentUserType
<1>4. getPrev(cursor.user) \in Borrowers \cup {NoOne}
  BY <1>1, PrevType
<1> QED
  BY <1>2, <1>3, <1>4 DEF cursorAfter, CursorSet

\* Skipping a trove changes no storage.
LEMMA SkipTroveStep ==
    ASSUME LedgerInv, UNCHANGED redVars, skipTrove
    PROVE  LedgerInv'
<1>1. /\ TroveTypes /\ RewardTypes /\ PoolTypes /\ TokenTypes /\ LoopTypes
      /\ SupplyMatchesDebt /\ CollateralAccountedFor
  BY DEF LedgerInv, TypeOK
<1>2. UNCHANGED <<liqArgs, totals, controlVars, troveVars, snapshotVars,
                  rewardVars, poolVars, usddVars>>
  BY DEF skipTrove
<1>3. /\ TroveTypes' /\ RewardTypes' /\ PoolTypes' /\ TokenTypes'
      /\ SupplyMatchesDebt' /\ CollateralAccountedFor'
  BY <1>1, <1>2 DEF troveVars, snapshotVars, rewardVars, poolVars, usddVars,
     TroveTypes, RewardTypes, PoolTypes, TokenTypes, SupplyMatchesDebt,
     getEntireSystemDebt, CollateralAccountedFor
<1>4. cursor' \in CursorSet
  BY CursorAfterType DEF skipTrove
<1>5. running' \in RunningSet
  <2>1. /\ running.inPool \in Nat /\ running.sysDebt \in Nat
        /\ running.sysColl \in Nat /\ running.backToNormalMode \in BOOLEAN
    BY <1>1 DEF LoopTypes, RunningSet
  <2>2. /\ zeroVals.debtToOffset = 0 /\ zeroVals.collToSendToSP = 0
        /\ zeroVals.collSurplus = 0
    BY DEF zeroVals, Values
  <2>3. running' = runningAfter(zeroVals)
    BY DEF skipTrove
  <2> HIDE DEF zeroVals
  <2> QED BY <2>1, <2>2, <2>3 DEF runningAfter, inPoolAfter, RunningSet
<1>6. LoopTypes'
  BY <1>1, <1>2, <1>4, <1>5 DEF LoopTypes, redVars, controlVars
<1> QED
  BY <1>2, <1>3, <1>6, LoopControl DEF LedgerInv, TypeOK

\* A quotient of an integer by a positive number is an integer.
LEMMA DivInt ==
    ASSUME NEW x \in Int, NEW y \in Nat, y > 0
    PROVE  x \div y \in Int
  OBVIOUS

\* What a liquidated trove held and owed goes to one place or another, and
\* no collateral is redistributed without debt.
Splits(v) ==
    /\ v.coll = v.gasColl + v.collToSendToSP + v.collToRedistribute
                    + v.collSurplus
    /\ v.debt = v.debtToOffset + v.debtToRedistribute
    /\ v.debtToRedistribute = 0 => v.collToRedistribute = 0

\* A full offset takes all collateral but the gas compensation.
LEMMA WholeShare ==
    ASSUME NEW x \in Int, NEW d \in Nat, d > 0
    PROVE  (x * d) \div d = x
  OBVIOUS

\* The values by which an iteration closes a trove are natural numbers and
\* stand for all the trove holds and owes.
LEMMA StepValsType ==
    ASSUME LedgerInv, pc = "liquidating", ~LoopOver,
           NEW v, v = stepVals(currentUser), v # zeroVals,
           StepChecks(currentUser, v)
    PROVE  /\ v \in ValuesSet
           /\ v.coll = entireColl(currentUser)
           /\ v.debt = entireDebt(currentUser)
           /\ v.gasUSDD = USDD_GAS_COMPENSATION
           /\ Splits(v)
           /\ Active(currentUser)
<1> DEFINE b == currentUser
           debt == entireDebt(b)
           coll == entireColl(b)
<1>1. /\ TroveTypes /\ RewardTypes /\ LoopTypes /\ b \in Borrowers
      /\ SnapshotsCovered(b)
  BY CurrentUserType DEF LedgerInv, TypeOK, StepChecks
<1>2. debt \in Nat /\ coll \in Nat
  <2>1. Troves[b] \in TroveSet
    BY <1>1 DEF TroveTypes
  <2> QED BY <1>1, <2>1, PendingTypes DEF entireDebt, entireColl, TroveSet
<1>3. running.inPool \in Nat
  BY <1>1 DEF LoopTypes, RunningSet
<1>4. ASSUME NEW inPool \in Nat, v = offsetAndRedistributionVals(b, inPool)
      PROVE  /\ v \in ValuesSet /\ v.coll = coll /\ v.debt = debt
             /\ v.gasUSDD = USDD_GAS_COMPENSATION /\ Splits(v)
  <2> DEFINE gasColl == getCollGasCompensation(coll)
             offset == min(debt, inPool)
             toSP == ((coll - gasColl) * offset) \div debt
  <2>1. v = Values(debt, coll, gasColl, USDD_GAS_COMPENSATION, offset, toSP, 0)
    BY <1>4 DEF offsetAndRedistributionVals
  <2>2. gasColl \in Nat
    BY <1>2, DivNat, MathAssumption DEF getCollGasCompensation
  <2>3. offset \in Nat /\ offset <= debt
    BY <1>2, <1>4 DEF min
  <2> HIDE DEF gasColl, offset, debt, coll
  <2>4. /\ v.debt = debt /\ v.coll = coll /\ v.gasColl = gasColl
        /\ v.collToSendToSP = toSP /\ v.collSurplus = 0
    BY <2>1 DEF Values
  <2>5. /\ debt > 0 /\ toSP >= 0 /\ coll >= gasColl + toSP + 0
    BY <2>4 DEF StepChecks
  <2>6. toSP \in Int
    <3>1. (coll - gasColl) * offset \in Int
      BY <1>2, <2>2, <2>3
    <3> QED BY <1>2, <2>5, <3>1, DivInt
  <2>9. offset = debt => toSP = coll - gasColl
    <3>1. coll - gasColl \in Int
      BY <1>2, <2>2
    <3> QED BY <1>2, <2>5, <3>1, WholeShare
  <2> HIDE DEF toSP
  <2>7. USDD_GAS_COMPENSATION \in Nat /\ debt - offset \in Nat
        /\ coll - gasColl - toSP - 0 \in Nat
    BY <1>2, <2>2, <2>3, <2>5, <2>6, MathAssumption
  <2>8. v \in ValuesSet
    BY <1>2, <2>1, <2>2, <2>3, <2>5, <2>6, <2>7 DEF Values, ValuesSet
  <2>10. v.gasUSDD = USDD_GAS_COMPENSATION /\ Splits(v)
    BY <1>2, <2>1, <2>2, <2>3, <2>6, <2>9 DEF Values, Splits
  <2> QED BY <2>4, <2>8, <2>10
<1>5. ASSUME v = cappedOffsetVals(b, liqArgs.price)
      PROVE  /\ v \in ValuesSet /\ v.coll = coll /\ v.debt = debt
             /\ v.gasUSDD = USDD_GAS_COMPENSATION /\ Splits(v)
  <2> DEFINE capped == (debt * MCR) \div liqArgs.price
             gasColl == getCollGasCompensation(capped)
  <2>1. v = Values(debt, coll, gasColl, USDD_GAS_COMPENSATION, debt,
                   capped - gasColl, coll - capped)
    BY <1>5 DEF cappedOffsetVals
  <2>2. capped \in Nat
    <3>1. liqArgs.price \in Nat /\ liqArgs.price > 0
      <4>1. liqArgs.price \in Prices
        BY <1>1 DEF LoopTypes
      <4> QED BY <4>1, PriceType
    <3>2. debt * MCR \in Nat
      BY <1>2, MathAssumption
    <3> QED BY <3>1, <3>2, DivNat
  <2> HIDE DEF capped, debt, coll
  <2>3. gasColl \in Nat
    BY <2>2, DivNat, MathAssumption DEF getCollGasCompensation
  <2> HIDE DEF gasColl
  <2>4. /\ v.debt = debt /\ v.coll = coll /\ v.gasColl = gasColl
        /\ v.collToSendToSP = capped - gasColl
        /\ v.collSurplus = coll - capped
    BY <2>1 DEF Values
  <2>5. /\ capped - gasColl >= 0 /\ coll - capped >= 0
        /\ coll >= gasColl + (capped - gasColl) + (coll - capped)
    BY <2>4 DEF StepChecks
  <2>6. /\ USDD_GAS_COMPENSATION \in Nat /\ debt - debt \in Nat
        /\ capped - gasColl \in Nat /\ coll - capped \in Nat
        /\ coll - gasColl - (capped - gasColl) - (coll - capped) \in Nat
    BY <1>2, <2>2, <2>3, <2>5, MathAssumption
  <2>7. v \in ValuesSet
    BY <1>2, <2>1, <2>3, <2>6 DEF Values, ValuesSet
  <2>8. v.gasUSDD = USDD_GAS_COMPENSATION /\ Splits(v)
    BY <1>2, <2>1, <2>2, <2>3 DEF Values, Splits
  <2> QED BY <2>4, <2>7, <2>8
<1>6. \/ v = offsetAndRedistributionVals(b, 0)
      \/ v = offsetAndRedistributionVals(b, running.inPool)
      \/ v = cappedOffsetVals(b, liqArgs.price)
  <2> HIDE DEF b
  <2> DEFINE ICR == getCurrentICR(b, liqArgs.price)
             TCR == computeCR(running.sysColl, running.sysDebt, liqArgs.price)
  <2>1. v = IF ~Active(b) \/ hopeless(b) THEN zeroVals
            ELSE IF InRecoveryPhase
                 THEN recoveryVals(b, ICR, running.inPool, TCR, liqArgs.price)
                 ELSE offsetAndRedistributionVals(b, running.inPool)
    BY DEF stepVals, b
  <2> HIDE DEF ICR, TCR
  <2>2. CASE v = recoveryVals(b, ICR, running.inPool, TCR, liqArgs.price)
    BY <2>2 DEF recoveryVals
  <2> QED BY <2>1, <2>2
<1>7. Active(b)
  <2> HIDE DEF b
  <2> QED BY DEF stepVals, b
<1> QED BY <1>3, <1>4, <1>5, <1>6, <1>7

\* What the loop tracks and totals has its type after a liquidated trove.
LEMMA LoopValuesType ==
    ASSUME LoopTypes, NEW v \in ValuesSet, NEW b, StepChecks(b, v)
    PROVE  runningAfter(v) \in RunningSet /\ addToTotals(totals, v) \in ValuesSet
<1>1. /\ running.inPool \in Nat /\ running.sysDebt \in Nat
      /\ running.sysColl \in Nat /\ running.backToNormalMode \in BOOLEAN
  BY DEF LoopTypes, RunningSet
<1>2. /\ v.debtToOffset \in Nat /\ v.collToSendToSP \in Nat
      /\ v.collSurplus \in Nat
  BY DEF ValuesSet
<1>3. /\ v.debtToOffset <= running.inPool
      /\ InRecoveryPhase =>
             /\ v.debtToOffset <= running.sysDebt
             /\ v.collToSendToSP + v.collSurplus <= running.sysColl
  BY DEF StepChecks
<1>4. runningAfter(v) \in RunningSet
  <2> DEFINE sysColl == running.sysColl - v.collToSendToSP
                 - (IF liqArgs.loop = "sequence" THEN v.collSurplus ELSE 0)
             sysDebt == running.sysDebt - v.debtToOffset
             back == computeCR(sysColl, sysDebt, liqArgs.price) >= CCR
  <2>1. running.inPool - v.debtToOffset \in Nat /\ back \in BOOLEAN
    BY <1>1, <1>2, <1>3
  <2>2. InRecoveryPhase => sysColl \in Nat /\ sysDebt \in Nat
    BY <1>1, <1>2, <1>3
  <2>3. runningAfter(v) =
            IF InRecoveryPhase
            THEN [inPool |-> running.inPool - v.debtToOffset,
                  sysDebt |-> sysDebt, sysColl |-> sysColl,
                  backToNormalMode |-> back]
            ELSE [inPool |-> running.inPool - v.debtToOffset,
                  sysDebt |-> running.sysDebt, sysColl |-> running.sysColl,
                  backToNormalMode |-> running.backToNormalMode]
    BY DEF runningAfter, inPoolAfter
  <2> HIDE DEF sysColl, sysDebt, back
  <2> QED BY <1>1, <2>1, <2>2, <2>3 DEF RunningSet
<1>5. addToTotals(totals, v) \in ValuesSet
  BY DEF LoopTypes, ValuesSet, addToTotals
<1> QED BY <1>4, <1>5

\* Closing a trove only moves its pending rewards to the active pool: what
\* it held and owed waits there for the end of the transaction.
LEMMA LiquidateTroveStep ==
    ASSUME LedgerInv, UNCHANGED redVars, liquidateTrove
    PROVE  LedgerInv'
<1> DEFINE b == currentUser
           v == stepVals(b)
           pc1 == getPendingCollReward(b)
           pd1 == getPendingUSDDDebtReward(b)
<1>1. /\ TroveTypes /\ RewardTypes /\ PoolTypes /\ TokenTypes /\ LoopTypes
      /\ SupplyMatchesDebt /\ CollateralAccountedFor
  BY DEF LedgerInv, TypeOK
<1>2. /\ pc = "liquidating" /\ ~LoopOver /\ v # zeroVals /\ StepChecks(b, v)
      /\ closeTrove(b, "closedByLiquidation")
      /\ defaultPool' = PoolMinus(defaultPool, pc1, pd1)
      /\ activePool' = PoolPlus(activePool, pc1, pd1)
      /\ surplusOf' = [surplusOf EXCEPT ![b] = @ + v.collSurplus]
      /\ running' = runningAfter(v)
      /\ totals' = addToTotals(totals, v)
      /\ cursor' = cursorAfter
      /\ UNCHANGED <<liqArgs, controlVars, snapshotVars, rewardVars, COLLS,
                     stabilityPool, stakingColl, wethHeld, usddVars>>
  BY DEF liquidateTrove
<1>3. b \in Borrowers
  BY <1>2, CurrentUserType
<1>4. v \in ValuesSet
  BY <1>2, StepValsType
<1>5. pc1 \in Nat /\ pd1 \in Nat /\ Covers(defaultPool, pc1, pd1)
  BY <1>1, <1>2, <1>3, PendingTypes DEF StepChecks
<1> HIDE DEF pc1, pd1, b, v
<1>6. TroveTypes'
  BY <1>1, <1>2, <1>3, CloseTypes DEF StatusSet
<1>7. RewardTypes' /\ TokenTypes'
  BY <1>1, <1>2 DEF snapshotVars, rewardVars, usddVars, RewardTypes, TokenTypes
<1>8. /\ activePool' \in PoolSet /\ defaultPool' \in PoolSet
      /\ activePool'.coll + defaultPool'.coll
             = activePool.coll + defaultPool.coll
      /\ activePool'.debt + defaultPool'.debt
             = activePool.debt + defaultPool.debt
  BY <1>1, <1>2, <1>5, PoolFields DEF PoolPlus, PoolMinus, Covers, PoolSet
<1>9. PoolTypes'
  <2>1. v.collSurplus \in Nat
    BY <1>4 DEF ValuesSet
  <2> QED BY <1>1, <1>2, <1>3, <1>8, <2>1 DEF PoolTypes
<1>10. SupplyMatchesDebt' /\ CollateralAccountedFor'
  <2>1. /\ activePool'.coll \in Nat /\ defaultPool'.coll \in Nat
        /\ activePool'.debt \in Nat /\ defaultPool'.debt \in Nat
    BY <1>8 DEF PoolSet
  <2> QED
    BY <1>1, <1>2, <1>8, <2>1, PoolFields DEF SupplyMatchesDebt,
       CollateralAccountedFor, getEntireSystemDebt, usddVars, PoolTypes
<1>11. LoopTypes'
  <2>1. running' \in RunningSet /\ totals' \in ValuesSet
    BY <1>1, <1>2, <1>4, LoopValuesType
  <2>2. cursor' \in CursorSet
    BY <1>2, CursorAfterType
  <2> QED BY <1>1, <1>2, <2>1, <2>2 DEF LoopTypes, redVars, controlVars
<1> QED
  BY <1>2, <1>6, <1>7, <1>9, <1>10, <1>11, LoopControl DEF LedgerInv, TypeOK

\* A transaction that has ended leaves the loop's locals at zero.
LEMMA NoLiquidationTypes ==
    ASSUME LoopTypes, UNCHANGED redVars, noLiquidation, pc' = "idle"
    PROVE  LoopTypes'
<1>1. liqArgs' \in LiqArgsSet /\ cursor' \in CursorSet
  BY DEF noLiquidation, LiqArgsSet, CursorSet
<1>2. running' \in RunningSet /\ totals' \in ValuesSet
  BY DEF noLiquidation, RunningSet, zeroVals, Values, ValuesSet
<1> QED BY <1>1, <1>2 DEF LoopTypes, redVars

\* The sums and errors of _redistributeDebtAndColl are natural numbers.
LEMMA RedistributedTypes ==
    ASSUME RewardTypes, TroveTypes, LoopTypes, redistributed, FinishChecks
    PROVE  /\ L_COLL' \in Nat /\ L_USDDDebt' \in Nat
           /\ lastETHError' \in Nat /\ lastUSDDDebtError' \in Nat
<1> DEFINE numC == totals.collToRedistribute * DECIMAL_PRECISION + lastETHError
           numD == totals.debtToRedistribute * DECIMAL_PRECISION
                       + lastUSDDDebtError
<1>1. /\ totals.collToRedistribute \in Nat /\ totals.debtToRedistribute \in Nat
  BY DEF LoopTypes, ValuesSet
<1>2. numC \in Nat /\ numD \in Nat
  <2>1. /\ totals.collToRedistribute * DECIMAL_PRECISION \in Nat
        /\ totals.debtToRedistribute * DECIMAL_PRECISION \in Nat
    BY <1>1, MathAssumption
  <2> QED BY <2>1 DEF RewardTypes
<1>3. CASE totals.debtToRedistribute = 0
  BY <1>3 DEF redistributed, rewardVars, RewardTypes
<1>4. CASE totals.debtToRedistribute # 0
  <2>1. totalStakes \in Nat /\ totalStakes > 0
    BY <1>4 DEF FinishChecks, TroveTypes
  <2>2. /\ L_COLL' = L_COLL + (numC \div totalStakes)
        /\ L_USDDDebt' = L_USDDDebt + (numD \div totalStakes)
        /\ lastETHError' = numC - (numC \div totalStakes) * totalStakes
        /\ lastUSDDDebtError' = numD - (numD \div totalStakes) * totalStakes
    BY <1>4 DEF redistributed
  <2> HIDE DEF numC, numD
  <2>3. numC \div totalStakes \in Nat /\ numD \div totalStakes \in Nat
    BY <1>2, <2>1, DivNat
  <2>4. lastETHError' \in Nat /\ lastUSDDDebtError' \in Nat
    BY <1>2, <2>1, <2>2, RemainderNat
  <2> QED BY <2>2, <2>3, <2>4 DEF RewardTypes
<1> QED BY <1>3, <1>4

\* The end of a liquidation burns the debt it offsets, moves the debt it
\* redistributes, and sends out only the gas compensation.
LEMMA FinishLiquidationStep ==
    ASSUME LedgerInv, UNCHANGED redVars, finishLiquidation
    PROVE  LedgerInv'
<1> DEFINE t == totals
           k == liqArgs.liquidator
           out == t.collToSendToSP + collToMove + t.collSurplus + t.gasColl
           gone == t.debtToOffset + t.debtToRedistribute
<1>1. /\ TroveTypes /\ RewardTypes /\ PoolTypes /\ TokenTypes /\ LoopTypes
      /\ ControlTypes /\ SupplyMatchesDebt /\ CollateralAccountedFor
  BY DEF LedgerInv, TypeOK
<1>2. /\ t.debt \in Nat /\ t.gasColl \in Nat /\ t.gasUSDD \in Nat
      /\ t.debtToOffset \in Nat /\ t.collToSendToSP \in Nat
      /\ t.debtToRedistribute \in Nat /\ t.collToRedistribute \in Nat
      /\ t.collSurplus \in Nat
  BY <1>1 DEF LoopTypes, ValuesSet
<1>3. collToMove \in Nat
  BY <1>2 DEF collToMove
<1>4. /\ pc = "liquidating" /\ FinishChecks /\ redistributed
      /\ activePool' = PoolMinus(activePool, out, gone)
      /\ defaultPool' = PoolPlus(defaultPool, collToMove, t.debtToRedistribute)
      /\ stabilityPool' = [deposits |-> stabilityPool.deposits - t.debtToOffset,
                           coll |-> stabilityPool.coll + t.collToSendToSP]
      /\ stabilityPoolUSDD' = stabilityPoolUSDD - t.debtToOffset
      /\ totalSupply' = totalSupply - t.debtToOffset
      /\ COLLS' = COLLS + t.collSurplus
      /\ totalStakesSnapshot' = totalStakes
      /\ totalCollateralSnapshot' = getEntireSystemColl - t.collToSendToSP
             - t.collSurplus - t.gasColl
      /\ gasPoolUSDD' = gasPoolUSDD - t.gasUSDD
      /\ balances' = [balances EXCEPT ![k] = @ + t.gasUSDD]
      /\ wethHeld' = wethHeld - t.gasColl
      /\ noLiquidation /\ CommitTx
      /\ UNCHANGED <<troveVars, surplusOf, stakingColl, stakingUSDD>>
  BY DEF finishLiquidation, updateSystemSnapshots
<1>5. /\ out <= activePool.coll /\ gone <= activePool.debt
      /\ t.debtToOffset <= stabilityPool.deposits
      /\ t.debtToOffset <= stabilityPoolUSDD
      /\ t.gasUSDD <= gasPoolUSDD
  BY <1>4 DEF FinishChecks, Covers
<1>6. k \in Users
  BY <1>1, <1>4 DEF LoopTypes, LiqArgsSet
<1> HIDE DEF t, k
<1>7. TroveTypes'
  BY <1>1, <1>4 DEF troveVars, TroveTypes
<1>8. RewardTypes'
  <2>1. /\ L_COLL' \in Nat /\ L_USDDDebt' \in Nat
        /\ lastETHError' \in Nat /\ lastUSDDDebtError' \in Nat
    BY <1>1, <1>4, RedistributedTypes
  <2>2. totalStakesSnapshot' \in Nat
    BY <1>1, <1>4 DEF TroveTypes
  <2>3. totalCollateralSnapshot' \in Nat
    BY <1>1, <1>2, <1>3, <1>4, <1>5, PoolFields DEF getEntireSystemColl
  <2> QED BY <2>1, <2>2, <2>3 DEF RewardTypes
<1>9. /\ activePool'.coll = activePool.coll - out
      /\ activePool'.debt = activePool.debt - gone
      /\ defaultPool'.coll = defaultPool.coll + collToMove
      /\ defaultPool'.debt = defaultPool.debt + t.debtToRedistribute
      /\ stabilityPool'.coll = stabilityPool.coll + t.collToSendToSP
  BY <1>4 DEF PoolPlus, PoolMinus
<1>10. /\ activePool' \in PoolSet /\ defaultPool' \in PoolSet
       /\ stabilityPool' \in StabilityPoolSet
  BY <1>1, <1>2, <1>3, <1>4, <1>5, PoolFields
     DEF PoolPlus, PoolMinus, PoolSet, StabilityPoolSet
<1>11. CollateralAccountedFor' /\ wethHeld' \in Nat
  <2>1. CollateralAccountedFor'
    BY <1>1, <1>2, <1>3, <1>4, <1>9, PoolFields
       DEF CollateralAccountedFor, PoolTypes
  <2>2. wethHeld' \in Nat
    BY <1>1, <1>2, <1>3, <1>4, <1>5, PoolFields
       DEF CollateralAccountedFor, PoolTypes
  <2> QED BY <2>1, <2>2
<1>12. PoolTypes'
  BY <1>1, <1>2, <1>4, <1>10, <1>11 DEF PoolTypes
<1>13. SupplyMatchesDebt' /\ totalSupply' \in Nat
  BY <1>1, <1>2, <1>4, <1>5, <1>9, PoolFields
     DEF SupplyMatchesDebt, getEntireSystemDebt, TokenTypes
<1>14. TokenTypes'
  BY <1>1, <1>2, <1>4, <1>5, <1>6, <1>13 DEF TokenTypes
<1>15. LoopTypes'
  BY <1>1, <1>4, NoLiquidationTypes DEF CommitTx
<1>16. ControlTypes' /\ SavedBalanced'
  BY <1>1, <1>4 DEF CommitTx, ControlTypes, SavedBalanced
<1> QED
  BY <1>7, <1>8, <1>11, <1>12, <1>13, <1>14, <1>15, <1>16 DEF LedgerInv, TypeOK

\* A liquidation that reverts restores the balanced storage it saved.
LEMMA RevertLiquidationStep ==
    ASSUME LedgerInv, UNCHANGED redVars, revertLiquidation
    PROVE  LedgerInv'
<1>1. /\ LoopTypes /\ ControlTypes /\ pc # "idle" /\ RevertTx
      /\ noLiquidation /\ pc' = "idle"
  BY DEF LedgerInv, TypeOK, revertLiquidation, RevertTx
<1>2. panicked' \in BOOLEAN
  BY <1>1 DEF revertLiquidation, ControlTypes
<1> QED
  BY <1>1, <1>2, RevertTxFacts, NoLiquidationTypes DEF LedgerInv, TypeOK

-----------------------------------------------------------------------------
(* Redemption *)

\* The trove at which a redemption starts is a borrower's, if there is one.
LEMMA LowestRedeemableType ==
    ASSUME sortedTroves \in Seq(Borrowers), NEW price
    PROVE  lowestRedeemable(price) \in Borrowers \cup {NoOne}
<1> DEFINE S == {i \in 1..Len(sortedTroves) :
                     getCurrentICR(sortedTroves[i], price) >= MCR}
           top == CHOOSE i \in S : \A j \in S : j <= i
<1>1. CASE S = {}
  BY <1>1 DEF lowestRedeemable
<1>2. CASE S # {}
  <2>1. \E i \in S : \A j \in S : j <= i
    <3>1. S \subseteq 0..Len(sortedTroves) /\ Len(sortedTroves) \in Nat
      OBVIOUS
    <3> HIDE DEF S
    <3> QED BY <1>2, <3>1, MaximumExists
  <2>2. top \in S
    <3> HIDE DEF S
    <3> QED BY <2>1
  <2>3. sortedTroves[top] \in Borrowers
    <3>1. top \in 1..Len(sortedTroves)
      BY <2>2
    <3> HIDE DEF top
    <3> QED BY <3>1
  <2>4. lowestRedeemable(price) = sortedTroves[top]
    BY <1>2 DEF lowestRedeemable
  <2> QED BY <2>3, <2>4
<1> QED BY <1>1, <1>2

\* A redemption begins with nothing redeemed.
LEMMA BeginRedemptionStep ==
    ASSUME LedgerInv, UNCHANGED liqVars, NEW k \in Keepers,
           NEW price \in Prices, NEW a \in RedeemAmounts,
           NEW hint \in Borrowers \cup {NoOne}, NEW limit \in IterationLimits,
           redeemCollateral(k, price, a, hint, limit)
    PROVE  LedgerInv'
<1>1. BeginTx("redeeming")
      /\ UNCHANGED <<troveVars, snapshotVars, rewardVars, poolVars, usddVars>>
  BY DEF redeemCollateral
<1>2. TroveTypes /\ LoopTypes
  BY DEF LedgerInv, TypeOK
<1>3. /\ price \in Nat /\ k \in Users /\ k # NoOne /\ a \in Nat
      /\ limit \in Nat /\ MAX_UINT \in Nat
  BY StateAssumption, RedemptionAssumption, MathAssumption DEF Users
<1>4. redArgs' \in RedArgsSet /\ redArgs'.price = price
      /\ redArgs'.redeemer = k
  BY <1>3 DEF redeemCollateral, RedArgsSet
<1>5. redeeming' \in ProgressSet
  <2>1. lowestRedeemable(price) \in Borrowers \cup {NoOne}
    BY <1>2, LowestRedeemableType DEF TroveTypes
  <2> QED BY <1>3, <2>1 DEF redeemCollateral, Progress, ProgressSet
<1>6. LoopTypes'
  BY <1>1, <1>2, <1>3, <1>4, <1>5 DEF LoopTypes, liqVars, BeginTx
<1> QED
  BY <1>1, <1>6, BeginTxFacts DEF LedgerInv, TypeOK

\* What one iteration of a redemption takes from the trove of b.
LEMMA LotTypes ==
    ASSUME LedgerInv, pc = "redeeming", NEW b \in Borrowers, RedeemChecks(b)
    PROVE  /\ appliedColl(b) \in Nat /\ appliedDebt(b) \in Nat
           /\ USDDLot(b) \in Nat /\ USDDLot(b) <= redeeming.remaining
           /\ CollLot(b) \in Nat
           /\ debtAfterLot(b) \in Nat /\ collAfterLot(b) \in Nat
<1>1. /\ TroveTypes /\ RewardTypes /\ LoopTypes /\ SnapshotsCovered(b)
      /\ debtApplied(b) >= USDD_GAS_COMPENSATION
      /\ CollLot(b) <= collApplied(b)
      /\ USDD_GAS_COMPENSATION \in Nat
  BY MathAssumption DEF LedgerInv, TypeOK, RedeemChecks
<1>2. /\ appliedColl(b) \in Nat /\ appliedDebt(b) \in Nat
      /\ collApplied(b) \in Nat /\ debtApplied(b) \in Nat
  BY <1>1, AppliedTypes
<1>3. redeeming.remaining \in Nat
  BY <1>1 DEF LoopTypes, ProgressSet
<1>4. /\ USDDLot(b) \in Nat /\ USDDLot(b) <= debtApplied(b)
      /\ USDDLot(b) <= redeeming.remaining
  BY <1>1, <1>2, <1>3 DEF USDDLot, min
<1>5. CollLot(b) \in Nat
  <2>1. redArgs.price \in Nat /\ redArgs.price > 0
    <3>1. redArgs.price \in Prices
      BY <1>1 DEF LoopTypes
    <3> QED BY <3>1, PriceType
  <2>2. USDDLot(b) * DECIMAL_PRECISION \in Nat
    BY <1>4, MathAssumption
  <2> QED BY <2>1, <2>2, DivNat DEF CollLot
<1> QED
  BY <1>1, <1>2, <1>4, <1>5 DEF debtAfterLot, collAfterLot

\* The loop's progress keeps its type.
LEMMA ProgressType ==
    ASSUME LoopTypes, ~RedemptionOver, NEW u \in Borrowers \cup {NoOne},
           NEW lot \in Nat, NEW drawn \in Nat, lot <= redeeming.remaining,
           NEW cancelled \in BOOLEAN
    PROVE  Progress(u, redeeming.remaining - lot, redeeming.iterations - 1,
                    redeeming.redeemed + lot, redeeming.drawn + drawn,
                    cancelled) \in ProgressSet
<1>1. /\ redeeming.remaining \in Nat /\ redeeming.iterations \in Nat
      /\ redeeming.redeemed \in Nat /\ redeeming.drawn \in Nat
  BY DEF LoopTypes, ProgressSet
<1>2. redeeming.iterations # 0
  BY DEF RedemptionOver
<1> QED BY <1>1, <1>2 DEF Progress, ProgressSet

\* A redemption loop that runs has a trove to look at.
LEMMA RedeemedUserType ==
    ASSUME LoopTypes, ~RedemptionOver
    PROVE  redeeming.user \in Borrowers
  BY DEF LoopTypes, ProgressSet, RedemptionOver

\* A trove redeemed as a whole leaves: its reserve is burned, the rest of
\* its collateral becomes claimable.
LEMMA RedeemWholeStep ==
    ASSUME LedgerInv, UNCHANGED liqVars, redeemWhole
    PROVE  LedgerInv'
<1> DEFINE b == redeeming.user
           ac == appliedColl(b)
           ad == appliedDebt(b)
           left == collAfterLot(b)
           GC == USDD_GAS_COMPENSATION
<1>1. /\ TroveTypes /\ RewardTypes /\ PoolTypes /\ TokenTypes /\ LoopTypes
      /\ SupplyMatchesDebt /\ CollateralAccountedFor
  BY DEF LedgerInv, TypeOK
<1>2. /\ pc = "redeeming" /\ ~RedemptionOver /\ RedeemChecks(b)
      /\ closesTrove(b) /\ closeTrove(b, "closedByRedemption")
      /\ defaultPool' = PoolMinus(defaultPool, ac, ad)
      /\ activePool' = [coll |-> activePool.coll + ac - left,
                        debt |-> activePool.debt + ad - GC]
      /\ gasPoolUSDD' = gasPoolUSDD - GC
      /\ totalSupply' = totalSupply - GC
      /\ surplusOf' = [surplusOf EXCEPT ![b] = @ + left]
      /\ COLLS' = COLLS + left
      /\ redeeming' = Progress(getPrev(b), redeeming.remaining - USDDLot(b),
             redeeming.iterations - 1, redeeming.redeemed + USDDLot(b),
             redeeming.drawn + CollLot(b), FALSE)
      /\ UNCHANGED <<redArgs, controlVars, snapshotVars, rewardVars,
                     stabilityPool, stakingColl, wethHeld, balances,
                     stabilityPoolUSDD, stakingUSDD>>
  BY DEF redeemWhole
<1>3. b \in Borrowers
  BY <1>1, <1>2, RedeemedUserType
<1>4. /\ ac \in Nat /\ ad \in Nat /\ left \in Nat /\ GC \in Nat
      /\ USDDLot(b) \in Nat /\ USDDLot(b) <= redeeming.remaining
      /\ CollLot(b) \in Nat
  BY <1>2, <1>3, LotTypes, MathAssumption
<1>5. /\ ac <= defaultPool.coll /\ ad <= defaultPool.debt
      /\ GC <= gasPoolUSDD
      /\ left <= activePool.coll + ac /\ GC <= activePool.debt + ad
  BY <1>2 DEF RedeemChecks, Covers, PoolPlus
<1> HIDE DEF b, ac, ad, left, GC
<1>6. TroveTypes'
  BY <1>1, <1>2, <1>3, CloseTypes DEF StatusSet
<1>7. RewardTypes'
  BY <1>1, <1>2 DEF snapshotVars, rewardVars, RewardTypes
<1>8. /\ activePool'.coll = activePool.coll + ac - left
      /\ activePool'.debt = activePool.debt + ad - GC
      /\ defaultPool'.coll = defaultPool.coll - ac
      /\ defaultPool'.debt = defaultPool.debt - ad
  BY <1>2 DEF PoolMinus
<1>9. activePool' \in PoolSet /\ defaultPool' \in PoolSet
  BY <1>1, <1>2, <1>4, <1>5, PoolFields DEF PoolMinus, PoolSet
<1>10. PoolTypes'
  BY <1>1, <1>2, <1>3, <1>4, <1>9 DEF PoolTypes
<1>11. CollateralAccountedFor'
  BY <1>1, <1>2, <1>4, <1>8, PoolFields DEF CollateralAccountedFor, PoolTypes
<1>12. SupplyMatchesDebt' /\ totalSupply' \in Nat
  BY <1>1, <1>2, <1>4, <1>5, <1>8, PoolFields
     DEF SupplyMatchesDebt, getEntireSystemDebt, TokenTypes
<1>13. TokenTypes'
  BY <1>1, <1>2, <1>4, <1>5, <1>12 DEF TokenTypes
<1>14. LoopTypes'
  <2>1. getPrev(b) \in Borrowers \cup {NoOne}
    BY <1>1, PrevType DEF TroveTypes
  <2>2. redeeming' \in ProgressSet
    BY <1>1, <1>2, <1>4, <2>1, ProgressType
  <2> QED BY <1>1, <1>2, <2>2 DEF LoopTypes, liqVars, controlVars
<1> QED
  BY <1>2, <1>6, <1>7, <1>10, <1>11, <1>12, <1>13, <1>14, LoopControl
     DEF LedgerInv, TypeOK

\* A trove whose rewards are applied during a redemption: the two pools
\* together hold and owe what they did.
LEMMA AppliedPools ==
    ASSUME PoolTypes, SupplyMatchesDebt, CollateralAccountedFor, TokenTypes,
           NEW ac \in Nat, NEW ad \in Nat, Covers(defaultPool, ac, ad),
           defaultPool' = PoolMinus(defaultPool, ac, ad),
           activePool' = PoolPlus(activePool, ac, ad),
           UNCHANGED <<COLLS, surplusOf, stabilityPool, stakingColl, wethHeld,
                       usddVars>>
    PROVE  PoolTypes' /\ TokenTypes' /\ SupplyMatchesDebt'
           /\ CollateralAccountedFor'
<1>1. /\ activePool' \in PoolSet /\ defaultPool' \in PoolSet
  BY PoolFields DEF PoolPlus, PoolMinus, Covers, PoolSet
<1>2. PoolTypes' /\ TokenTypes'
  BY <1>1 DEF PoolTypes, TokenTypes, usddVars
<1>3. /\ activePool'.coll + defaultPool'.coll
             = activePool.coll + defaultPool.coll
      /\ activePool'.debt + defaultPool'.debt
             = activePool.debt + defaultPool.debt
  BY PoolFields DEF PoolPlus, PoolMinus
<1>4. /\ activePool'.coll \in Nat /\ defaultPool'.coll \in Nat
      /\ activePool'.debt \in Nat /\ defaultPool'.debt \in Nat
  BY <1>1 DEF PoolSet
<1> QED
  BY <1>2, <1>3, <1>4, PoolFields DEF SupplyMatchesDebt,
     CollateralAccountedFor, getEntireSystemDebt, usddVars, PoolTypes

\* A partial redemption moves rewards and lowers the trove, no pool's sum.
LEMMA RedeemPartlyStep ==
    ASSUME LedgerInv, UNCHANGED liqVars, redeemPartly
    PROVE  LedgerInv'
<1> DEFINE b == redeeming.user
           stake == computeNewStake(collAfterLot(b))
           nicr == computeNominalCR(collAfterLot(b), debtAfterLot(b))
<1>1. /\ TroveTypes /\ RewardTypes /\ PoolTypes /\ TokenTypes /\ LoopTypes
      /\ SupplyMatchesDebt /\ CollateralAccountedFor
  BY DEF LedgerInv, TypeOK
<1>2. /\ pc = "redeeming" /\ ~RedemptionOver /\ RedeemChecks(b)
      /\ ~closesTrove(b)
      /\ Troves' = [Troves EXCEPT ![b] =
             TroveOf("active", collAfterLot(b), debtAfterLot(b), stake)]
      /\ rewardSnapshots' = [rewardSnapshots EXCEPT ![b] = appliedSnapshot(b)]
      /\ totalStakes' = removeStake(b) + stake
      /\ InsertInto(Without(sortedTroves, b), b, nicr)
      /\ defaultPool' = PoolMinus(defaultPool, appliedColl(b), appliedDebt(b))
      /\ activePool' = PoolPlus(activePool, appliedColl(b), appliedDebt(b))
      /\ redeeming' = Progress(getPrev(b), redeeming.remaining - USDDLot(b),
             redeeming.iterations - 1, redeeming.redeemed + USDDLot(b),
             redeeming.drawn + CollLot(b), FALSE)
      /\ UNCHANGED <<redArgs, controlVars, TroveOwners, arrayIndex,
                     snapshotVars, rewardVars, COLLS, surplusOf,
                     stabilityPool, stakingColl, wethHeld, usddVars>>
  BY DEF redeemPartly
<1>3. b \in Borrowers
  BY <1>1, <1>2, RedeemedUserType
<1>4. /\ appliedColl(b) \in Nat /\ appliedDebt(b) \in Nat
      /\ USDDLot(b) \in Nat /\ USDDLot(b) <= redeeming.remaining
      /\ CollLot(b) \in Nat
      /\ debtAfterLot(b) \in Nat /\ collAfterLot(b) \in Nat
  BY <1>2, <1>3, LotTypes
<1>5. /\ SnapshotsCovered(b) /\ StakeComputable /\ contains(b)
      /\ Troves[b].stake <= totalStakes
      /\ Covers(defaultPool, appliedColl(b), appliedDebt(b))
  BY <1>2 DEF RedeemChecks
<1>6. stake \in Nat
  BY <1>1, <1>4, <1>5, StakeType
<1>7. Troves[b].stake \in Nat
  <2>1. Troves[b] \in TroveSet
    BY <1>1, <1>3 DEF TroveTypes
  <2> QED BY <2>1 DEF TroveSet
<1>8. appliedSnapshot(b) \in RewardSnapshotSet
  BY <1>1, <1>3, <1>5, AppliedTypes
<1> HIDE DEF b, stake, nicr
<1>9. TroveTypes'
  <2>1. TroveOf("active", collAfterLot(b), debtAfterLot(b), stake) \in TroveSet
    BY <1>4, <1>6 DEF TroveOf, TroveSet, StatusSet
  <2>2. /\ Troves' \in [Borrowers -> TroveSet]
        /\ rewardSnapshots' \in [Borrowers -> RewardSnapshotSet]
    BY <1>1, <1>2, <1>3, <1>8, <2>1 DEF TroveTypes
  <2>3. sortedTroves' \in Seq(Borrowers)
    <3>1. Without(sortedTroves, b) \in Seq(Borrowers)
      BY <1>1, <1>5, WithoutType DEF TroveTypes
    <3> QED BY <1>2, <1>3, <3>1, InsertType
  <2>4. totalStakes' \in Nat
    BY <1>1, <1>2, <1>5, <1>6, <1>7 DEF removeStake, TroveTypes
  <2> QED BY <1>1, <1>2, <2>2, <2>3, <2>4 DEF TroveTypes
<1>10. RewardTypes'
  BY <1>1, <1>2 DEF snapshotVars, rewardVars, RewardTypes
<1>11. PoolTypes' /\ TokenTypes' /\ SupplyMatchesDebt' /\ CollateralAccountedFor'
  BY <1>1, <1>2, <1>4, <1>5, AppliedPools
<1>12. LoopTypes'
  <2>1. getPrev(b) \in Borrowers \cup {NoOne}
    BY <1>1, PrevType DEF TroveTypes
  <2>2. redeeming' \in ProgressSet
    BY <1>1, <1>2, <1>4, <2>1, ProgressType
  <2> QED BY <1>1, <1>2, <2>2 DEF LoopTypes, liqVars, controlVars
<1> QED
  BY <1>2, <1>9, <1>10, <1>11, <1>12, LoopControl DEF LedgerInv, TypeOK

\* A cancelled partial redemption keeps the rewards it has applied.
LEMMA CancelPartialStep ==
    ASSUME LedgerInv, UNCHANGED liqVars, cancelPartial
    PROVE  LedgerInv'
<1> DEFINE b == redeeming.user
<1>1. /\ TroveTypes /\ RewardTypes /\ PoolTypes /\ TokenTypes /\ LoopTypes
      /\ SupplyMatchesDebt /\ CollateralAccountedFor
  BY DEF LedgerInv, TypeOK
<1>2. /\ pc = "redeeming" /\ ~RedemptionOver /\ RedeemChecks(b)
      /\ Troves' = [Troves EXCEPT ![b] = TroveOf("active", collApplied(b),
                        debtApplied(b), Troves[b].stake)]
      /\ rewardSnapshots' = [rewardSnapshots EXCEPT ![b] = appliedSnapshot(b)]
      /\ defaultPool' = PoolMinus(defaultPool, appliedColl(b), appliedDebt(b))
      /\ activePool' = PoolPlus(activePool, appliedColl(b), appliedDebt(b))
      /\ redeeming' = Progress(b, redeeming.remaining,
             redeeming.iterations - 1, redeeming.redeemed, redeeming.drawn,
             TRUE)
      /\ UNCHANGED <<redArgs, controlVars, TroveOwners, arrayIndex,
                     sortedTroves, totalStakes, snapshotVars, rewardVars,
                     COLLS, surplusOf, stabilityPool, stakingColl, wethHeld,
                     usddVars>>
  BY DEF cancelPartial
<1>3. b \in Borrowers
  BY <1>1, <1>2, RedeemedUserType
<1>4. /\ SnapshotsCovered(b)
      /\ Covers(defaultPool, appliedColl(b), appliedDebt(b))
  BY <1>2 DEF RedeemChecks
<1>5. /\ appliedColl(b) \in Nat /\ appliedDebt(b) \in Nat
      /\ collApplied(b) \in Nat /\ debtApplied(b) \in Nat
      /\ appliedSnapshot(b) \in RewardSnapshotSet
  BY <1>1, <1>3, <1>4, AppliedTypes
<1>6. Troves[b].stake \in Nat
  <2>1. Troves[b] \in TroveSet
    BY <1>1, <1>3 DEF TroveTypes
  <2> QED BY <2>1 DEF TroveSet
<1> HIDE DEF b
<1>7. TroveTypes'
  <2>1. TroveOf("active", collApplied(b), debtApplied(b), Troves[b].stake)
            \in TroveSet
    BY <1>5, <1>6 DEF TroveOf, TroveSet, StatusSet
  <2> QED BY <1>1, <1>2, <1>3, <1>5, <2>1 DEF TroveTypes
<1>8. RewardTypes'
  BY <1>1, <1>2 DEF snapshotVars, rewardVars, RewardTypes
<1>9. PoolTypes' /\ TokenTypes' /\ SupplyMatchesDebt' /\ CollateralAccountedFor'
  BY <1>1, <1>2, <1>4, <1>5, AppliedPools
<1>10. LoopTypes'
  <2>1. /\ redeeming.remaining \in Nat /\ redeeming.iterations \in Nat
        /\ redeeming.redeemed \in Nat /\ redeeming.drawn \in Nat
    BY <1>1 DEF LoopTypes, ProgressSet
  <2>2. redeeming.iterations # 0
    BY <1>2 DEF RedemptionOver
  <2>3. redeeming' \in ProgressSet
    BY <1>2, <1>3, <2>1, <2>2 DEF Progress, ProgressSet
  <2> QED BY <1>1, <1>2, <2>3 DEF LoopTypes, liqVars, controlVars
<1> QED
  BY <1>2, <1>7, <1>8, <1>9, <1>10, LoopControl DEF LedgerInv, TypeOK

\* A transaction that has ended leaves the redemption's locals at zero.
LEMMA NoRedemptionTypes ==
    ASSUME LoopTypes, UNCHANGED liqVars, noRedemption, pc' = "idle"
    PROVE  LoopTypes'
<1>1. redArgs' \in RedArgsSet /\ redeeming' \in ProgressSet
  BY DEF noRedemption, RedArgsSet, Progress, ProgressSet
<1> QED BY <1>1 DEF LoopTypes, liqVars

\* The end of a redemption burns what was redeemed and pays the collateral
\* drawn, less the fee that stays with DEFTStaking.
LEMMA FinishRedemptionStep ==
    ASSUME LedgerInv, UNCHANGED liqVars, NEW rate \in RedemptionRates,
           finishRedemption(rate)
    PROVE  LedgerInv'
<1> DEFINE drawn == redeeming.drawn
           redeemed == redeeming.redeemed
           k == redArgs.redeemer
           fee == feeOf(rate, drawn)
<1>1. /\ TroveTypes /\ RewardTypes /\ PoolTypes /\ TokenTypes /\ LoopTypes
      /\ ControlTypes /\ SupplyMatchesDebt /\ CollateralAccountedFor
  BY DEF LedgerInv, TypeOK
<1>2. drawn \in Nat /\ redeemed \in Nat
  BY <1>1 DEF LoopTypes, ProgressSet
<1>3. fee \in Nat
  BY <1>2, FeeType, RedemptionAssumption
<1>4. /\ pc = "redeeming" /\ fee < drawn /\ RedemptionEndChecks
      /\ activePool' = PoolMinus(activePool, drawn, redeemed)
      /\ stakingColl' = stakingColl + fee
      /\ wethHeld' = wethHeld - (drawn - fee)
      /\ totalSupply' = totalSupply - redeemed
      /\ balances' = [balances EXCEPT ![k] = @ - redeemed]
      /\ noRedemption /\ CommitTx
      /\ UNCHANGED <<troveVars, snapshotVars, rewardVars, defaultPool, COLLS,
                     surplusOf, stabilityPool, gasPoolUSDD,
                     stabilityPoolUSDD, stakingUSDD>>
  BY DEF finishRedemption
<1>5. /\ redeemed <= balances[k]
      /\ drawn <= activePool.coll /\ redeemed <= activePool.debt
  BY <1>4 DEF RedemptionEndChecks, Covers
<1>6. k \in Users
  BY <1>1, <1>4 DEF LoopTypes, RedArgsSet
<1> HIDE DEF drawn, redeemed, k, fee
<1>7. TroveTypes' /\ RewardTypes'
  BY <1>1, <1>4 DEF troveVars, snapshotVars, rewardVars, TroveTypes, RewardTypes
<1>8. /\ activePool'.coll = activePool.coll - drawn
      /\ activePool'.debt = activePool.debt - redeemed
  BY <1>4 DEF PoolMinus
<1>9. activePool' \in PoolSet
  BY <1>1, <1>2, <1>4, <1>5, PoolFields DEF PoolMinus, PoolSet
<1>10. CollateralAccountedFor'
  BY <1>1, <1>2, <1>3, <1>4, <1>8, PoolFields
     DEF CollateralAccountedFor, PoolTypes
<1>11. wethHeld' \in Nat
  BY <1>1, <1>2, <1>3, <1>4, <1>5, PoolFields
     DEF CollateralAccountedFor, PoolTypes
<1>12. PoolTypes'
  BY <1>1, <1>3, <1>4, <1>9, <1>11 DEF PoolTypes
<1>13. SupplyMatchesDebt' /\ totalSupply' \in Nat
  BY <1>1, <1>2, <1>4, <1>5, <1>8, PoolFields
     DEF SupplyMatchesDebt, getEntireSystemDebt, TokenTypes
<1>14. TokenTypes'
  BY <1>1, <1>2, <1>4, <1>5, <1>6, <1>13 DEF TokenTypes
<1>15. LoopTypes'
  BY <1>1, <1>4, NoRedemptionTypes DEF CommitTx
<1>16. ControlTypes' /\ SavedBalanced'
  BY <1>1, <1>4 DEF CommitTx, ControlTypes, SavedBalanced
<1> QED
  BY <1>7, <1>10, <1>12, <1>13, <1>14, <1>15, <1>16 DEF LedgerInv, TypeOK

\* A redemption that reverts restores the balanced storage it saved.
LEMMA RevertRedemptionStep ==
    ASSUME LedgerInv, UNCHANGED liqVars, revertRedemption
    PROVE  LedgerInv'
<1>1. /\ LoopTypes /\ ControlTypes /\ pc # "idle" /\ RevertTx
      /\ noRedemption /\ pc' = "idle"
  BY DEF LedgerInv, TypeOK, revertRedemption, RevertTx
<1>2. panicked' \in BOOLEAN
  BY <1>1 DEF revertRedemption, ControlTypes
<1> QED
  BY <1>1, <1>2, RevertTxFacts, NoRedemptionTypes DEF LedgerInv, TypeOK

-----------------------------------------------------------------------------
(* The theorems *)

\* No contract has been used: everything is zero and balanced.
LEMMA InitLedger == Init => LedgerInv
<1> SUFFICES ASSUME Init PROVE LedgerInv
  OBVIOUS
<1>1. TroveTypes
  BY DEF Init, TroveTypes, TroveSet, TroveOf, StatusSet, RewardSnapshotSet
<1>2. RewardTypes /\ TokenTypes
  BY DEF Init, RewardTypes, TokenTypes
<1>3. PoolTypes
  BY DEF Init, PoolTypes, PoolSet, StabilityPoolSet
<1>4. ControlTypes
  BY DEF Init, ControlTypes
<1>5. LoopTypes
  <2>1. liqArgs \in LiqArgsSet /\ cursor \in CursorSet /\ running \in RunningSet
    BY DEF Init, LiqArgsSet, CursorSet, RunningSet
  <2>2. totals \in ValuesSet
    BY DEF Init, zeroVals, Values, ValuesSet
  <2>3. redArgs \in RedArgsSet /\ redeeming \in ProgressSet
    BY DEF Init, RedArgsSet, Progress, ProgressSet
  <2> QED BY <2>1, <2>2, <2>3 DEF Init, LoopTypes
<1>6. SupplyMatchesDebt /\ CollateralAccountedFor /\ SavedBalanced
  BY DEF Init, SupplyMatchesDebt, CollateralAccountedFor, SavedBalanced,
     getEntireSystemDebt
<1> QED BY <1>1, <1>2, <1>3, <1>4, <1>5, <1>6 DEF LedgerInv, TypeOK

\* Nothing changes, nothing breaks.
LEMMA StutterLedger ==
    ASSUME LedgerInv, UNCHANGED vars
    PROVE  LedgerInv'
<1>1. TroveTypes' /\ RewardTypes'
  BY DEF LedgerInv, TypeOK, vars, troveVars, snapshotVars, rewardVars,
     TroveTypes, RewardTypes
<1>2. PoolTypes' /\ TokenTypes'
  BY DEF LedgerInv, TypeOK, vars, poolVars, usddVars, PoolTypes, TokenTypes
<1>3. ControlTypes' /\ LoopTypes'
  BY DEF LedgerInv, TypeOK, vars, controlVars, liqVars, redVars,
     ControlTypes, LoopTypes
<1>4. SupplyMatchesDebt' /\ CollateralAccountedFor' /\ SavedBalanced'
  BY DEF LedgerInv, vars, poolVars, usddVars, controlVars,
     SupplyMatchesDebt, CollateralAccountedFor, SavedBalanced,
     getEntireSystemDebt
<1> QED BY <1>1, <1>2, <1>3, <1>4 DEF LedgerInv, TypeOK

\* A borrower's transaction
LEMMA BorrowerStepInv ==
    ASSUME LedgerInv, NEW b \in Borrowers, NEW price \in Prices,
           BorrowerStep(b, price), UNCHANGED <<liqVars, redVars>>
    PROVE  LedgerInv'
<1>1. CASE \E c \in OpenColl, a \in OpenUSDD, rate \in BorrowingRates :
               openTrove(b, price, c, a, rate)
  BY <1>1, OpenTroveStep
<1>2. CASE \E adj \in Adjustments, rate \in BorrowingRates :
               adjustTrove(b, price, adj, rate)
  BY <1>2, AdjustTroveStep
<1>3. CASE withdrawCollGainToTrove(b, price)
  BY <1>3, CollGainStep
<1>4. CASE closeTroveByOwner(b, price)
  BY <1>4, CloseTroveStep
<1> QED BY <1>1, <1>2, <1>3, <1>4 DEF BorrowerStep

\* The first step of a liquidation
LEMMA BeginLoopInv ==
    ASSUME LedgerInv, NEW k \in Keepers, NEW price \in Prices,
           BeginLoop(k, price), UNCHANGED redVars
    PROVE  LedgerInv'
<1>1. CASE \E n \in LiquidateCounts : liquidateTroves(k, price, n)
  <2>1. PICK n \in LiquidateCounts : liquidateTroves(k, price, n)
    BY <1>1
  <2>2. n \in Nat /\ <<>> \in Seq(Borrowers)
    BY LiquidationAssumption
  <2> QED BY <2>1, <2>2, BeginLiquidationStep DEF liquidateTroves
<1>2. CASE \E batch \in Batches : batchLiquidateTroves(k, price, batch)
  <2>1. PICK batch \in Batches : batchLiquidateTroves(k, price, batch)
    BY <1>2
  <2>2. batch \in Seq(Borrowers) /\ 0 \in Nat
    BY LiquidationAssumption
  <2>3. beginLiquidation("batch", k, price, 0, batch)
    BY <2>1 DEF batchLiquidateTroves
  <2> QED BY <2>2, <2>3, BeginLiquidationStep
<1> QED BY <1>1, <1>2 DEF BeginLoop

\* Every step of the protocol, inside a transaction or not, keeps the types
\* and the two ledgers.
LEMMA NextLedger == LedgerInv /\ [Next]_vars => LedgerInv'
<1> SUFFICES ASSUME LedgerInv, [Next]_vars PROVE LedgerInv'
  OBVIOUS
<1>1. CASE \E b \in Borrowers, price \in Prices :
               BorrowerStep(b, price) /\ UNCHANGED <<liqVars, redVars>>
  BY <1>1, BorrowerStepInv
<1>2. CASE \E b \in Borrowers :
               claimCollateral(b) /\ UNCHANGED <<liqVars, redVars>>
  BY <1>2, ClaimStep
<1>3. CASE \E u \in Users, price \in Prices :
               DepositorStep(u, price) /\ UNCHANGED <<liqVars, redVars>>
  BY <1>3, DepositorStepInv
<1>4. CASE \E u, v \in Users, a \in TransferAmounts :
               transferUSDD(u, v, a) /\ UNCHANGED <<liqVars, redVars>>
  BY <1>4, TransferStep
<1>5. CASE \E k \in Keepers, price \in Prices :
               BeginLoop(k, price) /\ UNCHANGED redVars
  BY <1>5, BeginLoopInv
<1>6. CASE LiquidationStep /\ UNCHANGED redVars
  BY <1>6, SkipTroveStep, LiquidateTroveStep, FinishLiquidationStep,
     RevertLiquidationStep DEF LiquidationStep
<1>7. CASE \E k \in Keepers, price \in Prices :
               BeginRedemption(k, price) /\ UNCHANGED liqVars
  BY <1>7, BeginRedemptionStep DEF BeginRedemption
<1>8. CASE RedemptionStep /\ UNCHANGED liqVars
  BY <1>8, RedeemWholeStep, RedeemPartlyStep, CancelPartialStep,
     FinishRedemptionStep, RevertRedemptionStep DEF RedemptionStep
<1>9. CASE UNCHANGED vars
  BY <1>9, StutterLedger
<1> QED
  BY <1>1, <1>2, <1>3, <1>4, <1>5, <1>6, <1>7, <1>8, <1>9 DEF Next, Quiet

\* In every state of every behaviour, inside a transaction too and after a
\* revert, the contracts' books have their types and balance.
THEOREM LedgerInvariance == Spec => []LedgerInv
  BY InitLedger, NextLedger, PTL DEF Spec

\* No recorded amount is ever negative, inside a transaction and after a
\* revert too; for wethHeld and totalSupply, from which transfers and burns
\* subtract unchecked, this follows from the two ledgers.
THEOREM TypeCorrectness == Spec => []TypeOK
<1>1. LedgerInv => TypeOK
  BY DEF LedgerInv
<1> QED BY <1>1, LedgerInvariance, PTL

\* Every USDD in existence is owed by a trove: the token's mints and burns
\* agree with increaseUSDDDebt and decreaseUSDDDebt of the two pools.
THEOREM SupplyBacked == Spec => []SupplyMatchesDebt
<1>1. LedgerInv => SupplyMatchesDebt
  BY DEF LedgerInv
<1> QED BY <1>1, LedgerInvariance, PTL

\* The collateral owned by the contracts is the collateral they record:
\* every transfer between ActivePool, DefaultPool, CollSurplusPool,
\* StabilityPool and DEFTStaking is recorded on both sides.
THEOREM CollateralConserved == Spec => []CollateralAccountedFor
<1>1. LedgerInv => CollateralAccountedFor
  BY DEF LedgerInv
<1> QED BY <1>1, LedgerInvariance, PTL

-----------------------------------------------------------------------------
(* What a step may never do *)

\* The capped collateral, in USDD, is at most MCR times the debt.
LEMMA CapValue ==
    ASSUME NEW owed \in Nat, NEW price \in Nat, price > 0, NEW coll \in Nat
    PROVE  (coll - (owed \div price)) * price >= coll * price - owed
<1> DEFINE q == owed \div price
<1>1. q \in Nat
  BY DivNat
<1>2. q * price <= owed
  BY RemainderNat
<1> HIDE DEF q
<1>3. (coll - q) * price = coll * price - q * price
  BY <1>1
<1>4. q * price \in Nat /\ coll * price \in Nat
  BY <1>1
<1>5. (coll - q) * price >= coll * price - owed
  BY <1>2, <1>3, <1>4
<1> QED BY <1>5 DEF q

\* _liquidateNormalMode is not called for a trove at or above MCR, and
\* _liquidateRecoveryMode takes its last branch.
LEMMA CappedBranch ==
    ASSUME NEW b, Active(b), getCurrentICR(b, liqArgs.price) \in Nat,
           getCurrentICR(b, liqArgs.price) >= MCR, stepVals(b) # zeroVals
    PROVE  /\ liqArgs.recovery
           /\ stepVals(b) = cappedOffsetVals(b, liqArgs.price)
<1> DEFINE ICR == getCurrentICR(b, liqArgs.price)
           TCR == computeCR(running.sysColl, running.sysDebt, liqArgs.price)
           v == stepVals(b)
<1>1. v = IF ~Active(b) \/ hopeless(b) THEN zeroVals
          ELSE IF InRecoveryPhase
               THEN recoveryVals(b, ICR, running.inPool, TCR, liqArgs.price)
               ELSE offsetAndRedistributionVals(b, running.inPool)
  BY DEF stepVals
<1>2. ~hopeless(b)
  BY <1>1
<1>3. InRecoveryPhase
  BY <1>2 DEF hopeless
<1>4. v = recoveryVals(b, ICR, running.inPool, TCR, liqArgs.price)
  BY <1>1, <1>2, <1>3
<1>5. ICR > _100pct /\ ~(ICR <= _100pct) /\ ~(ICR < MCR)
  BY MathAssumption DEF _100pct
<1> HIDE DEF ICR, TCR, v
<1>6. v # zeroVals
  BY DEF v
<1>7. v = cappedOffsetVals(b, liqArgs.price)
  BY <1>4, <1>5, <1>6 DEF recoveryVals
<1> QED BY <1>3, <1>7 DEF v, InRecoveryPhase

\* A ratio of natural numbers is one.
LEMMA RatioType ==
    ASSUME NEW coll \in Nat, NEW debt \in Nat, NEW price \in Nat
    PROVE  computeCR(coll, debt, price) \in Nat
<1>1. coll * price \in Nat
  OBVIOUS
<1> QED BY <1>1, DivNat, MathAssumption DEF computeCR

\* One step of the liquidation loops
LEMMA CappedStep ==
    ASSUME LedgerInv, liquidateTrove, NEW b \in Borrowers, Active(b), ~Active(b)',
           getCurrentICR(b, liqArgs.price) >= MCR
    PROVE  /\ liqArgs.recovery
           /\ totals'.debtToRedistribute = totals.debtToRedistribute
           /\ (surplusOf'[b] - surplusOf[b]) * liqArgs.price
                  >= entireColl(b) * liqArgs.price - entireDebt(b) * MCR
<1> DEFINE v == stepVals(currentUser)
           price == liqArgs.price
           capped == (entireDebt(b) * MCR) \div price
<1>1. /\ pc = "liquidating" /\ ~LoopOver /\ v # zeroVals
      /\ StepChecks(currentUser, v)
      /\ Troves' = [Troves EXCEPT ![currentUser] =
                        TroveOf("closedByLiquidation", 0, 0, 0)]
      /\ surplusOf' = [surplusOf EXCEPT ![currentUser] = @ + v.collSurplus]
      /\ totals' = addToTotals(totals, v)
  BY DEF liquidateTrove, closeTrove
<1>2. currentUser \in Borrowers
  BY <1>1, CurrentUserType
<1>3. b = currentUser
  <2>1. Troves \in [Borrowers -> TroveSet]
    BY DEF LedgerInv, TypeOK, TroveTypes
  <2>2. b # currentUser => Troves'[b] = Troves[b]
    BY <1>1, <1>2, <2>1
  <2> QED BY <2>2 DEF Active
<1>4. price \in Nat /\ price > 0
  <2>1. price \in Prices
    BY <1>1 DEF LedgerInv, TypeOK, LoopTypes
  <2> QED BY <2>1, PriceType
<1>5. entireColl(b) \in Nat /\ entireDebt(b) \in Nat
  <2>1. v \in ValuesSet /\ v.coll = entireColl(b) /\ v.debt = entireDebt(b)
    BY <1>1, <1>3, StepValsType
  <2> QED BY <2>1 DEF ValuesSet
<1>6. getCurrentICR(b, price) \in Nat
  BY <1>4, <1>5, RatioType DEF getCurrentICR
<1>7. liqArgs.recovery /\ v = cappedOffsetVals(b, price)
  BY <1>1, <1>3, <1>6, CappedBranch
<1>8. v.debtToRedistribute = 0 /\ v.collSurplus = entireColl(b) - capped
  BY <1>5, <1>7 DEF cappedOffsetVals, Values
<1>9. capped \in Nat
  <2>1. entireDebt(b) * MCR \in Nat
    BY <1>5, MathAssumption
  <2> QED BY <1>4, <2>1, DivNat
<1>10. totals.debtToRedistribute \in Nat /\ surplusOf[b] \in Nat
       /\ surplusOf \in [Borrowers -> Nat]
  BY DEF LedgerInv, TypeOK, LoopTypes, ValuesSet, PoolTypes
<1>11. totals'.debtToRedistribute = totals.debtToRedistribute
  <2> HIDE DEF v
  <2> QED BY <1>1, <1>8, <1>10 DEF addToTotals
<1>12. (entireColl(b) - capped) * price
           >= entireColl(b) * price - entireDebt(b) * MCR
  <2>1. entireDebt(b) * MCR \in Nat
    BY <1>5, MathAssumption
  <2> QED BY <1>4, <1>5, <2>1, CapValue
<1>13. surplusOf'[b] - surplusOf[b] = entireColl(b) - capped
  <2> HIDE DEF v, capped
  <2>1. surplusOf'[b] = surplusOf[b] + (entireColl(b) - capped)
    BY <1>1, <1>3, <1>8, <1>10
  <2> QED BY <1>5, <1>9, <1>10, <2>1
<1> QED BY <1>7, <1>11, <1>12, <1>13

\* Whatever the loop, the batch and the troves it has liquidated before: a
\* trove at or above MCR is only liquidated by a full offset of a system
\* that was in Recovery Mode, and its owner may claim what exceeds MCR.
THEOREM LiquidationIsCapped == Spec => CappedLiquidation
<1> DEFINE Capped ==
        \A b \in Borrowers :
           /\ liquidateTrove
           /\ Active(b) /\ ~Active(b)'
           /\ getCurrentICR(b, liqArgs.price) >= MCR
           => /\ liqArgs.recovery
              /\ totals'.debtToRedistribute = totals.debtToRedistribute
              /\ (surplusOf'[b] - surplusOf[b]) * liqArgs.price
                     >= entireColl(b) * liqArgs.price - entireDebt(b) * MCR
<1>1. LedgerInv => Capped
  BY CappedStep
<1>2. Spec => [][Capped]_vars
  BY <1>1, LedgerInvariance, PTL DEF Spec
<1> QED BY <1>2 DEF CappedLiquidation

\* The total ratio of a system whose collateral and debt have changed
LEMMA RatioAfter ==
    ASSUME NEW price, NEW coll, NEW debt,
           activePool'.coll + defaultPool'.coll = coll,
           activePool'.debt + defaultPool'.debt = debt
    PROVE  (getTCR(price))' = computeCR(coll, debt, price)
  BY DEF getTCR, getEntireSystemColl, getEntireSystemDebt, computeCR

\* openTrove in Normal Mode: the ratio it has checked, fee and reserve
\* included, is the ratio it leaves.
LEMMA OpenKeepsNormal ==
    ASSUME LedgerInv, NEW b \in Borrowers, NEW price \in Prices, NEW c \in OpenColl,
           NEW a \in OpenUSDD, NEW rate \in BorrowingRates,
           openTrove(b, price, c, a, rate), ~checkRecoveryMode(price)
    PROVE  (getTCR(price))' >= CCR
<1> DEFINE debt == a + feeOf(rate, a) + USDD_GAS_COMPENSATION
<1>1. /\ newTCRFromTroveChange(c, 0, debt, 0, price) >= CCR
      /\ activePool' = [coll |-> activePool.coll + c, debt |-> activePool.debt + debt]
      /\ defaultPool' = defaultPool
  BY DEF openTrove, PoolPlus, getCompositeDebt
<1>2. c \in Nat /\ a \in Nat /\ rate \in Nat /\ USDD_GAS_COMPENSATION \in Nat
  BY BorrowerAssumption, MathAssumption
<1>3. debt \in Nat
  <2>1. feeOf(rate, a) \in Nat
    BY <1>2, FeeType
  <2> QED BY <1>2, <2>1
<1>4. PoolTypes
  BY DEF LedgerInv, TypeOK
<1> HIDE DEF debt
<1>5. /\ activePool'.coll + defaultPool'.coll = getEntireSystemColl + c - 0
      /\ activePool'.debt + defaultPool'.debt = getEntireSystemDebt + debt - 0
  BY <1>1, <1>2, <1>3, <1>4, PoolFields DEF getEntireSystemColl, getEntireSystemDebt
<1>6. (getTCR(price))' = newTCRFromTroveChange(c, 0, debt, 0, price)
  BY <1>5, RatioAfter DEF newTCRFromTroveChange
<1> QED BY <1>1, <1>6

\* _adjustTrove in Normal Mode: the rewards it applies stay in the system,
\* the fee is part of the checked debt.
LEMMA AdjustKeepsNormal ==
    ASSUME LedgerInv, NEW b \in Borrowers, NEW price,
           NEW adj \in AdjustmentSet, NEW rate \in Nat,
           updateTroveFromAdjustment(b, price, adj, rate), ~checkRecoveryMode(price)
    PROVE  (getTCR(price))' >= CCR
<1> DEFINE fee == adjustmentFee(price, adj, rate)
           up == IF adj.increase THEN adj.usdd + fee ELSE 0
           down == IF adj.increase THEN 0 ELSE adj.usdd
<1>1. newTCRFromTroveChange(adj.collIn, adj.collOut, up, down, price) >= CCR
  <2>1. validAdjustmentInCurrentMode(b, price, adj, fee)
    BY DEF updateTroveFromAdjustment, adjustRequires
  <2> HIDE DEF fee
  <2> QED BY <2>1 DEF validAdjustmentInCurrentMode
<1>2. /\ adj.collIn \in Nat /\ adj.collOut \in Nat /\ adj.usdd \in Nat
      /\ adj.increase \in BOOLEAN
  BY DEF AdjustmentSet
<1>3. /\ fee \in Nat
      /\ activePool'.coll + defaultPool'.coll
             = activePool.coll + defaultPool.coll + adj.collIn - adj.collOut
      /\ activePool'.debt + defaultPool'.debt
             = activePool.debt + defaultPool.debt
                   + (IF adj.increase THEN adj.usdd + fee ELSE 0 - adj.usdd)
  BY AdjustFacts
<1>4. PoolTypes
  BY DEF LedgerInv, TypeOK
<1> HIDE DEF fee
<1>5. /\ activePool'.coll + defaultPool'.coll = getEntireSystemColl + adj.collIn - adj.collOut
      /\ activePool'.debt + defaultPool'.debt = getEntireSystemDebt + up - down
  BY <1>2, <1>3, <1>4, PoolFields DEF getEntireSystemColl, getEntireSystemDebt
<1> HIDE DEF up, down
<1>6. (getTCR(price))' = newTCRFromTroveChange(adj.collIn, adj.collOut, up, down, price)
  BY <1>5, RatioAfter DEF newTCRFromTroveChange
<1> QED BY <1>1, <1>6

\* closeTrove leaves the ratio it has checked.
LEMMA CloseKeepsNormal ==
    ASSUME LedgerInv, NEW b \in Borrowers, NEW price \in Prices,
           closeTroveByOwner(b, price)
    PROVE  (getTCR(price))' >= CCR
<1> DEFINE coll == collApplied(b)
           debt == debtApplied(b)
<1>1. /\ newTCRFromTroveChange(0, coll, 0, debt, price) >= CCR
      /\ defaultPool' = PoolMinus(defaultPool, appliedColl(b), appliedDebt(b))
      /\ activePool' = [coll |-> activePool.coll + appliedColl(b) - coll,
                        debt |-> activePool.debt + appliedDebt(b) - debt]
      /\ SnapshotsCovered(b)
  BY DEF closeTroveByOwner
<1>2. PoolTypes /\ TroveTypes /\ RewardTypes
  BY DEF LedgerInv, TypeOK
<1>3. appliedColl(b) \in Nat /\ appliedDebt(b) \in Nat /\ coll \in Nat /\ debt \in Nat
  BY <1>1, <1>2, AppliedTypes
<1> HIDE DEF coll, debt
<1>4. /\ activePool'.coll + defaultPool'.coll = getEntireSystemColl + 0 - coll
      /\ activePool'.debt + defaultPool'.debt = getEntireSystemDebt + 0 - debt
  BY <1>1, <1>2, <1>3, PoolFields DEF getEntireSystemColl, getEntireSystemDebt, PoolMinus
<1>5. (getTCR(price))' = newTCRFromTroveChange(0, coll, 0, debt, price)
  BY <1>4, RatioAfter DEF newTCRFromTroveChange
<1> QED BY <1>1, <1>5

\* In Normal Mode at the price a borrower's operation sees, the operation
\* leaves the system in Normal Mode at that price: no sequence of openings,
\* adjustments and closings makes other troves liquidatable at CCR.  (One
\* half of BorrowersKeepSystemSafe.)
THEOREM BorrowersKeepNormalMode ==
    Spec => [][\A price \in Prices, b \in Borrowers :
                   BorrowerStep(b, price) /\ ~checkRecoveryMode(price)
                       => ~checkRecoveryMode(price)']_vars
<1> DEFINE Kept ==
        \A price \in Prices, b \in Borrowers :
            BorrowerStep(b, price) /\ ~checkRecoveryMode(price)
                => ~checkRecoveryMode(price)'
<1>1. LedgerInv /\ LedgerInv' => Kept
  <2> SUFFICES ASSUME LedgerInv, LedgerInv', NEW price \in Prices, NEW b \in Borrowers,
                      BorrowerStep(b, price), ~checkRecoveryMode(price)
               PROVE  ~checkRecoveryMode(price)'
    OBVIOUS
  <2>1. (getTCR(price))' >= CCR
    <3>1. CASE \E c \in OpenColl, a \in OpenUSDD, rate \in BorrowingRates :
                   openTrove(b, price, c, a, rate)
      BY <3>1, OpenKeepsNormal
    <3>2. CASE \E adj \in Adjustments, rate \in BorrowingRates :
                   adjustTrove(b, price, adj, rate)
      BY <3>2, AdjustKeepsNormal, BorrowerAssumption DEF adjustTrove
    <3>3. CASE withdrawCollGainToTrove(b, price)
      <4> DEFINE adj == [collIn |-> stabilityPool.coll, collOut |-> 0, usdd |-> 0,
                         increase |-> FALSE]
      <4>1. adj \in AdjustmentSet
        BY PoolFields DEF AdjustmentSet, LedgerInv, TypeOK
      <4>2. updateTroveFromAdjustment(b, price, adj, 0)
        BY <3>3 DEF withdrawCollGainToTrove
      <4> HIDE DEF adj
      <4> QED BY <4>1, <4>2, AdjustKeepsNormal
    <3>4. CASE closeTroveByOwner(b, price)
      BY <3>4, CloseKeepsNormal
    <3> QED BY <3>1, <3>2, <3>3, <3>4 DEF BorrowerStep
  <2>2. (getTCR(price))' \in Nat
    <3>1. PoolTypes'
      BY DEF LedgerInv, TypeOK
    <3>2. getEntireSystemColl' \in Nat /\ getEntireSystemDebt' \in Nat
      BY <3>1 DEF getEntireSystemColl, getEntireSystemDebt, PoolTypes, PoolSet
    <3>3. price \in Nat
      BY PriceType
    <3> QED BY <3>2, <3>3, RatioType, MathAssumption DEF getTCR
  <2> QED BY <2>1, <2>2, MathAssumption DEF checkRecoveryMode
<1>2. Spec => []LedgerInv
  BY LedgerInvariance
<1>3. Spec => [][Kept]_vars
  BY <1>1, <1>2, PTL DEF Spec
<1> QED BY <1>3

-----------------------------------------------------------------------------
(* The books.  BooksInv lacks what makes it inductive: what a              *)
(* redistribution owes each trove before the division by the precision,    *)
(* how a liquidation's totals split, that nothing is in flight outside a   *)
(* loop, the array's indices, and the same books of the saved storage.     *)

collOf == [b \in Borrowers |-> Troves[b].coll]
debtOf == [b \in Borrowers |-> Troves[b].debt]
stakeOf == [b \in Borrowers |-> Troves[b].stake]
CollOwed == [b \in Borrowers |->
                 Troves[b].stake * (L_COLL - rewardSnapshots[b].COLL)]

StakesSummed == totalStakes = SumFunction(stakeOf)

TrovesSummed ==
    /\ activePool.coll = SumFunction(collOf) + totals.coll + redeeming.drawn
    /\ activePool.debt = SumFunction(debtOf) + totals.debt
                             + redeeming.redeemed

\* The default pool holds the collateral rewards owed to the troves and the
\* error the last redistribution has carried over.
RewardsHeld ==
    /\ \A b \in Borrowers : rewardSnapshots[b].COLL <= L_COLL
    /\ SumFunction(CollOwed) + lastETHError
           <= defaultPool.coll * DECIMAL_PRECISION

Indexed(owners, index) == \A i \in 1..Len(owners) : index[owners[i]] = i - 1

ListsAgree(owners, index, sorted, S) ==
    /\ Lists(owners, S)
    /\ Lists(sorted, S)
    /\ Indexed(owners, index)

TrovesListed == ListsAgree(TroveOwners, arrayIndex, sortedTroves, ActiveTroves)

OnlyInFlight ==
    /\ pc # "liquidating" => totals = zeroVals
    /\ pc # "redeeming" => redeeming.drawn = 0 /\ redeeming.redeemed = 0

\* The same of a storage with nothing in flight
StorageBooks(s) ==
    LET active == {b \in Borrowers : s.Troves[b].status = "active"}
        owed == [b \in Borrowers |-> s.Troves[b].stake
                                         * (s.L_COLL - s.rewardSnapshots[b].COLL)]
    IN /\ s.totalSupply = SumFunction(s.balances) + s.gasPoolUSDD
                              + s.stabilityPoolUSDD + s.stakingUSDD
       /\ s.stabilityPoolUSDD = s.stabilityPool.deposits
       /\ s.gasPoolUSDD = USDD_GAS_COMPENSATION * Cardinality(active)
       /\ SumFunction(s.surplusOf) = s.COLLS
       /\ s.activePool.coll = SumFunction([b \in Borrowers |-> s.Troves[b].coll])
       /\ s.activePool.debt = SumFunction([b \in Borrowers |-> s.Troves[b].debt])
       /\ s.totalStakes = SumFunction([b \in Borrowers |-> s.Troves[b].stake])
       /\ \A b \in Borrowers : s.rewardSnapshots[b].COLL <= s.L_COLL
       /\ SumFunction(owed) + s.lastETHError
              <= s.defaultPool.coll * DECIMAL_PRECISION
       /\ ListsAgree(s.TroveOwners, s.arrayIndex, s.sortedTroves, active)

SavedBooks == pc # "idle" => StorageBooks(saved)

AccountsInv ==
    /\ USDDAccountedFor
    /\ GasPoolReserved
    /\ SurplusBacked
    /\ TrovesSummed
    /\ StakesSummed
    /\ RewardsHeld
    /\ TrovesListed
    /\ Splits(totals)
    /\ OnlyInFlight
    /\ SavedBooks

-----------------------------------------------------------------------------
(* Lists *)

\* An owner inserted anywhere is listed with the others.
LEMMA ListInsert ==
    ASSUME NEW S \in SUBSET Borrowers, NEW list \in Seq(Borrowers), Lists(list, S),
           NEW b \in Borrowers, b \notin S, NEW i \in 1..(Len(list) + 1),
           NEW new, OneMore(new, list, i, b)
    PROVE  Lists(new, S \cup {b})
<1>1. IsFiniteSet(S)
  BY StateAssumption, FS_Subset
<1> QED BY <1>1, ListedInsert

\* An owner that is removed is listed no more, the others are.
LEMMA ListRemove ==
    ASSUME NEW S \in SUBSET Borrowers, NEW list \in Seq(Borrowers), Lists(list, S),
           NEW b \in S
    PROVE  Lists(Without(list, b), S \ {b}) /\ Without(list, b) \in Seq(Borrowers)
<1> DEFINE i == ListPosition(list, b)
           new == RemoveAt(list, i)
<1>1. i \in 1..Len(list) /\ list[i] = b
  BY DEF Lists, ListPosition
<1>2. IsFiniteSet(S)
  BY StateAssumption, FS_Subset
<1> HIDE DEF i
<1>3. OneLess(new, list, i) /\ new \in Seq(Borrowers)
  BY <1>1, RemovedAt DEF OneLess
<1> HIDE DEF new
<1>4. Lists(new, S \ {b})
  BY <1>1, <1>2, <1>3, ListedRemove
<1>5. Without(list, b) = new
  BY DEF Without, new, i
<1> QED BY <1>3, <1>4, <1>5

\* _addTroveOwnerToArray: the new owner comes last, at the index it is told.
LEMMA OwnerAdded ==
    ASSUME NEW S \in SUBSET Borrowers, NEW owners \in Seq(Borrowers),
           NEW index \in [Borrowers -> Nat], Lists(owners, S), Indexed(owners, index),
           NEW b \in Borrowers, b \notin S
    PROVE  /\ Lists(Append(owners, b), S \cup {b})
           /\ Indexed(Append(owners, b), [index EXCEPT ![b] = Len(owners)])
<1> DEFINE new == Append(owners, b)
           n == Len(owners)
<1>1. /\ n \in Nat /\ Len(new) = n + 1 /\ new[n + 1] = b
      /\ \A j \in 1..n : new[j] = owners[j]
  OBVIOUS
<1> HIDE DEF new
<1>2. OneMore(new, owners, n + 1, b)
  BY <1>1 DEF OneMore
<1>3. Lists(new, S \cup {b})
  <2>1. n + 1 \in 1..(Len(owners) + 1)
    BY <1>1
  <2> HIDE DEF n
  <2> QED BY <1>2, <2>1, ListInsert
<1>4. ASSUME NEW j \in 1..Len(new)
      PROVE  [index EXCEPT ![b] = n][new[j]] = j - 1
  <2>1. CASE j = n + 1
    BY <1>1, <2>1
  <2>2. CASE j # n + 1
    <3>1. j \in 1..Len(owners)
      BY <1>1, <2>2
    <3>2. owners[j] \in S
      BY <3>1 DEF Lists
    <3>3. index[owners[j]] = j - 1
      BY <3>1 DEF Indexed
    <3> QED BY <1>1, <3>1, <3>2, <3>3
  <2> QED BY <2>1, <2>2
<1> QED BY <1>3, <1>4 DEF Indexed, new

\* _removeTroveOwner: the last owner takes the place of the one removed and
\* is told its new index.
LEMMA OwnerRemoved ==
    ASSUME NEW S \in SUBSET Borrowers, NEW owners \in Seq(Borrowers),
           NEW index \in [Borrowers -> Nat], Lists(owners, S), Indexed(owners, index),
           NEW b \in S,
           NEW last, last = owners[Len(owners) - 1 + 1],
           NEW new, new = SubSeq([owners EXCEPT ![index[b] + 1] = last], 1, Len(owners) - 1)
    PROVE  /\ Lists(new, S \ {b})
           /\ Indexed(new, [index EXCEPT ![last] = index[b]])
<1> DEFINE n == Len(owners)
           p == index[b] + 1
           moved == [owners EXCEPT ![p] = last]
<1>1. n \in Nat /\ p \in 1..n /\ owners[p] = b
  <2>1. PICK i \in 1..Len(owners) : owners[i] = b
    BY DEF Lists
  <2>2. index[b] = i - 1
    BY <2>1 DEF Indexed
  <2> QED BY <2>1, <2>2
<1>2. last = owners[n] /\ last \in S /\ last \in Borrowers
  <2>1. n \in 1..n /\ n - 1 + 1 = n
    BY <1>1
  <2> QED BY <2>1 DEF Lists
<1>3. /\ moved \in Seq(Borrowers) /\ Len(moved) = n /\ moved[p] = last
      /\ \A j \in 1..n : j # p => moved[j] = owners[j]
  BY <1>1, <1>2
<1>4. /\ Len(new) = n - 1
      /\ \A j \in 1..(n - 1) : new[j] = moved[j]
  <2> HIDE DEF moved
  <2>1. new = SubSeq(moved, 1, n - 1)
    BY DEF moved
  <2>2. \A j \in 1..(n - 1) : moved[j] \in Borrowers
    BY <1>1, <1>3
  <2> HIDE DEF n
  <2>3. /\ Len(new) = IF 1 <= n - 1 THEN n - 1 - 1 + 1 ELSE 0
        /\ \A j \in 1..(n - 1 - 1 + 1) : new[j] = moved[1 + j - 1]
    BY <1>1, <2>1, <2>2, SubSeqProperties
  <2>4. n \in Nat /\ n >= 1 /\ n - 1 - 1 + 1 = n - 1
    BY <1>1
  <2>5. Len(new) = n - 1
    BY <2>3, <2>4
  <2>6. ASSUME NEW j \in 1..(n - 1) PROVE new[j] = moved[j]
    <3>1. j \in 1..(n - 1 - 1 + 1) /\ 1 + j - 1 = j
      BY <2>4
    <3> QED BY <2>3, <3>1
  <2> QED BY <2>5, <2>6
<1>5. \A j \in 1..(n - 1) : new[j] = IF j = p THEN owners[n] ELSE owners[j]
  <2> TAKE j \in 1..(n - 1)
  <2> HIDE DEF moved, n, p
  <2>1. j \in 1..n /\ new[j] = moved[j]
    BY <1>1, <1>4
  <2> QED BY <1>2, <1>3, <2>1
<1>6. \A j, k \in 1..n : owners[j] = owners[k] => j = k
  BY DEF Lists
<1>7. index[b] = p - 1
  OBVIOUS
<1> HIDE DEF moved, p, n
<1> DEFINE at(m) == IF m = p THEN n ELSE m
<1>8. \A m \in 1..Len(new) : at(m) \in 1..n /\ at(m) # p /\ new[m] = owners[at(m)]
  BY <1>1, <1>4, <1>5
<1>9. \A m \in 1..Len(new) : new[m] \in S \ {b}
  <2> TAKE m \in 1..Len(new)
  <2>1. at(m) \in 1..n /\ at(m) # p /\ new[m] = owners[at(m)]
    BY <1>8
  <2> HIDE DEF at
  <2>2. owners[at(m)] \in S /\ owners[at(m)] # owners[p]
    BY <1>1, <1>6, <2>1 DEF Lists, n
  <2> QED BY <1>1, <2>1, <2>2
<1>10. ASSUME NEW c \in S \ {b} PROVE \E j \in 1..Len(new) : new[j] = c
  <2>1. PICK j \in 1..n : owners[j] = c
    BY DEF Lists, n
  <2>2. j # p
    BY <1>1, <2>1
  <2>3. CASE j = n
    BY <1>1, <1>4, <1>5, <2>1, <2>2, <2>3
  <2>4. CASE j # n
    BY <1>1, <1>4, <1>5, <2>1, <2>2, <2>4
  <2> QED BY <2>3, <2>4
<1>11. ASSUME NEW j \in 1..Len(new), NEW k \in 1..Len(new), new[j] = new[k]
       PROVE  j = k
  <2>1. at(j) = at(k)
    <3>1. /\ at(j) \in 1..n /\ at(k) \in 1..n /\ owners[at(j)] = owners[at(k)]
      BY <1>8, <1>11
    <3> HIDE DEF at
    <3> QED BY <1>6, <3>1
  <2> QED BY <1>1, <1>4, <2>1
<1>12. Len(new) = Cardinality(S \ {b})
  <2>1. IsFiniteSet(S)
    BY StateAssumption, FS_Subset
  <2>2. Cardinality(S \ {b}) = Cardinality(S) - 1
    BY <2>1, FS_RemoveElement
  <2> QED BY <1>4, <2>2 DEF Lists, n
<1>13. ASSUME NEW j \in 1..Len(new)
       PROVE  [index EXCEPT ![last] = index[b]][new[j]] = j - 1
  <2>1. CASE j = p
    <3>1. new[j] = last
      BY <1>2, <1>4, <1>5, <2>1
    <3> QED BY <1>2, <1>7, <2>1, <3>1
  <2>2. CASE j # p
    <3>1. new[j] = owners[j] /\ j \in 1..n /\ j # n
      BY <1>1, <1>4, <1>5, <2>2
    <3>2. owners[j] # last /\ owners[j] \in Borrowers
      BY <1>1, <1>2, <1>6, <3>1 DEF Lists, n
    <3>3. index[owners[j]] = j - 1
      BY <3>1 DEF Indexed, n
    <3> QED BY <3>1, <3>2, <3>3
  <2> QED BY <2>1, <2>2
<1> QED BY <1>9, <1>10, <1>11, <1>12, <1>13 DEF Lists, Indexed

-----------------------------------------------------------------------------
(* Sums over the troves *)

\* The amounts of a trove and of its snapshot are natural numbers.
LEMMA TroveFields ==
    ASSUME TroveTypes, NEW b \in Borrowers
    PROVE  /\ Troves[b].coll \in Nat /\ Troves[b].debt \in Nat
           /\ Troves[b].stake \in Nat
           /\ rewardSnapshots[b].COLL \in Nat
<1>1. Troves[b] \in TroveSet /\ rewardSnapshots[b] \in RewardSnapshotSet
  BY DEF TroveTypes
<1> QED BY <1>1 DEF TroveSet, RewardSnapshotSet

\* So their sums are sums of numbers.
LEMMA TablesTyped ==
    ASSUME TroveTypes, RewardTypes
    PROVE  /\ collOf \in [Borrowers -> Nat]
           /\ debtOf \in [Borrowers -> Nat]
           /\ stakeOf \in [Borrowers -> Nat]
           /\ CollOwed \in [Borrowers -> Int]
<1>1. /\ collOf \in [Borrowers -> Nat]
      /\ debtOf \in [Borrowers -> Nat]
      /\ stakeOf \in [Borrowers -> Nat]
  BY TroveFields DEF collOf, debtOf, stakeOf
<1>2. ASSUME NEW b \in Borrowers
      PROVE  Troves[b].stake * (L_COLL - rewardSnapshots[b].COLL) \in Int
  <2>1. L_COLL - rewardSnapshots[b].COLL \in Int /\ Troves[b].stake \in Int
    BY TroveFields DEF RewardTypes
  <2> QED BY <2>1
<1> QED BY <1>1, <1>2 DEF CollOwed

\* A step that rewrites one trove changes each sum by the difference.
LEMMA TroveRewritten ==
    ASSUME TroveTypes, RewardTypes, NEW b \in Borrowers, NEW tr \in TroveSet,
           NEW sn \in RewardSnapshotSet, L_COLL' = L_COLL,
           Troves' = [Troves EXCEPT ![b] = tr],
           rewardSnapshots' = [rewardSnapshots EXCEPT ![b] = sn]
    PROVE  /\ SumFunction(collOf)' = SumFunction(collOf) - Troves[b].coll + tr.coll
           /\ SumFunction(debtOf)' = SumFunction(debtOf) - Troves[b].debt + tr.debt
           /\ SumFunction(stakeOf)' =
                  SumFunction(stakeOf) - Troves[b].stake + tr.stake
           /\ SumFunction(CollOwed)' =
                  SumFunction(CollOwed) - CollOwed[b]
                      + tr.stake * (L_COLL - sn.COLL)
<1>1. /\ Troves \in [Borrowers -> TroveSet]
      /\ rewardSnapshots \in [Borrowers -> RewardSnapshotSet]
      /\ L_COLL \in Nat
  BY DEF TroveTypes, RewardTypes
<1>2. \A c \in Borrowers :
          /\ Troves'[c] = (IF c = b THEN tr ELSE Troves[c])
          /\ rewardSnapshots'[c] = (IF c = b THEN sn ELSE rewardSnapshots[c])
  BY <1>1
<1>3. /\ tr.coll \in Nat /\ tr.debt \in Nat /\ tr.stake \in Nat
      /\ sn.COLL \in Nat
  BY DEF TroveSet, RewardSnapshotSet
<1>4. ASSUME NEW f \in [Borrowers -> Int], NEW h \in [Borrowers -> Int], NEW x,
             h[b] = x, \A y \in Borrowers \ {b} : h[y] = f[y]
      PROVE  SumFunction(h) = SumFunction(f) - f[b] + x
  BY <1>4, SumUpdate, StateAssumption
<1>5. /\ collOf \in [Borrowers -> Int] /\ debtOf \in [Borrowers -> Int]
      /\ stakeOf \in [Borrowers -> Int] /\ CollOwed \in [Borrowers -> Int]
  BY TablesTyped
<1>6. SumFunction(collOf)' = SumFunction(collOf) - Troves[b].coll + tr.coll
  <2> DEFINE h == [c \in Borrowers |-> Troves'[c].coll]
  <2>1. /\ h \in [Borrowers -> Int] /\ h[b] = tr.coll
        /\ \A y \in Borrowers \ {b} : h[y] = collOf[y]
    BY <1>2, <1>3, TroveFields DEF collOf
  <2>2. SumFunction(collOf)' = SumFunction(h) /\ collOf[b] = Troves[b].coll
    BY DEF collOf
  <2> HIDE DEF h
  <2> QED BY <1>4, <1>5, <2>1, <2>2
<1>7. SumFunction(debtOf)' = SumFunction(debtOf) - Troves[b].debt + tr.debt
  <2> DEFINE h == [c \in Borrowers |-> Troves'[c].debt]
  <2>1. /\ h \in [Borrowers -> Int] /\ h[b] = tr.debt
        /\ \A y \in Borrowers \ {b} : h[y] = debtOf[y]
    BY <1>2, <1>3, TroveFields DEF debtOf
  <2>2. SumFunction(debtOf)' = SumFunction(h) /\ debtOf[b] = Troves[b].debt
    BY DEF debtOf
  <2> HIDE DEF h
  <2> QED BY <1>4, <1>5, <2>1, <2>2
<1>8. SumFunction(stakeOf)' = SumFunction(stakeOf) - Troves[b].stake + tr.stake
  <2> DEFINE h == [c \in Borrowers |-> Troves'[c].stake]
  <2>1. /\ h \in [Borrowers -> Int] /\ h[b] = tr.stake
        /\ \A y \in Borrowers \ {b} : h[y] = stakeOf[y]
    BY <1>2, <1>3, TroveFields DEF stakeOf
  <2>2. SumFunction(stakeOf)' = SumFunction(h) /\ stakeOf[b] = Troves[b].stake
    BY DEF stakeOf
  <2> HIDE DEF h
  <2> QED BY <1>4, <1>5, <2>1, <2>2
<1>9. SumFunction(CollOwed)' =
          SumFunction(CollOwed) - CollOwed[b] + tr.stake * (L_COLL - sn.COLL)
  <2> DEFINE h == [c \in Borrowers |->
                       Troves'[c].stake * (L_COLL' - rewardSnapshots'[c].COLL)]
  <2>1. h[b] = tr.stake * (L_COLL - sn.COLL)
    BY <1>2
  <2>2. tr.stake * (L_COLL - sn.COLL) \in Int
    <3>1. L_COLL - sn.COLL \in Int /\ tr.stake \in Int
      BY <1>1, <1>3
    <3> QED BY <3>1
  <2>3. \A y \in Borrowers \ {b} : h[y] = CollOwed[y]
    BY <1>2 DEF CollOwed
  <2>4. h = [c \in Borrowers |-> h[c]]
    OBVIOUS
  <2>5. SumFunction(CollOwed)' = SumFunction(h)
    BY DEF CollOwed
  <2> HIDE DEF h
  <2>6. h \in [Borrowers -> Int]
    <3>1. \A c \in Borrowers : h[c] \in Int
      BY <1>5, <2>1, <2>2, <2>3
    <3> QED BY <2>4, <3>1
  <2> QED BY <1>4, <1>5, <2>1, <2>3, <2>5, <2>6
<1> QED BY <1>6, <1>7, <1>8, <1>9

\* What a division rounds down multiplies back to no more.
LEMMA FloorBound ==
    ASSUME NEW x \in Nat, NEW y \in Nat, y > 0
    PROVE  (x \div y) * y <= x
  OBVIOUS

\* The collateral a trove can be paid is no more than it is owed.
LEMMA PendingOwed ==
    ASSUME TroveTypes, RewardTypes, NEW b \in Borrowers,
           rewardSnapshots[b].COLL <= L_COLL
    PROVE  /\ CollOwed[b] \in Nat
           /\ getPendingCollReward(b) \in Nat
           /\ getPendingCollReward(b) * DECIMAL_PRECISION <= CollOwed[b]
           /\ appliedColl(b) \in Nat
           /\ appliedColl(b) * DECIMAL_PRECISION <= CollOwed[b]
<1>1. DECIMAL_PRECISION \in Nat /\ DECIMAL_PRECISION > 0
  BY MathAssumption
<1>2. CollOwed[b] = Troves[b].stake * (L_COLL - rewardSnapshots[b].COLL)
  BY DEF CollOwed
<1>3. CollOwed[b] \in Nat
  <2>1. Troves[b].stake \in Nat /\ L_COLL - rewardSnapshots[b].COLL \in Nat
    BY TroveFields DEF RewardTypes
  <2> QED BY <1>2, <2>1
<1>4. \/ getPendingCollReward(b) = CollOwed[b] \div DECIMAL_PRECISION
      \/ getPendingCollReward(b) = 0
  BY <1>2 DEF getPendingCollReward
<1>5. /\ getPendingCollReward(b) \in Nat
      /\ getPendingCollReward(b) * DECIMAL_PRECISION <= CollOwed[b]
  <2> DEFINE x == CollOwed[b]
  <2>1. /\ x \div DECIMAL_PRECISION \in Nat
        /\ (x \div DECIMAL_PRECISION) * DECIMAL_PRECISION <= x
    <3> HIDE DEF x
    <3>1. x \in Nat
      BY <1>3 DEF x
    <3> QED BY <1>1, <3>1, DivNat, FloorBound
  <2> QED BY <1>1, <1>3, <1>4, <2>1
<1>6. appliedColl(b) = getPendingCollReward(b) \/ appliedColl(b) = 0
  BY DEF appliedColl
<1> QED BY <1>1, <1>3, <1>5, <1>6

\* A trove that is rewritten is owed nothing more: its rewards have been
\* paid out of the default pool, rounded down, or it has no stake.
LEMMA TroveMoved ==
    ASSUME TroveTypes, RewardTypes, PoolTypes, StakesSummed, RewardsHeld,
           NEW b \in Borrowers, NEW tr \in TroveSet, NEW sn \in RewardSnapshotSet,
           NEW paid \in Nat, paid * DECIMAL_PRECISION <= CollOwed[b],
           sn.COLL = L_COLL \/ (tr.stake = 0 /\ sn.COLL <= L_COLL),
           Troves' = [Troves EXCEPT ![b] = tr],
           rewardSnapshots' = [rewardSnapshots EXCEPT ![b] = sn],
           totalStakes' = totalStakes - Troves[b].stake + tr.stake,
           defaultPool'.coll = defaultPool.coll - paid,
           UNCHANGED <<L_COLL, lastETHError>>
    PROVE  RewardsHeld' /\ StakesSummed'
<1>1. /\ SumFunction(stakeOf)' = SumFunction(stakeOf) - Troves[b].stake + tr.stake
      /\ SumFunction(CollOwed)' =
             SumFunction(CollOwed) - CollOwed[b] + tr.stake * (L_COLL - sn.COLL)
  BY TroveRewritten
<1>2. StakesSummed'
  BY <1>1 DEF StakesSummed
<1>3. /\ L_COLL \in Nat /\ lastETHError \in Nat /\ defaultPool.coll \in Nat
      /\ CollOwed \in [Borrowers -> Int]
      /\ DECIMAL_PRECISION \in Nat
      /\ tr.stake \in Nat /\ sn.COLL \in Nat
  BY PoolFields, TablesTyped, MathAssumption
     DEF RewardTypes, TroveSet, RewardSnapshotSet
<1>4. \A c \in Borrowers : rewardSnapshots'[c].COLL <= L_COLL'
  <2>1. sn.COLL <= L_COLL
    BY <1>3
  <2> QED BY <2>1 DEF RewardsHeld, TroveTypes
<1>5. tr.stake * (L_COLL - sn.COLL) = 0
  <2>1. CASE sn.COLL = L_COLL
    <3>1. L_COLL - sn.COLL = 0
      BY <1>3, <2>1
    <3> QED BY <1>3, <3>1
  <2>2. CASE tr.stake = 0
    <3>1. L_COLL - sn.COLL \in Int
      BY <1>3
    <3> QED BY <2>2, <3>1
  <2> QED BY <2>1, <2>2
<1>6. SumFunction(CollOwed) \in Int /\ CollOwed[b] \in Int
  BY <1>3, SumType, StateAssumption
<1>7. (defaultPool.coll - paid) * DECIMAL_PRECISION
          = defaultPool.coll * DECIMAL_PRECISION - paid * DECIMAL_PRECISION
  BY <1>3
<1>8. /\ defaultPool.coll * DECIMAL_PRECISION \in Int
      /\ paid * DECIMAL_PRECISION \in Int
  BY <1>3
<1>9. SumFunction(CollOwed)' = SumFunction(CollOwed) - CollOwed[b]
  BY <1>1, <1>5, <1>6
<1>10. SumFunction(CollOwed)' + lastETHError
          <= (defaultPool.coll - paid) * DECIMAL_PRECISION
  BY <1>3, <1>6, <1>7, <1>8, <1>9 DEF RewardsHeld
<1>11. RewardsHeld'
  BY <1>4, <1>10 DEF RewardsHeld
<1> QED BY <1>2, <1>11

\* A positive factor may be taken off both sides.
LEMMA MultiplierCancels ==
    ASSUME NEW p \in Int, NEW q \in Nat, NEW d \in Nat, d > 0, d * p <= q * d
    PROVE  p <= q
<1>1. CASE p <= q
  BY <1>1
<1>2. CASE p > q
  <2>1. d * (p - q) >= 1
    <3>1. p - q \in Nat /\ p - q >= 1
      BY <1>2
    <3> QED BY <3>1
  <2>2. d * (p - q) = d * p - q * d
    OBVIOUS
  <2>3. d * p \in Int /\ q * d \in Int
    OBVIOUS
  <2> QED BY <2>1, <2>2, <2>3
<1> QED BY <1>1, <1>2

\* The rewards the troves may claim, each rounded down, add up to no more
\* than the default pool holds.
LEMMA RewardsCovered ==
    ASSUME TroveTypes, RewardTypes, PoolTypes, RewardsHeld
    PROVE  CollRewardsCovered
<1> DEFINE D == DECIMAL_PRECISION
           pending == [b \in Borrowers |-> getPendingCollReward(b)]
           zero == [b \in Borrowers |-> 0]
           scaled == [b \in Borrowers |-> D * pending[b]]
<1>1. /\ D \in Nat /\ D > 0 /\ defaultPool.coll \in Nat /\ lastETHError \in Nat
      /\ CollOwed \in [Borrowers -> Int] /\ IsFiniteSet(Borrowers)
  BY MathAssumption, PoolFields, TablesTyped, StateAssumption DEF RewardTypes
<1>2. \A b \in Borrowers : /\ pending[b] \in Nat
                           /\ pending[b] * D <= CollOwed[b]
  BY PendingOwed DEF RewardsHeld
<1>3. pending \in [Borrowers -> Int] /\ zero \in [Borrowers -> Int]
  BY <1>2
<1> HIDE DEF D, pending
<1>4. scaled \in [Borrowers -> Int]
  BY <1>1, <1>3
<1>5. Combines(scaled, zero, D, pending, Borrowers)
  <2> SUFFICES ASSUME NEW b \in Borrowers PROVE scaled[b] = zero[b] + D * pending[b]
    BY DEF Combines
  <2>1. D * pending[b] \in Int
    BY <1>1, <1>3
  <2> QED BY <2>1
<1>6. \A b \in Borrowers : scaled[b] <= CollOwed[b]
  <2> TAKE b \in Borrowers
  <2>1. D * pending[b] = pending[b] * D
    BY <1>1, <1>2
  <2> QED BY <1>2, <2>1
<1>7. \A b \in Borrowers : zero[b] = 0
  OBVIOUS
<1> HIDE DEF scaled, zero
<1>8. SumFunction(zero) = 0
  BY <1>1, <1>3, <1>7, SumZero
<1>9. SumFunction(scaled) = SumFunction(zero) + D * SumFunction(pending)
  BY <1>1, <1>3, <1>4, <1>5, SumLinear
<1>10. SumFunction(scaled) <= SumFunction(CollOwed)
  BY <1>1, <1>4, <1>6, SumMonotone
<1>11. SumFunction(CollOwed) + lastETHError <= defaultPool.coll * D
  BY DEF RewardsHeld, D
<1>12. SumFunction(pending) \in Int /\ SumFunction(CollOwed) \in Int
  BY <1>1, <1>3, SumType
<1> DEFINE p == SumFunction(pending)
           q == defaultPool.coll
<1>13. /\ p \in Int /\ q \in Nat
       /\ D * p <= q * D
  <2>1. D * p \in Int /\ q * D \in Int
    BY <1>1, <1>12
  <2> HIDE DEF q
  <2> QED BY <1>1, <1>8, <1>9, <1>10, <1>11, <1>12, <2>1 DEF q
<1> HIDE DEF p, q
<1>14. p <= q
  BY <1>1, <1>13, MultiplierCancels
<1> QED BY <1>14 DEF CollRewardsCovered, SumOver, p, q, pending

\* The inductive invariant says what BooksInv says.
LEMMA AccountsAreBooks ==
    ASSUME LedgerInv, AccountsInv
    PROVE  BooksInv
<1>1. /\ TroveTypes /\ RewardTypes /\ PoolTypes
      /\ TrovesSummed /\ RewardsHeld /\ TrovesListed
  BY DEF LedgerInv, TypeOK, AccountsInv
<1>2. CollRewardsCovered
  BY <1>1, RewardsCovered
<1>3. ActivePoolMatchesTroves
  BY <1>1 DEF TrovesSummed, ActivePoolMatchesTroves, SumOver, collOf, debtOf
<1>4. OwnersListed
  <2>1. /\ TroveOwners \in Seq(Borrowers) /\ sortedTroves \in Seq(Borrowers)
        /\ Lists(TroveOwners, ActiveTroves) /\ Lists(sortedTroves, ActiveTroves)
        /\ Indexed(TroveOwners, arrayIndex)
    BY <1>1 DEF TroveTypes, TrovesListed, ListsAgree
  <2>2. ASSUME NEW list \in Seq(Borrowers), Lists(list, ActiveTroves)
        PROVE  ToSet(list) = ActiveTroves
    <3>1. DOMAIN list = 1..Len(list)
      OBVIOUS
    <3>2. ToSet(list) = {list[i] : i \in 1..Len(list)}
      BY <3>1 DEF ToSet
    <3> QED BY <2>2, <3>2 DEF Lists
  <2>3. ASSUME NEW b \in ActiveTroves
        PROVE  arrayIndex[b] < Len(TroveOwners) /\ TroveOwners[arrayIndex[b] + 1] = b
    <3>1. PICK i \in 1..Len(TroveOwners) : TroveOwners[i] = b
      BY <2>1 DEF Lists
    <3>2. arrayIndex[b] = i - 1
      BY <2>1, <3>1 DEF Indexed
    <3> QED BY <2>1, <3>1, <3>2
  <2> QED BY <2>1, <2>2, <2>3 DEF OwnersListed, Lists
<1> QED BY <1>2, <1>3, <1>4 DEF AccountsInv, BooksInv

-----------------------------------------------------------------------------
(* Steps *)

\* The totals of a liquidation that has not begun.
LEMMA ZeroTotals ==
    /\ zeroVals.coll = 0 /\ zeroVals.debt = 0 /\ zeroVals.gasUSDD = 0
    /\ zeroVals.collSurplus = 0 /\ Splits(zeroVals)
  BY DEF zeroVals, Values, Splits

\* Between transactions nothing is in flight, and a transaction that is one
\* step leaves it so.
LEMMA TransactBooks ==
    ASSUME AccountsInv, Transact, UNCHANGED <<liqVars, redVars>>
    PROVE  /\ Splits(totals)' /\ OnlyInFlight' /\ SavedBooks'
           /\ totals' = totals /\ redeeming' = redeeming
           /\ totals.coll = 0 /\ totals.debt = 0 /\ totals.gasUSDD = 0
           /\ totals.collSurplus = 0
           /\ redeeming.drawn = 0 /\ redeeming.redeemed = 0
<1>1. /\ pc = "idle" /\ pc' = pc /\ totals' = totals /\ redeeming' = redeeming
  BY DEF Transact, liqVars, redVars
<1>2. totals = zeroVals /\ redeeming.drawn = 0 /\ redeeming.redeemed = 0
  BY <1>1 DEF AccountsInv, OnlyInFlight
<1>3. OnlyInFlight' /\ SavedBooks' /\ Splits(totals)'
  BY <1>1 DEF AccountsInv, OnlyInFlight, SavedBooks, Splits
<1> QED BY <1>1, <1>2, <1>3, ZeroTotals

\* The conjuncts that only look at the troves are kept when those are.
LEMMA TrovesKept ==
    ASSUME AccountsInv, UNCHANGED <<troveVars, rewardVars, defaultPool>>
    PROVE  /\ StakesSummed' /\ RewardsHeld' /\ TrovesListed'
           /\ ActiveTroves' = ActiveTroves
           /\ SumFunction(collOf)' = SumFunction(collOf)
           /\ SumFunction(debtOf)' = SumFunction(debtOf)
<1>1. /\ collOf' = collOf /\ debtOf' = debtOf /\ stakeOf' = stakeOf
      /\ CollOwed' = CollOwed /\ ActiveTroves' = ActiveTroves
  BY DEF troveVars, rewardVars, collOf, debtOf, stakeOf, CollOwed,
     ActiveTroves, Active
<1> QED
  BY <1>1 DEF AccountsInv, troveVars, rewardVars, StakesSummed, RewardsHeld,
     TrovesListed

\* A user's balance changes: so does the sum of the balances.
LEMMA BalanceChanged ==
    ASSUME TokenTypes, NEW u \in Users, NEW x \in Int,
           balances' = [balances EXCEPT ![u] = @ + x]
    PROVE  SumFunction(balances)' = SumFunction(balances) + x
<1>1. IsFiniteSet(Users)
  BY StateAssumption, FS_Union DEF Users
<1> DEFINE h == [balances EXCEPT ![u] = @ + x]
<1>2. /\ balances \in [Users -> Int] /\ h \in [Users -> Int]
      /\ h[u] = balances[u] + x /\ balances[u] \in Int
      /\ \A y \in Users \ {u} : h[y] = balances[y]
  BY DEF TokenTypes
<1> HIDE DEF h
<1>3. SumFunction(h) = SumFunction(balances) - balances[u] + h[u]
  BY <1>1, <1>2, SumUpdate
<1>4. SumFunction(balances) \in Int
  BY <1>1, <1>2, SumType
<1>5. SumFunction(h) = SumFunction(balances) + x
  BY <1>2, <1>3, <1>4
<1> QED BY <1>5 DEF h

\* The same for a surplus.
LEMMA SurplusChanged ==
    ASSUME PoolTypes, NEW b \in Borrowers, NEW x \in Int,
           surplusOf' = [surplusOf EXCEPT ![b] = x]
    PROVE  SumFunction(surplusOf)' = SumFunction(surplusOf) - surplusOf[b] + x
<1> DEFINE h == [surplusOf EXCEPT ![b] = x]
<1>1. /\ surplusOf \in [Borrowers -> Int] /\ h \in [Borrowers -> Int] /\ h[b] = x
      /\ \A y \in Borrowers \ {b} : h[y] = surplusOf[y]
  BY DEF PoolTypes
<1> HIDE DEF h
<1>2. SumFunction(h) = SumFunction(surplusOf) - surplusOf[b] + h[b]
  BY <1>1, SumUpdate, StateAssumption
<1> QED BY <1>1, <1>2 DEF h

\* The sums of the tables are numbers.
LEMMA SumsTyped ==
    ASSUME TypeOK
    PROVE  /\ SumFunction(balances) \in Nat /\ SumFunction(surplusOf) \in Nat
           /\ SumFunction(collOf) \in Nat /\ SumFunction(debtOf) \in Nat
           /\ SumFunction(stakeOf) \in Nat
<1>1. /\ TroveTypes /\ RewardTypes /\ PoolTypes /\ TokenTypes
  BY DEF TypeOK
<1>2. IsFiniteSet(Users) /\ IsFiniteSet(Borrowers)
  BY StateAssumption, FS_Union DEF Users
<1>3. balances \in [Users -> Nat] /\ surplusOf \in [Borrowers -> Nat]
  BY <1>1 DEF PoolTypes, TokenTypes
<1>4. SumFunction(balances) \in Nat /\ SumFunction(surplusOf) \in Nat
  BY <1>2, <1>3, SumNat
<1>5. /\ SumFunction(collOf) \in Nat /\ SumFunction(debtOf) \in Nat
      /\ SumFunction(stakeOf) \in Nat
  BY <1>1, <1>2, TablesTyped, SumNat
<1> QED BY <1>4, <1>5

\* A claim takes the same from the recorded surpluses as from the pool.
LEMMA ClaimBooks ==
    ASSUME LedgerInv, AccountsInv, UNCHANGED <<liqVars, redVars>>,
           NEW b \in Borrowers, claimCollateral(b)
    PROVE  AccountsInv'
<1>1. /\ TypeOK /\ PoolTypes /\ SurplusBacked /\ TrovesSummed /\ USDDAccountedFor
      /\ GasPoolReserved
  BY DEF LedgerInv, TypeOK, AccountsInv
<1>2. /\ Transact
      /\ surplusOf' = [surplusOf EXCEPT ![b] = 0]
      /\ COLLS' = COLLS - surplusOf[b]
      /\ UNCHANGED <<troveVars, snapshotVars, rewardVars, activePool,
                     defaultPool, stabilityPool, stakingColl, usddVars>>
  BY DEF claimCollateral
<1>3. /\ Splits(totals)' /\ OnlyInFlight' /\ SavedBooks'
      /\ totals' = totals /\ redeeming' = redeeming /\ totals.collSurplus = 0
  BY <1>2, TransactBooks
<1>4. /\ StakesSummed' /\ RewardsHeld' /\ TrovesListed'
      /\ ActiveTroves' = ActiveTroves
      /\ SumFunction(collOf)' = SumFunction(collOf)
      /\ SumFunction(debtOf)' = SumFunction(debtOf)
  BY <1>2, TrovesKept
<1>5. TrovesSummed'
  BY <1>1, <1>2, <1>3, <1>4 DEF TrovesSummed
<1>6. SurplusBacked'
  <2>1. ASSUME NEW x \in Int, x = 0
        PROVE  SumFunction(surplusOf)' = SumFunction(surplusOf) - surplusOf[b] + x
    BY <1>1, <1>2, <2>1, SurplusChanged
  <2>2. /\ surplusOf[b] \in Int /\ COLLS \in Int
        /\ SumFunction(surplusOf) \in Int
    BY <1>1, SumsTyped DEF PoolTypes
  <2>3. SumFunction(surplusOf)' = SumFunction(surplusOf) - surplusOf[b]
    BY <2>1, <2>2
  <2> QED BY <1>1, <1>2, <1>3, <2>2, <2>3 DEF SurplusBacked
<1>7. USDDAccountedFor' /\ GasPoolReserved'
  BY <1>1, <1>2, <1>3, <1>4 DEF USDDAccountedFor, GasPoolReserved, usddVars
<1> QED BY <1>3, <1>4, <1>5, <1>6, <1>7 DEF AccountsInv

\* A deposit or a withdrawal moves the same amount of USDD as it records.
LEMMA DepositorBooks ==
    ASSUME LedgerInv, AccountsInv, UNCHANGED <<liqVars, redVars>>,
           NEW u \in Users, NEW price \in Prices, DepositorStep(u, price)
    PROVE  AccountsInv'
<1> PICK a \in DepositAmounts, gain \in collGains :
        provideToSP(u, a, gain) \/ withdrawFromSP(u, a, gain, price)
  BY DEF DepositorStep
<1>1. /\ TypeOK /\ PoolTypes /\ TokenTypes
      /\ SurplusBacked /\ TrovesSummed /\ USDDAccountedFor /\ GasPoolReserved
  BY DEF LedgerInv, TypeOK, AccountsInv
<1>2. a \in Nat
  BY BorrowerAssumption
<1>3. /\ UNCHANGED <<troveVars, snapshotVars, rewardVars, activePool,
                     defaultPool, COLLS, surplusOf, stakingColl, totalSupply,
                     gasPoolUSDD, stakingUSDD>>
      /\ Transact
  BY DEF provideToSP, withdrawFromSP
<1>4. /\ Splits(totals)' /\ OnlyInFlight' /\ SavedBooks'
      /\ totals' = totals /\ redeeming' = redeeming
  BY <1>3, TransactBooks
<1>5. /\ StakesSummed' /\ RewardsHeld' /\ TrovesListed'
      /\ ActiveTroves' = ActiveTroves
      /\ SumFunction(collOf)' = SumFunction(collOf)
      /\ SumFunction(debtOf)' = SumFunction(debtOf)
  BY <1>3, TrovesKept
<1>6. TrovesSummed' /\ SurplusBacked' /\ GasPoolReserved'
  BY <1>1, <1>3, <1>4, <1>5 DEF TrovesSummed, SurplusBacked, GasPoolReserved
<1>7. PICK x \in Int : /\ balances' = [balances EXCEPT ![u] = @ + x]
                       /\ stabilityPoolUSDD' = stabilityPoolUSDD - x
                       /\ stabilityPool'.deposits = stabilityPool.deposits - x
  <2>1. /\ stabilityPoolUSDD \in Int /\ stabilityPool.deposits \in Int
        /\ balances[u] \in Int
    BY <1>1, PoolFields DEF TokenTypes
  <2>2. CASE provideToSP(u, a, gain)
    <3> DEFINE w == 0 - a
    <3>1. /\ w \in Int /\ balances[u] - a = balances[u] + w
          /\ stabilityPoolUSDD + a = stabilityPoolUSDD - w
          /\ stabilityPool.deposits + a = stabilityPool.deposits - w
      BY <1>2, <2>1
    <3> HIDE DEF w
    <3>2. /\ balances' = [balances EXCEPT ![u] = balances[u] - a]
          /\ stabilityPoolUSDD' = stabilityPoolUSDD + a
          /\ stabilityPool'.deposits = stabilityPool.deposits + a
      BY <2>2 DEF provideToSP
    <3>3. balances' = [balances EXCEPT ![u] = @ + w]
      BY <3>1, <3>2
    <3> QED BY <3>1, <3>2, <3>3
  <2>3. CASE withdrawFromSP(u, a, gain, price)
    <3> DEFINE w == min(a, stabilityPool.deposits)
    <3>1. w \in Int
      BY <1>2, <2>1 DEF min
    <3>2. /\ balances' = [balances EXCEPT ![u] = @ + w]
          /\ stabilityPoolUSDD' = stabilityPoolUSDD - w
          /\ stabilityPool'.deposits = stabilityPool.deposits - w
      BY <2>3 DEF withdrawFromSP
    <3> HIDE DEF w
    <3> QED BY <3>1, <3>2
  <2> QED BY <2>2, <2>3
<1>8. USDDAccountedFor'
  <2>1. SumFunction(balances)' = SumFunction(balances) + x
    BY <1>1, <1>7, BalanceChanged
  <2>2. /\ SumFunction(balances) \in Int /\ stabilityPoolUSDD \in Int
        /\ gasPoolUSDD \in Int /\ stakingUSDD \in Int
    BY <1>1, SumsTyped DEF TokenTypes
  <2> QED BY <1>1, <1>3, <1>7, <2>1, <2>2 DEF USDDAccountedFor
<1> QED BY <1>4, <1>5, <1>6, <1>8 DEF AccountsInv

\* A transfer takes from one user what it gives to the other.
LEMMA TransferBooks ==
    ASSUME LedgerInv, AccountsInv, UNCHANGED <<liqVars, redVars>>,
           NEW u \in Users, NEW v \in Users, NEW a \in TransferAmounts,
           transferUSDD(u, v, a)
    PROVE  AccountsInv'
<1>1. /\ TypeOK /\ PoolTypes /\ TokenTypes
      /\ SurplusBacked /\ TrovesSummed /\ USDDAccountedFor /\ GasPoolReserved
  BY DEF LedgerInv, TypeOK, AccountsInv
<1>2. a \in Nat
  BY BorrowerAssumption
<1>3. /\ UNCHANGED <<troveVars, snapshotVars, rewardVars, poolVars, totalSupply,
                     gasPoolUSDD, stabilityPoolUSDD, stakingUSDD>>
      /\ Transact /\ u # v
      /\ balances' = [w \in Users |-> CASE w = u -> balances[w] - a
                                        [] w = v -> balances[w] + a
                                        [] OTHER -> balances[w]]
  BY DEF transferUSDD
<1>4. /\ Splits(totals)' /\ OnlyInFlight' /\ SavedBooks'
      /\ totals' = totals /\ redeeming' = redeeming
  BY <1>3, TransactBooks
<1>5. /\ StakesSummed' /\ RewardsHeld' /\ TrovesListed'
      /\ ActiveTroves' = ActiveTroves
      /\ SumFunction(collOf)' = SumFunction(collOf)
      /\ SumFunction(debtOf)' = SumFunction(debtOf)
  BY <1>3, TrovesKept DEF poolVars
<1>6. TrovesSummed' /\ SurplusBacked' /\ GasPoolReserved'
  BY <1>1, <1>3, <1>4, <1>5
     DEF TrovesSummed, SurplusBacked, GasPoolReserved, poolVars
<1>7. SumFunction(balances)' = SumFunction(balances)
  <2> DEFINE g == [balances EXCEPT ![u] = @ - a]
             h == balances'
  <2>1. IsFiniteSet(Users)
    BY StateAssumption, FS_Union DEF Users
  <2>2. balances \in [Users -> Int] /\ g \in [Users -> Int] /\ h \in [Users -> Int]
    BY <1>1, <1>2, <1>3 DEF TokenTypes
  <2>3. /\ g[u] = balances[u] - a
        /\ \A y \in Users \ {u} : g[y] = balances[y]
    BY <2>2
  <2>4. /\ h[v] = g[v] + a
        /\ \A y \in Users \ {v} : h[y] = g[y]
    BY <1>3, <2>2, <2>3
  <2> HIDE DEF g, h
  <2>5. SumFunction(g) = SumFunction(balances) - balances[u] + g[u]
    BY <2>1, <2>2, <2>3, SumUpdate
  <2>6. SumFunction(h) = SumFunction(g) - g[v] + h[v]
    BY <2>1, <2>2, <2>4, SumUpdate
  <2>7. /\ SumFunction(balances) \in Int /\ SumFunction(g) \in Int
        /\ balances[u] \in Int /\ g[v] \in Int
    BY <2>1, <2>2, SumType
  <2> QED BY <1>2, <2>3, <2>4, <2>5, <2>6, <2>7 DEF h
<1>8. USDDAccountedFor'
  BY <1>1, <1>3, <1>7 DEF USDDAccountedFor, poolVars
<1> QED BY <1>4, <1>5, <1>6, <1>8 DEF AccountsInv

-----------------------------------------------------------------------------
(* Transactions with a loop: begin, skip and revert *)

\* The books are saved as they are, with nothing in flight.
LEMMA BeginBooks ==
    ASSUME LedgerInv, AccountsInv, NEW loop \in {"liquidating", "redeeming"},
           BeginTx(loop),
           UNCHANGED <<troveVars, snapshotVars, rewardVars, poolVars, usddVars>>,
           totals' = zeroVals, redeeming'.drawn = 0, redeeming'.redeemed = 0
    PROVE  AccountsInv'
<1>1. /\ pc = "idle" /\ saved' = Storage
  BY DEF BeginTx
<1>2. /\ USDDAccountedFor /\ GasPoolReserved /\ SurplusBacked /\ TrovesSummed
      /\ StakesSummed /\ RewardsHeld /\ TrovesListed
      /\ totals = zeroVals /\ redeeming.drawn = 0 /\ redeeming.redeemed = 0
  BY <1>1 DEF AccountsInv, OnlyInFlight
<1>3. /\ StakesSummed' /\ RewardsHeld' /\ TrovesListed'
      /\ ActiveTroves' = ActiveTroves
      /\ SumFunction(collOf)' = SumFunction(collOf)
      /\ SumFunction(debtOf)' = SumFunction(debtOf)
  BY TrovesKept DEF poolVars
<1>4. USDDAccountedFor' /\ GasPoolReserved' /\ SurplusBacked' /\ TrovesSummed'
  BY <1>2, <1>3 DEF USDDAccountedFor, GasPoolReserved, SurplusBacked,
     TrovesSummed, poolVars, usddVars
<1>5. Splits(totals)' /\ OnlyInFlight'
  BY ZeroTotals DEF OnlyInFlight
<1>6. StorageBooks(Storage)
  <2>1. TypeOK
    BY DEF LedgerInv
  <2>2. /\ totalSupply = SumFunction(balances) + gasPoolUSDD
                             + stabilityPoolUSDD + stakingUSDD
        /\ stabilityPoolUSDD = stabilityPool.deposits
    BY <1>2 DEF USDDAccountedFor
  <2>3. /\ gasPoolUSDD = USDD_GAS_COMPENSATION * Cardinality(ActiveTroves)
        /\ SumFunction(surplusOf) = COLLS
        /\ activePool.coll = SumFunction(collOf)
        /\ activePool.debt = SumFunction(debtOf)
    <3>1. /\ SumFunction(collOf) \in Nat /\ SumFunction(debtOf) \in Nat
          /\ COLLS \in Nat
      BY <2>1, SumsTyped DEF TypeOK, PoolTypes
    <3>2. USDD_GAS_COMPENSATION * Cardinality(ActiveTroves) \in Nat
      <4>1. Cardinality(ActiveTroves) \in Nat
        <5>1. ActiveTroves \in SUBSET Borrowers
          BY DEF ActiveTroves
        <5> QED BY <5>1, FS_Subset, FS_CardinalityType, StateAssumption
      <4> QED BY <4>1, MathAssumption
    <3> QED BY <1>2, <3>1, <3>2, ZeroTotals
            DEF GasPoolReserved, SurplusBacked, TrovesSummed
  <2>4. /\ totalStakes = SumFunction(stakeOf)
        /\ \A b \in Borrowers : rewardSnapshots[b].COLL <= L_COLL
        /\ SumFunction(CollOwed) + lastETHError
               <= defaultPool.coll * DECIMAL_PRECISION
        /\ ListsAgree(TroveOwners, arrayIndex, sortedTroves, ActiveTroves)
    BY <1>2 DEF StakesSummed, RewardsHeld, TrovesListed
  <2> QED
    BY <2>2, <2>3, <2>4 DEF StorageBooks, Storage, collOf, debtOf, stakeOf,
       CollOwed, ActiveTroves, Active
<1>7. SavedBooks'
  BY <1>1, <1>6 DEF SavedBooks, StorageBooks
<1> QED BY <1>3, <1>4, <1>5, <1>7 DEF AccountsInv

\* A revert restores books that agree, with nothing in flight.
LEMMA RevertBooks ==
    ASSUME LedgerInv, LedgerInv', AccountsInv, pc # "idle", RevertTx,
           totals' = zeroVals, redeeming'.drawn = 0, redeeming'.redeemed = 0
    PROVE  AccountsInv'
<1>1. StorageBooks(saved) /\ pc' = "idle"
  BY DEF AccountsInv, SavedBooks, RevertTx
<1>2. /\ Troves' = saved.Troves /\ rewardSnapshots' = saved.rewardSnapshots
      /\ TroveOwners' = saved.TroveOwners /\ arrayIndex' = saved.arrayIndex
      /\ sortedTroves' = saved.sortedTroves /\ totalStakes' = saved.totalStakes
      /\ L_COLL' = saved.L_COLL /\ lastETHError' = saved.lastETHError
      /\ activePool' = saved.activePool /\ defaultPool' = saved.defaultPool
      /\ COLLS' = saved.COLLS /\ surplusOf' = saved.surplusOf
      /\ stabilityPool' = saved.stabilityPool /\ totalSupply' = saved.totalSupply
      /\ balances' = saved.balances /\ gasPoolUSDD' = saved.gasPoolUSDD
      /\ stabilityPoolUSDD' = saved.stabilityPoolUSDD
      /\ stakingUSDD' = saved.stakingUSDD
  BY DEF RevertTx
<1>3. /\ ActiveTroves' = {b \in Borrowers : saved.Troves[b].status = "active"}
      /\ collOf' = [b \in Borrowers |-> saved.Troves[b].coll]
      /\ debtOf' = [b \in Borrowers |-> saved.Troves[b].debt]
      /\ stakeOf' = [b \in Borrowers |-> saved.Troves[b].stake]
      /\ CollOwed' = [b \in Borrowers |->
             saved.Troves[b].stake * (saved.L_COLL - saved.rewardSnapshots[b].COLL)]
  BY <1>2 DEF ActiveTroves, Active, collOf, debtOf, stakeOf, CollOwed
<1>4. /\ totals'.coll = 0 /\ totals'.debt = 0 /\ totals'.gasUSDD = 0
      /\ totals'.collSurplus = 0
  BY ZeroTotals
<1>5. /\ activePool'.coll \in Nat /\ activePool'.debt \in Nat /\ COLLS' \in Nat
      /\ gasPoolUSDD' \in Nat
  BY DEF LedgerInv, TypeOK, PoolTypes, PoolSet, TokenTypes
<1>6. StakesSummed' /\ RewardsHeld' /\ TrovesListed'
  BY <1>1, <1>2, <1>3 DEF StorageBooks, StakesSummed, RewardsHeld, TrovesListed
<1>7. USDDAccountedFor'
  BY <1>1, <1>2 DEF StorageBooks, USDDAccountedFor
<1>8. GasPoolReserved' /\ SurplusBacked' /\ TrovesSummed'
  <2>1. /\ gasPoolUSDD' = USDD_GAS_COMPENSATION * Cardinality(ActiveTroves')
        /\ SumFunction(surplusOf') = COLLS'
        /\ activePool'.coll = SumFunction(collOf')
        /\ activePool'.debt = SumFunction(debtOf')
    BY <1>1, <1>2, <1>3 DEF StorageBooks
  <2>2. GasPoolReserved'
    BY <1>4, <1>5, <2>1 DEF GasPoolReserved
  <2>3. SurplusBacked'
    <3>1. \A c \in Nat : c + totals'.collSurplus = c
      BY <1>4
    <3>2. COLLS' + totals'.collSurplus = COLLS'
      BY <1>5, <3>1
    <3> QED BY <2>1, <3>2 DEF SurplusBacked
  <2>4. TrovesSummed'
    BY <1>4, <1>5, <2>1 DEF TrovesSummed
  <2> QED BY <2>2, <2>3, <2>4
<1>9. Splits(totals)' /\ OnlyInFlight' /\ SavedBooks'
  BY <1>1, ZeroTotals DEF OnlyInFlight, SavedBooks
<1> QED BY <1>6, <1>7, <1>8, <1>9 DEF AccountsInv

\* Skipping a trove changes no book.
LEMMA SkipBooks ==
    ASSUME AccountsInv, UNCHANGED redVars, skipTrove
    PROVE  AccountsInv'
<1>1. UNCHANGED <<liqArgs, totals, controlVars, troveVars, snapshotVars,
                  rewardVars, poolVars, usddVars, redeeming>>
  BY DEF skipTrove, redVars
<1>2. /\ StakesSummed' /\ RewardsHeld' /\ TrovesListed'
      /\ ActiveTroves' = ActiveTroves
      /\ SumFunction(collOf)' = SumFunction(collOf)
      /\ SumFunction(debtOf)' = SumFunction(debtOf)
  BY <1>1, TrovesKept DEF poolVars
<1> QED
  BY <1>1, <1>2 DEF AccountsInv, USDDAccountedFor, GasPoolReserved,
     SurplusBacked, TrovesSummed, Splits, OnlyInFlight, SavedBooks,
     controlVars, poolVars, usddVars

\* Nor does a step in which nothing happens.
LEMMA StutterBooks ==
    ASSUME AccountsInv, UNCHANGED vars
    PROVE  AccountsInv'
<1>1. UNCHANGED <<totals, controlVars, troveVars, rewardVars, poolVars,
                  usddVars, redeeming>>
  BY DEF vars, liqVars, redVars
<1>2. /\ StakesSummed' /\ RewardsHeld' /\ TrovesListed'
      /\ ActiveTroves' = ActiveTroves
      /\ SumFunction(collOf)' = SumFunction(collOf)
      /\ SumFunction(debtOf)' = SumFunction(debtOf)
  BY <1>1, TrovesKept DEF poolVars
<1> QED
  BY <1>1, <1>2 DEF AccountsInv, USDDAccountedFor, GasPoolReserved,
     SurplusBacked, TrovesSummed, Splits, OnlyInFlight, SavedBooks,
     controlVars, poolVars, usddVars

\* The end of a redemption takes what it has drawn and redeemed from the
\* active pool and from the redeemer.
LEMMA FinishRedemptionBooks ==
    ASSUME LedgerInv, AccountsInv, UNCHANGED liqVars,
           NEW rate \in RedemptionRates, finishRedemption(rate)
    PROVE  AccountsInv'
<1> DEFINE drawn == redeeming.drawn
           redeemed == redeeming.redeemed
           k == redArgs.redeemer
<1>1. /\ TypeOK /\ PoolTypes /\ TokenTypes /\ LoopTypes
      /\ SurplusBacked /\ TrovesSummed /\ USDDAccountedFor /\ GasPoolReserved
  BY DEF LedgerInv, TypeOK, AccountsInv
<1>2. drawn \in Nat /\ redeemed \in Nat
  BY <1>1 DEF LoopTypes, ProgressSet
<1>3. /\ pc = "redeeming"
      /\ activePool' = PoolMinus(activePool, drawn, redeemed)
      /\ totalSupply' = totalSupply - redeemed
      /\ balances' = [balances EXCEPT ![k] = balances[k] - redeemed]
      /\ noRedemption /\ CommitTx /\ totals' = totals
      /\ UNCHANGED <<troveVars, snapshotVars, rewardVars, defaultPool, COLLS,
                     surplusOf, stabilityPool, gasPoolUSDD,
                     stabilityPoolUSDD, stakingUSDD>>
  BY DEF finishRedemption, liqVars
<1>4. totals = zeroVals /\ pc' = "idle"
  BY <1>3 DEF AccountsInv, OnlyInFlight, CommitTx
<1>5. redeeming'.drawn = 0 /\ redeeming'.redeemed = 0
  BY <1>3 DEF noRedemption, Progress
<1>6. k \in Users
  BY <1>1, <1>3 DEF LoopTypes, RedArgsSet
<1>7. /\ StakesSummed' /\ RewardsHeld' /\ TrovesListed'
      /\ ActiveTroves' = ActiveTroves
      /\ SumFunction(collOf)' = SumFunction(collOf)
      /\ SumFunction(debtOf)' = SumFunction(debtOf)
  BY <1>3, TrovesKept
<1> HIDE DEF k
<1>8. TrovesSummed'
  <2>1. /\ activePool'.coll = activePool.coll - drawn
        /\ activePool'.debt = activePool.debt - redeemed
    BY <1>3 DEF PoolMinus
  <2>2. SumFunction(collOf) \in Nat /\ SumFunction(debtOf) \in Nat
    BY <1>1, SumsTyped
  <2> QED
    BY <1>1, <1>2, <1>3, <1>4, <1>5, <1>7, <2>1, <2>2, ZeroTotals
       DEF TrovesSummed
<1>9. USDDAccountedFor'
  <2> DEFINE x == 0 - redeemed
  <2>1. /\ x \in Int /\ balances[k] - redeemed = balances[k] + x
        /\ totalSupply - redeemed = totalSupply + x
    BY <1>1, <1>2, <1>6 DEF TokenTypes
  <2> HIDE DEF x
  <2>2. balances' = [balances EXCEPT ![k] = @ + x]
    BY <1>3, <2>1
  <2>3. SumFunction(balances)' = SumFunction(balances) + x
    BY <1>1, <1>6, <2>1, <2>2, BalanceChanged
  <2>4. /\ SumFunction(balances) \in Int /\ stabilityPoolUSDD \in Int
        /\ gasPoolUSDD \in Int /\ stakingUSDD \in Int
    BY <1>1, SumsTyped DEF TokenTypes
  <2> QED BY <1>1, <1>3, <2>1, <2>3, <2>4 DEF USDDAccountedFor
<1>10. GasPoolReserved' /\ SurplusBacked'
  BY <1>1, <1>3, <1>7 DEF GasPoolReserved, SurplusBacked
<1>11. Splits(totals)' /\ OnlyInFlight' /\ SavedBooks'
  BY <1>3, <1>4, <1>5, ZeroTotals DEF OnlyInFlight, SavedBooks
<1> QED BY <1>7, <1>8, <1>9, <1>10, <1>11 DEF AccountsInv

-----------------------------------------------------------------------------
(* Steps that change a trove *)

\* SortedTroves contains exactly the open troves.
LEMMA ContainsActive ==
    ASSUME TrovesListed, NEW b \in Borrowers
    PROVE  contains(b) <=> Active(b)
<1>1. Lists(sortedTroves, ActiveTroves)
  BY DEF TrovesListed, ListsAgree
<1>2. b \in ActiveTroves <=> Active(b)
  BY DEF ActiveTroves
<1> QED BY <1>1, <1>2 DEF Lists, contains

\* After _applyPendingRewards an open trove's snapshot is the current sum.
LEMMA AppliedIsCurrent ==
    ASSUME TroveTypes, RewardTypes, RewardsHeld, NEW b \in Borrowers, Active(b)
    PROVE  appliedSnapshot(b).COLL = L_COLL
<1>1. /\ rewardSnapshots[b].COLL <= L_COLL
      /\ rewardSnapshots[b].COLL \in Nat /\ L_COLL \in Nat
  BY TroveFields DEF RewardsHeld, RewardTypes
<1>2. CASE rewardSnapshots[b].COLL < L_COLL
  BY <1>2 DEF appliedSnapshot, hasPendingRewards
<1>3. CASE ~(rewardSnapshots[b].COLL < L_COLL)
  BY <1>1, <1>3 DEF appliedSnapshot, hasPendingRewards
<1> QED BY <1>2, <1>3

\* _closeTrove: the trove leaves both lists and every sum.
LEMMA TroveClosed ==
    ASSUME LedgerInv, AccountsInv, NEW b \in Borrowers, Active(b),
           NEW s \in StatusSet, s # "active", closeTrove(b, s),
           NEW paid \in Nat, paid * DECIMAL_PRECISION <= CollOwed[b],
           defaultPool'.coll = defaultPool.coll - paid,
           UNCHANGED rewardVars
    PROVE  /\ StakesSummed' /\ RewardsHeld' /\ TrovesListed'
           /\ Cardinality(ActiveTroves) \in Nat
           /\ Cardinality(ActiveTroves)' = Cardinality(ActiveTroves) - 1
           /\ SumFunction(collOf)' = SumFunction(collOf) - Troves[b].coll
           /\ SumFunction(debtOf)' = SumFunction(debtOf) - Troves[b].debt
<1> DEFINE tr == TroveOf(s, 0, 0, 0)
           sn == [COLL |-> 0, USDDDebt |-> 0]
<1>1. /\ TypeOK /\ TroveTypes /\ RewardTypes /\ PoolTypes
      /\ StakesSummed /\ RewardsHeld /\ TrovesListed
  BY DEF LedgerInv, TypeOK, AccountsInv
<1>2. /\ tr \in TroveSet /\ sn \in RewardSnapshotSet
      /\ tr.stake = 0 /\ tr.coll = 0 /\ tr.debt = 0 /\ tr.status = s
      /\ sn.COLL = 0
  BY DEF TroveOf, TroveSet, RewardSnapshotSet
<1>3. /\ Troves' = [Troves EXCEPT ![b] = tr]
      /\ rewardSnapshots' = [rewardSnapshots EXCEPT ![b] = sn]
      /\ totalStakes' = totalStakes - Troves[b].stake
      /\ removeTroveOwner(b)
      /\ sortedTroves' = Without(sortedTroves, b)
  BY DEF closeTrove, removeStake
<1>4. L_COLL' = L_COLL /\ lastETHError' = lastETHError /\ L_COLL \in Nat
  BY <1>1 DEF rewardVars, RewardTypes
<1> HIDE DEF tr, sn
<1>5. /\ SumFunction(collOf)' = SumFunction(collOf) - Troves[b].coll + tr.coll
      /\ SumFunction(debtOf)' = SumFunction(debtOf) - Troves[b].debt + tr.debt
  BY <1>1, <1>2, <1>3, <1>4, TroveRewritten
<1>6. /\ SumFunction(collOf) \in Nat /\ SumFunction(debtOf) \in Nat
      /\ Troves[b].coll \in Nat /\ Troves[b].debt \in Nat
      /\ Troves[b].stake \in Nat /\ totalStakes \in Nat
  BY <1>1, SumsTyped, TroveFields DEF TroveTypes
<1>7. /\ SumFunction(collOf)' = SumFunction(collOf) - Troves[b].coll
      /\ SumFunction(debtOf)' = SumFunction(debtOf) - Troves[b].debt
  BY <1>2, <1>5, <1>6
<1>8. StakesSummed' /\ RewardsHeld'
  <2>1. totalStakes' = totalStakes - Troves[b].stake + tr.stake
    BY <1>2, <1>3, <1>6
  <2>2. sn.COLL <= L_COLL
    BY <1>2, <1>4
  <2> QED BY <1>1, <1>2, <1>3, <1>4, <2>1, <2>2, TroveMoved
<1>9. b \in ActiveTroves /\ ActiveTroves' = ActiveTroves \ {b}
  <2>1. b \in ActiveTroves
    BY DEF ActiveTroves
  <2>2. \A c \in Borrowers : Active(c)' <=> c # b /\ Active(c)
    BY <1>1, <1>2, <1>3 DEF Active, TroveTypes
  <2> QED BY <2>1, <2>2 DEF ActiveTroves
<1>10. ActiveTroves \in SUBSET Borrowers /\ IsFiniteSet(ActiveTroves)
  <2>1. ActiveTroves \in SUBSET Borrowers
    BY DEF ActiveTroves
  <2> QED BY <2>1, FS_Subset, StateAssumption
<1>11. /\ Cardinality(ActiveTroves) \in Nat
       /\ Cardinality(ActiveTroves)' = Cardinality(ActiveTroves) - 1
  BY <1>9, <1>10, FS_RemoveElement, FS_CardinalityType
<1>12. TrovesListed'
  <2>1. /\ TroveOwners \in Seq(Borrowers) /\ sortedTroves \in Seq(Borrowers)
        /\ arrayIndex \in [Borrowers -> Nat]
        /\ Lists(TroveOwners, ActiveTroves) /\ Lists(sortedTroves, ActiveTroves)
        /\ Indexed(TroveOwners, arrayIndex)
    BY <1>1 DEF TroveTypes, TrovesListed, ListsAgree
  <2>2. Lists(sortedTroves', ActiveTroves')
    BY <1>3, <1>9, <1>10, <2>1, ListRemove
  <2>3. Lists(TroveOwners', ActiveTroves') /\ Indexed(TroveOwners', arrayIndex')
    BY <1>3, <1>9, <1>10, <2>1, OwnerRemoved DEF removeTroveOwner
  <2> QED BY <2>2, <2>3 DEF TrovesListed, ListsAgree
<1> QED BY <1>7, <1>8, <1>11, <1>12

\* A trove whose rewards are applied and which stays open, at its place in
\* the list or another.
LEMMA TroveKeptOpen ==
    ASSUME LedgerInv, AccountsInv, NEW b \in Borrowers, Active(b),
           NEW tr \in TroveSet, tr.status = "active",
           Troves' = [Troves EXCEPT ![b] = tr],
           rewardSnapshots' = [rewardSnapshots EXCEPT ![b] = appliedSnapshot(b)],
           totalStakes' = totalStakes - Troves[b].stake + tr.stake,
           \/ sortedTroves' = sortedTroves
           \/ \E nicr : InsertInto(Without(sortedTroves, b), b, nicr),
           defaultPool'.coll = defaultPool.coll - appliedColl(b),
           UNCHANGED <<rewardVars, TroveOwners, arrayIndex>>
    PROVE  /\ StakesSummed' /\ RewardsHeld' /\ TrovesListed'
           /\ ActiveTroves' = ActiveTroves
           /\ SumFunction(collOf)' = SumFunction(collOf) - Troves[b].coll + tr.coll
           /\ SumFunction(debtOf)' = SumFunction(debtOf) - Troves[b].debt + tr.debt
<1> DEFINE sn == appliedSnapshot(b)
<1>1. /\ TypeOK /\ TroveTypes /\ RewardTypes /\ PoolTypes
      /\ StakesSummed /\ RewardsHeld /\ TrovesListed
      /\ rewardSnapshots[b].COLL <= L_COLL
  BY DEF LedgerInv, TypeOK, AccountsInv, RewardsHeld
<1>2. sn.COLL = L_COLL /\ sn \in RewardSnapshotSet
  <2>1. sn \in RewardSnapshotSet
    BY <1>1 DEF appliedSnapshot, RewardSnapshotSet, RewardTypes, TroveTypes
  <2> QED BY <1>1, <2>1, AppliedIsCurrent
<1>3. L_COLL' = L_COLL /\ lastETHError' = lastETHError
  BY DEF rewardVars
<1> HIDE DEF sn
<1>4. /\ SumFunction(collOf)' = SumFunction(collOf) - Troves[b].coll + tr.coll
      /\ SumFunction(debtOf)' = SumFunction(debtOf) - Troves[b].debt + tr.debt
  BY <1>1, <1>2, <1>3, TroveRewritten DEF sn
<1>5. StakesSummed' /\ RewardsHeld'
  <2>1. /\ appliedColl(b) \in Nat
        /\ appliedColl(b) * DECIMAL_PRECISION <= CollOwed[b]
    BY <1>1, PendingOwed
  <2>2. rewardSnapshots' = [rewardSnapshots EXCEPT ![b] = sn]
    BY DEF sn
  <2> QED BY <1>1, <1>2, <1>3, <2>1, <2>2, TroveMoved
<1>6. ActiveTroves' = ActiveTroves
  <2>1. \A c \in Borrowers : Active(c)' <=> Active(c)
    BY <1>1 DEF Active, TroveTypes
  <2> QED BY <2>1 DEF ActiveTroves
<1>7. TrovesListed'
  <2>1. /\ TroveOwners \in Seq(Borrowers) /\ sortedTroves \in Seq(Borrowers)
        /\ Lists(TroveOwners, ActiveTroves) /\ Lists(sortedTroves, ActiveTroves)
        /\ Indexed(TroveOwners, arrayIndex)
    BY <1>1 DEF TroveTypes, TrovesListed, ListsAgree
  <2>2. b \in ActiveTroves /\ ActiveTroves \in SUBSET Borrowers
    BY DEF ActiveTroves
  <2>3. Lists(sortedTroves', ActiveTroves)
    <3>1. CASE \E nicr : InsertInto(Without(sortedTroves, b), b, nicr)
      <4> DEFINE rest == Without(sortedTroves, b)
      <4>1. PICK nicr : InsertInto(rest, b, nicr)
        BY <3>1
      <4>2. Lists(rest, ActiveTroves \ {b}) /\ rest \in Seq(Borrowers)
        BY <2>1, <2>2, ListRemove
      <4> HIDE DEF rest
      <4>3. PICK i \in 1..(Len(rest) + 1) : sortedTroves' = InsertAt(rest, i, b)
        BY <4>1 DEF InsertInto, insertPositions
      <4>4. OneMore(sortedTroves', rest, i, b)
        <5> DEFINE new == InsertAt(rest, i, b)
        <5>1. /\ Len(new) = Len(rest) + 1
              /\ \A j \in 1..(Len(rest) + 1) :
                     new[j] = IF j < i THEN rest[j]
                              ELSE IF j = i THEN b ELSE rest[j - 1]
          BY <4>2, InsertedAt
        <5> HIDE DEF new
        <5>2. sortedTroves' = new
          BY <4>3 DEF new
        <5> QED BY <5>1, <5>2 DEF OneMore
      <4>5. ActiveTroves \ {b} \in SUBSET Borrowers /\ b \notin ActiveTroves \ {b}
            /\ (ActiveTroves \ {b}) \cup {b} = ActiveTroves
        BY <2>2
      <4>6. Lists(sortedTroves', (ActiveTroves \ {b}) \cup {b})
        BY <4>2, <4>3, <4>4, <4>5, ListInsert
      <4> QED BY <4>5, <4>6
    <3> QED BY <2>1, <3>1
  <2> QED BY <1>6, <2>1, <2>3 DEF TrovesListed, ListsAgree
<1> QED BY <1>4, <1>5, <1>6, <1>7

\* openTrove: the new trove enters both lists and every sum, its reserve
\* the gas pool.
LEMMA OpenBooks ==
    ASSUME LedgerInv, AccountsInv, UNCHANGED <<liqVars, redVars>>,
           NEW b \in Borrowers, NEW price \in Prices, NEW c \in OpenColl,
           NEW a \in OpenUSDD, NEW rate \in BorrowingRates,
           openTrove(b, price, c, a, rate)
    PROVE  AccountsInv'
<1> DEFINE fee == IF checkRecoveryMode(price) THEN 0 ELSE feeOf(rate, a)
           debt == a + fee + USDD_GAS_COMPENSATION
           stake == computeNewStake(Troves[b].coll + c)
           tr == TroveOf("active", Troves[b].coll + c, Troves[b].debt + debt, stake)
           sn == [COLL |-> L_COLL, USDDDebt |-> L_USDDDebt]
           NICR == computeNominalCR(c, debt)
           GC == USDD_GAS_COMPENSATION
<1>1. /\ TypeOK /\ TroveTypes /\ RewardTypes /\ PoolTypes /\ TokenTypes
      /\ StakesSummed /\ RewardsHeld /\ TrovesListed
      /\ SurplusBacked /\ TrovesSummed /\ USDDAccountedFor /\ GasPoolReserved
      /\ rewardSnapshots[b].COLL <= L_COLL
  BY DEF LedgerInv, TypeOK, AccountsInv, RewardsHeld
<1>2. c \in Nat /\ a \in Nat /\ rate \in Nat /\ GC \in Nat
  BY BorrowerAssumption, MathAssumption
<1>3. fee \in Nat
  BY <1>2, FeeType
<1>4. /\ Troves[b].coll \in Nat /\ Troves[b].debt \in Nat
      /\ Troves[b].stake \in Nat /\ totalStakes \in Nat
  BY <1>1, TroveFields DEF TroveTypes
<1>5. stake \in Nat
  BY <1>1, <1>2, <1>4, StakeType DEF openTrove
<1>6. /\ Transact /\ ~Active(b)
      /\ Troves' = [Troves EXCEPT ![b] = tr]
      /\ rewardSnapshots' = [rewardSnapshots EXCEPT ![b] = sn]
      /\ totalStakes' = totalStakes - Troves[b].stake + stake
      /\ InsertInto(sortedTroves, b, NICR)
      /\ addTroveOwnerToArray(b)
      /\ activePool' = [coll |-> activePool.coll + c,
                        debt |-> activePool.debt + debt]
      /\ totalSupply' = totalSupply + fee + a + GC
      /\ balances' = [balances EXCEPT ![b] = @ + a]
      /\ gasPoolUSDD' = gasPoolUSDD + GC
      /\ stakingUSDD' = stakingUSDD + fee
      /\ UNCHANGED <<snapshotVars, rewardVars, defaultPool, COLLS, surplusOf,
                     stabilityPool, stakingColl, stabilityPoolUSDD>>
  BY DEF openTrove, PoolPlus, getCompositeDebt, removeStake
<1> HIDE DEF fee, stake, NICR, GC
<1>7. debt \in Nat
  BY <1>2, <1>3 DEF GC
<1> HIDE DEF debt
<1>8. /\ tr \in TroveSet /\ tr.coll = Troves[b].coll + c
      /\ tr.debt = Troves[b].debt + debt /\ tr.stake = stake
      /\ tr.status = "active"
  BY <1>2, <1>4, <1>5, <1>7 DEF TroveOf, TroveSet, StatusSet
<1>9. sn \in RewardSnapshotSet /\ sn.COLL = L_COLL
  BY <1>1 DEF RewardSnapshotSet, RewardTypes
<1> HIDE DEF tr, sn
<1>10. /\ Splits(totals)' /\ OnlyInFlight' /\ SavedBooks'
       /\ totals' = totals /\ redeeming' = redeeming
       /\ totals.coll = 0 /\ totals.debt = 0 /\ totals.gasUSDD = 0
       /\ redeeming.drawn = 0 /\ redeeming.redeemed = 0
  BY <1>6, TransactBooks
<1>11. L_COLL' = L_COLL /\ lastETHError' = lastETHError
  BY <1>6 DEF rewardVars
<1>12. /\ SumFunction(collOf)' = SumFunction(collOf) - Troves[b].coll + tr.coll
       /\ SumFunction(debtOf)' = SumFunction(debtOf) - Troves[b].debt + tr.debt
  BY <1>1, <1>6, <1>8, <1>9, <1>11, TroveRewritten
<1>13. StakesSummed' /\ RewardsHeld'
  <2>1. defaultPool'.coll = defaultPool.coll - 0
    BY <1>1, <1>6, PoolFields
  <2>2. 0 * DECIMAL_PRECISION <= CollOwed[b]
    BY <1>1, PendingOwed, MathAssumption
  <2> QED BY <1>1, <1>6, <1>8, <1>9, <1>11, <2>1, <2>2, TroveMoved
<1>14. /\ ActiveTroves' = ActiveTroves \cup {b} /\ b \notin ActiveTroves
       /\ ActiveTroves \in SUBSET Borrowers
  <2>1. \A d \in Borrowers : Active(d)' <=> d = b \/ Active(d)
    BY <1>1, <1>6, <1>8 DEF Active, TroveTypes
  <2> QED BY <1>6, <2>1 DEF ActiveTroves
<1>15. /\ Cardinality(ActiveTroves)' = Cardinality(ActiveTroves) + 1
       /\ Cardinality(ActiveTroves) \in Nat
  BY <1>14, FS_Subset, FS_AddElement, FS_CardinalityType, StateAssumption
<1>16. TrovesListed'
  <2>1. /\ TroveOwners \in Seq(Borrowers) /\ sortedTroves \in Seq(Borrowers)
        /\ arrayIndex \in [Borrowers -> Nat]
        /\ Lists(TroveOwners, ActiveTroves) /\ Lists(sortedTroves, ActiveTroves)
        /\ Indexed(TroveOwners, arrayIndex)
    BY <1>1 DEF TroveTypes, TrovesListed, ListsAgree
  <2>2. Lists(sortedTroves', ActiveTroves')
    <3>1. PICK i \in 1..(Len(sortedTroves) + 1) :
              sortedTroves' = InsertAt(sortedTroves, i, b)
      BY <1>6 DEF InsertInto, insertPositions
    <3> DEFINE new == InsertAt(sortedTroves, i, b)
    <3> DEFINE list == sortedTroves
    <3>2. /\ Len(new) = Len(list) + 1
          /\ \A j \in 1..(Len(list) + 1) :
                 new[j] = IF j < i THEN list[j]
                          ELSE IF j = i THEN b ELSE list[j - 1]
      <4>1. list \in Seq(Borrowers) /\ b \in Borrowers
        BY <2>1
      <4>2. i \in 1..(Len(list) + 1)
        BY <3>1
      <4>3. new = InsertAt(list, i, b)
        OBVIOUS
      <4> HIDE DEF list, new
      <4> QED BY <4>1, <4>2, <4>3, InsertedAt
    <3> HIDE DEF new
    <3>3. OneMore(new, sortedTroves, i, b)
      BY <3>2 DEF OneMore
    <3>4. Lists(new, ActiveTroves \cup {b})
      BY <1>14, <2>1, <3>3, ListInsert
    <3> QED BY <1>14, <3>1, <3>4 DEF new
  <2>3. Lists(TroveOwners', ActiveTroves') /\ Indexed(TroveOwners', arrayIndex')
    BY <1>6, <1>14, <2>1, OwnerAdded DEF addTroveOwnerToArray
  <2> QED BY <2>2, <2>3 DEF TrovesListed, ListsAgree
<1>17. TrovesSummed'
  <2>1. SumFunction(collOf) \in Nat /\ SumFunction(debtOf) \in Nat
    BY <1>1, SumsTyped
  <2>2. activePool'.coll = activePool.coll + c /\ activePool'.debt = activePool.debt + debt
    BY <1>6
  <2> QED
    BY <1>1, <1>2, <1>4, <1>7, <1>8, <1>10, <1>12, <2>1, <2>2 DEF TrovesSummed
<1>18. USDDAccountedFor'
  <2>1. SumFunction(balances)' = SumFunction(balances) + a
    <3>1. b \in Users /\ a \in Int
      BY <1>2 DEF Users
    <3> QED BY <1>1, <1>6, <3>1, BalanceChanged
  <2>2. /\ SumFunction(balances) \in Int /\ stabilityPoolUSDD \in Int
        /\ gasPoolUSDD \in Int /\ stakingUSDD \in Int
    BY <1>1, SumsTyped DEF TokenTypes
  <2> QED BY <1>1, <1>2, <1>3, <1>6, <2>1, <2>2 DEF USDDAccountedFor
<1>19. GasPoolReserved'
  <2> DEFINE n == Cardinality(ActiveTroves)
  <2>1. GC * (n + 1) = GC * n + GC /\ GC * n \in Nat
    <3> HIDE DEF n
    <3>1. n \in Nat
      BY <1>15 DEF n
    <3> QED BY <1>2, <3>1
  <2> QED BY <1>1, <1>2, <1>6, <1>10, <1>15, <2>1 DEF GasPoolReserved, GC
<1>20. SurplusBacked'
  BY <1>1, <1>6, <1>10 DEF SurplusBacked
<1> QED BY <1>10, <1>13, <1>16, <1>17, <1>18, <1>19, <1>20 DEF AccountsInv

\* _adjustTrove changes a trove and the active pool by the same amounts.
LEMMA AdjustedBooks ==
    ASSUME LedgerInv, AccountsInv, NEW b \in Borrowers, NEW price,
           NEW adj \in AdjustmentSet, NEW rate \in Nat,
           updateTroveFromAdjustment(b, price, adj, rate),
           UNCHANGED <<rewardVars, totals, redeeming>>
    PROVE  /\ StakesSummed' /\ RewardsHeld' /\ TrovesListed' /\ TrovesSummed'
           /\ ActiveTroves' = ActiveTroves
<1> DEFINE fee == adjustmentFee(price, adj, rate)
           coll == newTroveColl(b, adj)
           debt == newTroveDebt(b, adj, fee)
           stake == computeNewStake(coll)
           tr == TroveOf("active", coll, debt, stake)
           NICR == computeNominalCR(coll, debt)
           more == IF adj.increase THEN adj.usdd + fee ELSE 0 - adj.usdd
<1>1. /\ TypeOK /\ TroveTypes /\ RewardTypes /\ PoolTypes /\ LoopTypes
      /\ TrovesSummed
      /\ SnapshotsCovered(b) /\ StakeComputable
  BY DEF LedgerInv, TypeOK, AccountsInv, updateTroveFromAdjustment
<1>2. /\ adj.collIn \in Nat /\ adj.collOut \in Nat /\ adj.usdd \in Nat
      /\ adj.increase \in BOOLEAN /\ fee \in Nat
  <2>1. /\ adj.collIn \in Nat /\ adj.collOut \in Nat /\ adj.usdd \in Nat
        /\ adj.increase \in BOOLEAN
    BY DEF AdjustmentSet
  <2> QED BY <2>1, FeeType DEF adjustmentFee
<1>3. /\ appliedColl(b) \in Nat /\ appliedDebt(b) \in Nat
      /\ collApplied(b) = Troves[b].coll + appliedColl(b)
      /\ debtApplied(b) = Troves[b].debt + appliedDebt(b)
      /\ Troves[b].coll \in Nat /\ Troves[b].debt \in Nat
  BY <1>1, AppliedTypes, TroveFields
<1>4. /\ Active(b) /\ adj.collOut <= collApplied(b)
      /\ ~adj.increase => adj.usdd <= debtApplied(b)
  BY DEF updateTroveFromAdjustment, adjustRequires
<1>5. /\ Troves' = [Troves EXCEPT ![b] = tr]
      /\ rewardSnapshots' = [rewardSnapshots EXCEPT ![b] = appliedSnapshot(b)]
      /\ totalStakes' = totalStakes - Troves[b].stake + stake
      /\ InsertInto(Without(sortedTroves, b), b, NICR)
      /\ defaultPool'.coll = defaultPool.coll - appliedColl(b)
      /\ activePool'.coll = activePool.coll + appliedColl(b) + adj.collIn
                                - adj.collOut
      /\ activePool'.debt = activePool.debt + appliedDebt(b) + more
      /\ UNCHANGED <<TroveOwners, arrayIndex>>
  BY DEF updateTroveFromAdjustment, PoolMinus, removeStake
<1> HIDE DEF fee
<1>6. /\ more \in Int
      /\ coll = Troves[b].coll + appliedColl(b) + adj.collIn - adj.collOut
      /\ debt = Troves[b].debt + appliedDebt(b) + more
      /\ coll \in Nat /\ debt \in Nat
  BY <1>2, <1>3, <1>4 DEF newTroveColl, newTroveDebt
<1>7. stake \in Nat
  BY <1>1, <1>6, StakeType
<1> HIDE DEF coll, debt, stake, more
<1>8. /\ tr \in TroveSet /\ tr.status = "active" /\ tr.coll = coll
      /\ tr.debt = debt /\ tr.stake = stake
  BY <1>6, <1>7 DEF TroveOf, TroveSet, StatusSet
<1> HIDE DEF tr, NICR
<1>9. totalStakes' = totalStakes - Troves[b].stake + tr.stake
  BY <1>5, <1>8
<1>10. \E nicr : InsertInto(Without(sortedTroves, b), b, nicr)
  BY <1>5
<1>11. /\ StakesSummed' /\ RewardsHeld' /\ TrovesListed'
       /\ ActiveTroves' = ActiveTroves
       /\ SumFunction(collOf)' = SumFunction(collOf) - Troves[b].coll + tr.coll
       /\ SumFunction(debtOf)' = SumFunction(debtOf) - Troves[b].debt + tr.debt
  BY <1>4, <1>5, <1>8, <1>9, <1>10, TroveKeptOpen
<1>12. TrovesSummed'
  <2>1. SumFunction(collOf) \in Nat /\ SumFunction(debtOf) \in Nat
    BY <1>1, SumsTyped
  <2>2. /\ totals.coll \in Nat /\ totals.debt \in Nat
        /\ redeeming.drawn \in Nat /\ redeeming.redeemed \in Nat
        /\ totals' = totals /\ redeeming' = redeeming
    BY <1>1 DEF LoopTypes, ValuesSet, ProgressSet
  <2>3. activePool'.coll = SumFunction(collOf)' + totals.coll + redeeming.drawn
    BY <1>1, <1>2, <1>3, <1>5, <1>6, <1>8, <1>11, <2>1, <2>2 DEF TrovesSummed
  <2>4. activePool'.debt = SumFunction(debtOf)' + totals.debt + redeeming.redeemed
    BY <1>1, <1>2, <1>3, <1>5, <1>6, <1>8, <1>11, <2>1, <2>2 DEF TrovesSummed
  <2> QED BY <2>2, <2>3, <2>4 DEF TrovesSummed
<1> QED BY <1>11, <1>12

\* adjustTrove mints to, or burns from, the borrower and DEFTStaking.
LEMMA AdjustBooks ==
    ASSUME LedgerInv, AccountsInv, UNCHANGED <<liqVars, redVars>>,
           NEW b \in Borrowers, NEW price \in Prices, NEW adj \in Adjustments,
           NEW rate \in BorrowingRates, adjustTrove(b, price, adj, rate)
    PROVE  AccountsInv'
<1> DEFINE fee == adjustmentFee(price, adj, rate)
<1>1. /\ TypeOK /\ PoolTypes /\ TokenTypes /\ SurplusBacked
      /\ USDDAccountedFor /\ GasPoolReserved /\ b \in Users
  BY DEF LedgerInv, TypeOK, AccountsInv, Users
<1>2. adj \in AdjustmentSet /\ rate \in Nat
  BY BorrowerAssumption
<1>3. /\ Transact /\ updateTroveFromAdjustment(b, price, adj, rate)
      /\ UNCHANGED <<snapshotVars, rewardVars, COLLS, surplusOf,
                     stabilityPool, stakingColl, gasPoolUSDD,
                     stabilityPoolUSDD>>
  BY DEF adjustTrove
<1>4. /\ Splits(totals)' /\ OnlyInFlight' /\ SavedBooks'
      /\ totals' = totals /\ redeeming' = redeeming
  BY <1>3, TransactBooks
<1>5. /\ StakesSummed' /\ RewardsHeld' /\ TrovesListed' /\ TrovesSummed'
      /\ ActiveTroves' = ActiveTroves
  BY <1>2, <1>3, <1>4, AdjustedBooks
<1>6. SurplusBacked' /\ GasPoolReserved'
  BY <1>1, <1>3, <1>4, <1>5 DEF SurplusBacked, GasPoolReserved
<1>7. fee \in Nat /\ adj.usdd \in Nat
  BY <1>2, <1>3, AdjustFacts DEF AdjustmentSet
<1>8. PICK x \in Int, y \in Int :
          /\ balances' = [balances EXCEPT ![b] = @ + x]
          /\ stakingUSDD' = stakingUSDD + y
          /\ totalSupply' = totalSupply + x + y
  <2>1. /\ totalSupply \in Int /\ balances[b] \in Int /\ stakingUSDD \in Int
    BY <1>1 DEF TokenTypes
  <2>2. CASE adj.increase
    <3>1. /\ balances' = [balances EXCEPT ![b] = @ + adj.usdd]
          /\ stakingUSDD' = stakingUSDD + fee
          /\ totalSupply' = totalSupply + adj.usdd + fee
      BY <2>2 DEF adjustTrove
    <3> DEFINE w == adj.usdd
    <3>2. w \in Int /\ fee \in Int
      BY <1>7
    <3> HIDE DEF fee, w
    <3>3. /\ balances' = [balances EXCEPT ![b] = @ + w]
          /\ totalSupply' = totalSupply + w + fee
      BY <3>1 DEF w
    <3> QED BY <3>1, <3>2, <3>3
  <2>3. CASE ~adj.increase
    <3>1. /\ balances' = [balances EXCEPT ![b] = balances[b] - adj.usdd]
          /\ stakingUSDD' = stakingUSDD
          /\ totalSupply' = totalSupply - adj.usdd
      BY <2>3 DEF adjustTrove
    <3> DEFINE w == 0 - adj.usdd
    <3>2. ASSUME NEW z \in Int, z = 0
          PROVE  /\ w \in Int /\ balances[b] - adj.usdd = balances[b] + w
                 /\ stakingUSDD = stakingUSDD + z
                 /\ totalSupply - adj.usdd = totalSupply + w + z
      BY <1>7, <2>1, <3>2
    <3> HIDE DEF w
    <3>3. PICK z \in Int : z = 0
      OBVIOUS
    <3>4. balances' = [balances EXCEPT ![b] = @ + w]
      BY <3>1, <3>2, <3>3
    <3> QED BY <3>1, <3>2, <3>3, <3>4
  <2> QED BY <2>2, <2>3
<1>9. USDDAccountedFor'
  <2>1. SumFunction(balances)' = SumFunction(balances) + x
    BY <1>1, <1>8, BalanceChanged
  <2>2. /\ SumFunction(balances) \in Int /\ stabilityPoolUSDD \in Int
        /\ gasPoolUSDD \in Int /\ stakingUSDD \in Int
    BY <1>1, SumsTyped DEF TokenTypes
  <2> QED BY <1>1, <1>3, <1>8, <2>1, <2>2 DEF USDDAccountedFor
<1> QED BY <1>4, <1>5, <1>6, <1>9 DEF AccountsInv

\* withdrawCollGainToTrove moves collateral and no USDD.
LEMMA CollGainBooks ==
    ASSUME LedgerInv, AccountsInv, UNCHANGED <<liqVars, redVars>>,
           NEW b \in Borrowers, NEW price \in Prices,
           withdrawCollGainToTrove(b, price)
    PROVE  AccountsInv'
<1> DEFINE adj == [collIn |-> stabilityPool.coll, collOut |-> 0, usdd |-> 0,
                   increase |-> FALSE]
<1>1. /\ PoolTypes /\ SurplusBacked /\ USDDAccountedFor /\ GasPoolReserved
  BY DEF LedgerInv, TypeOK, AccountsInv
<1>2. adj \in AdjustmentSet
  BY <1>1, PoolFields DEF AdjustmentSet
<1>3. /\ Transact /\ updateTroveFromAdjustment(b, price, adj, 0)
      /\ stabilityPool'.deposits = stabilityPool.deposits
      /\ UNCHANGED <<snapshotVars, rewardVars, COLLS, surplusOf, stakingColl,
                     wethHeld, usddVars>>
  BY DEF withdrawCollGainToTrove
<1> HIDE DEF adj
<1>4. /\ Splits(totals)' /\ OnlyInFlight' /\ SavedBooks'
      /\ totals' = totals /\ redeeming' = redeeming
  BY <1>3, TransactBooks
<1>5. ASSUME NEW rate \in Nat, rate = 0
      PROVE  /\ StakesSummed' /\ RewardsHeld' /\ TrovesListed' /\ TrovesSummed'
             /\ ActiveTroves' = ActiveTroves
  BY <1>2, <1>3, <1>4, <1>5, AdjustedBooks
<1>6. PICK rate \in Nat : rate = 0
  OBVIOUS
<1>7. SurplusBacked' /\ GasPoolReserved' /\ USDDAccountedFor'
  BY <1>1, <1>3, <1>4, <1>5, <1>6
     DEF SurplusBacked, GasPoolReserved, USDDAccountedFor, usddVars
<1> QED BY <1>4, <1>5, <1>6, <1>7 DEF AccountsInv

\* closeTrove of a borrower: the net debt is burned from its balance, the
\* reserve from the gas pool.
LEMMA CloseOwnerBooks ==
    ASSUME LedgerInv, AccountsInv, UNCHANGED <<liqVars, redVars>>,
           NEW b \in Borrowers, NEW price \in Prices,
           closeTroveByOwner(b, price)
    PROVE  AccountsInv'
<1> DEFINE GC == USDD_GAS_COMPENSATION
<1>1. /\ TypeOK /\ TroveTypes /\ RewardTypes /\ PoolTypes /\ TokenTypes
      /\ LoopTypes /\ TrovesSummed /\ SurplusBacked /\ USDDAccountedFor
      /\ GasPoolReserved /\ b \in Users /\ rewardSnapshots[b].COLL <= L_COLL
      /\ GC \in Nat
  BY MathAssumption DEF LedgerInv, TypeOK, AccountsInv, RewardsHeld, Users
<1>2. /\ Transact /\ Active(b) /\ SnapshotsCovered(b)
      /\ closeTrove(b, "closedByOwner")
      /\ defaultPool'.coll = defaultPool.coll - appliedColl(b)
      /\ activePool'.coll = activePool.coll + appliedColl(b) - collApplied(b)
      /\ activePool'.debt = activePool.debt + appliedDebt(b) - debtApplied(b)
      /\ totalSupply' = totalSupply - debtApplied(b)
      /\ balances' = [balances EXCEPT
                         ![b] = balances[b] - (debtApplied(b) - GC)]
      /\ gasPoolUSDD' = gasPoolUSDD - GC
      /\ UNCHANGED <<rewardVars, COLLS, surplusOf, stabilityPool,
                     stabilityPoolUSDD, stakingUSDD>>
  BY DEF closeTroveByOwner, PoolMinus, getNetDebt
<1> HIDE DEF GC
<1>3. /\ appliedColl(b) \in Nat /\ appliedDebt(b) \in Nat
      /\ collApplied(b) = Troves[b].coll + appliedColl(b)
      /\ debtApplied(b) = Troves[b].debt + appliedDebt(b)
      /\ Troves[b].coll \in Nat /\ Troves[b].debt \in Nat
      /\ debtApplied(b) \in Nat
  BY <1>1, <1>2, AppliedTypes, TroveFields
<1>4. /\ Splits(totals)' /\ OnlyInFlight' /\ SavedBooks'
      /\ totals' = totals /\ redeeming' = redeeming
  BY <1>2, TransactBooks
<1>5. appliedColl(b) * DECIMAL_PRECISION <= CollOwed[b]
  BY <1>1, PendingOwed
<1>6. "closedByOwner" \in StatusSet /\ "closedByOwner" # "active"
  BY DEF StatusSet
<1>7. /\ StakesSummed' /\ RewardsHeld' /\ TrovesListed'
      /\ Cardinality(ActiveTroves) \in Nat
      /\ Cardinality(ActiveTroves)' = Cardinality(ActiveTroves) - 1
      /\ SumFunction(collOf)' = SumFunction(collOf) - Troves[b].coll
      /\ SumFunction(debtOf)' = SumFunction(debtOf) - Troves[b].debt
  BY <1>2, <1>3, <1>5, <1>6, TroveClosed
<1>8. TrovesSummed'
  <2>1. /\ SumFunction(collOf) \in Nat /\ SumFunction(debtOf) \in Nat
        /\ totals.coll \in Nat /\ totals.debt \in Nat
        /\ redeeming.drawn \in Nat /\ redeeming.redeemed \in Nat
    BY <1>1, SumsTyped DEF LoopTypes, ValuesSet, ProgressSet
  <2> QED BY <1>1, <1>2, <1>3, <1>4, <1>7, <2>1 DEF TrovesSummed
<1>9. USDDAccountedFor'
  <2> DEFINE x == GC - debtApplied(b)
  <2>1. /\ x \in Int
        /\ balances[b] - (debtApplied(b) - GC) = balances[b] + x
        /\ totalSupply - debtApplied(b) = totalSupply + x - GC
    BY <1>1, <1>3 DEF TokenTypes
  <2> HIDE DEF x
  <2>2. balances' = [balances EXCEPT ![b] = @ + x]
    BY <1>2, <2>1
  <2>3. SumFunction(balances)' = SumFunction(balances) + x
    BY <1>1, <2>1, <2>2, BalanceChanged
  <2>4. /\ SumFunction(balances) \in Int /\ stabilityPoolUSDD \in Int
        /\ gasPoolUSDD \in Int /\ stakingUSDD \in Int
    BY <1>1, SumsTyped DEF TokenTypes
  <2> QED BY <1>1, <1>2, <2>1, <2>3, <2>4 DEF USDDAccountedFor
<1>10. GasPoolReserved'
  <2> DEFINE n == Cardinality(ActiveTroves)
  <2>1. /\ gasPoolUSDD = GC * n + totals.gasUSDD
        /\ Cardinality(ActiveTroves)' = n - 1 /\ n \in Nat
    BY <1>1, <1>7 DEF GasPoolReserved, GC
  <2>2. totals.gasUSDD \in Nat
    BY <1>1 DEF LoopTypes, ValuesSet
  <2> HIDE DEF n
  <2>3. gasPoolUSDD - GC = GC * (n - 1) + totals.gasUSDD
    BY <1>1, <2>1, <2>2
  <2> QED BY <1>2, <1>4, <2>1, <2>3 DEF GasPoolReserved, GC
<1>11. SurplusBacked'
  BY <1>1, <1>2, <1>4 DEF SurplusBacked
<1> QED BY <1>4, <1>7, <1>8, <1>9, <1>10, <1>11 DEF AccountsInv

-----------------------------------------------------------------------------
(* The steps of a liquidation *)

\* A trove that is liquidated leaves the books of the troves for the
\* totals: its debt and collateral, its reserve and its surplus.
LEMMA LiquidateBooks ==
    ASSUME LedgerInv, AccountsInv, UNCHANGED redVars, liquidateTrove
    PROVE  AccountsInv'
<1> DEFINE b == currentUser
           v == stepVals(b)
           ac == getPendingCollReward(b)
           ad == getPendingUSDDDebtReward(b)
           GC == USDD_GAS_COMPENSATION
<1>1. /\ TypeOK /\ TroveTypes /\ RewardTypes /\ PoolTypes /\ TokenTypes
      /\ LoopTypes /\ TrovesSummed /\ SurplusBacked /\ USDDAccountedFor
      /\ GasPoolReserved /\ Splits(totals) /\ OnlyInFlight /\ SavedBooks
      /\ GC \in Nat
  BY MathAssumption DEF LedgerInv, TypeOK, AccountsInv
<1>2. /\ pc = "liquidating" /\ ~LoopOver /\ v # zeroVals
      /\ StepChecks(b, v) /\ closeTrove(b, "closedByLiquidation")
      /\ defaultPool'.coll = defaultPool.coll - ac
      /\ activePool'.coll = activePool.coll + ac
      /\ activePool'.debt = activePool.debt + ad
      /\ surplusOf' = [surplusOf EXCEPT ![b] = surplusOf[b] + v.collSurplus]
      /\ totals' = addToTotals(totals, v)
      /\ UNCHANGED <<controlVars, rewardVars, COLLS, stabilityPool, usddVars>>
  BY DEF liquidateTrove, PoolPlus, PoolMinus
<1>3. b \in Borrowers
  BY <1>2, CurrentUserType
<1>4. /\ v \in ValuesSet /\ v.coll = entireColl(b) /\ v.debt = entireDebt(b)
      /\ v.gasUSDD = GC /\ Splits(v) /\ Active(b)
  BY <1>2, StepValsType
<1>5. SnapshotsCovered(b) /\ rewardSnapshots[b].COLL <= L_COLL
  BY <1>2 DEF StepChecks, SnapshotsCovered
<1> HIDE DEF b, v, GC
<1>6. /\ ac \in Nat /\ ad \in Nat /\ ac * DECIMAL_PRECISION <= CollOwed[b]
      /\ Troves[b].coll \in Nat /\ Troves[b].debt \in Nat
      /\ v.coll = Troves[b].coll + ac /\ v.debt = Troves[b].debt + ad
  BY <1>1, <1>3, <1>4, <1>5, PendingOwed, PendingTypes, TroveFields
     DEF entireColl, entireDebt
<1> HIDE DEF ac, ad
<1>7. "closedByLiquidation" \in StatusSet /\ "closedByLiquidation" # "active"
  BY DEF StatusSet
<1>8. /\ StakesSummed' /\ RewardsHeld' /\ TrovesListed'
      /\ Cardinality(ActiveTroves) \in Nat
      /\ Cardinality(ActiveTroves)' = Cardinality(ActiveTroves) - 1
      /\ SumFunction(collOf)' = SumFunction(collOf) - Troves[b].coll
      /\ SumFunction(debtOf)' = SumFunction(debtOf) - Troves[b].debt
  BY <1>2, <1>3, <1>4, <1>6, <1>7, TroveClosed
<1>9. /\ v.coll \in Nat /\ v.debt \in Nat /\ v.gasColl \in Nat
      /\ v.debtToOffset \in Nat /\ v.collToSendToSP \in Nat
      /\ v.debtToRedistribute \in Nat /\ v.collToRedistribute \in Nat
      /\ v.collSurplus \in Nat
      /\ totals.coll \in Nat /\ totals.debt \in Nat /\ totals.gasColl \in Nat
      /\ totals.debtToOffset \in Nat /\ totals.collToSendToSP \in Nat
      /\ totals.debtToRedistribute \in Nat /\ totals.collToRedistribute \in Nat
      /\ totals.collSurplus \in Nat /\ totals.gasUSDD \in Nat
  BY <1>1, <1>4 DEF LoopTypes, ValuesSet
<1>10. /\ totals'.coll = totals.coll + v.coll
       /\ totals'.debt = totals.debt + v.debt
       /\ totals'.gasColl = totals.gasColl + v.gasColl
       /\ totals'.gasUSDD = totals.gasUSDD + v.gasUSDD
       /\ totals'.debtToOffset = totals.debtToOffset + v.debtToOffset
       /\ totals'.collToSendToSP = totals.collToSendToSP + v.collToSendToSP
       /\ totals'.debtToRedistribute = totals.debtToRedistribute
                                           + v.debtToRedistribute
       /\ totals'.collToRedistribute = totals.collToRedistribute
                                           + v.collToRedistribute
       /\ totals'.collSurplus = totals.collSurplus + v.collSurplus
  BY <1>2 DEF addToTotals
<1>11. Splits(totals)'
  BY <1>1, <1>4, <1>9, <1>10 DEF Splits
<1>12. TrovesSummed'
  <2>1. /\ SumFunction(collOf) \in Nat /\ SumFunction(debtOf) \in Nat
        /\ redeeming.drawn \in Nat /\ redeeming.redeemed \in Nat
        /\ redeeming' = redeeming
    BY <1>1, SumsTyped DEF LoopTypes, ProgressSet, redVars
  <2> QED BY <1>1, <1>2, <1>6, <1>8, <1>9, <1>10, <2>1 DEF TrovesSummed
<1>13. SurplusBacked'
  <2> DEFINE x == surplusOf[b] + v.collSurplus
  <2>1. /\ surplusOf[b] \in Nat /\ COLLS \in Nat /\ COLLS' = COLLS
        /\ SumFunction(surplusOf) \in Nat
    BY <1>1, <1>2, <1>3, SumsTyped DEF PoolTypes
  <2>2. x \in Int
    BY <1>9, <2>1
  <2>3. SumFunction(surplusOf)' = SumFunction(surplusOf) - surplusOf[b] + x
    <3> HIDE DEF x
    <3>1. surplusOf' = [surplusOf EXCEPT ![b] = x]
      BY <1>2 DEF x
    <3> QED BY <1>1, <1>3, <2>2, <3>1, SurplusChanged
  <2>4. SumFunction(surplusOf)' = SumFunction(surplusOf) + v.collSurplus
    BY <1>9, <2>1, <2>3
  <2>5. SumFunction(surplusOf)' = COLLS' + totals'.collSurplus
    BY <1>1, <1>9, <1>10, <2>1, <2>4 DEF SurplusBacked
  <2> QED BY <2>5 DEF SurplusBacked
<1>14. GasPoolReserved'
  <2> DEFINE n == Cardinality(ActiveTroves)
  <2>1. /\ gasPoolUSDD = GC * n + totals.gasUSDD
        /\ Cardinality(ActiveTroves)' = n - 1 /\ n \in Nat
    BY <1>1, <1>8 DEF GasPoolReserved, GC
  <2> HIDE DEF n
  <2>2. gasPoolUSDD = GC * (n - 1) + (totals.gasUSDD + GC)
    BY <1>1, <1>9, <2>1
  <2>3. gasPoolUSDD' = gasPoolUSDD
    BY <1>2 DEF usddVars
  <2> QED BY <1>4, <1>10, <2>1, <2>2, <2>3 DEF GasPoolReserved, GC
<1>15. USDDAccountedFor'
  BY <1>1, <1>2 DEF USDDAccountedFor, usddVars
<1>16. OnlyInFlight' /\ SavedBooks'
  BY <1>1, <1>2 DEF OnlyInFlight, SavedBooks, controlVars, redVars
<1> QED
  BY <1>8, <1>11, <1>12, <1>13, <1>14, <1>15, <1>16 DEF AccountsInv

\* _redistributeDebtAndColl raises what the troves are owed, and the error
\* carried over, by what the default pool receives.
LEMMA RedistributedBooks ==
    ASSUME TypeOK, RewardsHeld, StakesSummed, Splits(totals), redistributed,
           FinishChecks, UNCHANGED troveVars,
           defaultPool'.coll = defaultPool.coll + totals.collToRedistribute
    PROVE  RewardsHeld'
<1> DEFINE D == DECIMAL_PRECISION
           r == totals.collToRedistribute
           num == r * D + lastETHError
           q == num \div totalStakes
<1>1. /\ TroveTypes /\ RewardTypes /\ PoolTypes /\ LoopTypes
      /\ D \in Nat /\ r \in Nat /\ L_COLL \in Nat /\ lastETHError \in Nat
      /\ totalStakes \in Nat
  BY MathAssumption DEF TypeOK, LoopTypes, ValuesSet, RewardTypes, TroveTypes
<1>2. Troves' = Troves /\ rewardSnapshots' = rewardSnapshots
  BY DEF troveVars
<1>3. defaultPool.coll \in Nat
  BY <1>1, PoolFields
<1>4. CASE totals.debtToRedistribute = 0
  <2>1. r = 0 /\ defaultPool'.coll = defaultPool.coll
    BY <1>3, <1>4 DEF Splits
  <2>2. L_COLL' = L_COLL /\ lastETHError' = lastETHError
    BY <1>4 DEF redistributed, rewardVars
  <2>3. CollOwed' = CollOwed
    BY <1>2, <2>2 DEF CollOwed
  <2> QED BY <1>2, <2>1, <2>2, <2>3 DEF RewardsHeld
<1>5. CASE totals.debtToRedistribute # 0
  <2>1. totalStakes > 0
    BY <1>5 DEF FinishChecks
  <2>2. L_COLL' = L_COLL + q /\ lastETHError' = num - q * totalStakes
    BY <1>5 DEF redistributed
  <2>3. num \in Nat
    <3>1. r * D \in Nat
      BY <1>1
    <3> QED BY <1>1, <3>1
  <2> HIDE DEF num
  <2>4. q \in Nat
    BY <1>1, <2>1, <2>3, DivNat
  <2> HIDE DEF q
  <2> DEFINE owed == [b \in Borrowers |->
                 Troves[b].stake * ((L_COLL + q) - rewardSnapshots[b].COLL)]
  <2>5. CollOwed' = owed
    BY <1>2, <2>2 DEF CollOwed
  <2>6. \A b \in Borrowers :
            /\ Troves[b].stake \in Nat /\ rewardSnapshots[b].COLL \in Nat
            /\ rewardSnapshots[b].COLL <= L_COLL
    BY <1>1, TroveFields DEF RewardsHeld
  <2>7. /\ owed \in [Borrowers -> Int] /\ CollOwed \in [Borrowers -> Int]
        /\ stakeOf \in [Borrowers -> Int]
    BY <1>1, <2>4, <2>6 DEF CollOwed, stakeOf
  <2>8. Combines(owed, CollOwed, q, stakeOf, Borrowers)
    <3>1. ASSUME NEW s \in Nat, NEW l \in Nat, NEW n \in Nat
          PROVE  s * ((l + q) - n) = s * (l - n) + q * s
      BY <2>4
    <3>2. ASSUME NEW b \in Borrowers
          PROVE  owed[b] = CollOwed[b] + q * stakeOf[b]
      <4>1. /\ owed[b] = Troves[b].stake
                             * ((L_COLL + q) - rewardSnapshots[b].COLL)
            /\ CollOwed[b] = Troves[b].stake
                                 * (L_COLL - rewardSnapshots[b].COLL)
            /\ stakeOf[b] = Troves[b].stake
        BY DEF CollOwed, stakeOf
      <4>2. /\ Troves[b].stake \in Nat /\ rewardSnapshots[b].COLL \in Nat
            /\ L_COLL \in Nat
        BY <1>1, <2>6
      <4>3. Troves[b].stake * ((L_COLL + q) - rewardSnapshots[b].COLL)
                = Troves[b].stake * (L_COLL - rewardSnapshots[b].COLL)
                      + q * Troves[b].stake
        BY <3>1, <4>2
      <4> QED BY <4>1, <4>3
    <3> HIDE DEF owed
    <3> QED BY <3>2 DEF Combines
  <2> HIDE DEF owed
  <2>9. SumFunction(owed) = SumFunction(CollOwed) + q * totalStakes
    <3>1. q \in Int
      BY <2>4
    <3>2. SumFunction(owed) = SumFunction(CollOwed) + q * SumFunction(stakeOf)
      BY <2>7, <2>8, <3>1, SumLinear, StateAssumption
    <3> QED BY <3>2 DEF StakesSummed
  <2>10. SumFunction(CollOwed) \in Int /\ SumFunction(owed) \in Int
    BY <2>7, SumType, StateAssumption
  <2>11. SumFunction(owed) + lastETHError'
             = SumFunction(CollOwed) + lastETHError + r * D
    <3> DEFINE m == q * totalStakes
               rd == r * D
    <3>1. m \in Nat /\ rd \in Nat
      BY <1>1, <2>4
    <3>2. /\ SumFunction(owed) = SumFunction(CollOwed) + m
          /\ lastETHError' = (rd + lastETHError) - m
      BY <2>2, <2>9 DEF num
    <3> HIDE DEF m, rd
    <3>3. SumFunction(owed) + lastETHError'
              = SumFunction(CollOwed) + lastETHError + rd
      BY <1>1, <2>10, <3>1, <3>2
    <3> QED BY <3>3 DEF rd
  <2>12. SumFunction(CollOwed) + lastETHError <= defaultPool.coll * D
    BY DEF RewardsHeld
  <2>13. defaultPool'.coll * D = defaultPool.coll * D + r * D
    <3>1. ASSUME NEW x \in Nat, NEW y \in Nat
          PROVE  (x + y) * D = x * D + y * D
      BY <1>1
    <3> QED BY <1>1, <1>3, <3>1
  <2>14. SumFunction(owed) + lastETHError' <= defaultPool'.coll * D
    <3>1. r * D \in Nat /\ defaultPool.coll * D \in Nat
      BY <1>1, <1>3
    <3> QED BY <1>1, <2>10, <2>11, <2>12, <2>13, <3>1
  <2>15. \A b \in Borrowers : rewardSnapshots'[b].COLL <= L_COLL'
    BY <1>1, <1>2, <2>2, <2>4, <2>6
  <2> QED BY <2>5, <2>14, <2>15 DEF RewardsHeld
<1> QED BY <1>4, <1>5

\* The end of a liquidation takes its totals out of the active pool.
LEMMA FinishLiquidationBooks ==
    ASSUME LedgerInv, AccountsInv, UNCHANGED redVars, finishLiquidation
    PROVE  AccountsInv'
<1> DEFINE k == liqArgs.liquidator
<1>1. /\ TypeOK /\ TroveTypes /\ RewardTypes /\ PoolTypes /\ TokenTypes
      /\ LoopTypes /\ TrovesSummed /\ SurplusBacked /\ USDDAccountedFor
      /\ GasPoolReserved /\ Splits(totals) /\ OnlyInFlight /\ StakesSummed
      /\ RewardsHeld /\ TrovesListed
  BY DEF LedgerInv, TypeOK, AccountsInv
<1>2. /\ pc = "liquidating" /\ FinishChecks /\ redistributed
      /\ activePool'.coll = activePool.coll
             - (totals.collToSendToSP + collToMove + totals.collSurplus
                    + totals.gasColl)
      /\ activePool'.debt = activePool.debt
             - (totals.debtToOffset + totals.debtToRedistribute)
      /\ defaultPool'.coll = defaultPool.coll + collToMove
      /\ stabilityPool'.deposits = stabilityPool.deposits - totals.debtToOffset
      /\ stabilityPoolUSDD' = stabilityPoolUSDD - totals.debtToOffset
      /\ totalSupply' = totalSupply - totals.debtToOffset
      /\ COLLS' = COLLS + totals.collSurplus
      /\ gasPoolUSDD' = gasPoolUSDD - totals.gasUSDD
      /\ balances' = [balances EXCEPT ![k] = @ + totals.gasUSDD]
      /\ totals' = zeroVals /\ pc' = "idle" /\ redeeming' = redeeming
      /\ UNCHANGED <<troveVars, surplusOf, stakingUSDD>>
  BY DEF finishLiquidation, PoolPlus, PoolMinus, noLiquidation, CommitTx,
     redVars
<1>3. k \in Users
  BY <1>1, <1>2 DEF LoopTypes, LiqArgsSet
<1> HIDE DEF k
<1>4. /\ totals.coll \in Nat /\ totals.debt \in Nat /\ totals.gasColl \in Nat
      /\ totals.debtToOffset \in Nat /\ totals.collToSendToSP \in Nat
      /\ totals.debtToRedistribute \in Nat /\ totals.collToRedistribute \in Nat
      /\ totals.collSurplus \in Nat /\ totals.gasUSDD \in Nat
      /\ redeeming.drawn \in Nat /\ redeeming.redeemed \in Nat
  BY <1>1 DEF LoopTypes, ValuesSet, ProgressSet
<1>5. collToMove = totals.collToRedistribute
  BY <1>1 DEF Splits, collToMove
<1>6. /\ totals'.coll = 0 /\ totals'.debt = 0 /\ totals'.gasUSDD = 0
      /\ totals'.collSurplus = 0 /\ Splits(totals)'
  BY <1>2, ZeroTotals
<1>7. RewardsHeld'
  BY <1>1, <1>2, <1>5, RedistributedBooks
<1>8. /\ collOf' = collOf /\ debtOf' = debtOf /\ stakeOf' = stakeOf
      /\ ActiveTroves' = ActiveTroves
  BY <1>2 DEF troveVars, collOf, debtOf, stakeOf, ActiveTroves, Active
<1>9. StakesSummed' /\ TrovesListed'
  BY <1>1, <1>2, <1>8 DEF StakesSummed, TrovesListed, troveVars
<1>10. TrovesSummed'
  <2>1. /\ SumFunction(collOf) \in Nat /\ SumFunction(debtOf) \in Nat
        /\ activePool.coll \in Nat /\ activePool.debt \in Nat
    BY <1>1, SumsTyped, PoolFields
  <2>2. /\ activePool'.coll = activePool.coll - totals.coll
        /\ activePool'.debt = activePool.debt - totals.debt
    BY <1>1, <1>2, <1>4, <1>5, <2>1 DEF Splits
  <2> QED BY <1>1, <1>2, <1>4, <1>6, <1>8, <2>1, <2>2 DEF TrovesSummed
<1>11. SurplusBacked'
  <2>1. COLLS \in Nat /\ SumFunction(surplusOf)' = SumFunction(surplusOf)
    BY <1>1, <1>2 DEF PoolTypes
  <2> QED BY <1>1, <1>2, <1>4, <1>6, <2>1 DEF SurplusBacked
<1>12. GasPoolReserved'
  <2> DEFINE m == USDD_GAS_COMPENSATION * Cardinality(ActiveTroves)
  <2>1. m \in Nat
    <3>1. ActiveTroves \in SUBSET Borrowers
      BY DEF ActiveTroves
    <3>2. Cardinality(ActiveTroves) \in Nat
      BY <3>1, FS_Subset, FS_CardinalityType, StateAssumption
    <3> QED BY <3>2, MathAssumption
  <2>2. gasPoolUSDD = m + totals.gasUSDD
    BY <1>1 DEF GasPoolReserved
  <2> HIDE DEF m
  <2>3. gasPoolUSDD' = m + totals'.gasUSDD
    BY <1>2, <1>4, <1>6, <2>1, <2>2
  <2> QED BY <1>8, <2>3 DEF GasPoolReserved, m
<1>13. USDDAccountedFor'
  <2>1. SumFunction(balances)' = SumFunction(balances) + totals.gasUSDD
    <3> DEFINE x == totals.gasUSDD
    <3>1. x \in Int /\ balances' = [balances EXCEPT ![k] = @ + x]
      BY <1>2, <1>4
    <3> HIDE DEF x
    <3>2. SumFunction(balances)' = SumFunction(balances) + x
      BY <1>1, <1>3, <3>1, BalanceChanged
    <3> QED BY <3>2 DEF x
  <2>2. /\ SumFunction(balances) \in Int /\ stabilityPoolUSDD \in Int
        /\ gasPoolUSDD \in Int /\ stakingUSDD \in Int
    BY <1>1, SumsTyped DEF TokenTypes
  <2> QED BY <1>1, <1>2, <1>4, <2>1, <2>2 DEF USDDAccountedFor
<1>14. OnlyInFlight' /\ SavedBooks'
  BY <1>1, <1>2 DEF OnlyInFlight, SavedBooks
<1> QED
  BY <1>6, <1>7, <1>9, <1>10, <1>11, <1>12, <1>13, <1>14 DEF AccountsInv

-----------------------------------------------------------------------------
(* The steps of a redemption *)

\* The trove a redemption has come to is open, and its rewards and the lot
\* taken from it are numbers.
LEMMA RedeemedTrove ==
    ASSUME LedgerInv, AccountsInv, pc = "redeeming", ~RedemptionOver,
           NEW b, b = redeeming.user, RedeemChecks(b)
    PROVE  /\ b \in Borrowers /\ Active(b)
           /\ rewardSnapshots[b].COLL <= L_COLL
           /\ Troves[b].coll \in Nat /\ Troves[b].debt \in Nat
           /\ appliedColl(b) \in Nat /\ appliedDebt(b) \in Nat
           /\ USDDLot(b) \in Nat /\ CollLot(b) \in Nat
           /\ collAfterLot(b) \in Nat /\ debtAfterLot(b) \in Nat
           /\ collApplied(b) \in Nat /\ debtApplied(b) \in Nat
           /\ collApplied(b) = Troves[b].coll + appliedColl(b)
           /\ debtApplied(b) = Troves[b].debt + appliedDebt(b)
           /\ collAfterLot(b) = Troves[b].coll + appliedColl(b) - CollLot(b)
           /\ debtAfterLot(b) = Troves[b].debt + appliedDebt(b) - USDDLot(b)
           /\ appliedColl(b) * DECIMAL_PRECISION <= CollOwed[b]
           /\ redeeming.drawn \in Nat /\ redeeming.redeemed \in Nat
           /\ totals.coll \in Nat /\ totals.debt \in Nat
<1>1. /\ TypeOK /\ TroveTypes /\ RewardTypes /\ LoopTypes /\ TrovesListed
      /\ SnapshotsCovered(b) /\ contains(b)
  BY DEF LedgerInv, TypeOK, AccountsInv, RedeemChecks
<1>2. b \in Borrowers
  BY <1>1, RedeemedUserType
<1>3. Active(b)
  BY <1>1, <1>2, ContainsActive
<1>4. /\ appliedColl(b) \in Nat /\ appliedDebt(b) \in Nat
      /\ USDDLot(b) \in Nat /\ CollLot(b) \in Nat
      /\ collAfterLot(b) \in Nat /\ debtAfterLot(b) \in Nat
  BY <1>2, LotTypes
<1>5. /\ collApplied(b) = Troves[b].coll + appliedColl(b)
      /\ debtApplied(b) = Troves[b].debt + appliedDebt(b)
      /\ collApplied(b) \in Nat /\ debtApplied(b) \in Nat
      /\ Troves[b].coll \in Nat /\ Troves[b].debt \in Nat
      /\ rewardSnapshots[b].COLL <= L_COLL
  BY <1>1, <1>2, AppliedTypes, TroveFields DEF SnapshotsCovered
<1>6. /\ collAfterLot(b) = Troves[b].coll + appliedColl(b) - CollLot(b)
      /\ debtAfterLot(b) = Troves[b].debt + appliedDebt(b) - USDDLot(b)
  <2>1. /\ collAfterLot(b) = collApplied(b) - CollLot(b)
        /\ debtAfterLot(b) = debtApplied(b) - USDDLot(b)
    BY DEF collAfterLot, debtAfterLot
  <2> QED BY <1>4, <1>5, <2>1
<1>7. appliedColl(b) * DECIMAL_PRECISION <= CollOwed[b]
  BY <1>1, <1>2, <1>5, PendingOwed
<1>8. /\ redeeming.drawn \in Nat /\ redeeming.redeemed \in Nat
      /\ totals.coll \in Nat /\ totals.debt \in Nat
  BY <1>1 DEF LoopTypes, ProgressSet, ValuesSet
<1> QED BY <1>2, <1>3, <1>4, <1>5, <1>6, <1>7, <1>8

\* A trove redeemed in whole leaves the books: the lot is in flight, the
\* reserve burned, the rest of the collateral a surplus of its owner.
LEMMA RedeemWholeBooks ==
    ASSUME LedgerInv, AccountsInv, UNCHANGED liqVars, redeemWhole
    PROVE  AccountsInv'
<1> DEFINE b == redeeming.user
           left == collAfterLot(b)
           GC == USDD_GAS_COMPENSATION
<1>1. /\ TypeOK /\ PoolTypes /\ TokenTypes /\ LoopTypes
      /\ TrovesSummed /\ SurplusBacked /\ USDDAccountedFor
      /\ GasPoolReserved /\ Splits(totals) /\ OnlyInFlight /\ SavedBooks
      /\ GC \in Nat
  BY MathAssumption DEF LedgerInv, TypeOK, AccountsInv
<1>2. /\ pc = "redeeming" /\ ~RedemptionOver /\ RedeemChecks(b)
      /\ debtAfterLot(b) = GC
      /\ closeTrove(b, "closedByRedemption")
      /\ defaultPool'.coll = defaultPool.coll - appliedColl(b)
      /\ activePool'.coll = activePool.coll + appliedColl(b) - left
      /\ activePool'.debt = activePool.debt + appliedDebt(b) - GC
      /\ gasPoolUSDD' = gasPoolUSDD - GC
      /\ totalSupply' = totalSupply - GC
      /\ surplusOf' = [surplusOf EXCEPT ![b] = surplusOf[b] + left]
      /\ COLLS' = COLLS + left
      /\ redeeming'.redeemed = redeeming.redeemed + USDDLot(b)
      /\ redeeming'.drawn = redeeming.drawn + CollLot(b)
      /\ totals' = totals
      /\ UNCHANGED <<controlVars, rewardVars, stabilityPool, balances,
                     stabilityPoolUSDD, stakingUSDD>>
  BY DEF redeemWhole, closesTrove, PoolMinus, Progress, liqVars
<1>3. /\ b \in Borrowers /\ Active(b)
      /\ Troves[b].coll \in Nat /\ Troves[b].debt \in Nat
      /\ appliedColl(b) \in Nat /\ appliedDebt(b) \in Nat
      /\ USDDLot(b) \in Nat /\ CollLot(b) \in Nat /\ left \in Nat
      /\ left = Troves[b].coll + appliedColl(b) - CollLot(b)
      /\ GC = Troves[b].debt + appliedDebt(b) - USDDLot(b)
      /\ appliedColl(b) * DECIMAL_PRECISION <= CollOwed[b]
      /\ redeeming.drawn \in Nat /\ redeeming.redeemed \in Nat
      /\ totals.coll \in Nat /\ totals.debt \in Nat
  BY <1>2, RedeemedTrove
<1> HIDE DEF b, left, GC
<1>4. "closedByRedemption" \in StatusSet /\ "closedByRedemption" # "active"
  BY DEF StatusSet
<1>5. /\ StakesSummed' /\ RewardsHeld' /\ TrovesListed'
      /\ Cardinality(ActiveTroves) \in Nat
      /\ Cardinality(ActiveTroves)' = Cardinality(ActiveTroves) - 1
      /\ SumFunction(collOf)' = SumFunction(collOf) - Troves[b].coll
      /\ SumFunction(debtOf)' = SumFunction(debtOf) - Troves[b].debt
  BY <1>2, <1>3, <1>4, TroveClosed
<1>6. TrovesSummed'
  <2>1. SumFunction(collOf) \in Nat /\ SumFunction(debtOf) \in Nat
    BY <1>1, SumsTyped
  <2> QED BY <1>1, <1>2, <1>3, <1>5, <2>1 DEF TrovesSummed
<1>7. SurplusBacked'
  <2> DEFINE x == surplusOf[b] + left
  <2>1. /\ surplusOf[b] \in Nat /\ COLLS \in Nat
        /\ SumFunction(surplusOf) \in Nat /\ totals.collSurplus \in Nat
    BY <1>1, <1>3, SumsTyped DEF PoolTypes, LoopTypes, ValuesSet
  <2>2. x \in Int
    BY <1>3, <2>1
  <2>3. SumFunction(surplusOf)' = SumFunction(surplusOf) - surplusOf[b] + x
    <3> HIDE DEF x
    <3>1. surplusOf' = [surplusOf EXCEPT ![b] = x]
      BY <1>2 DEF x
    <3> QED BY <1>1, <1>3, <2>2, <3>1, SurplusChanged
  <2>4. SumFunction(surplusOf)' = SumFunction(surplusOf) + left
    BY <1>3, <2>1, <2>3
  <2> QED BY <1>1, <1>2, <1>3, <2>1, <2>4 DEF SurplusBacked
<1>8. GasPoolReserved'
  <2> DEFINE n == Cardinality(ActiveTroves)
  <2>1. /\ gasPoolUSDD = GC * n + totals.gasUSDD
        /\ Cardinality(ActiveTroves)' = n - 1 /\ n \in Nat
    BY <1>1, <1>5 DEF GasPoolReserved, GC
  <2>2. totals.gasUSDD \in Nat
    BY <1>1 DEF LoopTypes, ValuesSet
  <2> HIDE DEF n
  <2>3. gasPoolUSDD - GC = GC * (n - 1) + totals.gasUSDD
    BY <1>1, <2>1, <2>2
  <2> QED BY <1>2, <2>1, <2>3 DEF GasPoolReserved, GC
<1>9. USDDAccountedFor'
  <2>1. /\ SumFunction(balances) \in Int /\ stabilityPoolUSDD \in Int
        /\ gasPoolUSDD \in Int /\ stakingUSDD \in Int
        /\ SumFunction(balances)' = SumFunction(balances)
    BY <1>1, <1>2, SumsTyped DEF TokenTypes
  <2> QED BY <1>1, <1>2, <2>1 DEF USDDAccountedFor
<1>10. Splits(totals)' /\ OnlyInFlight' /\ SavedBooks'
  BY <1>1, <1>2 DEF Splits, OnlyInFlight, SavedBooks, controlVars
<1> QED BY <1>5, <1>6, <1>7, <1>8, <1>9, <1>10 DEF AccountsInv

\* A trove redeemed in part keeps its place in the books with less
\* collateral and debt: the lot is in flight.
LEMMA RedeemPartlyBooks ==
    ASSUME LedgerInv, AccountsInv, UNCHANGED liqVars, redeemPartly
    PROVE  AccountsInv'
<1> DEFINE b == redeeming.user
           stake == computeNewStake(collAfterLot(b))
           tr == TroveOf("active", collAfterLot(b), debtAfterLot(b), stake)
           NICR == computeNominalCR(collAfterLot(b), debtAfterLot(b))
<1>1. /\ TypeOK /\ RewardTypes /\ LoopTypes /\ TrovesSummed /\ SurplusBacked
      /\ USDDAccountedFor
      /\ GasPoolReserved /\ Splits(totals) /\ OnlyInFlight /\ SavedBooks
  BY DEF LedgerInv, TypeOK, AccountsInv
<1>2. /\ pc = "redeeming" /\ ~RedemptionOver /\ RedeemChecks(b)
      /\ ~closesTrove(b)
      /\ Troves' = [Troves EXCEPT ![b] = tr]
      /\ rewardSnapshots' = [rewardSnapshots EXCEPT ![b] = appliedSnapshot(b)]
      /\ totalStakes' = totalStakes - Troves[b].stake + stake
      /\ InsertInto(Without(sortedTroves, b), b, NICR)
      /\ defaultPool'.coll = defaultPool.coll - appliedColl(b)
      /\ activePool'.coll = activePool.coll + appliedColl(b)
      /\ activePool'.debt = activePool.debt + appliedDebt(b)
      /\ redeeming'.redeemed = redeeming.redeemed + USDDLot(b)
      /\ redeeming'.drawn = redeeming.drawn + CollLot(b)
      /\ totals' = totals
      /\ UNCHANGED <<controlVars, TroveOwners, arrayIndex, rewardVars, COLLS,
                     surplusOf, stabilityPool, usddVars>>
  BY DEF redeemPartly, PoolMinus, PoolPlus, Progress, removeStake, liqVars
<1>3. /\ b \in Borrowers /\ Active(b)
      /\ Troves[b].coll \in Nat /\ Troves[b].debt \in Nat
      /\ appliedColl(b) \in Nat /\ appliedDebt(b) \in Nat
      /\ USDDLot(b) \in Nat /\ CollLot(b) \in Nat
      /\ collAfterLot(b) \in Nat /\ debtAfterLot(b) \in Nat
      /\ collAfterLot(b) = Troves[b].coll + appliedColl(b) - CollLot(b)
      /\ debtAfterLot(b) = Troves[b].debt + appliedDebt(b) - USDDLot(b)
      /\ redeeming.drawn \in Nat /\ redeeming.redeemed \in Nat
      /\ totals.coll \in Nat /\ totals.debt \in Nat
  BY <1>2, RedeemedTrove
<1>4. stake \in Nat
  <2>1. StakeComputable
    BY <1>2 DEF RedeemChecks
  <2> QED BY <1>1, <1>3, <2>1, StakeType
<1> HIDE DEF b, stake
<1>5. /\ tr \in TroveSet /\ tr.status = "active" /\ tr.stake = stake
      /\ tr.coll = collAfterLot(b) /\ tr.debt = debtAfterLot(b)
  BY <1>3, <1>4 DEF TroveOf, TroveSet, StatusSet
<1> HIDE DEF tr, NICR
<1>6. totalStakes' = totalStakes - Troves[b].stake + tr.stake
  BY <1>2, <1>5
<1>7. \E nicr : InsertInto(Without(sortedTroves, b), b, nicr)
  BY <1>2
<1>8. /\ StakesSummed' /\ RewardsHeld' /\ TrovesListed'
      /\ ActiveTroves' = ActiveTroves
      /\ SumFunction(collOf)' = SumFunction(collOf) - Troves[b].coll + tr.coll
      /\ SumFunction(debtOf)' = SumFunction(debtOf) - Troves[b].debt + tr.debt
  BY <1>2, <1>3, <1>5, <1>6, <1>7, TroveKeptOpen
<1>9. TrovesSummed'
  <2>1. SumFunction(collOf) \in Nat /\ SumFunction(debtOf) \in Nat
    BY <1>1, SumsTyped
  <2>2. activePool'.coll = SumFunction(collOf)' + totals.coll + redeeming'.drawn
    <3>1. activePool.coll = SumFunction(collOf) + totals.coll + redeeming.drawn
      BY <1>1 DEF TrovesSummed
    <3>2. /\ activePool'.coll = activePool.coll + appliedColl(b)
          /\ redeeming'.drawn = redeeming.drawn + CollLot(b)
          /\ tr.coll = Troves[b].coll + appliedColl(b) - CollLot(b)
      BY <1>2, <1>3, <1>5
    <3> QED BY <1>3, <1>8, <2>1, <3>1, <3>2
  <2>3. activePool'.debt = SumFunction(debtOf)' + totals.debt
                               + redeeming'.redeemed
    BY <1>1, <1>2, <1>3, <1>5, <1>8, <2>1 DEF TrovesSummed
  <2> QED BY <1>2, <2>2, <2>3 DEF TrovesSummed
<1>10. SurplusBacked' /\ GasPoolReserved' /\ USDDAccountedFor'
  BY <1>1, <1>2, <1>8
     DEF SurplusBacked, GasPoolReserved, USDDAccountedFor, usddVars
<1>11. Splits(totals)' /\ OnlyInFlight' /\ SavedBooks'
  BY <1>1, <1>2 DEF Splits, OnlyInFlight, SavedBooks, controlVars
<1> QED BY <1>8, <1>9, <1>10, <1>11 DEF AccountsInv

\* A cancelled partial redemption has only applied the trove's rewards.
LEMMA CancelBooks ==
    ASSUME LedgerInv, AccountsInv, UNCHANGED liqVars, cancelPartial
    PROVE  AccountsInv'
<1> DEFINE b == redeeming.user
           tr == TroveOf("active", collApplied(b), debtApplied(b),
                         Troves[b].stake)
<1>1. /\ TypeOK /\ TroveTypes /\ LoopTypes /\ TrovesSummed /\ SurplusBacked
      /\ USDDAccountedFor
      /\ GasPoolReserved /\ Splits(totals) /\ OnlyInFlight /\ SavedBooks
  BY DEF LedgerInv, TypeOK, AccountsInv
<1>2. /\ pc = "redeeming" /\ ~RedemptionOver /\ RedeemChecks(b)
      /\ Troves' = [Troves EXCEPT ![b] = tr]
      /\ rewardSnapshots' = [rewardSnapshots EXCEPT ![b] = appliedSnapshot(b)]
      /\ totalStakes' = totalStakes /\ sortedTroves' = sortedTroves
      /\ defaultPool'.coll = defaultPool.coll - appliedColl(b)
      /\ activePool'.coll = activePool.coll + appliedColl(b)
      /\ activePool'.debt = activePool.debt + appliedDebt(b)
      /\ redeeming'.redeemed = redeeming.redeemed
      /\ redeeming'.drawn = redeeming.drawn
      /\ totals' = totals
      /\ UNCHANGED <<controlVars, TroveOwners, arrayIndex, rewardVars, COLLS,
                     surplusOf, stabilityPool, usddVars>>
  BY DEF cancelPartial, PoolMinus, PoolPlus, Progress, liqVars
<1>3. /\ b \in Borrowers /\ Active(b)
      /\ Troves[b].coll \in Nat /\ Troves[b].debt \in Nat
      /\ appliedColl(b) \in Nat /\ appliedDebt(b) \in Nat
      /\ collApplied(b) \in Nat /\ debtApplied(b) \in Nat
      /\ collApplied(b) = Troves[b].coll + appliedColl(b)
      /\ debtApplied(b) = Troves[b].debt + appliedDebt(b)
      /\ redeeming.drawn \in Nat /\ redeeming.redeemed \in Nat
      /\ totals.coll \in Nat /\ totals.debt \in Nat
  BY <1>2, RedeemedTrove
<1>4. Troves[b].stake \in Nat /\ totalStakes \in Nat
  BY <1>1, <1>3, TroveFields DEF TroveTypes
<1> HIDE DEF b
<1>5. /\ tr \in TroveSet /\ tr.status = "active"
      /\ tr.stake = Troves[b].stake
      /\ tr.coll = collApplied(b) /\ tr.debt = debtApplied(b)
  BY <1>3, <1>4 DEF TroveOf, TroveSet, StatusSet
<1> HIDE DEF tr
<1>6. totalStakes' = totalStakes - Troves[b].stake + tr.stake
  BY <1>2, <1>4, <1>5
<1>7. /\ StakesSummed' /\ RewardsHeld' /\ TrovesListed'
      /\ ActiveTroves' = ActiveTroves
      /\ SumFunction(collOf)' = SumFunction(collOf) - Troves[b].coll + tr.coll
      /\ SumFunction(debtOf)' = SumFunction(debtOf) - Troves[b].debt + tr.debt
  BY <1>2, <1>3, <1>5, <1>6, TroveKeptOpen
<1>8. TrovesSummed'
  <2>1. SumFunction(collOf) \in Nat /\ SumFunction(debtOf) \in Nat
    BY <1>1, SumsTyped
  <2>2. activePool'.coll = SumFunction(collOf)' + totals.coll + redeeming'.drawn
    <3>1. activePool.coll = SumFunction(collOf) + totals.coll + redeeming.drawn
      BY <1>1 DEF TrovesSummed
    <3>2. /\ activePool'.coll = activePool.coll + appliedColl(b)
          /\ redeeming'.drawn = redeeming.drawn
          /\ tr.coll = Troves[b].coll + appliedColl(b)
      BY <1>2, <1>3, <1>5
    <3> QED BY <1>3, <1>7, <2>1, <3>1, <3>2
  <2>3. activePool'.debt = SumFunction(debtOf)' + totals.debt
                               + redeeming'.redeemed
    BY <1>1, <1>2, <1>3, <1>5, <1>7, <2>1 DEF TrovesSummed
  <2> QED BY <1>2, <2>2, <2>3 DEF TrovesSummed
<1>9. SurplusBacked' /\ GasPoolReserved' /\ USDDAccountedFor'
  BY <1>1, <1>2, <1>7
     DEF SurplusBacked, GasPoolReserved, USDDAccountedFor, usddVars
<1>10. Splits(totals)' /\ OnlyInFlight' /\ SavedBooks'
  BY <1>1, <1>2 DEF Splits, OnlyInFlight, SavedBooks, controlVars
<1> QED BY <1>7, <1>8, <1>9, <1>10 DEF AccountsInv

-----------------------------------------------------------------------------
(* The theorem *)

\* No contract has been used: every sum is zero and every list empty.
LEMMA InitAccounts == Init => AccountsInv
<1> SUFFICES ASSUME Init PROVE AccountsInv
  OBVIOUS
<1>1. IsFiniteSet(Users) /\ IsFiniteSet(Borrowers)
  BY StateAssumption, FS_Union DEF Users
<1>2. /\ balances = [u \in Users |-> 0] /\ surplusOf = [b \in Borrowers |-> 0]
      /\ collOf = [b \in Borrowers |-> 0] /\ debtOf = [b \in Borrowers |-> 0]
      /\ stakeOf = [b \in Borrowers |-> 0]
  BY DEF Init, collOf, debtOf, stakeOf, TroveOf
<1>3. CollOwed = [b \in Borrowers |-> 0]
  <2>1. \A b \in Borrowers : Troves[b].stake = 0 /\ rewardSnapshots[b].COLL = 0
    BY DEF Init, TroveOf
  <2>2. L_COLL = 0
    BY DEF Init
  <2> QED BY <2>1, <2>2 DEF CollOwed
<1>4. /\ SumFunction(balances) = 0 /\ SumFunction(surplusOf) = 0
      /\ SumFunction(collOf) = 0 /\ SumFunction(debtOf) = 0
      /\ SumFunction(stakeOf) = 0 /\ SumFunction(CollOwed) = 0
  BY <1>1, <1>2, <1>3, SumZero
<1>5. totals = zeroVals /\ redeeming.drawn = 0 /\ redeeming.redeemed = 0
  BY DEF Init, Progress
<1>6. ActiveTroves = {}
  BY DEF Init, ActiveTroves, Active, TroveOf
<1>7. Cardinality(ActiveTroves) = 0
  BY <1>6, FS_EmptySet
<1>8. USDDAccountedFor /\ SurplusBacked /\ TrovesSummed /\ StakesSummed
  <2>1. /\ totalSupply = 0 /\ gasPoolUSDD = 0 /\ stabilityPoolUSDD = 0
        /\ stakingUSDD = 0 /\ stabilityPool.deposits = 0 /\ COLLS = 0
        /\ activePool.coll = 0 /\ activePool.debt = 0 /\ totalStakes = 0
    BY DEF Init
  <2> QED
    BY <1>4, <1>5, <2>1, ZeroTotals
       DEF USDDAccountedFor, SurplusBacked, TrovesSummed, StakesSummed
<1>9. GasPoolReserved
  <2>1. USDD_GAS_COMPENSATION * 0 = 0
    BY MathAssumption
  <2> QED BY <1>5, <1>7, <2>1, ZeroTotals DEF Init, GasPoolReserved
<1>10. RewardsHeld
  <2>1. 0 * DECIMAL_PRECISION = 0
    BY MathAssumption
  <2> QED BY <1>4, <2>1 DEF Init, RewardsHeld
<1>11. TrovesListed
  BY <1>6, <1>7 DEF Init, TrovesListed, ListsAgree, Lists, Indexed
<1>12. Splits(totals) /\ OnlyInFlight /\ SavedBooks
  BY <1>5, ZeroTotals DEF Init, OnlyInFlight, SavedBooks
<1> QED BY <1>8, <1>9, <1>10, <1>11, <1>12 DEF AccountsInv

\* A borrower's transaction keeps the books.
LEMMA BorrowerBooks ==
    ASSUME LedgerInv, AccountsInv, NEW b \in Borrowers, NEW price \in Prices,
           BorrowerStep(b, price), UNCHANGED <<liqVars, redVars>>
    PROVE  AccountsInv'
<1>1. CASE \E c \in OpenColl, a \in OpenUSDD, rate \in BorrowingRates :
               openTrove(b, price, c, a, rate)
  BY <1>1, OpenBooks
<1>2. CASE \E adj \in Adjustments, rate \in BorrowingRates :
               adjustTrove(b, price, adj, rate)
  BY <1>2, AdjustBooks
<1>3. CASE withdrawCollGainToTrove(b, price)
  BY <1>3, CollGainBooks
<1>4. CASE closeTroveByOwner(b, price)
  BY <1>4, CloseOwnerBooks
<1> QED BY <1>1, <1>2, <1>3, <1>4 DEF BorrowerStep

\* So do the first and the last step of a loop that fails.
LEMMA LoopBooks ==
    ASSUME LedgerInv, LedgerInv', AccountsInv,
           \/ /\ \E k \in Keepers, price \in Prices : BeginLoop(k, price)
              /\ UNCHANGED redVars
           \/ /\ \E k \in Keepers, price \in Prices : BeginRedemption(k, price)
              /\ UNCHANGED liqVars
           \/ revertLiquidation /\ UNCHANGED redVars
           \/ revertRedemption /\ UNCHANGED liqVars
    PROVE  AccountsInv'
<1>1. /\ pc # "liquidating" => totals = zeroVals
      /\ pc # "redeeming" => redeeming.drawn = 0 /\ redeeming.redeemed = 0
  BY DEF AccountsInv, OnlyInFlight
<1>2. CASE /\ \E k \in Keepers, price \in Prices : BeginLoop(k, price)
           /\ UNCHANGED redVars
  <2>1. PICK k \in Keepers, price \in Prices : BeginLoop(k, price)
    BY <1>2
  <2>2. /\ BeginTx("liquidating") /\ totals' = zeroVals
        /\ UNCHANGED <<troveVars, snapshotVars, rewardVars, poolVars, usddVars>>
    BY <2>1 DEF BeginLoop, liquidateTroves, batchLiquidateTroves,
       beginLiquidation
  <2>3. redeeming'.drawn = 0 /\ redeeming'.redeemed = 0
    BY <1>1, <1>2, <2>2 DEF BeginTx, redVars
  <2> QED BY <2>2, <2>3, BeginBooks
<1>3. CASE /\ \E k \in Keepers, price \in Prices : BeginRedemption(k, price)
           /\ UNCHANGED liqVars
  <2>1. PICK k \in Keepers, price \in Prices : BeginRedemption(k, price)
    BY <1>3
  <2>2. /\ BeginTx("redeeming")
        /\ redeeming'.drawn = 0 /\ redeeming'.redeemed = 0
        /\ UNCHANGED <<troveVars, snapshotVars, rewardVars, poolVars, usddVars>>
    BY <2>1 DEF BeginRedemption, redeemCollateral, Progress
  <2>3. totals' = zeroVals
    BY <1>1, <1>3, <2>2 DEF BeginTx, liqVars
  <2> QED BY <2>2, <2>3, BeginBooks
<1>4. CASE revertLiquidation /\ UNCHANGED redVars
  <2>1. pc = "liquidating" /\ RevertTx /\ totals' = zeroVals
    BY <1>4 DEF revertLiquidation, noLiquidation
  <2>2. redeeming'.drawn = 0 /\ redeeming'.redeemed = 0
    BY <1>1, <1>4, <2>1 DEF redVars
  <2> QED BY <2>1, <2>2, RevertBooks
<1>5. CASE revertRedemption /\ UNCHANGED liqVars
  <2>1. pc = "redeeming" /\ RevertTx
        /\ redeeming'.drawn = 0 /\ redeeming'.redeemed = 0
    BY <1>5 DEF revertRedemption, noRedemption, Progress
  <2>2. totals' = zeroVals
    BY <1>1, <1>5, <2>1 DEF liqVars
  <2> QED BY <2>1, <2>2, RevertBooks
<1> QED BY <1>2, <1>3, <1>4, <1>5

\* Every step of the protocol, inside a transaction or not, keeps the books.
LEMMA NextAccounts ==
    LedgerInv /\ LedgerInv' /\ AccountsInv /\ [Next]_vars => AccountsInv'
<1> SUFFICES ASSUME LedgerInv, LedgerInv', AccountsInv, [Next]_vars
             PROVE  AccountsInv'
  OBVIOUS
<1>1. CASE \E b \in Borrowers, price \in Prices :
               BorrowerStep(b, price) /\ UNCHANGED <<liqVars, redVars>>
  BY <1>1, BorrowerBooks
<1>2. CASE \E b \in Borrowers :
               claimCollateral(b) /\ UNCHANGED <<liqVars, redVars>>
  BY <1>2, ClaimBooks
<1>3. CASE \E u \in Users, price \in Prices :
               DepositorStep(u, price) /\ UNCHANGED <<liqVars, redVars>>
  BY <1>3, DepositorBooks
<1>4. CASE \E u, v \in Users, a \in TransferAmounts :
               transferUSDD(u, v, a) /\ UNCHANGED <<liqVars, redVars>>
  BY <1>4, TransferBooks
<1>5. CASE \E k \in Keepers, price \in Prices :
               BeginLoop(k, price) /\ UNCHANGED redVars
  BY <1>5, LoopBooks
<1>6. CASE LiquidationStep /\ UNCHANGED redVars
  BY <1>6, SkipBooks, LiquidateBooks, FinishLiquidationBooks, LoopBooks
     DEF LiquidationStep
<1>7. CASE \E k \in Keepers, price \in Prices :
               BeginRedemption(k, price) /\ UNCHANGED liqVars
  BY <1>7, LoopBooks
<1>8. CASE RedemptionStep /\ UNCHANGED liqVars
  BY <1>8, RedeemWholeBooks, RedeemPartlyBooks, CancelBooks,
     FinishRedemptionBooks, LoopBooks DEF RedemptionStep
<1>9. CASE UNCHANGED vars
  BY <1>9, StutterBooks
<1> QED
  BY <1>1, <1>2, <1>3, <1>4, <1>5, <1>6, <1>7, <1>8, <1>9 DEF Next, Quiet

\* In every state of every behaviour, between the steps of a loop and after
\* a revert too, the books of all contracts agree with the troves: whoever
\* is owed USDD, collateral, a reward of collateral, a reserve or a surplus
\* can be paid, and both lists name exactly the open troves.
THEOREM BooksInvariance == Spec => []BooksInv
<1>1. LedgerInv /\ AccountsInv => BooksInv
  BY AccountsAreBooks
<1> QED
  BY <1>1, LedgerInvariance, InitAccounts, NextAccounts, PTL DEF Spec

\* The divisor of a redistribution is the sum of the stakes it is shared by.
THEOREM StakesTotalled == Spec => []StakesAddUp
<1>1. AccountsInv => StakesAddUp
  BY DEF AccountsInv, StakesSummed, StakesAddUp, SumOver, stakeOf
<1> QED
  BY <1>1, LedgerInvariance, InitAccounts, NextAccounts, PTL DEF Spec

-----------------------------------------------------------------------------
(* The size of an open trove *)

\* The storage to which a transaction rolls back has whole troves as well.
WholeInv == OpenTrovesAreWhole /\ (pc # "idle" => TrovesAreWhole(saved.Troves))

\* SortedTroves takes no node with a ratio of zero: an insertion checks that
\* the trove has collateral.
LEMMA RatioNeedsColl ==
    ASSUME NEW coll \in Nat, NEW debt \in Nat, debt > 0,
           computeNominalCR(coll, debt) > 0
    PROVE  coll > 0
<1>1. SUFFICES ASSUME coll = 0 PROVE FALSE
  OBVIOUS
<1>2. coll * NICR_PRECISION = 0
  BY <1>1, MathAssumption
<1>3. 0 \div debt = 0
  OBVIOUS
<1> QED BY <1>2, <1>3 DEF computeNominalCR

\* A trove is rewritten: the others stay whole.
LEMMA OneTroveRewritten ==
    ASSUME TroveTypes, OpenTrovesAreWhole, NEW b \in Borrowers,
           NEW status, NEW coll, NEW debt, NEW stake,
           Troves' = [Troves EXCEPT ![b] = TroveOf(status, coll, debt, stake)],
           status = "active" =>
               debt >= MIN_NET_DEBT + USDD_GAS_COMPENSATION /\ coll > 0
    PROVE  OpenTrovesAreWhole'
<1> SUFFICES ASSUME NEW c \in Borrowers, Troves'[c].status = "active"
             PROVE  /\ Troves'[c].debt >= MIN_NET_DEBT + USDD_GAS_COMPENSATION
                    /\ Troves'[c].coll > 0
  BY DEF OpenTrovesAreWhole, TrovesAreWhole
<1>1. CASE c = b
  <2>1. Troves'[c] = TroveOf(status, coll, debt, stake)
    BY <1>1 DEF TroveTypes
  <2> QED BY <2>1 DEF TroveOf
<1>2. CASE c # b
  <2>1. Troves'[c] = Troves[c]
    BY <1>2 DEF TroveTypes
  <2> QED BY <2>1 DEF OpenTrovesAreWhole, TrovesAreWhole
<1> QED BY <1>1, <1>2

\* openTrove requires the minimum, and collateral by the ratio it inserts.
LEMMA OpenWhole ==
    ASSUME LedgerInv, OpenTrovesAreWhole, NEW b \in Borrowers, NEW price,
           NEW c \in OpenColl, NEW a \in OpenUSDD, NEW rate \in BorrowingRates,
           openTrove(b, price, c, a, rate)
    PROVE  OpenTrovesAreWhole'
<1> DEFINE fee == IF checkRecoveryMode(price) THEN 0 ELSE feeOf(rate, a)
           debt == a + fee + USDD_GAS_COMPENSATION
           stake == computeNewStake(Troves[b].coll + c)
<1>1. TroveTypes
  BY DEF LedgerInv, TypeOK
<1>2. /\ c \in Nat /\ a \in Nat /\ rate \in Nat
      /\ USDD_GAS_COMPENSATION \in Nat \ {0} /\ MIN_NET_DEBT \in Nat
  BY BorrowerAssumption, MathAssumption
<1>3. fee \in Nat
  BY <1>2, FeeType
<1>4. Troves[b].coll \in Nat /\ Troves[b].debt \in Nat
  BY <1>1, TroveFields
<1>5. /\ a + fee >= MIN_NET_DEBT
      /\ computeNominalCR(c, debt) > 0
      /\ Troves' = [Troves EXCEPT ![b] =
             TroveOf("active", Troves[b].coll + c, Troves[b].debt + debt, stake)]
  BY DEF openTrove, InsertInto, getCompositeDebt
<1> HIDE DEF fee, stake
<1>6. debt \in Nat /\ debt > 0 /\ debt >= MIN_NET_DEBT + USDD_GAS_COMPENSATION
  BY <1>2, <1>3, <1>5
<1> HIDE DEF debt
<1>7. c > 0
  BY <1>2, <1>5, <1>6, RatioNeedsColl
<1>8. /\ Troves[b].coll + c > 0
      /\ Troves[b].debt + debt >= MIN_NET_DEBT + USDD_GAS_COMPENSATION
  BY <1>2, <1>4, <1>6, <1>7
<1> QED BY <1>1, <1>5, <1>8, OneTroveRewritten

\* _adjustTrove requires the minimum of a repayment, and collateral by the
\* ratio it re-inserts; rewards only add to both.
LEMMA AdjustWhole ==
    ASSUME LedgerInv, OpenTrovesAreWhole, NEW b \in Borrowers, NEW price,
           NEW adj \in AdjustmentSet, NEW rate \in Nat,
           updateTroveFromAdjustment(b, price, adj, rate)
    PROVE  OpenTrovesAreWhole'
<1> DEFINE fee == adjustmentFee(price, adj, rate)
           coll == newTroveColl(b, adj)
           debt == newTroveDebt(b, adj, fee)
           stake == computeNewStake(coll)
<1>1. /\ TroveTypes /\ RewardTypes /\ SnapshotsCovered(b)
      /\ adjustRequires(b, price, adj, fee)
      /\ computeNominalCR(coll, debt) > 0
      /\ Troves' = [Troves EXCEPT ![b] = TroveOf("active", coll, debt, stake)]
  BY DEF LedgerInv, TypeOK, updateTroveFromAdjustment, InsertInto
<1>2. /\ adj.collIn \in Nat /\ adj.collOut \in Nat /\ adj.usdd \in Nat
      /\ adj.increase \in BOOLEAN
  BY DEF AdjustmentSet
<1>3. fee \in Nat
  BY <1>2, FeeType DEF adjustmentFee
<1>4. /\ USDD_GAS_COMPENSATION \in Nat \ {0} /\ MIN_NET_DEBT \in Nat
  BY MathAssumption
<1>5. /\ collApplied(b) \in Nat /\ debtApplied(b) \in Nat
      /\ debtApplied(b) >= MIN_NET_DEBT + USDD_GAS_COMPENSATION
  <2>1. /\ collApplied(b) \in Nat /\ debtApplied(b) \in Nat
        /\ debtApplied(b) = Troves[b].debt + appliedDebt(b)
        /\ appliedDebt(b) \in Nat
    BY <1>1, AppliedTypes
  <2>2. Troves[b].debt >= MIN_NET_DEBT + USDD_GAS_COMPENSATION
    BY <1>1 DEF adjustRequires, Active, OpenTrovesAreWhole, TrovesAreWhole
  <2>3. Troves[b].debt \in Nat
    BY <1>1, TroveFields
  <2> QED BY <1>4, <2>1, <2>2, <2>3
<1>6. /\ adj.collOut <= collApplied(b)
      /\ ~adj.increase /\ adj.usdd > 0 =>
             debtApplied(b) - USDD_GAS_COMPENSATION - adj.usdd >= MIN_NET_DEBT
  BY <1>1 DEF adjustRequires, getNetDebt
<1>7. /\ coll \in Nat /\ debt \in Nat /\ debt > 0
      /\ debt >= MIN_NET_DEBT + USDD_GAS_COMPENSATION
  <2> HIDE DEF fee
  <2>1. coll \in Nat
    BY <1>2, <1>5, <1>6 DEF newTroveColl
  <2>2. debt \in Nat /\ debt >= MIN_NET_DEBT + USDD_GAS_COMPENSATION
    BY <1>2, <1>3, <1>4, <1>5, <1>6 DEF newTroveDebt
  <2> HIDE DEF debt
  <2> QED BY <1>4, <2>1, <2>2
<1> HIDE DEF coll, debt, stake
<1>8. coll > 0
  BY <1>1, <1>7, RatioNeedsColl
<1> QED BY <1>1, <1>7, <1>8, OneTroveRewritten

\* _closeTrove leaves no open trove behind.
LEMMA CloseWhole ==
    ASSUME TroveTypes, OpenTrovesAreWhole, NEW b \in Borrowers,
           NEW s \in StatusSet, s # "active", closeTrove(b, s)
    PROVE  OpenTrovesAreWhole'
<1>1. Troves' = [Troves EXCEPT ![b] = TroveOf(s, 0, 0, 0)]
  BY DEF closeTrove
<1> QED BY <1>1, OneTroveRewritten

\* A partial redemption leaves the minimum or is cancelled, and re-inserts
\* the trove with its new ratio.
LEMMA RedeemPartlyWhole ==
    ASSUME LedgerInv, OpenTrovesAreWhole, redeemPartly
    PROVE  OpenTrovesAreWhole'
<1> DEFINE b == redeeming.user
           stake == computeNewStake(collAfterLot(b))
<1>1. /\ TroveTypes /\ LoopTypes /\ pc = "redeeming" /\ ~RedemptionOver
      /\ RedeemChecks(b)
      /\ debtAfterLot(b) - USDD_GAS_COMPENSATION >= MIN_NET_DEBT
      /\ computeNominalCR(collAfterLot(b), debtAfterLot(b)) > 0
      /\ Troves' = [Troves EXCEPT ![b] =
             TroveOf("active", collAfterLot(b), debtAfterLot(b), stake)]
  BY DEF LedgerInv, TypeOK, redeemPartly, getNetDebt, InsertInto
<1>2. b \in Borrowers
  BY <1>1, RedeemedUserType
<1>3. debtAfterLot(b) \in Nat /\ collAfterLot(b) \in Nat
  BY <1>1, <1>2, LotTypes
<1>4. USDD_GAS_COMPENSATION \in Nat \ {0} /\ MIN_NET_DEBT \in Nat
  BY MathAssumption
<1> HIDE DEF b, stake
<1>5. /\ debtAfterLot(b) > 0
      /\ debtAfterLot(b) >= MIN_NET_DEBT + USDD_GAS_COMPENSATION
  BY <1>1, <1>3, <1>4
<1>6. collAfterLot(b) > 0
  BY <1>1, <1>3, <1>5, RatioNeedsColl
<1> QED BY <1>1, <1>2, <1>5, <1>6, OneTroveRewritten

\* A cancelled one leaves the trove with its rewards.
LEMMA CancelWhole ==
    ASSUME LedgerInv, AccountsInv, OpenTrovesAreWhole, cancelPartial
    PROVE  OpenTrovesAreWhole'
<1> DEFINE b == redeeming.user
<1>1. /\ TroveTypes /\ RewardTypes /\ LoopTypes /\ ~RedemptionOver
      /\ SnapshotsCovered(b) /\ contains(b)
      /\ Troves' = [Troves EXCEPT ![b] = TroveOf("active", collApplied(b),
                        debtApplied(b), Troves[b].stake)]
  BY DEF LedgerInv, TypeOK, cancelPartial, RedeemChecks
<1>2. b \in Borrowers
  BY <1>1, RedeemedUserType
<1>3. Active(b)
  BY <1>1, <1>2, ContainsActive DEF AccountsInv
<1>4. /\ Troves[b].debt >= MIN_NET_DEBT + USDD_GAS_COMPENSATION
      /\ Troves[b].coll > 0
  BY <1>2, <1>3 DEF Active, OpenTrovesAreWhole, TrovesAreWhole
<1>5. /\ appliedColl(b) \in Nat /\ appliedDebt(b) \in Nat
      /\ collApplied(b) = Troves[b].coll + appliedColl(b)
      /\ debtApplied(b) = Troves[b].debt + appliedDebt(b)
      /\ Troves[b].debt \in Nat /\ Troves[b].coll \in Nat
  BY <1>1, <1>2, AppliedTypes, TroveFields
<1>6. USDD_GAS_COMPENSATION \in Nat /\ MIN_NET_DEBT \in Nat
  BY MathAssumption
<1> HIDE DEF b
<1>7. /\ debtApplied(b) >= MIN_NET_DEBT + USDD_GAS_COMPENSATION
      /\ collApplied(b) > 0
  BY <1>4, <1>5, <1>6
<1> QED BY <1>1, <1>2, <1>7, OneTroveRewritten

\* A step that writes no trove
LEMMA TrovesUntouched ==
    ASSUME WholeInv, UNCHANGED Troves, pc' = "idle" \/ UNCHANGED <<pc, saved>>
    PROVE  WholeInv'
  BY DEF WholeInv, OpenTrovesAreWhole, TrovesAreWhole

\* A step that writes troves and keeps them whole
LEMMA TrovesWritten ==
    ASSUME WholeInv, OpenTrovesAreWhole', UNCHANGED <<pc, saved>>
    PROVE  WholeInv'
  BY DEF WholeInv, TrovesAreWhole

\* A borrower's transaction leaves whole troves.
LEMMA BorrowerWhole ==
    ASSUME LedgerInv, WholeInv, NEW b \in Borrowers, NEW price \in Prices,
           BorrowerStep(b, price)
    PROVE  WholeInv'
<1>1. OpenTrovesAreWhole /\ TroveTypes /\ PoolTypes
  BY DEF WholeInv, LedgerInv, TypeOK
<1>2. CASE \E c \in OpenColl, a \in OpenUSDD, rate \in BorrowingRates :
               openTrove(b, price, c, a, rate)
  <2>1. PICK c \in OpenColl, a \in OpenUSDD, rate \in BorrowingRates :
                 openTrove(b, price, c, a, rate)
    BY <1>2
  <2>2. OpenTrovesAreWhole'
    BY <1>1, <2>1, OpenWhole
  <2> QED BY <2>1, <2>2, TrovesWritten DEF openTrove, Transact
<1>3. CASE \E adj \in Adjustments, rate \in BorrowingRates :
               adjustTrove(b, price, adj, rate)
  <2>1. PICK adj \in Adjustments, rate \in BorrowingRates :
                 adjustTrove(b, price, adj, rate)
    BY <1>3
  <2>2. /\ updateTroveFromAdjustment(b, price, adj, rate)
        /\ adj \in AdjustmentSet /\ rate \in Nat
    BY <2>1, BorrowerAssumption DEF adjustTrove
  <2>3. OpenTrovesAreWhole'
    BY <1>1, <2>2, AdjustWhole
  <2> QED BY <2>1, <2>3, TrovesWritten DEF adjustTrove, Transact
<1>4. CASE withdrawCollGainToTrove(b, price)
  <2> DEFINE adj == [collIn |-> stabilityPool.coll, collOut |-> 0, usdd |-> 0,
                     increase |-> FALSE]
  <2>1. adj \in AdjustmentSet
    BY <1>1, PoolFields DEF AdjustmentSet
  <2>2. updateTroveFromAdjustment(b, price, adj, 0)
    BY <1>4 DEF withdrawCollGainToTrove
  <2> HIDE DEF adj
  <2>3. OpenTrovesAreWhole'
    BY <1>1, <2>1, <2>2, AdjustWhole
  <2> QED BY <1>4, <2>3, TrovesWritten DEF withdrawCollGainToTrove, Transact
<1>5. CASE closeTroveByOwner(b, price)
  <2>1. closeTrove(b, "closedByOwner")
    BY <1>5 DEF closeTroveByOwner
  <2>2. "closedByOwner" \in StatusSet /\ "closedByOwner" # "active"
    BY DEF StatusSet
  <2>3. OpenTrovesAreWhole'
    BY <1>1, <2>1, <2>2, CloseWhole
  <2> QED BY <1>5, <2>3, TrovesWritten DEF closeTroveByOwner, Transact
<1> QED BY <1>2, <1>3, <1>4, <1>5 DEF BorrowerStep

\* So does every step of a loop, and what it reverts to.
LEMMA LoopsWhole ==
    ASSUME LedgerInv, AccountsInv, WholeInv, LiquidationStep \/ RedemptionStep
    PROVE  WholeInv'
<1>1. OpenTrovesAreWhole /\ TroveTypes /\ LoopTypes
  BY DEF WholeInv, LedgerInv, TypeOK
<1>2. CASE skipTrove
  BY <1>2, TrovesUntouched DEF skipTrove, troveVars, controlVars
<1>3. CASE liquidateTrove
  <2>1. /\ closeTrove(currentUser, "closedByLiquidation")
        /\ pc = "liquidating" /\ ~LoopOver /\ UNCHANGED controlVars
        /\ stepVals(currentUser) # zeroVals
    BY <1>3 DEF liquidateTrove
  <2>2. currentUser \in Borrowers
    BY <2>1, CurrentUserType
  <2>3. "closedByLiquidation" \in StatusSet /\ "closedByLiquidation" # "active"
    BY DEF StatusSet
  <2>4. OpenTrovesAreWhole'
    BY <1>1, <2>1, <2>2, <2>3, CloseWhole
  <2> QED BY <2>1, <2>4, TrovesWritten DEF controlVars
<1>4. CASE finishLiquidation
  BY <1>4, TrovesUntouched DEF finishLiquidation, CommitTx, troveVars
<1>5. CASE revertLiquidation \/ revertRedemption
  <2>1. pc # "idle" /\ RevertTx
    BY <1>5 DEF revertLiquidation, revertRedemption
  <2>2. TrovesAreWhole(saved.Troves)
    BY <2>1 DEF WholeInv
  <2>3. Troves' = saved.Troves /\ pc' = "idle"
    BY <2>1 DEF RevertTx
  <2> QED BY <2>2, <2>3 DEF WholeInv, OpenTrovesAreWhole, TrovesAreWhole
<1>6. CASE redeemWhole
  <2>1. /\ closeTrove(redeeming.user, "closedByRedemption")
        /\ ~RedemptionOver /\ UNCHANGED controlVars
    BY <1>6 DEF redeemWhole
  <2>2. redeeming.user \in Borrowers
    BY <1>1, <2>1, RedeemedUserType
  <2>3. "closedByRedemption" \in StatusSet /\ "closedByRedemption" # "active"
    BY DEF StatusSet
  <2>4. OpenTrovesAreWhole'
    BY <1>1, <2>1, <2>2, <2>3, CloseWhole
  <2> QED BY <2>1, <2>4, TrovesWritten DEF controlVars
<1>7. CASE redeemPartly
  <2>1. OpenTrovesAreWhole' /\ UNCHANGED controlVars
    BY <1>1, <1>7, RedeemPartlyWhole DEF redeemPartly
  <2> QED BY <2>1, TrovesWritten DEF controlVars
<1>8. CASE cancelPartial
  <2>1. OpenTrovesAreWhole' /\ UNCHANGED controlVars
    BY <1>1, <1>8, CancelWhole DEF cancelPartial
  <2> QED BY <2>1, TrovesWritten DEF controlVars
<1>9. CASE \E rate \in RedemptionRates : finishRedemption(rate)
  BY <1>9, TrovesUntouched DEF finishRedemption, CommitTx, troveVars
<1> QED
  BY <1>2, <1>3, <1>4, <1>5, <1>6, <1>7, <1>8, <1>9
     DEF LiquidationStep, RedemptionStep

\* Every step of the protocol keeps open troves whole.
LEMMA NextWhole ==
    LedgerInv /\ AccountsInv /\ WholeInv /\ [Next]_vars => WholeInv'
<1> SUFFICES ASSUME LedgerInv, AccountsInv, WholeInv, [Next]_vars
             PROVE  WholeInv'
  OBVIOUS
<1>1. CASE \E b \in Borrowers, price \in Prices :
               BorrowerStep(b, price) /\ UNCHANGED <<liqVars, redVars>>
  BY <1>1, BorrowerWhole
<1>2. CASE \E b \in Borrowers :
               claimCollateral(b) /\ UNCHANGED <<liqVars, redVars>>
  BY <1>2, TrovesUntouched DEF claimCollateral, Transact, troveVars
<1>3. CASE \E u \in Users, price \in Prices :
               DepositorStep(u, price) /\ UNCHANGED <<liqVars, redVars>>
  BY <1>3, TrovesUntouched
     DEF DepositorStep, provideToSP, withdrawFromSP, Transact, troveVars
<1>4. CASE \E u, v \in Users, a \in TransferAmounts :
               transferUSDD(u, v, a) /\ UNCHANGED <<liqVars, redVars>>
  BY <1>4, TrovesUntouched DEF transferUSDD, Transact, troveVars
<1>5. CASE \/ \E k \in Keepers, price \in Prices :
                  BeginLoop(k, price) /\ UNCHANGED redVars
           \/ \E k \in Keepers, price \in Prices :
                  BeginRedemption(k, price) /\ UNCHANGED liqVars
  <2>1. Troves' = Troves /\ saved' = Storage
    BY <1>5 DEF BeginLoop, liquidateTroves, batchLiquidateTroves,
       beginLiquidation, BeginRedemption, redeemCollateral, BeginTx, troveVars
  <2>2. saved'.Troves = Troves
    BY <2>1 DEF Storage
  <2> QED
    BY <2>1, <2>2 DEF WholeInv, OpenTrovesAreWhole, TrovesAreWhole
<1>6. CASE \/ LiquidationStep /\ UNCHANGED redVars
           \/ RedemptionStep /\ UNCHANGED liqVars
  BY <1>6, LoopsWhole
<1>7. CASE UNCHANGED vars
  BY <1>7, TrovesUntouched DEF vars, troveVars, controlVars
<1> QED
  BY <1>1, <1>2, <1>3, <1>4, <1>5, <1>6, <1>7 DEF Next, Quiet

\* An open trove never owes less than the minimum debt with its reserve and
\* never is without collateral: not after any sequence of repayments,
\* withdrawals, redistributions, partial, cancelled or reverted redemptions.
THEOREM TrovesStayWhole == Spec => []OpenTrovesAreWhole
<1>1. Init => WholeInv
  BY DEF Init, WholeInv, OpenTrovesAreWhole, TrovesAreWhole, TroveOf
<1>2. WholeInv => OpenTrovesAreWhole
  BY DEF WholeInv
<1> QED
  BY <1>1, <1>2, LedgerInvariance, InitAccounts, NextAccounts, NextWhole, PTL
     DEF Spec

-----------------------------------------------------------------------------
(* Redemption at face value *)

\* A trove worth at least its debt that gives up collateral for no less debt
\* keeps its ratio: prices and precision as in _redeemCollateralFromTrove.
LEMMA LotKeepsRatio ==
    ASSUME NEW coll \in Nat, NEW debt \in Nat, NEW price \in Nat,
           NEW unit \in Nat, NEW lot \in Nat, NEW drawn \in Nat,
           drawn <= coll, lot < debt, drawn * price <= lot * unit,
           coll * price >= debt * unit
    PROVE  (coll * price) \div debt <= ((coll - drawn) * price) \div (debt - lot)
<1> DEFINE q == (coll * price) \div debt
           left == (coll - drawn) * price
<1>1. /\ q \in Int /\ debt * q <= coll * price
  <2>1. coll * price \in Int /\ debt > 0
    OBVIOUS
  <2> QED BY <2>1, QuotientBounds
<1>2. q >= unit
  <2>1. coll * price \in Int /\ debt > 0 /\ unit \in Int
    OBVIOUS
  <2>2. debt * unit <= coll * price
    OBVIOUS
  <2> QED BY <2>1, <2>2, QuotientGreatest
<1> HIDE DEF q
<1>3. left = coll * price - drawn * price /\ left \in Int
  OBVIOUS
<1>4. (debt - lot) * q = debt * q - lot * q
  BY <1>1
<1>5. lot * unit <= lot * q
  BY <1>1, <1>2
<1>6. coll * price \in Int /\ drawn * price \in Int /\ lot * unit \in Int
      /\ debt * q \in Int /\ lot * q \in Int
  BY <1>1
<1>7. (debt - lot) * q <= left
  <2> HIDE DEF left
  <2>1. \A x, y, z, u, v \in Int : u <= x /\ y <= z /\ z <= v => u - v <= x - y
    OBVIOUS
  <2> QED BY <1>1, <1>3, <1>4, <1>5, <1>6, <2>1
<1>8. debt - lot \in Nat /\ debt - lot > 0
  OBVIOUS
<1> HIDE DEF left
<1>9. q <= left \div (debt - lot)
  BY <1>1, <1>3, <1>7, <1>8, QuotientGreatest
<1> QED BY <1>9 DEF q, left

\* One step of the redemption's loop
LEMMA FaceValueStep ==
    ASSUME LedgerInv, NEW b \in Borrowers, b = redeeming.user,
           redeemWhole \/ redeemPartly
    PROVE  /\ (redeeming'.drawn - redeeming.drawn) * redArgs.price
                  <= (redeeming'.redeemed - redeeming.redeemed) * DECIMAL_PRECISION
           /\ (/\ Active(b)'
               /\ computeCR(collApplied(b), debtApplied(b), redArgs.price) >= _100pct)
              => computeCR(Troves'[b].coll, Troves'[b].debt, redArgs.price)
                     >= computeCR(collApplied(b), debtApplied(b), redArgs.price)
<1> DEFINE p == redArgs.price
<1>1. /\ pc = "redeeming" /\ ~RedemptionOver /\ RedeemChecks(b)
      /\ redeeming'.redeemed = redeeming.redeemed + USDDLot(b)
      /\ redeeming'.drawn = redeeming.drawn + CollLot(b)
  BY DEF redeemWhole, redeemPartly, Progress
<1>2. TroveTypes /\ RewardTypes /\ LoopTypes
  BY DEF LedgerInv, TypeOK
<1>3. p \in Nat /\ p > 0
  <2>1. p \in Prices
    BY <1>1, <1>2 DEF LoopTypes
  <2> QED BY <2>1, PriceType
<1>4. /\ USDDLot(b) \in Nat /\ CollLot(b) \in Nat
      /\ debtAfterLot(b) \in Nat /\ collAfterLot(b) \in Nat
  BY <1>1, LotTypes
<1>5. /\ redeeming.redeemed \in Nat /\ redeeming.drawn \in Nat
      /\ DECIMAL_PRECISION \in Nat \ {0}
  BY <1>2, MathAssumption DEF LoopTypes, ProgressSet
<1> HIDE DEF p
<1>6. CollLot(b) * p <= USDDLot(b) * DECIMAL_PRECISION
  <2>1. USDDLot(b) * DECIMAL_PRECISION \in Nat
    BY <1>4, <1>5
  <2>2. CollLot(b) = (USDDLot(b) * DECIMAL_PRECISION) \div p
    BY DEF CollLot, p
  <2> QED BY <1>3, <2>1, <2>2, FloorBound
<1>7. /\ redeeming'.drawn - redeeming.drawn = CollLot(b)
      /\ redeeming'.redeemed - redeeming.redeemed = USDDLot(b)
  BY <1>1, <1>4, <1>5
<1>8. ASSUME Active(b)', computeCR(collApplied(b), debtApplied(b), p) >= _100pct
      PROVE  computeCR(Troves'[b].coll, Troves'[b].debt, p)
                 >= computeCR(collApplied(b), debtApplied(b), p)
  <2>1. redeemPartly
    <3>1. ASSUME redeemWhole PROVE FALSE
      <4>1. Troves' = [Troves EXCEPT ![b] = TroveOf("closedByRedemption", 0, 0, 0)]
        BY <3>1 DEF redeemWhole, closeTrove
      <4>2. Troves'[b].status = "closedByRedemption"
        BY <1>2, <4>1 DEF TroveTypes, TroveOf
      <4> QED BY <1>8, <4>2 DEF Active
    <3> QED BY <3>1
  <2>2. /\ Troves' = [Troves EXCEPT ![b] =
               TroveOf("active", collAfterLot(b), debtAfterLot(b),
                       computeNewStake(collAfterLot(b)))]
        /\ getNetDebt(debtAfterLot(b)) >= MIN_NET_DEBT
    BY <2>1 DEF redeemPartly
  <2>3. Troves'[b].coll = collAfterLot(b) /\ Troves'[b].debt = debtAfterLot(b)
    BY <1>2, <2>2 DEF TroveTypes, TroveOf
  <2>4. debtAfterLot(b) > 0
    BY <1>4, <2>2, MathAssumption DEF getNetDebt
  <2>5. collApplied(b) \in Nat /\ debtApplied(b) \in Nat
    BY <1>1, <1>2, AppliedTypes DEF RedeemChecks
  <2>6. /\ debtAfterLot(b) = debtApplied(b) - USDDLot(b)
        /\ collAfterLot(b) = collApplied(b) - CollLot(b)
        /\ CollLot(b) <= collApplied(b)
    BY <1>1 DEF debtAfterLot, collAfterLot, RedeemChecks
  <2>7. USDDLot(b) < debtApplied(b) /\ debtApplied(b) > 0
    BY <1>4, <2>4, <2>5, <2>6
  <2>8. collApplied(b) * p >= debtApplied(b) * DECIMAL_PRECISION
    <3>1. (collApplied(b) * p) \div debtApplied(b) >= DECIMAL_PRECISION
      BY <1>8, <2>7 DEF computeCR, _100pct
    <3>2. collApplied(b) * p \in Int
      BY <1>3, <2>5
    <3>3. /\ (collApplied(b) * p) \div debtApplied(b) \in Int
          /\ debtApplied(b) * ((collApplied(b) * p) \div debtApplied(b))
                 <= collApplied(b) * p
      BY <2>5, <2>7, <3>2, QuotientBounds
    <3>4. \A d \in Nat, q, u, x \in Int : q >= u /\ d * q <= x => x >= d * u
      OBVIOUS
    <3> QED BY <1>5, <2>5, <3>1, <3>2, <3>3, <3>4
  <2>9. (collApplied(b) * p) \div debtApplied(b)
            <= (collAfterLot(b) * p) \div debtAfterLot(b)
    BY <1>3, <1>4, <1>5, <1>6, <2>5, <2>6, <2>7, <2>8, LotKeepsRatio
  <2>10. /\ (collApplied(b) * p) \div debtApplied(b) \in Int
         /\ (collAfterLot(b) * p) \div debtAfterLot(b) \in Int
    BY <1>3, <1>4, <2>4, <2>5, <2>7
  <2> QED BY <2>3, <2>4, <2>7, <2>9, <2>10 DEF computeCR
<1> QED BY <1>6, <1>7, <1>8 DEF p

\* Whatever the order of the list, a redemption draws from a trove no more
\* collateral than the debt it cancels is worth, and leaves a trove that is
\* worth its debt with no lower ratio than it had with its rewards applied.
THEOREM RedemptionsTakeFaceValue ==
    Spec => [][\A b \in Borrowers :
        b = redeeming.user /\ (redeemWhole \/ redeemPartly) =>
            /\ (redeeming'.drawn - redeeming.drawn) * redArgs.price
                   <= (redeeming'.redeemed - redeeming.redeemed) * DECIMAL_PRECISION
            /\ (/\ Active(b)'
                /\ computeCR(collApplied(b), debtApplied(b), redArgs.price) >= _100pct)
               => computeCR(Troves'[b].coll, Troves'[b].debt, redArgs.price)
                      >= computeCR(collApplied(b), debtApplied(b), redArgs.price)]_vars
<1> DEFINE FaceValue ==
        \A b \in Borrowers :
            b = redeeming.user /\ (redeemWhole \/ redeemPartly) =>
                /\ (redeeming'.drawn - redeeming.drawn) * redArgs.price
                       <= (redeeming'.redeemed - redeeming.redeemed) * DECIMAL_PRECISION
                /\ (/\ Active(b)'
                    /\ computeCR(collApplied(b), debtApplied(b), redArgs.price)
                           >= _100pct)
                   => computeCR(Troves'[b].coll, Troves'[b].debt, redArgs.price)
                          >= computeCR(collApplied(b), debtApplied(b), redArgs.price)
<1>1. LedgerInv => FaceValue
  BY FaceValueStep
<1> QED BY <1>1, LedgerInvariance, PTL DEF Spec

-----------------------------------------------------------------------------
(* The debt of the redistributions.  hasPendingRewards looks at the        *)
(* collateral only, so what follows is proved for the behaviours in which  *)
(* it sees the debt as well (RewardsSeen).                                 *)

DebtOwed == [b \in Borrowers |->
                 Troves[b].stake * (L_USDDDebt - rewardSnapshots[b].USDDDebt)]

\* The default pool holds the debt owed by the troves and the error the last
\* redistribution has carried over.
DebtHeld ==
    /\ \A b \in Borrowers : rewardSnapshots[b].USDDDebt <= L_USDDDebt
    /\ SumFunction(DebtOwed) + lastUSDDDebtError
           <= defaultPool.debt * DECIMAL_PRECISION

\* The same of the storage to which a transaction may roll back
StorageDebt(s) ==
    LET owed == [b \in Borrowers |-> s.Troves[b].stake
                     * (s.L_USDDDebt - s.rewardSnapshots[b].USDDDebt)]
    IN /\ \A b \in Borrowers : s.rewardSnapshots[b].USDDDebt <= s.L_USDDDebt
       /\ SumFunction(owed) + s.lastUSDDDebtError
              <= s.defaultPool.debt * DECIMAL_PRECISION

DebtInv == DebtHeld /\ (pc # "idle" => StorageDebt(saved))

\* What a trove owes of the redistributions is a natural number, and what it
\* is asked for is no more than that.
LEMMA PendingDebtOwed ==
    ASSUME TroveTypes, RewardTypes, NEW b \in Borrowers,
           rewardSnapshots[b].USDDDebt <= L_USDDDebt
    PROVE  /\ rewardSnapshots[b].USDDDebt \in Nat /\ DebtOwed[b] \in Nat
           /\ getPendingUSDDDebtReward(b) \in Nat
           /\ getPendingUSDDDebtReward(b) * DECIMAL_PRECISION <= DebtOwed[b]
           /\ appliedDebt(b) \in Nat
           /\ appliedDebt(b) * DECIMAL_PRECISION <= DebtOwed[b]
<1> DEFINE D == DECIMAL_PRECISION
           x == DebtOwed[b]
<1>1. D \in Nat /\ D > 0 /\ L_USDDDebt \in Nat
  BY MathAssumption DEF RewardTypes
<1>2. rewardSnapshots[b].USDDDebt \in Nat /\ Troves[b].stake \in Nat
  <2>1. Troves[b] \in TroveSet /\ rewardSnapshots[b] \in RewardSnapshotSet
    BY DEF TroveTypes
  <2> QED BY <2>1 DEF TroveSet, RewardSnapshotSet
<1>3. x = Troves[b].stake * (L_USDDDebt - rewardSnapshots[b].USDDDebt)
  BY DEF DebtOwed
<1>4. x \in Nat
  <2>1. L_USDDDebt - rewardSnapshots[b].USDDDebt \in Nat
    BY <1>1, <1>2
  <2> QED BY <1>2, <1>3, <2>1
<1>5. getPendingUSDDDebtReward(b) = x \div D \/ getPendingUSDDDebtReward(b) = 0
  BY <1>3 DEF getPendingUSDDDebtReward
<1>6. appliedDebt(b) = getPendingUSDDDebtReward(b) \/ appliedDebt(b) = 0
  BY DEF appliedDebt
<1> HIDE DEF x, D
<1>7. x \div D \in Nat /\ (x \div D) * D <= x
  BY <1>1, <1>4, DivNat, FloorBound
<1>8. 0 * D = 0
  BY <1>1
<1> QED BY <1>1, <1>2, <1>4, <1>5, <1>6, <1>7, <1>8 DEF x, D

\* A step that rewrites one trove, which afterwards owes nothing more: its
\* debt has been taken from the default pool, rounded down, or it has no stake.
LEMMA DebtMoved ==
    ASSUME TroveTypes, RewardTypes, PoolTypes, DebtHeld,
           NEW b \in Borrowers, NEW tr \in TroveSet, NEW sn \in RewardSnapshotSet,
           NEW paid \in Nat, paid * DECIMAL_PRECISION <= DebtOwed[b],
           \/ sn.USDDDebt = L_USDDDebt
           \/ tr.stake = 0 /\ sn.USDDDebt <= L_USDDDebt,
           Troves' = [Troves EXCEPT ![b] = tr],
           rewardSnapshots' = [rewardSnapshots EXCEPT ![b] = sn],
           defaultPool'.debt = defaultPool.debt - paid,
           UNCHANGED <<L_USDDDebt, lastUSDDDebtError>>
    PROVE  DebtHeld'
<1> DEFINE D == DECIMAL_PRECISION
           h == [c \in Borrowers |-> Troves'[c].stake
                     * (L_USDDDebt' - rewardSnapshots'[c].USDDDebt)]
<1>1. /\ Troves \in [Borrowers -> TroveSet]
      /\ rewardSnapshots \in [Borrowers -> RewardSnapshotSet]
      /\ L_USDDDebt \in Nat /\ lastUSDDDebtError \in Nat /\ defaultPool.debt \in Nat
      /\ D \in Nat /\ tr.stake \in Nat /\ sn.USDDDebt \in Nat
      /\ IsFiniteSet(Borrowers)
  BY PoolFields, MathAssumption, StateAssumption
     DEF TroveTypes, RewardTypes, TroveSet, RewardSnapshotSet
<1>2. \A c \in Borrowers :
          /\ Troves'[c] = (IF c = b THEN tr ELSE Troves[c])
          /\ rewardSnapshots'[c] = (IF c = b THEN sn ELSE rewardSnapshots[c])
  BY <1>1
<1>3. sn.USDDDebt <= L_USDDDebt /\ tr.stake * (L_USDDDebt - sn.USDDDebt) = 0
  <2>1. CASE sn.USDDDebt = L_USDDDebt
    <3>1. L_USDDDebt - sn.USDDDebt = 0
      BY <1>1, <2>1
    <3> QED BY <1>1, <2>1, <3>1
  <2>2. CASE tr.stake = 0 /\ sn.USDDDebt <= L_USDDDebt
    <3>1. L_USDDDebt - sn.USDDDebt \in Int
      BY <1>1
    <3> QED BY <2>2, <3>1
  <2> QED BY <2>1, <2>2
<1>4. \A c \in Borrowers : DebtOwed[c] \in Nat
  BY PendingDebtOwed DEF DebtHeld
<1>5. DebtOwed \in [Borrowers -> Int]
  <2>1. DebtOwed = [c \in Borrowers |-> DebtOwed[c]]
    BY DEF DebtOwed
  <2> QED BY <1>4, <2>1
<1>6. h[b] = 0 /\ \A c \in Borrowers \ {b} : h[c] = DebtOwed[c]
  BY <1>2, <1>3 DEF DebtOwed
<1>7. DebtOwed' = h /\ h = [c \in Borrowers |-> h[c]]
  BY DEF DebtOwed
<1> HIDE DEF h
<1>8. h \in [Borrowers -> Int]
  BY <1>4, <1>6, <1>7
<1>9. SumFunction(h) = SumFunction(DebtOwed) - DebtOwed[b] + 0
  BY <1>1, <1>5, <1>6, <1>8, SumUpdate
<1>10. SumFunction(DebtOwed) \in Int /\ SumFunction(h) \in Int
  BY <1>1, <1>5, <1>8, SumType
<1>11. (defaultPool.debt - paid) * D = defaultPool.debt * D - paid * D
  BY <1>1
<1>12. defaultPool.debt * D \in Int /\ paid * D \in Int
  BY <1>1
<1>13. SumFunction(h) + lastUSDDDebtError <= (defaultPool.debt - paid) * D
  BY <1>1, <1>4, <1>9, <1>10, <1>11, <1>12 DEF DebtHeld
<1>14. \A c \in Borrowers : rewardSnapshots'[c].USDDDebt <= L_USDDDebt'
  BY <1>2, <1>3 DEF DebtHeld
<1> QED BY <1>7, <1>13, <1>14 DEF DebtHeld

\* The debts that the troves are asked for, each rounded down, add up to no
\* more than the default pool records.
LEMMA HeldDebtCovers ==
    ASSUME TroveTypes, RewardTypes, PoolTypes, DebtHeld
    PROVE  DebtRewardsCovered
<1> DEFINE D == DECIMAL_PRECISION
           pending == [b \in Borrowers |-> getPendingUSDDDebtReward(b)]
           scaled == [b \in Borrowers |-> D * pending[b]]
<1>1. /\ D \in Nat /\ D > 0 /\ defaultPool.debt \in Nat /\ lastUSDDDebtError \in Nat
      /\ IsFiniteSet(Borrowers)
  BY MathAssumption, PoolFields, StateAssumption DEF RewardTypes
<1>2. \A b \in Borrowers : /\ pending[b] \in Nat /\ DebtOwed[b] \in Nat
                           /\ pending[b] * D <= DebtOwed[b]
  BY PendingDebtOwed DEF DebtHeld
<1>3. pending \in [Borrowers -> Int] /\ pending \in [Borrowers -> Nat]
  BY <1>2
<1>4. DebtOwed \in [Borrowers -> Int]
  <2>1. DebtOwed = [c \in Borrowers |-> DebtOwed[c]]
    BY DEF DebtOwed
  <2> QED BY <1>2, <2>1
<1> HIDE DEF D, pending
<1>5. scaled \in [Borrowers -> Int] /\ \A b \in Borrowers : scaled[b] = D * pending[b]
  BY <1>1, <1>3
<1>6. \A b \in Borrowers : scaled[b] <= DebtOwed[b]
  <2> TAKE b \in Borrowers
  <2>1. D * pending[b] = pending[b] * D
    BY <1>1, <1>2
  <2> QED BY <1>2, <1>5, <2>1
<1> HIDE DEF scaled
<1>7. SumFunction(scaled) = D * SumFunction(pending)
  BY <1>1, <1>3, <1>5, SumScaled
<1>8. SumFunction(scaled) <= SumFunction(DebtOwed)
  BY <1>1, <1>4, <1>5, <1>6, SumMonotone
<1>9. SumFunction(DebtOwed) + lastUSDDDebtError <= defaultPool.debt * D
  BY DEF DebtHeld, D
<1>10. SumFunction(pending) \in Int /\ SumFunction(DebtOwed) \in Int
  BY <1>1, <1>3, <1>4, SumType
<1> DEFINE p == SumFunction(pending)
           q == defaultPool.debt
<1>11. p \in Int /\ q \in Nat /\ D * p <= q * D
  <2>1. D * p \in Int /\ q * D \in Int
    BY <1>1, <1>10
  <2> HIDE DEF q
  <2> QED BY <1>1, <1>7, <1>8, <1>9, <1>10, <2>1 DEF q
<1> HIDE DEF p, q
<1>12. p <= q
  BY <1>1, <1>11, MultiplierCancels
<1> QED BY <1>12 DEF DebtRewardsCovered, SumOver, p, q, pending

\* _redistributeDebtAndColl raises what the troves owe, and the error carried
\* over, by the debt that the default pool records.
LEMMA DebtRedistributed ==
    ASSUME TypeOK, DebtHeld, StakesSummed, redistributed, FinishChecks,
           UNCHANGED troveVars,
           defaultPool'.debt = defaultPool.debt + totals.debtToRedistribute
    PROVE  DebtHeld'
<1> DEFINE D == DECIMAL_PRECISION
           r == totals.debtToRedistribute
           num == r * D + lastUSDDDebtError
           q == num \div totalStakes
<1>1. /\ TroveTypes /\ RewardTypes /\ PoolTypes
      /\ D \in Nat /\ r \in Nat /\ L_USDDDebt \in Nat /\ lastUSDDDebtError \in Nat
      /\ totalStakes \in Nat /\ IsFiniteSet(Borrowers)
  BY MathAssumption, StateAssumption
     DEF TypeOK, LoopTypes, ValuesSet, RewardTypes, TroveTypes
<1>2. Troves' = Troves /\ rewardSnapshots' = rewardSnapshots
  BY DEF troveVars
<1>3. defaultPool.debt \in Nat
  BY <1>1, PoolFields
<1>4. CASE r = 0
  <2>1. defaultPool'.debt = defaultPool.debt
    BY <1>3, <1>4
  <2>2. L_USDDDebt' = L_USDDDebt /\ lastUSDDDebtError' = lastUSDDDebtError
    BY <1>4 DEF redistributed, rewardVars
  <2>3. DebtOwed' = DebtOwed
    BY <1>2, <2>2 DEF DebtOwed
  <2> QED BY <1>2, <2>1, <2>2, <2>3 DEF DebtHeld
<1>5. CASE r # 0
  <2>1. totalStakes > 0
    BY <1>5 DEF FinishChecks
  <2>2. L_USDDDebt' = L_USDDDebt + q /\ lastUSDDDebtError' = num - q * totalStakes
    BY <1>5 DEF redistributed
  <2>3. num \in Nat
    <3>1. r * D \in Nat
      BY <1>1
    <3> QED BY <1>1, <3>1
  <2> HIDE DEF num
  <2>4. q \in Nat
    BY <1>1, <2>1, <2>3, DivNat
  <2> HIDE DEF q
  <2> DEFINE owed == [b \in Borrowers |->
                 Troves[b].stake * ((L_USDDDebt + q) - rewardSnapshots[b].USDDDebt)]
  <2>5. DebtOwed' = owed
    BY <1>2, <2>2 DEF DebtOwed
  <2>6. \A b \in Borrowers :
            /\ Troves[b].stake \in Nat /\ rewardSnapshots[b].USDDDebt \in Nat
            /\ rewardSnapshots[b].USDDDebt <= L_USDDDebt
    BY <1>1, TroveFields, PendingDebtOwed DEF DebtHeld
  <2>7. /\ owed \in [Borrowers -> Int] /\ DebtOwed \in [Borrowers -> Int]
        /\ stakeOf \in [Borrowers -> Int]
    BY <1>1, <2>4, <2>6 DEF DebtOwed, stakeOf
  <2>8. Combines(owed, DebtOwed, q, stakeOf, Borrowers)
    <3>1. ASSUME NEW s \in Nat, NEW l \in Nat, NEW n \in Nat
          PROVE  s * ((l + q) - n) = s * (l - n) + q * s
      BY <2>4
    <3>2. ASSUME NEW b \in Borrowers
          PROVE  owed[b] = DebtOwed[b] + q * stakeOf[b]
      <4>1. /\ owed[b] = Troves[b].stake
                             * ((L_USDDDebt + q) - rewardSnapshots[b].USDDDebt)
            /\ DebtOwed[b] = Troves[b].stake
                                 * (L_USDDDebt - rewardSnapshots[b].USDDDebt)
            /\ stakeOf[b] = Troves[b].stake
        BY DEF DebtOwed, stakeOf
      <4>2. Troves[b].stake * ((L_USDDDebt + q) - rewardSnapshots[b].USDDDebt)
                = Troves[b].stake * (L_USDDDebt - rewardSnapshots[b].USDDDebt)
                      + q * Troves[b].stake
        BY <1>1, <2>6, <3>1
      <4> QED BY <4>1, <4>2
    <3> HIDE DEF owed
    <3> QED BY <3>2 DEF Combines
  <2> HIDE DEF owed
  <2>9. SumFunction(owed) = SumFunction(DebtOwed) + q * totalStakes
    <3>1. q \in Int
      BY <2>4
    <3>2. SumFunction(owed) = SumFunction(DebtOwed) + q * SumFunction(stakeOf)
      BY <1>1, <2>7, <2>8, <3>1, SumLinear
    <3> QED BY <3>2 DEF StakesSummed
  <2>10. SumFunction(DebtOwed) \in Int /\ SumFunction(owed) \in Int
    BY <1>1, <2>7, SumType
  <2>11. SumFunction(owed) + lastUSDDDebtError'
             = SumFunction(DebtOwed) + lastUSDDDebtError + r * D
    <3> DEFINE m == q * totalStakes
               rd == r * D
    <3>1. m \in Nat /\ rd \in Nat
      BY <1>1, <2>4
    <3>2. /\ SumFunction(owed) = SumFunction(DebtOwed) + m
          /\ lastUSDDDebtError' = (rd + lastUSDDDebtError) - m
      BY <2>2, <2>9 DEF num
    <3> HIDE DEF m, rd
    <3>3. SumFunction(owed) + lastUSDDDebtError'
              = SumFunction(DebtOwed) + lastUSDDDebtError + rd
      BY <1>1, <2>10, <3>1, <3>2
    <3> QED BY <3>3 DEF rd
  <2>12. SumFunction(DebtOwed) + lastUSDDDebtError <= defaultPool.debt * D
    BY DEF DebtHeld
  <2>13. defaultPool'.debt * D = defaultPool.debt * D + r * D
    <3>1. ASSUME NEW x \in Nat, NEW y \in Nat
          PROVE  (x + y) * D = x * D + y * D
      BY <1>1
    <3> QED BY <1>1, <1>3, <3>1
  <2>14. SumFunction(owed) + lastUSDDDebtError' <= defaultPool'.debt * D
    <3>1. r * D \in Nat /\ defaultPool.debt * D \in Nat
      BY <1>1, <1>3
    <3> QED BY <1>1, <2>10, <2>11, <2>12, <2>13, <3>1
  <2>15. \A b \in Borrowers : rewardSnapshots'[b].USDDDebt <= L_USDDDebt'
    BY <1>1, <1>2, <2>2, <2>4, <2>6
  <2> QED BY <2>5, <2>14, <2>15 DEF DebtHeld
<1> QED BY <1>4, <1>5

\* Where hasPendingRewards sees the debt, applying the rewards leaves an open
\* trove with the current sum as its snapshot.
LEMMA AppliedDebtIsCurrent ==
    ASSUME TroveTypes, RewardTypes, RewardsHeld, RewardsSeen,
           NEW b \in Borrowers, Active(b)
    PROVE  /\ appliedSnapshot(b).USDDDebt = L_USDDDebt
           /\ appliedSnapshot(b) \in RewardSnapshotSet
<1>1. /\ rewardSnapshots[b].COLL <= L_COLL
      /\ rewardSnapshots[b].COLL \in Nat /\ L_COLL \in Nat
      /\ rewardSnapshots[b] \in RewardSnapshotSet /\ L_USDDDebt \in Nat
  BY TroveFields DEF RewardsHeld, RewardTypes, TroveTypes
<1>2. CASE rewardSnapshots[b].COLL < L_COLL
  BY <1>1, <1>2 DEF appliedSnapshot, hasPendingRewards, RewardSnapshotSet
<1>3. CASE ~(rewardSnapshots[b].COLL < L_COLL)
  <2>1. rewardSnapshots[b].COLL = L_COLL /\ b \in ActiveTroves
    BY <1>1, <1>3 DEF ActiveTroves
  <2> QED BY <1>1, <1>3, <2>1 DEF appliedSnapshot, hasPendingRewards, RewardsSeen
<1> QED BY <1>2, <1>3

\* A trove whose rewards are applied and which stays open
LEMMA DebtOfOpenTrove ==
    ASSUME TypeOK, RewardsHeld, DebtHeld, RewardsSeen, NEW b \in Borrowers, Active(b),
           NEW tr \in TroveSet, Troves' = [Troves EXCEPT ![b] = tr],
           rewardSnapshots' = [rewardSnapshots EXCEPT ![b] = appliedSnapshot(b)],
           defaultPool' = PoolMinus(defaultPool, appliedColl(b), appliedDebt(b)),
           UNCHANGED rewardVars
    PROVE  DebtHeld'
<1> DEFINE sn == appliedSnapshot(b)
<1>1. TroveTypes /\ RewardTypes /\ PoolTypes
  BY DEF TypeOK
<1>2. sn.USDDDebt = L_USDDDebt /\ sn \in RewardSnapshotSet
  BY <1>1, AppliedDebtIsCurrent
<1>3. /\ appliedDebt(b) \in Nat
      /\ appliedDebt(b) * DECIMAL_PRECISION <= DebtOwed[b]
  BY <1>1, PendingDebtOwed DEF DebtHeld
<1>4. defaultPool'.debt = defaultPool.debt - appliedDebt(b)
  BY DEF PoolMinus
<1>5. UNCHANGED <<L_USDDDebt, lastUSDDDebtError>>
  BY DEF rewardVars
<1> HIDE DEF sn
<1>6. rewardSnapshots' = [rewardSnapshots EXCEPT ![b] = sn]
  BY DEF sn
<1> QED BY <1>1, <1>2, <1>3, <1>4, <1>5, <1>6, DebtMoved

\* A trove that is closed, with its rewards taken from the default pool
LEMMA DebtOfClosedTrove ==
    ASSUME TypeOK, DebtHeld, NEW b \in Borrowers, NEW s \in StatusSet, closeTrove(b, s),
           NEW paid \in Nat, paid * DECIMAL_PRECISION <= DebtOwed[b],
           defaultPool'.debt = defaultPool.debt - paid, UNCHANGED rewardVars
    PROVE  DebtHeld'
<1> DEFINE tr == TroveOf(s, 0, 0, 0)
           sn == [COLL |-> 0, USDDDebt |-> 0]
<1>1. TroveTypes /\ RewardTypes /\ PoolTypes /\ L_USDDDebt \in Nat
  BY DEF TypeOK, RewardTypes
<1>2. /\ tr \in TroveSet /\ sn \in RewardSnapshotSet
      /\ tr.stake = 0 /\ sn.USDDDebt = 0
  BY DEF TroveOf, TroveSet, RewardSnapshotSet
<1>3. /\ Troves' = [Troves EXCEPT ![b] = tr]
      /\ rewardSnapshots' = [rewardSnapshots EXCEPT ![b] = sn]
      /\ UNCHANGED <<L_USDDDebt, lastUSDDDebtError>>
  BY DEF closeTrove, rewardVars
<1> HIDE DEF tr, sn
<1>4. sn.USDDDebt <= L_USDDDebt
  BY <1>1, <1>2
<1> QED BY <1>1, <1>2, <1>3, <1>4, DebtMoved

\* A borrower's transaction: a new trove begins with the current sum as its
\* snapshot, the others have their rewards applied first.
LEMMA DebtOfBorrower ==
    ASSUME LedgerInv, LedgerInv', RewardsHeld, DebtHeld, RewardsSeen,
           NEW b \in Borrowers, NEW price \in Prices, BorrowerStep(b, price)
    PROVE  DebtHeld' /\ UNCHANGED <<pc, saved>>
<1> DEFINE tr == Troves'[b]
           sn == [COLL |-> L_COLL, USDDDebt |-> L_USDDDebt]
<1>1. TypeOK /\ TroveTypes /\ RewardTypes /\ PoolTypes
  BY DEF LedgerInv, TypeOK
<1>2. tr \in TroveSet
  BY DEF LedgerInv, TypeOK, TroveTypes
<1>3. ASSUME NEW t, Troves' = [Troves EXCEPT ![b] = t]
      PROVE  Troves' = [Troves EXCEPT ![b] = tr]
  <2>1. Troves'[b] = t
    BY <1>1, <1>3 DEF TroveTypes
  <2> QED BY <1>3, <2>1
<1>4. /\ DebtOwed[b] \in Nat /\ 0 * DECIMAL_PRECISION <= DebtOwed[b]
      /\ appliedDebt(b) \in Nat
      /\ appliedDebt(b) * DECIMAL_PRECISION <= DebtOwed[b]
  BY <1>1, PendingDebtOwed, MathAssumption DEF DebtHeld
<1> HIDE DEF tr, sn
<1>5. CASE \E c \in OpenColl, a \in OpenUSDD, rate \in BorrowingRates :
               openTrove(b, price, c, a, rate)
  <2>1. PICK c \in OpenColl, a \in OpenUSDD, rate \in BorrowingRates :
                 openTrove(b, price, c, a, rate)
    BY <1>5
  <2>2. Troves' = [Troves EXCEPT ![b] = tr]
    BY <1>3, <2>1 DEF openTrove
  <2>3. /\ rewardSnapshots' = [rewardSnapshots EXCEPT ![b] = sn]
        /\ defaultPool' = defaultPool /\ UNCHANGED <<L_USDDDebt, lastUSDDDebtError>>
        /\ UNCHANGED <<pc, saved>>
    BY <2>1 DEF openTrove, rewardVars, sn, Transact
  <2>4. sn \in RewardSnapshotSet /\ sn.USDDDebt = L_USDDDebt
    BY <1>1 DEF RewardTypes, RewardSnapshotSet, sn
  <2>5. defaultPool'.debt = defaultPool.debt - 0 /\ 0 \in Nat
    BY <1>1, <2>3, PoolFields
  <2> QED BY <1>1, <1>2, <1>4, <2>2, <2>3, <2>4, <2>5, DebtMoved
<1>6. CASE \/ \E adj \in Adjustments, rate \in BorrowingRates :
                  adjustTrove(b, price, adj, rate)
           \/ withdrawCollGainToTrove(b, price)
  <2>1. PICK adj, rate : /\ updateTroveFromAdjustment(b, price, adj, rate)
                         /\ UNCHANGED rewardVars /\ Transact
    BY <1>6 DEF adjustTrove, withdrawCollGainToTrove
  <2>2. /\ rewardSnapshots' = [rewardSnapshots EXCEPT ![b] = appliedSnapshot(b)]
        /\ defaultPool' = PoolMinus(defaultPool, appliedColl(b), appliedDebt(b))
        /\ Active(b)
    BY <2>1 DEF updateTroveFromAdjustment, adjustRequires
  <2>3. Troves' = [Troves EXCEPT ![b] = tr]
    BY <1>3, <2>1 DEF updateTroveFromAdjustment
  <2>4. DebtHeld'
    BY <1>1, <1>2, <2>1, <2>2, <2>3, DebtOfOpenTrove
  <2> QED BY <2>1, <2>4 DEF Transact
<1>7. CASE closeTroveByOwner(b, price)
  <2>1. /\ closeTrove(b, "closedByOwner") /\ "closedByOwner" \in StatusSet
        /\ defaultPool'.debt = defaultPool.debt - appliedDebt(b)
        /\ UNCHANGED rewardVars /\ Transact
    BY <1>7 DEF closeTroveByOwner, StatusSet, PoolMinus
  <2>2. DebtHeld'
    BY <1>1, <1>4, <2>1, DebtOfClosedTrove
  <2> QED BY <2>1, <2>2 DEF Transact
<1> QED BY <1>5, <1>6, <1>7 DEF BorrowerStep

\* Nothing that DebtHeld speaks of is written.
LEMMA DebtUntouched ==
    ASSUME DebtHeld, UNCHANGED <<troveVars, rewardVars, defaultPool>>
    PROVE  DebtHeld'
<1>1. DebtOwed' = DebtOwed
  BY DEF DebtOwed, troveVars, rewardVars
<1> QED BY <1>1 DEF DebtHeld, troveVars, rewardVars

\* The iterations of the loops take the debt of the trove they close or
\* redeem from; the end of a liquidation hands out what it redistributes.
LEMMA DebtOfLoops ==
    ASSUME LedgerInv, LedgerInv', RewardsHeld, StakesSummed, DebtHeld, RewardsSeen,
           TrovesListed,
           \/ skipTrove \/ liquidateTrove \/ finishLiquidation
           \/ redeemWhole \/ redeemPartly \/ cancelPartial
           \/ \E rate \in RedemptionRates : finishRedemption(rate)
    PROVE  DebtHeld' /\ (pc' = "idle" \/ UNCHANGED <<pc, saved>>)
<1>1. TypeOK /\ TroveTypes /\ RewardTypes /\ PoolTypes /\ LoopTypes
  BY DEF LedgerInv, TypeOK
<1>2. CASE skipTrove
  BY <1>2, DebtUntouched DEF skipTrove, controlVars, poolVars
<1>3. CASE \E rate \in RedemptionRates : finishRedemption(rate)
  BY <1>3, DebtUntouched DEF finishRedemption, CommitTx
<1>4. CASE finishLiquidation
  <2>1. /\ redistributed /\ FinishChecks /\ UNCHANGED troveVars /\ pc' = "idle"
        /\ defaultPool'.debt = defaultPool.debt + totals.debtToRedistribute
    BY <1>4 DEF finishLiquidation, CommitTx, PoolPlus
  <2> QED BY <1>1, <2>1, DebtRedistributed
<1>5. CASE liquidateTrove
  <2> DEFINE b == currentUser
  <2>1. /\ closeTrove(b, "closedByLiquidation") /\ "closedByLiquidation" \in StatusSet
        /\ pc = "liquidating" /\ ~LoopOver /\ stepVals(b) # zeroVals
        /\ defaultPool'.debt = defaultPool.debt - getPendingUSDDDebtReward(b)
        /\ UNCHANGED rewardVars /\ UNCHANGED controlVars
    BY <1>5 DEF liquidateTrove, StatusSet, PoolMinus
  <2>2. b \in Borrowers
    BY <1>1, <2>1, CurrentUserType
  <2> HIDE DEF b
  <2>3. /\ getPendingUSDDDebtReward(b) \in Nat
        /\ getPendingUSDDDebtReward(b) * DECIMAL_PRECISION <= DebtOwed[b]
    BY <1>1, <2>2, PendingDebtOwed DEF DebtHeld
  <2>4. DebtHeld'
    BY <1>1, <2>1, <2>2, <2>3, DebtOfClosedTrove
  <2> QED BY <2>1, <2>4 DEF controlVars
<1>6. CASE redeemWhole
  <2> DEFINE b == redeeming.user
  <2>1. /\ closeTrove(b, "closedByRedemption") /\ "closedByRedemption" \in StatusSet
        /\ ~RedemptionOver
        /\ defaultPool'.debt = defaultPool.debt - appliedDebt(b)
        /\ UNCHANGED rewardVars /\ UNCHANGED controlVars
    BY <1>6 DEF redeemWhole, StatusSet, PoolMinus
  <2>2. b \in Borrowers
    BY <1>1, <2>1, RedeemedUserType
  <2> HIDE DEF b
  <2>3. /\ appliedDebt(b) \in Nat
        /\ appliedDebt(b) * DECIMAL_PRECISION <= DebtOwed[b]
    BY <1>1, <2>2, PendingDebtOwed DEF DebtHeld
  <2>4. DebtHeld'
    BY <1>1, <2>1, <2>2, <2>3, DebtOfClosedTrove
  <2> QED BY <2>1, <2>4 DEF controlVars
<1>7. CASE redeemPartly \/ cancelPartial
  <2> DEFINE b == redeeming.user
             tr == Troves'[b]
  <2>1. PICK t : Troves' = [Troves EXCEPT ![b] = t]
    BY <1>7 DEF redeemPartly, cancelPartial
  <2>2. /\ rewardSnapshots' = [rewardSnapshots EXCEPT ![b] = appliedSnapshot(b)]
        /\ defaultPool' = PoolMinus(defaultPool, appliedColl(b), appliedDebt(b))
        /\ RedeemChecks(b) /\ ~RedemptionOver
        /\ UNCHANGED rewardVars /\ UNCHANGED controlVars
    BY <1>7 DEF redeemPartly, cancelPartial
  <2>3. b \in Borrowers
    BY <1>1, <2>2, RedeemedUserType
  <2>4. contains(b)
    BY <2>2 DEF RedeemChecks
  <2>5. tr \in TroveSet
    BY <2>3 DEF LedgerInv, TypeOK, TroveTypes
  <2>6. Troves' = [Troves EXCEPT ![b] = tr]
    <3>1. Troves'[b] = t
      BY <1>1, <2>1, <2>3 DEF TroveTypes
    <3> QED BY <2>1, <3>1
  <2> HIDE DEF b, tr
  <2>7. Active(b)
    BY <1>1, <2>3, <2>4, ContainsActive
  <2>8. DebtHeld'
    BY <1>1, <2>2, <2>3, <2>5, <2>6, <2>7, DebtOfOpenTrove
  <2> QED BY <2>2, <2>8 DEF controlVars
<1> QED BY <1>2, <1>3, <1>4, <1>5, <1>6, <1>7

\* A transaction that begins saves what it would roll back to.
LEMMA DebtSaved ==
    ASSUME DebtHeld, saved' = Storage, UNCHANGED <<troveVars, rewardVars, defaultPool>>
    PROVE  DebtInv'
<1>1. DebtHeld'
  BY DebtUntouched
<1>2. StorageDebt(Storage) = DebtHeld
  BY DEF StorageDebt, Storage, DebtHeld, DebtOwed
<1>3. StorageDebt(saved') 
  BY <1>2
<1> QED BY <1>1, <1>3 DEF DebtInv, StorageDebt

\* Every step keeps the debt covered, if hasPendingRewards has seen it.
LEMMA NextDebt ==
    LedgerInv /\ LedgerInv' /\ AccountsInv /\ DebtInv /\ RewardsSeen /\ [Next]_vars
        => DebtInv'
<1> SUFFICES ASSUME LedgerInv, LedgerInv', AccountsInv, DebtInv, RewardsSeen,
                    [Next]_vars
             PROVE  DebtInv'
  OBVIOUS
<1>1. /\ DebtHeld /\ (pc # "idle" => StorageDebt(saved))
      /\ RewardsHeld /\ StakesSummed /\ TrovesListed
  BY DEF DebtInv, AccountsInv
<1>2. ASSUME DebtHeld', pc' = "idle" \/ UNCHANGED <<pc, saved>>
      PROVE  DebtInv'
  BY <1>1, <1>2 DEF DebtInv, StorageDebt
<1>3. CASE \E b \in Borrowers, price \in Prices :
               BorrowerStep(b, price) /\ UNCHANGED <<liqVars, redVars>>
  BY <1>1, <1>2, <1>3, DebtOfBorrower
<1>4. CASE \/ \E b \in Borrowers : claimCollateral(b)
           \/ \E u \in Users, price \in Prices : DepositorStep(u, price)
           \/ \E u, v \in Users, a \in TransferAmounts : transferUSDD(u, v, a)
  <2>1. UNCHANGED <<troveVars, rewardVars, defaultPool>> /\ UNCHANGED <<pc, saved>>
    BY <1>4 DEF claimCollateral, DepositorStep, provideToSP, withdrawFromSP,
                transferUSDD, Transact, poolVars
  <2> QED BY <1>1, <1>2, <2>1, DebtUntouched
<1>5. CASE \/ \E k \in Keepers, price \in Prices : BeginLoop(k, price)
           \/ \E k \in Keepers, price \in Prices : BeginRedemption(k, price)
  <2>1. saved' = Storage /\ UNCHANGED <<troveVars, rewardVars, defaultPool>>
    BY <1>5 DEF BeginLoop, liquidateTroves, batchLiquidateTroves,
       beginLiquidation, BeginRedemption, redeemCollateral, BeginTx, poolVars
  <2> QED BY <1>1, <2>1, DebtSaved
<1>6. CASE revertLiquidation \/ revertRedemption
  <2>1. pc # "idle" /\ RevertTx
    BY <1>6 DEF revertLiquidation, revertRedemption
  <2>2. StorageDebt(saved)
    BY <1>1, <2>1
  <2>3. DebtHeld' /\ pc' = "idle"
    BY <2>1, <2>2 DEF RevertTx, StorageDebt, DebtHeld, DebtOwed
  <2> QED BY <1>2, <2>3
<1>7. CASE \/ skipTrove \/ liquidateTrove \/ finishLiquidation
           \/ redeemWhole \/ redeemPartly \/ cancelPartial
           \/ \E rate \in RedemptionRates : finishRedemption(rate)
  BY <1>1, <1>2, <1>7, DebtOfLoops
<1>8. CASE UNCHANGED vars
  <2>1. UNCHANGED <<troveVars, rewardVars, defaultPool>> /\ UNCHANGED <<pc, saved>>
    BY <1>8 DEF vars, poolVars, controlVars
  <2> QED BY <1>1, <1>2, <2>1, DebtUntouched
<1> QED
  BY <1>3, <1>4, <1>5, <1>6, <1>7, <1>8
     DEF Next, Quiet, LiquidationStep, RedemptionStep

\* Nothing is owed where nothing has been redistributed.
LEMMA InitDebt == Init => DebtInv
<1> SUFFICES ASSUME Init PROVE DebtInv
  OBVIOUS
<1>1. DebtOwed = [b \in Borrowers |-> 0] /\ DebtOwed \in [Borrowers -> Int]
  <2>1. \A b \in Borrowers : Troves[b].stake = 0 /\ rewardSnapshots[b].USDDDebt = 0
    BY DEF Init, TroveOf
  <2>2. L_USDDDebt = 0
    BY DEF Init
  <2> QED BY <2>1, <2>2 DEF DebtOwed
<1>2. SumFunction(DebtOwed) = 0
  BY <1>1, SumZero, StateAssumption
<1>3. 0 * DECIMAL_PRECISION = 0
  BY MathAssumption
<1> QED BY <1>2, <1>3 DEF Init, DebtInv, DebtHeld

\* The default pool can pay the pending debt of all troves together, as long
\* as hasPendingRewards, which looks at the collateral only, has seen it: the
\* counterpart for the debt of the collateral that BooksInv covers.
THEOREM DebtsAreCovered == Spec /\ []RewardsSeen => []DebtRewardsCovered
<1>1. LedgerInv /\ DebtInv => DebtRewardsCovered
  BY HeldDebtCovers DEF LedgerInv, TypeOK, DebtInv
<1> QED
  BY <1>1, InitDebt, LedgerInvariance, InitAccounts, NextAccounts, NextDebt, PTL DEF Spec

-----------------------------------------------------------------------------
(* The stakes: of an open trove a stake can always be computed, as long as *)
(* no open trove's stake has been rounded to zero (OpenTrovesShare).       *)

\* A liquidation leaves an open trove, whose stake its snapshot contains.
ComputableInv ==
    /\ StakeComputable
    /\ pc # "idle" /\ saved.totalCollateralSnapshot # 0 =>
           saved.totalStakesSnapshot > 0
    /\ pc = "liquidating" /\ totals.debt > 0 => ActiveTroves # {}

\* The stakes of the open troves are part of the total.
LEMMA StakeWithinTotal ==
    ASSUME TroveTypes, StakesSummed
    PROVE  /\ totalStakes \in Nat
           /\ \A b \in Borrowers :
                  Troves[b].stake \in Nat /\ Troves[b].stake <= totalStakes
<1>1. \A b \in Borrowers : Troves[b].stake \in Nat
  BY TroveFields
<1>2. stakeOf \in [Borrowers -> Nat] /\ \A b \in Borrowers : stakeOf[b] = Troves[b].stake
  BY <1>1 DEF stakeOf
<1>3. \A b \in Borrowers : stakeOf[b] <= SumFunction(stakeOf)
  BY <1>2, SumNat, StateAssumption
<1> QED BY <1>1, <1>2, <1>3 DEF StakesSummed, TroveTypes

\* A redistribution divides by the stakes of the troves that are left.
LEMMA StakesLeft ==
    ASSUME TroveTypes, StakesSummed, OpenTrovesShare, ActiveTroves # {}
    PROVE  totalStakes > 0
<1>1. PICK b \in ActiveTroves : TRUE
  OBVIOUS
<1>2. b \in Borrowers /\ Troves[b].stake > 0
  BY <1>1 DEF ActiveTroves, OpenTrovesShare
<1> QED BY <1>2, StakeWithinTotal

\* _closeTrove never removes the last owner.
LEMMA OwnersLeft ==
    ASSUME TroveTypes, TrovesListed, NEW b, NEW s, closeTrove(b, s)
    PROVE  ActiveTroves' # {}
<1>1. 1 \in 1..Len(TroveOwners) /\ 2 \in 1..Len(TroveOwners)
  <2>1. Len(TroveOwners) \in Nat /\ Len(TroveOwners) > 1
    BY DEF TroveTypes, closeTrove, MoreThanOneTrove
  <2> QED BY <2>1
<1>2. PICK c \in ActiveTroves : c # b
  <2>1. /\ TroveOwners[1] \in ActiveTroves /\ TroveOwners[2] \in ActiveTroves
        /\ TroveOwners[1] # TroveOwners[2]
    BY <1>1 DEF TrovesListed, ListsAgree, Lists
  <2> QED BY <2>1
<1>3. Troves'[c] = Troves[c] /\ c \in Borrowers
  BY <1>2 DEF closeTrove, TroveTypes, ActiveTroves
<1> QED BY <1>2, <1>3 DEF ActiveTroves, Active

\* Every step keeps the stakes computable, if the open troves have a stake.
LEMMA NextComputable ==
    LedgerInv /\ LedgerInv' /\ AccountsInv /\ AccountsInv' /\ ComputableInv
        /\ OpenTrovesShare /\ [Next]_vars => ComputableInv'
<1> SUFFICES ASSUME LedgerInv, LedgerInv', AccountsInv, AccountsInv', ComputableInv,
                    OpenTrovesShare, [Next]_vars
             PROVE  ComputableInv'
  OBVIOUS
<1>1. /\ TypeOK /\ TroveTypes /\ LoopTypes /\ TroveTypes' /\ StakesSummed
      /\ TrovesListed /\ TrovesListed' /\ OnlyInFlight'
  BY DEF LedgerInv, TypeOK, AccountsInv
<1>2. zeroVals.debt = 0
  BY DEF zeroVals, Values
<1>3. ASSUME pc' = "idle" \/ UNCHANGED <<pc, saved>>, pc' # "liquidating",
             UNCHANGED snapshotVars
      PROVE  ComputableInv'
  BY <1>3 DEF ComputableInv, StakeComputable, snapshotVars
<1>4. CASE \/ \E b \in Borrowers, price \in Prices : BorrowerStep(b, price)
           \/ \E b \in Borrowers : claimCollateral(b)
           \/ \E u \in Users, price \in Prices : DepositorStep(u, price)
           \/ \E u, v \in Users, a \in TransferAmounts : transferUSDD(u, v, a)
  <2>1. UNCHANGED snapshotVars /\ UNCHANGED <<pc, saved>> /\ pc = "idle"
    BY <1>4 DEF BorrowerStep, openTrove, adjustTrove, withdrawCollGainToTrove,
                closeTroveByOwner, claimCollateral, DepositorStep, provideToSP,
                withdrawFromSP, transferUSDD, Transact
  <2> QED BY <1>3, <2>1
<1>5. CASE \/ \E k \in Keepers, price \in Prices : BeginLoop(k, price)
           \/ (\E k \in Keepers, price \in Prices : BeginRedemption(k, price))
              /\ UNCHANGED liqVars
  <2>1. /\ saved' = Storage /\ UNCHANGED snapshotVars
        /\ pc' = "liquidating" => totals' = zeroVals
    BY <1>5 DEF BeginLoop, liquidateTroves, batchLiquidateTroves,
       beginLiquidation, BeginRedemption, redeemCollateral, BeginTx
  <2>2. /\ saved'.totalCollateralSnapshot = totalCollateralSnapshot
        /\ saved'.totalStakesSnapshot = totalStakesSnapshot
    BY <2>1 DEF Storage
  <2>3. ~(pc' = "liquidating" /\ totals'.debt > 0)
    BY <1>2, <2>1
  <2> QED BY <2>1, <2>2, <2>3 DEF ComputableInv, StakeComputable, snapshotVars
<1>6. CASE revertLiquidation \/ revertRedemption
  <2>1. pc # "idle" /\ RevertTx
    BY <1>6 DEF revertLiquidation, revertRedemption
  <2> QED BY <2>1 DEF RevertTx, ComputableInv, StakeComputable
<1>7. CASE skipTrove
  BY <1>7 DEF skipTrove, controlVars, snapshotVars, troveVars, ComputableInv,
              StakeComputable, ActiveTroves, Active
<1>8. CASE liquidateTrove
  <2>1. /\ closeTrove(currentUser, "closedByLiquidation")
        /\ UNCHANGED <<controlVars, snapshotVars>>
    BY <1>8 DEF liquidateTrove
  <2>2. ActiveTroves' # {}
    BY <1>1, <2>1, OwnersLeft
  <2> QED BY <2>1, <2>2 DEF ComputableInv, StakeComputable, snapshotVars, controlVars
<1>9. CASE finishLiquidation
  <2>1. /\ pc = "liquidating" /\ totals.debt > 0 /\ pc' = "idle"
        /\ totalStakesSnapshot' = totalStakes
    BY <1>9 DEF finishLiquidation, CommitTx, updateSystemSnapshots
  <2>2. totalStakes > 0
    BY <1>1, <2>1, StakesLeft DEF ComputableInv
  <2> QED BY <2>1, <2>2 DEF ComputableInv, StakeComputable
<1>10. CASE \/ redeemWhole \/ redeemPartly \/ cancelPartial
            \/ \E rate \in RedemptionRates : finishRedemption(rate)
  <2>1. /\ UNCHANGED snapshotVars /\ pc' # "liquidating"
        /\ pc' = "idle" \/ UNCHANGED <<pc, saved>>
    BY <1>10 DEF redeemWhole, redeemPartly, cancelPartial, finishRedemption,
                 CommitTx, controlVars
  <2> QED BY <1>3, <2>1
<1>11. CASE UNCHANGED vars
  <2>1. /\ UNCHANGED <<pc, saved, totals, Troves>> /\ UNCHANGED snapshotVars
    BY <1>11 DEF vars, controlVars, liqVars, troveVars
  <2> QED BY <2>1 DEF ComputableInv, StakeComputable, snapshotVars, ActiveTroves, Active
<1> QED
  BY <1>4, <1>5, <1>6, <1>7, <1>8, <1>9, <1>10, <1>11
     DEF Next, Quiet, LiquidationStep, RedemptionStep

\* The assert of _computeNewStake never fails, as long as every open trove
\* has a stake: the snapshots a liquidation takes, and those a revert brings
\* back, never show collateral without stakes.
THEOREM StakesAreComputable == Spec /\ []OpenTrovesShare => []StakeAlwaysComputable
<1>1. Init => ComputableInv
  BY DEF Init, ComputableInv, StakeComputable
<1>2. ComputableInv => StakeAlwaysComputable
  BY DEF ComputableInv, StakeAlwaysComputable
<1> QED
  BY <1>1, <1>2, LedgerInvariance, InitAccounts, NextAccounts, NextComputable, PTL
     DEF Spec

-----------------------------------------------------------------------------
(* What the loops keep in memory *)

\* The stability pool's deposits and the system's totals, as a liquidation
\* tracks them, are those of the storage less what it will take from them at
\* its end; a redemption is at an open trove, and its redeemer has the USDD
\* redeemed so far and the rest.
LoopsTracked ==
    /\ pc = "liquidating" =>
           /\ running.inPool = stabilityPool.deposits - totals.debtToOffset
           /\ InRecoveryPhase =>
                  /\ running.sysDebt = getEntireSystemDebt - totals.debtToOffset
                  /\ running.sysColl = getEntireSystemColl - totals.collToSendToSP
                         - (IF liqArgs.loop = "sequence" THEN totals.collSurplus ELSE 0)
    /\ pc = "redeeming" =>
           /\ redeeming.user # NoOne => Active(redeeming.user)
           /\ redeeming.redeemed + redeeming.remaining <= balances[redArgs.redeemer]

\* An iteration that takes v off what the loop tracks adds it to the totals.
LEMMA TrackedAfter ==
    ASSUME LedgerInv, pc = "liquidating", LoopsTracked,
           NEW v, v.debtToOffset \in Nat, v.collToSendToSP \in Nat, v.collSurplus \in Nat,
           running' = runningAfter(v), UNCHANGED <<pc, liqArgs, stabilityPool>>,
           totals'.debtToOffset = totals.debtToOffset + v.debtToOffset,
           totals'.collToSendToSP = totals.collToSendToSP + v.collToSendToSP,
           totals'.collSurplus = totals.collSurplus + v.collSurplus,
           getEntireSystemDebt' = getEntireSystemDebt,
           getEntireSystemColl' = getEntireSystemColl
    PROVE  LoopsTracked'
<1>1. LoopTypes /\ PoolTypes
  BY DEF LedgerInv, TypeOK
<1>2. /\ totals.debtToOffset \in Nat /\ totals.collToSendToSP \in Nat
      /\ totals.collSurplus \in Nat
      /\ running.inPool \in Nat /\ running.sysDebt \in Nat /\ running.sysColl \in Nat
      /\ stabilityPool.deposits \in Nat
  BY <1>1, PoolFields DEF LoopTypes, ValuesSet, RunningSet
<1>3. getEntireSystemDebt \in Nat /\ getEntireSystemColl \in Nat
  BY <1>1, PoolFields DEF getEntireSystemDebt, getEntireSystemColl
<1>4. /\ running'.inPool = running.inPool - v.debtToOffset
      /\ InRecoveryPhase' => InRecoveryPhase
      /\ InRecoveryPhase =>
             /\ running'.sysDebt = running.sysDebt - v.debtToOffset
             /\ running'.sysColl = running.sysColl - v.collToSendToSP
                    - (IF liqArgs.loop = "sequence" THEN v.collSurplus ELSE 0)
  <2>1. CASE InRecoveryPhase
    BY <2>1 DEF runningAfter, inPoolAfter
  <2>2. CASE ~InRecoveryPhase
    <3>1. /\ running'.inPool = running.inPool - v.debtToOffset
          /\ running'.backToNormalMode = running.backToNormalMode
      BY <2>2 DEF runningAfter, inPoolAfter
    <3> QED BY <2>2, <3>1 DEF InRecoveryPhase
  <2> QED BY <2>1, <2>2
<1>5. running'.inPool = stabilityPool'.deposits - totals'.debtToOffset
  BY <1>2, <1>4 DEF LoopsTracked
<1>6. ASSUME InRecoveryPhase'
      PROVE  /\ running'.sysDebt = getEntireSystemDebt' - totals'.debtToOffset
             /\ running'.sysColl = getEntireSystemColl' - totals'.collToSendToSP
                    - (IF liqArgs'.loop = "sequence" THEN totals'.collSurplus ELSE 0)
  <2>1. /\ running.sysDebt = getEntireSystemDebt - totals.debtToOffset
        /\ running.sysColl = getEntireSystemColl - totals.collToSendToSP
               - (IF liqArgs.loop = "sequence" THEN totals.collSurplus ELSE 0)
    BY <1>4, <1>6 DEF LoopsTracked
  <2>2. running'.sysDebt = getEntireSystemDebt' - totals'.debtToOffset
    BY <1>2, <1>3, <1>4, <1>6, <2>1
  <2>3. CASE liqArgs.loop = "sequence"
    BY <1>2, <1>3, <1>4, <1>6, <2>1, <2>2, <2>3
  <2>4. CASE liqArgs.loop # "sequence"
    BY <1>2, <1>3, <1>4, <1>6, <2>1, <2>2, <2>4
  <2> QED BY <2>3, <2>4
<1> QED BY <1>5, <1>6 DEF LoopsTracked

\* The trove before another one in the list is open, and it is not that one.
LEMMA PrevActive ==
    ASSUME TroveTypes, TrovesListed, NEW b, getPrev(b) # NoOne
    PROVE  getPrev(b) \in Borrowers /\ Active(getPrev(b)) /\ getPrev(b) # b
<1> DEFINE j == ListPosition(sortedTroves, b)
<1>1. contains(b) /\ j > 1 /\ getPrev(b) = sortedTroves[j - 1]
  BY DEF getPrev
<1>2. j \in 1..Len(sortedTroves) /\ sortedTroves[j] = b
  BY <1>1 DEF ListPosition, contains
<1> HIDE DEF j
<1>3. j - 1 \in 1..Len(sortedTroves) /\ j - 1 # j
  <2>1. Len(sortedTroves) \in Nat
    BY DEF TroveTypes
  <2> QED BY <1>1, <1>2, <2>1
<1>4. sortedTroves[j - 1] \in ActiveTroves /\ sortedTroves[j - 1] # sortedTroves[j]
  BY <1>2, <1>3 DEF TrovesListed, ListsAgree, Lists
<1> QED BY <1>1, <1>2, <1>4 DEF ActiveTroves

\* A redemption begins at an open trove.
LEMMA FirstRedeemedActive ==
    ASSUME TroveTypes, TrovesListed, NEW hint \in Borrowers \cup {NoOne}, NEW price,
           NEW u, u = (IF isValidFirstRedemptionHint(hint, price)
                       THEN hint ELSE lowestRedeemable(price)),
           u # NoOne
    PROVE  Active(u)
<1>1. CASE isValidFirstRedemptionHint(hint, price)
  <2>1. u \in Borrowers /\ contains(u)
    BY <1>1 DEF isValidFirstRedemptionHint
  <2> QED BY <2>1, ContainsActive
<1>2. CASE ~isValidFirstRedemptionHint(hint, price)
  <2> DEFINE S == {i \in 1..Len(sortedTroves) :
                       getCurrentICR(sortedTroves[i], price) >= MCR}
             top == CHOOSE i \in S : \A j \in S : j <= i
  <2>1. S # {} /\ u = sortedTroves[top]
    BY <1>2 DEF lowestRedeemable
  <2>2. \E i \in S : \A j \in S : j <= i
    <3>1. S \subseteq 0..Len(sortedTroves) /\ Len(sortedTroves) \in Nat
      BY DEF TroveTypes
    <3> HIDE DEF S
    <3> QED BY <2>1, <3>1, MaximumExists
  <2>3. top \in S
    <3> HIDE DEF S
    <3> QED BY <2>2
  <2>4. top \in 1..Len(sortedTroves)
    BY <2>3
  <2> HIDE DEF top
  <2>5. u \in ActiveTroves
    BY <2>1, <2>4 DEF TrovesListed, ListsAgree, Lists
  <2> QED BY <2>5 DEF ActiveTroves
<1> QED BY <1>1, <1>2

\* The steps of a liquidation keep track.
LEMMA LiquidationTracked ==
    ASSUME LedgerInv, AccountsInv, LoopsTracked, skipTrove \/ liquidateTrove
    PROVE  LoopsTracked'
<1>1. /\ pc = "liquidating" /\ ~LoopOver
      /\ UNCHANGED <<pc, liqArgs, stabilityPool>> /\ LoopTypes /\ PoolTypes
  BY DEF LedgerInv, TypeOK, skipTrove, liquidateTrove, controlVars, poolVars
<1>2. /\ totals.debtToOffset \in Nat /\ totals.collToSendToSP \in Nat
      /\ totals.collSurplus \in Nat
  BY <1>1 DEF LoopTypes, ValuesSet
<1>3. CASE skipTrove
  <2> DEFINE v == zeroVals
  <2>1. v.debtToOffset = 0 /\ v.collToSendToSP = 0 /\ v.collSurplus = 0
    BY DEF zeroVals, Values
  <2>2. /\ running' = runningAfter(v) /\ totals' = totals
        /\ activePool' = activePool /\ defaultPool' = defaultPool
    BY <1>3 DEF skipTrove, poolVars
  <2> HIDE DEF v
  <2>3. /\ totals'.debtToOffset = totals.debtToOffset + v.debtToOffset
        /\ totals'.collToSendToSP = totals.collToSendToSP + v.collToSendToSP
        /\ totals'.collSurplus = totals.collSurplus + v.collSurplus
    BY <1>2, <2>1, <2>2
  <2>4. /\ getEntireSystemDebt' = getEntireSystemDebt
        /\ getEntireSystemColl' = getEntireSystemColl
    BY <2>2 DEF getEntireSystemDebt, getEntireSystemColl
  <2> QED BY <1>1, <2>1, <2>2, <2>3, <2>4, TrackedAfter
<1>4. CASE liquidateTrove
  <2> DEFINE b == currentUser
             v == stepVals(b)
             pcoll == getPendingCollReward(b)
             pd == getPendingUSDDDebtReward(b)
  <2>1. /\ v # zeroVals /\ StepChecks(b, v)
        /\ running' = runningAfter(v) /\ totals' = addToTotals(totals, v)
        /\ defaultPool' = PoolMinus(defaultPool, pcoll, pd)
        /\ activePool' = PoolPlus(activePool, pcoll, pd)
    BY <1>4 DEF liquidateTrove
  <2>2. v \in ValuesSet
    BY <1>1, <2>1, StepValsType
  <2>3. b \in Borrowers
    BY <1>1, CurrentUserType
  <2>4. pcoll \in Nat /\ pd \in Nat
    BY <2>1, <2>3, PendingTypes DEF StepChecks, LedgerInv, TypeOK
  <2>5. /\ activePool.coll \in Nat /\ activePool.debt \in Nat
        /\ defaultPool.coll \in Nat /\ defaultPool.debt \in Nat
    BY <1>1, PoolFields
  <2> HIDE DEF v, b, pcoll, pd
  <2>6. /\ getEntireSystemDebt' = getEntireSystemDebt
        /\ getEntireSystemColl' = getEntireSystemColl
    BY <2>1, <2>4, <2>5
       DEF getEntireSystemDebt, getEntireSystemColl, PoolPlus, PoolMinus
  <2>7. /\ v.debtToOffset \in Nat /\ v.collToSendToSP \in Nat /\ v.collSurplus \in Nat
    BY <2>2 DEF ValuesSet
  <2>8. /\ totals'.debtToOffset = totals.debtToOffset + v.debtToOffset
        /\ totals'.collToSendToSP = totals.collToSendToSP + v.collToSendToSP
        /\ totals'.collSurplus = totals.collSurplus + v.collSurplus
    BY <2>1 DEF addToTotals
  <2> QED BY <1>1, <2>1, <2>6, <2>7, <2>8, TrackedAfter
<1> QED BY <1>3, <1>4

\* So do the steps of a redemption.
LEMMA RedemptionTracked ==
    ASSUME LedgerInv, AccountsInv, LoopsTracked,
           redeemWhole \/ redeemPartly \/ cancelPartial
    PROVE  LoopsTracked'
<1> DEFINE b == redeeming.user
<1>1. /\ pc = "redeeming" /\ pc' = "redeeming" /\ ~RedemptionOver /\ RedeemChecks(b)
      /\ redArgs' = redArgs
  BY DEF redeemWhole, redeemPartly, cancelPartial, controlVars
<1>2. balances' = balances
  BY DEF redeemWhole, redeemPartly, cancelPartial, usddVars
<1>3. b \in Borrowers /\ Active(b) /\ USDDLot(b) \in Nat
  BY <1>1, RedeemedTrove
<1>4. TroveTypes /\ LoopTypes /\ TrovesListed
  BY DEF LedgerInv, TypeOK, AccountsInv
<1>5. /\ redeeming.redeemed \in Nat /\ redeeming.remaining \in Nat
      /\ redeeming.redeemed + redeeming.remaining <= balances[redArgs.redeemer]
  BY <1>1, <1>4 DEF LoopTypes, ProgressSet, LoopsTracked
<1>6. redeeming'.redeemed + redeeming'.remaining = redeeming.redeemed + redeeming.remaining
  <2>1. CASE redeemWhole \/ redeemPartly
    <3>1. /\ redeeming'.remaining = redeeming.remaining - USDDLot(b)
          /\ redeeming'.redeemed = redeeming.redeemed + USDDLot(b)
      BY <2>1 DEF redeemWhole, redeemPartly, Progress
    <3> QED BY <1>3, <1>5, <3>1
  <2>2. CASE cancelPartial
    BY <2>2 DEF cancelPartial, Progress
  <2> QED BY <2>1, <2>2
<1>7. ASSUME redeeming'.user # NoOne PROVE Active(redeeming.user)'
  <2>1. CASE redeemWhole \/ redeemPartly
    <3>1. redeeming'.user = getPrev(b)
      BY <2>1 DEF redeemWhole, redeemPartly, Progress
    <3>2. getPrev(b) \in Borrowers /\ Active(getPrev(b)) /\ getPrev(b) # b
      BY <1>4, <1>7, <3>1, PrevActive
    <3>3. PICK t : Troves' = [Troves EXCEPT ![b] = t]
      BY <2>1 DEF redeemWhole, closeTrove, redeemPartly
    <3> DEFINE c == getPrev(b)
    <3>4. c \in Borrowers /\ Troves[c].status = "active" /\ c # b
      BY <3>2 DEF Active
    <3> HIDE DEF c, b
    <3>5. Troves'[c] = Troves[c]
      BY <1>4, <3>3, <3>4 DEF TroveTypes
    <3>6. redeeming'.user = c
      BY <3>1 DEF c
    <3> QED BY <3>4, <3>5, <3>6 DEF Active
  <2>2. CASE cancelPartial
    <3>1. /\ redeeming'.user = b
          /\ Troves' = [Troves EXCEPT ![b] =
                 TroveOf("active", collApplied(b), debtApplied(b), Troves[b].stake)]
      BY <2>2 DEF cancelPartial, Progress
    <3> HIDE DEF b
    <3>2. Troves'[b].status = "active"
      BY <1>3, <1>4, <3>1 DEF TroveTypes, TroveOf
    <3> QED BY <3>1, <3>2 DEF Active
  <2> QED BY <2>1, <2>2
<1> QED BY <1>1, <1>2, <1>5, <1>6, <1>7 DEF LoopsTracked

\* Every step keeps what the loops have in memory true of the storage.
LEMMA NextTracked ==
    LedgerInv /\ AccountsInv /\ LoopsTracked /\ [Next]_vars => LoopsTracked'
<1> SUFFICES ASSUME LedgerInv, AccountsInv, LoopsTracked, [Next]_vars
             PROVE  LoopsTracked'
  OBVIOUS
<1>1. /\ TroveTypes /\ PoolTypes /\ TrovesListed
  BY DEF LedgerInv, TypeOK, AccountsInv
<1>2. ASSUME pc' = "idle" PROVE LoopsTracked'
  BY <1>2 DEF LoopsTracked
<1>3. CASE \/ \E b \in Borrowers, price \in Prices : BorrowerStep(b, price)
           \/ \E b \in Borrowers : claimCollateral(b)
           \/ \E u \in Users, price \in Prices : DepositorStep(u, price)
           \/ \E u, v \in Users, a \in TransferAmounts : transferUSDD(u, v, a)
  <2>1. pc' = "idle"
    BY <1>3 DEF BorrowerStep, openTrove, adjustTrove, withdrawCollGainToTrove,
                closeTroveByOwner, claimCollateral, DepositorStep, provideToSP,
                withdrawFromSP, transferUSDD, Transact
  <2> QED BY <1>2, <2>1
<1>4. CASE \E k \in Keepers, price \in Prices : BeginLoop(k, price)
  <2>1. /\ pc' = "liquidating" /\ totals' = zeroVals
        /\ running' = [inPool |-> stabilityPool.deposits,
                       sysDebt |-> getEntireSystemDebt,
                       sysColl |-> getEntireSystemColl,
                       backToNormalMode |-> FALSE]
        /\ stabilityPool' = stabilityPool
        /\ activePool' = activePool /\ defaultPool' = defaultPool
    BY <1>4 DEF BeginLoop, liquidateTroves, batchLiquidateTroves,
       beginLiquidation, BeginTx, poolVars
  <2>2. /\ totals'.debtToOffset = 0 /\ totals'.collToSendToSP = 0
        /\ totals'.collSurplus = 0
    BY <2>1 DEF zeroVals, Values
  <2>3. /\ stabilityPool.deposits \in Nat
        /\ getEntireSystemDebt \in Nat /\ getEntireSystemColl \in Nat
    BY <1>1, PoolFields DEF getEntireSystemDebt, getEntireSystemColl
  <2>4. /\ getEntireSystemDebt' = getEntireSystemDebt
        /\ getEntireSystemColl' = getEntireSystemColl
    BY <2>1 DEF getEntireSystemDebt, getEntireSystemColl
  <2>5. /\ running'.inPool = stabilityPool.deposits
        /\ running'.sysDebt = getEntireSystemDebt
        /\ running'.sysColl = getEntireSystemColl
    BY <2>1
  <2>6. /\ running'.inPool = stabilityPool'.deposits - totals'.debtToOffset
        /\ running'.sysDebt = getEntireSystemDebt' - totals'.debtToOffset
        /\ running'.sysColl = getEntireSystemColl' - totals'.collToSendToSP
               - (IF liqArgs'.loop = "sequence" THEN totals'.collSurplus ELSE 0)
    BY <2>1, <2>2, <2>3, <2>4, <2>5
  <2>7. pc' # "redeeming"
    BY <2>1
  <2> QED BY <2>6, <2>7 DEF LoopsTracked
<1>5. CASE \E k \in Keepers, price \in Prices : BeginRedemption(k, price)
  <2>1. PICK k \in Keepers, price \in Prices, a \in RedeemAmounts,
             hint \in Borrowers \cup {NoOne}, limit \in IterationLimits :
                 redeemCollateral(k, price, a, hint, limit)
    BY <1>5 DEF BeginRedemption
  <2> DEFINE u == IF isValidFirstRedemptionHint(hint, price)
                  THEN hint ELSE lowestRedeemable(price)
  <2>2. /\ pc' = "redeeming" /\ redArgs'.redeemer = k /\ balances[k] >= a
        /\ redeeming'.user = u /\ redeeming'.remaining = a /\ redeeming'.redeemed = 0
        /\ Troves' = Troves /\ balances' = balances
    BY <2>1 DEF redeemCollateral, BeginTx, Progress, troveVars, usddVars
  <2>3. u # NoOne => Active(u)
    BY <1>1, FirstRedeemedActive
  <2> HIDE DEF u
  <2>4. redeeming'.user # NoOne => Active(redeeming.user)'
    BY <2>2, <2>3 DEF Active
  <2>5. a \in Nat /\ balances[k] \in Nat /\ k \in Users
    BY RedemptionAssumption DEF LedgerInv, TypeOK, TokenTypes, Users
  <2>6. redeeming'.redeemed + redeeming'.remaining <= balances'[redArgs'.redeemer]
    BY <2>2, <2>5
  <2>7. pc' # "liquidating"
    BY <2>2
  <2> QED BY <2>4, <2>6, <2>7 DEF LoopsTracked
<1>6. CASE skipTrove \/ liquidateTrove
  BY <1>6, LiquidationTracked
<1>7. CASE redeemWhole \/ redeemPartly \/ cancelPartial
  BY <1>7, RedemptionTracked
<1>8. CASE \/ finishLiquidation \/ revertLiquidation \/ revertRedemption
           \/ \E rate \in RedemptionRates : finishRedemption(rate)
  <2>1. pc' = "idle"
    BY <1>8 DEF finishLiquidation, revertLiquidation, revertRedemption,
                finishRedemption, CommitTx, RevertTx
  <2> QED BY <1>2, <2>1
<1>9. CASE UNCHANGED vars
  <2>1. UNCHANGED <<pc, running, stabilityPool, totals, liqArgs, activePool, defaultPool,
                    redeeming, redArgs, balances, Troves>>
    BY <1>9 DEF vars, controlVars, liqVars, redVars, poolVars, troveVars, usddVars
  <2> QED BY <2>1 DEF LoopsTracked, InRecoveryPhase, getEntireSystemDebt,
                      getEntireSystemColl, Active
<1> QED
  BY <1>3, <1>4, <1>5, <1>6, <1>7, <1>8, <1>9
     DEF Next, Quiet, LiquidationStep, RedemptionStep

-----------------------------------------------------------------------------
(* No check fails inside a loop *)

\* A part of a whole, in proportion to an amount that is not more than all.
LEMMA ShareWithin ==
    ASSUME NEW x \in Nat, NEW part \in Nat, NEW all \in Nat, all > 0, part <= all
    PROVE  (x * part) \div all \in Nat /\ (x * part) \div all <= x
<1> DEFINE p == x * part
           q == p \div all
<1>1. p \in Nat /\ p <= x * all
  <2>1. all - part \in Nat
    OBVIOUS
  <2>2. x * (all - part) \in Nat
    BY <2>1
  <2>3. x * (all - part) = x * all - x * part
    OBVIOUS
  <2>4. x * all \in Nat /\ x * part \in Nat
    OBVIOUS
  <2> QED BY <2>2, <2>3, <2>4
<1> HIDE DEF p
<1>2. q \in Nat /\ q * all <= p
  BY <1>1, DivNat, FloorBound
<1> HIDE DEF q
<1>3. all * q <= x * all
  <2>1. q * all = all * q /\ q * all \in Nat /\ x * all \in Nat
    BY <1>2
  <2> QED BY <1>1, <1>2, <2>1
<1>4. q <= x
  BY <1>2, <1>3, MultiplierCancels
<1> QED BY <1>2, <1>4 DEF p, q

\* Collateral worth `ratio' times a debt, which is not more than what a trove
\* of that ratio at least has.
LEMMA WorthWithin ==
    ASSUME NEW coll \in Nat, NEW debt \in Nat, debt > 0, NEW price \in Nat, price > 0,
           NEW ratio \in Nat, computeCR(coll, debt, price) >= ratio,
           NEW amount \in Nat, amount <= debt
    PROVE  (amount * ratio) \div price \in Nat /\ (amount * ratio) \div price <= coll
<1> DEFINE cr == (coll * price) \div debt
           w == amount * ratio
           q == w \div price
<1>1. coll * price \in Nat
  OBVIOUS
<1>2. cr \in Nat /\ cr * debt <= coll * price /\ cr >= ratio
  BY <1>1, DivNat, FloorBound DEF computeCR
<1> HIDE DEF cr
<1>3. debt * ratio <= cr * debt
  <2>1. cr - ratio \in Nat
    BY <1>2
  <2>2. debt * (cr - ratio) \in Nat
    BY <2>1
  <2>3. debt * (cr - ratio) = cr * debt - debt * ratio
    BY <1>2
  <2>4. cr * debt \in Nat /\ debt * ratio \in Nat
    BY <1>2
  <2> QED BY <2>2, <2>3, <2>4
<1>4. w \in Nat /\ w <= debt * ratio
  <2>1. debt - amount \in Nat
    OBVIOUS
  <2>2. (debt - amount) * ratio \in Nat
    BY <2>1
  <2>3. (debt - amount) * ratio = debt * ratio - amount * ratio
    OBVIOUS
  <2>4. debt * ratio \in Nat /\ amount * ratio \in Nat
    OBVIOUS
  <2> QED BY <2>2, <2>3, <2>4
<1>5. w <= coll * price
  <2>1. cr * debt \in Nat /\ debt * ratio \in Nat
    BY <1>2
  <2> HIDE DEF w
  <2> QED BY <1>1, <1>2, <1>3, <1>4, <2>1
<1> HIDE DEF w
<1>6. q \in Nat /\ q * price <= w
  BY <1>4, DivNat, FloorBound
<1> HIDE DEF q
<1>7. price * q <= coll * price
  <2>1. q * price = price * q /\ q * price \in Nat
    BY <1>6
  <2> QED BY <1>1, <1>4, <1>5, <1>6, <2>1
<1>8. q <= coll
  BY <1>6, <1>7, MultiplierCancels
<1> QED BY <1>6, <1>8 DEF w, q

\* What the trove of b holds and owes is part of what the pools record: its
\* own amounts of the active pool, less what is in flight, its rewards of the
\* default pool.
LEMMA TroveWithinPools ==
    ASSUME LedgerInv, AccountsInv, DebtHeld, NEW b \in Borrowers
    PROVE  /\ Troves[b].coll \in Nat /\ Troves[b].debt \in Nat
           /\ getPendingCollReward(b) \in Nat /\ getPendingUSDDDebtReward(b) \in Nat
           /\ Troves[b].coll + totals.coll + redeeming.drawn <= activePool.coll
           /\ Troves[b].debt + totals.debt + redeeming.redeemed <= activePool.debt
           /\ getPendingCollReward(b) <= defaultPool.coll
           /\ getPendingUSDDDebtReward(b) <= defaultPool.debt
           /\ SnapshotsCovered(b)
<1>1. /\ TypeOK /\ TroveTypes /\ RewardTypes /\ PoolTypes /\ LoopTypes
      /\ TrovesSummed /\ RewardsHeld /\ IsFiniteSet(Borrowers)
  BY StateAssumption DEF LedgerInv, TypeOK, AccountsInv
<1>2. /\ Troves[b].coll \in Nat /\ Troves[b].debt \in Nat
      /\ totals.coll \in Nat /\ totals.debt \in Nat
      /\ redeeming.drawn \in Nat /\ redeeming.redeemed \in Nat
  BY <1>1, TroveFields DEF LoopTypes, ValuesSet, ProgressSet
<1>3. /\ Troves[b].coll <= SumFunction(collOf) /\ SumFunction(collOf) \in Nat
      /\ Troves[b].debt <= SumFunction(debtOf) /\ SumFunction(debtOf) \in Nat
  <2>1. collOf \in [Borrowers -> Nat] /\ debtOf \in [Borrowers -> Nat]
    BY <1>1, TablesTyped
  <2>2. collOf[b] = Troves[b].coll /\ debtOf[b] = Troves[b].debt
    BY DEF collOf, debtOf
  <2> QED BY <1>1, <2>1, <2>2, SumNat
<1>4. /\ Troves[b].coll + totals.coll + redeeming.drawn <= activePool.coll
      /\ Troves[b].debt + totals.debt + redeeming.redeemed <= activePool.debt
  BY <1>1, <1>2, <1>3 DEF TrovesSummed
<1>5. \A c \in Borrowers : /\ getPendingCollReward(c) \in Nat
                           /\ getPendingUSDDDebtReward(c) \in Nat
  BY <1>1, PendingOwed, PendingDebtOwed DEF RewardsHeld, DebtHeld
<1>6. /\ getPendingCollReward(b) <= defaultPool.coll
      /\ getPendingUSDDDebtReward(b) <= defaultPool.debt
  <2> DEFINE f == [c \in Borrowers |-> getPendingCollReward(c)]
             g == [c \in Borrowers |-> getPendingUSDDDebtReward(c)]
  <2>1. f \in [Borrowers -> Nat] /\ g \in [Borrowers -> Nat]
    BY <1>5
  <2>2. f[b] = getPendingCollReward(b) /\ g[b] = getPendingUSDDDebtReward(b)
    OBVIOUS
  <2>3. SumFunction(f) <= defaultPool.coll /\ SumFunction(g) <= defaultPool.debt
    BY <1>1, RewardsCovered, HeldDebtCovers
       DEF CollRewardsCovered, DebtRewardsCovered, SumOver
  <2> HIDE DEF f, g
  <2>4. /\ f[b] <= SumFunction(f) /\ g[b] <= SumFunction(g)
        /\ SumFunction(f) \in Nat /\ SumFunction(g) \in Nat
    BY <1>1, <2>1, SumNat
  <2>5. defaultPool.coll \in Nat /\ defaultPool.debt \in Nat
    BY <1>1, PoolFields
  <2> QED BY <1>5, <2>2, <2>3, <2>4, <2>5
<1>7. SnapshotsCovered(b)
  BY <1>1 DEF SnapshotsCovered, RewardsHeld, DebtHeld
<1> QED BY <1>2, <1>4, <1>5, <1>6, <1>7

\* What an iteration of a liquidation would take: the pool's USDD reach for
\* what it offsets, and all parts together are what the trove holds.
LEMMA StepValsFit ==
    ASSUME LedgerInv, AccountsInv, DebtHeld, OpenTrovesAreWhole, pc = "liquidating",
           NEW b \in Borrowers, NEW v, v = stepVals(b), v # zeroVals
    PROVE  /\ Active(b)
           /\ v.debt = entireDebt(b) /\ v.coll = entireColl(b)
           /\ entireDebt(b) \in Nat /\ entireColl(b) \in Nat /\ entireDebt(b) > 0
           /\ v.gasColl \in Nat /\ v.collToSendToSP \in Nat /\ v.collSurplus \in Nat
           /\ v.gasColl + v.collToSendToSP + v.collSurplus <= entireColl(b)
           /\ v.debtToOffset \in Nat /\ v.debtToOffset <= running.inPool
           /\ v.debtToOffset <= entireDebt(b)
<1> DEFINE debt == entireDebt(b)
           coll == entireColl(b)
           price == liqArgs.price
           Fits == /\ v.debt = debt /\ v.coll = coll
                   /\ v.gasColl \in Nat /\ v.collToSendToSP \in Nat /\ v.collSurplus \in Nat
                   /\ v.gasColl + v.collToSendToSP + v.collSurplus <= coll
                   /\ v.debtToOffset \in Nat /\ v.debtToOffset <= running.inPool
                   /\ v.debtToOffset <= debt
<1>1. Active(b) /\ ~hopeless(b)
  BY DEF stepVals
<1>2. debt \in Nat /\ coll \in Nat /\ debt > 0
  <2>1. /\ Troves[b].coll \in Nat /\ Troves[b].debt \in Nat
        /\ getPendingCollReward(b) \in Nat /\ getPendingUSDDDebtReward(b) \in Nat
    BY TroveWithinPools
  <2>2. Troves[b].debt > 0
    <3>1. Troves[b].debt >= MIN_NET_DEBT + USDD_GAS_COMPENSATION
      BY <1>1 DEF Active, OpenTrovesAreWhole, TrovesAreWhole
    <3> QED BY <2>1, <3>1, MathAssumption
  <2> QED BY <2>1, <2>2 DEF entireDebt, entireColl
<1>3. running.inPool \in Nat /\ price \in Nat /\ price > 0 /\ price \in Prices
  BY PriceType DEF LedgerInv, TypeOK, LoopTypes, RunningSet
<1>4. PERCENT_DIVISOR \in Nat /\ PERCENT_DIVISOR > 0 /\ MCR \in Nat
  BY MathAssumption
<1>5. ASSUME NEW x \in Nat
      PROVE  getCollGasCompensation(x) \in Nat /\ getCollGasCompensation(x) <= x
  <2> DEFINE q == x \div PERCENT_DIVISOR
  <2>1. q \in Nat /\ q * PERCENT_DIVISOR <= x
    BY <1>4, DivNat, FloorBound
  <2> HIDE DEF q
  <2>2. q <= q * PERCENT_DIVISOR /\ q * PERCENT_DIVISOR \in Nat
    <3>1. q * (PERCENT_DIVISOR - 1) \in Nat
      BY <1>4, <2>1
    <3>2. q * (PERCENT_DIVISOR - 1) = q * PERCENT_DIVISOR - q
      BY <1>4, <2>1
    <3>3. q * PERCENT_DIVISOR \in Nat
      BY <1>4, <2>1
    <3> QED BY <2>1, <3>1, <3>2, <3>3
  <2>3. q <= x
    BY <2>1, <2>2
  <2> QED BY <2>1, <2>3 DEF q, getCollGasCompensation
<1>6. ASSUME NEW inPool \in Nat, inPool <= running.inPool,
             v = offsetAndRedistributionVals(b, inPool)
      PROVE  Fits
  <2> DEFINE gas == getCollGasCompensation(coll)
             offset == min(debt, inPool)
             toSP == ((coll - gas) * offset) \div debt
  <2>1. v = Values(debt, coll, gas, USDD_GAS_COMPENSATION, offset, toSP, 0)
    BY <1>6 DEF offsetAndRedistributionVals
  <2>2. gas \in Nat /\ gas <= coll
    BY <1>2, <1>5
  <2>3. offset \in Nat /\ offset <= debt /\ offset <= inPool
    BY <1>2, <1>6 DEF min
  <2> HIDE DEF gas, offset, debt, coll
  <2>4. coll - gas \in Nat
    BY <1>2, <2>2
  <2>5. toSP \in Nat /\ toSP <= coll - gas
    BY <1>2, <2>3, <2>4, ShareWithin
  <2> HIDE DEF toSP
  <2>6. /\ v.debt = debt /\ v.coll = coll /\ v.gasColl = gas
        /\ v.collToSendToSP = toSP /\ v.collSurplus = 0 /\ v.debtToOffset = offset
    BY <2>1 DEF Values
  <2>7. gas + toSP + 0 <= coll
    BY <1>2, <2>2, <2>5
  <2> QED BY <1>2, <1>3, <1>6, <2>2, <2>3, <2>5, <2>6, <2>7
<1>7. ASSUME v = cappedOffsetVals(b, price), debt <= running.inPool,
             computeCR(coll, debt, price) >= MCR
      PROVE  Fits
  <2> DEFINE capped == (debt * MCR) \div price
             gas == getCollGasCompensation(capped)
  <2>1. v = Values(debt, coll, gas, USDD_GAS_COMPENSATION, debt,
                   capped - gas, coll - capped)
    BY <1>7 DEF cappedOffsetVals
  <2> HIDE DEF debt, coll, price
  <2>2. capped \in Nat /\ capped <= coll
    <3>1. debt <= debt
      BY <1>2
    <3> QED BY <1>2, <1>3, <1>4, <1>7, <3>1, WorthWithin
  <2> HIDE DEF capped
  <2>3. gas \in Nat /\ gas <= capped
    BY <1>5, <2>2
  <2> HIDE DEF gas
  <2>4. /\ v.debt = debt /\ v.coll = coll /\ v.gasColl = gas
        /\ v.collToSendToSP = capped - gas /\ v.collSurplus = coll - capped
        /\ v.debtToOffset = debt
    BY <2>1 DEF Values
  <2>5. /\ capped - gas \in Nat /\ coll - capped \in Nat /\ debt <= debt
        /\ gas + (capped - gas) + (coll - capped) <= coll
    BY <1>2, <2>2, <2>3
  <2> QED BY <1>2, <1>7, <2>3, <2>4, <2>5
<1>8. Fits
  <2> DEFINE ICR == getCurrentICR(b, price)
             TCR == computeCR(running.sysColl, running.sysDebt, price)
  <2>1. v = IF InRecoveryPhase
            THEN recoveryVals(b, ICR, running.inPool, TCR, price)
            ELSE offsetAndRedistributionVals(b, running.inPool)
    BY <1>1 DEF stepVals
  <2>2. ICR = computeCR(coll, debt, price)
    BY DEF getCurrentICR
  <2>3. running.inPool <= running.inPool /\ 0 <= running.inPool /\ 0 \in Nat
    BY <1>3
  <2> HIDE DEF Fits, ICR, TCR, price, debt, coll
  <2>4. CASE v = offsetAndRedistributionVals(b, running.inPool)
    BY <1>3, <1>6, <2>3, <2>4
  <2>5. CASE v = recoveryVals(b, ICR, running.inPool, TCR, price)
    <3>1. \/ v = offsetAndRedistributionVals(b, 0)
          \/ v = offsetAndRedistributionVals(b, running.inPool)
          \/ /\ v = cappedOffsetVals(b, price)
             /\ ICR >= MCR /\ entireDebt(b) <= running.inPool
      BY <2>5 DEF recoveryVals
    <3>2. CASE v = offsetAndRedistributionVals(b, 0)
      BY <1>6, <2>3, <3>2
    <3>3. CASE /\ v = cappedOffsetVals(b, price)
               /\ ICR >= MCR /\ entireDebt(b) <= running.inPool
      BY <1>7, <2>2, <3>3 DEF debt
    <3> QED BY <2>4, <3>1, <3>2, <3>3
  <2> QED BY <2>1, <2>4, <2>5
<1> QED BY <1>1, <1>2, <1>8

\* An iteration of a liquidation finds all it takes.
LEMMA StepChecksHold ==
    ASSUME LedgerInv, AccountsInv, DebtHeld, OpenTrovesAreWhole, LoopsTracked,
           pc = "liquidating", ~LoopOver, stepVals(currentUser) # zeroVals
    PROVE  StepChecks(currentUser, stepVals(currentUser))
<1> DEFINE b == currentUser
           v == stepVals(b)
<1>1. b \in Borrowers
  BY CurrentUserType
<1>2. /\ TypeOK /\ TroveTypes /\ PoolTypes /\ LoopTypes /\ StakesSummed /\ TrovesListed
      /\ Splits(totals) /\ OnlyInFlight
  BY DEF LedgerInv, TypeOK, AccountsInv
<1> HIDE DEF b, v
<1>3. v = stepVals(b) /\ v # zeroVals
  BY DEF v, b
<1>4. /\ Active(b)
      /\ v.debt = entireDebt(b) /\ v.coll = entireColl(b)
      /\ entireDebt(b) \in Nat /\ entireColl(b) \in Nat /\ entireDebt(b) > 0
      /\ v.gasColl \in Nat /\ v.collToSendToSP \in Nat /\ v.collSurplus \in Nat
      /\ v.gasColl + v.collToSendToSP + v.collSurplus <= entireColl(b)
      /\ v.debtToOffset \in Nat /\ v.debtToOffset <= running.inPool
      /\ v.debtToOffset <= entireDebt(b)
  BY <1>1, <1>3, StepValsFit
<1>5. /\ Troves[b].coll \in Nat /\ Troves[b].debt \in Nat
      /\ getPendingCollReward(b) \in Nat /\ getPendingUSDDDebtReward(b) \in Nat
      /\ Troves[b].coll + totals.coll + redeeming.drawn <= activePool.coll
      /\ Troves[b].debt + totals.debt + redeeming.redeemed <= activePool.debt
      /\ getPendingCollReward(b) <= defaultPool.coll
      /\ getPendingUSDDDebtReward(b) <= defaultPool.debt
      /\ SnapshotsCovered(b)
  BY <1>1, TroveWithinPools
<1>6. Troves[b].stake <= totalStakes
  BY <1>1, <1>2, StakeWithinTotal
<1>7. contains(b)
  BY <1>1, <1>2, <1>4, ContainsActive
<1>8. arrayIndex[b] < Len(TroveOwners)
  <2>1. b \in ActiveTroves
    BY <1>1, <1>4 DEF ActiveTroves
  <2> QED BY <2>1, AccountsAreBooks DEF BooksInv, OwnersListed
<1>9. InRecoveryPhase => /\ v.debtToOffset <= running.sysDebt
                         /\ v.collToSendToSP + v.collSurplus <= running.sysColl
  <2> SUFFICES ASSUME InRecoveryPhase
               PROVE  /\ v.debtToOffset <= running.sysDebt
                      /\ v.collToSendToSP + v.collSurplus <= running.sysColl
    OBVIOUS
  <2>1. /\ totals.debt \in Nat /\ totals.coll \in Nat /\ totals.debtToOffset \in Nat
        /\ totals.debtToRedistribute \in Nat /\ totals.collToSendToSP \in Nat
        /\ totals.collSurplus \in Nat /\ totals.gasColl \in Nat
        /\ totals.collToRedistribute \in Nat
    BY <1>2 DEF LoopTypes, ValuesSet
  <2>2. /\ totals.debt = totals.debtToOffset + totals.debtToRedistribute
        /\ totals.coll = totals.gasColl + totals.collToSendToSP
                             + totals.collToRedistribute + totals.collSurplus
    BY <1>2 DEF Splits
  <2>3. /\ activePool.coll \in Nat /\ activePool.debt \in Nat
        /\ defaultPool.coll \in Nat /\ defaultPool.debt \in Nat
    BY <1>2, PoolFields
  <2>4. redeeming.drawn \in Nat /\ redeeming.redeemed \in Nat
    BY <1>2 DEF LoopTypes, ProgressSet
  <2>5. /\ running.sysDebt = (activePool.debt + defaultPool.debt) - totals.debtToOffset
        /\ running.sysColl = (activePool.coll + defaultPool.coll) - totals.collToSendToSP
               - (IF liqArgs.loop = "sequence" THEN totals.collSurplus ELSE 0)
    <3>1. /\ running.sysDebt = getEntireSystemDebt - totals.debtToOffset
          /\ running.sysColl = getEntireSystemColl - totals.collToSendToSP
                 - (IF liqArgs.loop = "sequence" THEN totals.collSurplus ELSE 0)
      BY DEF LoopsTracked
    <3>2. /\ getEntireSystemDebt = activePool.debt + defaultPool.debt
          /\ getEntireSystemColl = activePool.coll + defaultPool.coll
      BY DEF getEntireSystemDebt, getEntireSystemColl
    <3> QED BY <3>1, <3>2
  <2>6. /\ entireDebt(b) = Troves[b].debt + getPendingUSDDDebtReward(b)
        /\ entireColl(b) = Troves[b].coll + getPendingCollReward(b)
    BY DEF entireDebt, entireColl
  <2>7. entireDebt(b) <= running.sysDebt
    BY <1>5, <2>1, <2>2, <2>3, <2>4, <2>5, <2>6
  <2>8. entireColl(b) <= running.sysColl
    <3>1. CASE liqArgs.loop = "sequence"
      BY <1>5, <2>1, <2>2, <2>3, <2>4, <2>5, <2>6, <3>1
    <3>2. CASE liqArgs.loop # "sequence"
      BY <1>5, <2>1, <2>2, <2>3, <2>4, <2>5, <2>6, <3>2
    <3> QED BY <3>1, <3>2
  <2>9. running.sysDebt \in Nat /\ running.sysColl \in Nat
    BY <1>2 DEF LoopTypes, RunningSet
  <2> QED BY <1>4, <2>7, <2>8, <2>9
<1>10. /\ v.debt > 0 /\ v.gasColl <= v.coll
       /\ v.collToSendToSP >= 0 /\ v.collSurplus >= 0
       /\ v.coll >= v.gasColl + v.collToSendToSP + v.collSurplus
  BY <1>4
<1>11. StepChecks(b, v)
  BY <1>4, <1>5, <1>6, <1>7, <1>8, <1>9, <1>10 DEF StepChecks, Covers
<1> QED BY <1>11 DEF b, v

\* The reserves of the open troves are in the gas pool.
LEMMA ReservesHeld ==
    ASSUME LedgerInv, AccountsInv
    PROVE  /\ totals.gasUSDD \in Nat /\ totals.gasUSDD <= gasPoolUSDD
           /\ ActiveTroves # {} => USDD_GAS_COMPENSATION <= gasPoolUSDD
<1> DEFINE n == Cardinality(ActiveTroves)
           held == USDD_GAS_COMPENSATION * n
<1>1. totals.gasUSDD \in Nat /\ gasPoolUSDD = held + totals.gasUSDD
  BY DEF LedgerInv, TypeOK, LoopTypes, ValuesSet, AccountsInv, GasPoolReserved
<1>2. n \in Nat /\ (ActiveTroves # {} => n > 0)
  <2>1. IsFiniteSet(ActiveTroves)
    BY StateAssumption, FS_Subset DEF ActiveTroves
  <2>2. n \in Nat
    BY <2>1, FS_CardinalityType
  <2>3. n = 0 <=> ActiveTroves = {}
    BY <2>1, FS_EmptySet
  <2> HIDE DEF n
  <2> QED BY <2>2, <2>3
<1>3. USDD_GAS_COMPENSATION \in Nat
  BY MathAssumption
<1> HIDE DEF n
<1>4. held \in Nat /\ (ActiveTroves # {} => USDD_GAS_COMPENSATION <= held)
  <2>1. held \in Nat
    BY <1>2, <1>3
  <2>2. ASSUME n > 0 PROVE USDD_GAS_COMPENSATION <= held
    <3>1. USDD_GAS_COMPENSATION * (n - 1) \in Nat
      BY <1>2, <1>3, <2>2
    <3>2. USDD_GAS_COMPENSATION * (n - 1) = held - USDD_GAS_COMPENSATION
      BY <1>2, <1>3
    <3> QED BY <1>3, <2>1, <3>1, <3>2
  <2> QED BY <1>2, <2>1, <2>2
<1> HIDE DEF held
<1> QED BY <1>1, <1>3, <1>4

\* The end of a liquidation finds what the loop has promised.
LEMMA FinishChecksHold ==
    ASSUME LedgerInv, AccountsInv, ComputableInv, OpenTrovesShare, LoopsTracked,
           pc = "liquidating", totals.debt > 0
    PROVE  FinishChecks
<1>1. /\ TypeOK /\ TroveTypes /\ PoolTypes /\ LoopTypes
      /\ TrovesSummed /\ StakesSummed /\ Splits(totals) /\ USDDAccountedFor
  BY DEF LedgerInv, TypeOK, AccountsInv
<1>2. totalStakes > 0
  BY <1>1, StakesLeft DEF ComputableInv
<1>3. /\ totals.debt \in Nat /\ totals.coll \in Nat /\ totals.debtToOffset \in Nat
      /\ totals.debtToRedistribute \in Nat /\ totals.collToSendToSP \in Nat
      /\ totals.collSurplus \in Nat /\ totals.gasColl \in Nat
      /\ totals.collToRedistribute \in Nat
      /\ redeeming.drawn \in Nat /\ redeeming.redeemed \in Nat /\ running.inPool \in Nat
  BY <1>1 DEF LoopTypes, ValuesSet, ProgressSet, RunningSet
<1>4. /\ totals.debt = totals.debtToOffset + totals.debtToRedistribute
      /\ totals.coll = totals.gasColl + totals.collToSendToSP
                           + totals.collToRedistribute + totals.collSurplus
  BY <1>1 DEF Splits
<1>5. /\ activePool.coll \in Nat /\ activePool.debt \in Nat /\ stabilityPool.deposits \in Nat
  BY <1>1, PoolFields
<1>6. totals.coll <= activePool.coll /\ totals.debt <= activePool.debt
  <2>1. SumFunction(collOf) \in Nat /\ SumFunction(debtOf) \in Nat
    BY <1>1, SumsTyped
  <2> QED BY <1>1, <1>3, <1>5, <2>1 DEF TrovesSummed
<1>7. collToMove \in Nat /\ collToMove <= totals.collToRedistribute
  BY <1>3 DEF collToMove
<1>8. Covers(activePool, totals.collToSendToSP + collToMove
                 + totals.collSurplus + totals.gasColl,
             totals.debtToOffset + totals.debtToRedistribute)
  BY <1>3, <1>4, <1>5, <1>6, <1>7 DEF Covers
<1>9. totals.debtToOffset <= stabilityPool.deposits
  <2>1. running.inPool = stabilityPool.deposits - totals.debtToOffset
    BY DEF LoopsTracked
  <2> QED BY <1>3, <1>5, <2>1
<1>10. totals.debtToOffset <= stabilityPoolUSDD
  BY <1>1, <1>9 DEF USDDAccountedFor
<1>11. totals.gasUSDD <= gasPoolUSDD
  BY ReservesHeld
<1> QED BY <1>2, <1>8, <1>9, <1>10, <1>11 DEF FinishChecks

\* An iteration of a redemption finds all it takes.
LEMMA RedeemChecksHold ==
    ASSUME LedgerInv, AccountsInv, DebtHeld, OpenTrovesAreWhole, ComputableInv,
           LoopsTracked, RewardsSeen, RedeemedAreSolvent,
           pc = "redeeming", ~RedemptionOver
    PROVE  RedeemChecks(redeeming.user)
<1> DEFINE b == redeeming.user
           price == redArgs.price
<1>1. /\ TypeOK /\ TroveTypes /\ RewardTypes /\ PoolTypes /\ LoopTypes
      /\ StakesSummed /\ TrovesListed /\ RewardsHeld
  BY DEF LedgerInv, TypeOK, AccountsInv
<1>2. b \in Borrowers /\ Active(b)
  <2>1. b # NoOne
    BY DEF RedemptionOver
  <2>2. b \in Borrowers
    BY <1>1, <2>1 DEF LoopTypes, ProgressSet
  <2> QED BY <2>1, <2>2 DEF LoopsTracked
<1>3. price \in Nat /\ price > 0
  <2>1. price \in Prices
    BY <1>1 DEF LoopTypes
  <2> QED BY <2>1, PriceType
<1>4. getCurrentICR(b, price) >= _100pct
  BY DEF RedeemedAreSolvent
<1>5. redeeming.remaining \in Nat /\ redeeming.drawn \in Nat /\ redeeming.redeemed \in Nat
      /\ totals.coll \in Nat /\ totals.debt \in Nat
  BY <1>1 DEF LoopTypes, ProgressSet, ValuesSet
<1> HIDE DEF b, price
<1>6. /\ Troves[b].coll \in Nat /\ Troves[b].debt \in Nat
      /\ getPendingCollReward(b) \in Nat /\ getPendingUSDDDebtReward(b) \in Nat
      /\ Troves[b].coll + totals.coll + redeeming.drawn <= activePool.coll
      /\ Troves[b].debt + totals.debt + redeeming.redeemed <= activePool.debt
      /\ getPendingCollReward(b) <= defaultPool.coll
      /\ getPendingUSDDDebtReward(b) <= defaultPool.debt
      /\ SnapshotsCovered(b)
  BY <1>2, TroveWithinPools
<1>7. /\ activePool.coll \in Nat /\ activePool.debt \in Nat
      /\ defaultPool.coll \in Nat /\ defaultPool.debt \in Nat
  BY <1>1, PoolFields
<1>8. /\ appliedColl(b) = getPendingCollReward(b)
      /\ appliedDebt(b) = getPendingUSDDDebtReward(b)
  <2>1. CASE hasPendingRewards(b)
    BY <2>1 DEF appliedColl, appliedDebt
  <2>2. CASE ~hasPendingRewards(b)
    <3>1. rewardSnapshots[b].COLL \in Nat /\ L_COLL \in Nat
          /\ rewardSnapshots[b].COLL <= L_COLL
      BY <1>1, <1>2, TroveFields DEF RewardTypes, RewardsHeld
    <3>2. rewardSnapshots[b].COLL = L_COLL
      BY <1>2, <2>2, <3>1 DEF hasPendingRewards
    <3>3. rewardSnapshots[b].USDDDebt = L_USDDDebt
      BY <1>2, <3>2 DEF RewardsSeen, ActiveTroves
    <3>4. /\ Troves[b].stake \in Nat /\ L_USDDDebt \in Nat
      BY <1>1, <1>2, TroveFields DEF RewardTypes
    <3>5. 0 \div DECIMAL_PRECISION = 0
      BY MathAssumption
    <3>6. /\ Troves[b].stake * (L_COLL - rewardSnapshots[b].COLL) = 0
          /\ Troves[b].stake * (L_USDDDebt - rewardSnapshots[b].USDDDebt) = 0
      BY <3>1, <3>2, <3>3, <3>4
    <3>7. getPendingCollReward(b) = 0 /\ getPendingUSDDDebtReward(b) = 0
      BY <3>5, <3>6 DEF getPendingCollReward, getPendingUSDDDebtReward
    <3> QED BY <2>2, <3>7 DEF appliedColl, appliedDebt
  <2> QED BY <2>1, <2>2
<1>9. /\ collApplied(b) = entireColl(b) /\ debtApplied(b) = entireDebt(b)
      /\ entireColl(b) = Troves[b].coll + appliedColl(b)
      /\ entireDebt(b) = Troves[b].debt + appliedDebt(b)
  BY <1>8 DEF collApplied, debtApplied, entireColl, entireDebt
<1>10. Covers(defaultPool, appliedColl(b), appliedDebt(b))
  BY <1>6, <1>8 DEF Covers
<1>11. /\ USDD_GAS_COMPENSATION \in Nat
       /\ Troves[b].debt >= USDD_GAS_COMPENSATION /\ Troves[b].debt > 0
  <2>1. Troves[b].debt >= MIN_NET_DEBT + USDD_GAS_COMPENSATION
    BY <1>2 DEF OpenTrovesAreWhole, TrovesAreWhole, Active
  <2> QED BY <1>6, <2>1, MathAssumption
<1>12. /\ debtApplied(b) \in Nat /\ collApplied(b) \in Nat
       /\ debtApplied(b) >= USDD_GAS_COMPENSATION /\ debtApplied(b) > 0
  BY <1>6, <1>8, <1>9, <1>11
<1>13. USDDLot(b) \in Nat /\ USDDLot(b) <= debtApplied(b)
  BY <1>5, <1>11, <1>12 DEF USDDLot, min
<1>14. CollLot(b) \in Nat /\ CollLot(b) <= collApplied(b)
  <2> DEFINE coll == collApplied(b)
             debt == debtApplied(b)
             lot == USDDLot(b)
  <2>1. computeCR(coll, debt, price) >= DECIMAL_PRECISION
    BY <1>4, <1>9 DEF getCurrentICR, _100pct
  <2>2. DECIMAL_PRECISION \in Nat
    BY MathAssumption
  <2>3. CollLot(b) = (lot * DECIMAL_PRECISION) \div price
    BY DEF CollLot, price
  <2> HIDE DEF coll, debt, lot
  <2>4. /\ coll \in Nat /\ debt \in Nat /\ debt > 0 /\ lot \in Nat /\ lot <= debt
    BY <1>12, <1>13 DEF coll, debt, lot
  <2>5. /\ (lot * DECIMAL_PRECISION) \div price \in Nat
        /\ (lot * DECIMAL_PRECISION) \div price <= coll
    BY <1>3, <2>1, <2>2, <2>4, WorthWithin
  <2> QED BY <2>3, <2>5 DEF coll
<1>15. Troves[b].stake <= totalStakes
  BY <1>1, <1>2, StakeWithinTotal
<1>16. contains(b)
  BY <1>1, <1>2, ContainsActive
<1>17. b \in ActiveTroves
  BY <1>2 DEF ActiveTroves
<1>18. arrayIndex[b] < Len(TroveOwners)
  BY <1>17, AccountsAreBooks DEF BooksInv, OwnersListed
<1>19. USDD_GAS_COMPENSATION <= gasPoolUSDD
  BY <1>17, ReservesHeld
<1>20. Covers(PoolPlus(activePool, appliedColl(b), appliedDebt(b)),
              collAfterLot(b), USDD_GAS_COMPENSATION)
  <2>1. collAfterLot(b) <= Troves[b].coll + appliedColl(b)
    BY <1>9, <1>12, <1>14 DEF collAfterLot
  <2>2. /\ Troves[b].coll <= activePool.coll /\ Troves[b].debt <= activePool.debt
    BY <1>5, <1>6, <1>7
  <2>3. collAfterLot(b) \in Int
    BY <1>12, <1>14 DEF collAfterLot
  <2>4. /\ collAfterLot(b) <= activePool.coll + appliedColl(b)
        /\ USDD_GAS_COMPENSATION <= activePool.debt + appliedDebt(b)
    BY <1>6, <1>7, <1>8, <1>11, <2>1, <2>2, <2>3
  <2> QED BY <2>4 DEF Covers, PoolPlus
<1>21. StakeComputable
  BY DEF ComputableInv
<1>22. RedeemChecks(b)
  BY <1>6, <1>10, <1>12, <1>14, <1>15, <1>16, <1>18, <1>19, <1>20, <1>21 DEF RedeemChecks
<1> QED BY <1>22 DEF b

\* The redeemer has what it has redeemed, and the active pool what it drew.
LEMMA RedemptionEndChecksHold ==
    ASSUME LedgerInv, AccountsInv, LoopsTracked, pc = "redeeming"
    PROVE  RedemptionEndChecks
<1>1. /\ TypeOK /\ LoopTypes /\ PoolTypes /\ TokenTypes /\ TrovesSummed
  BY DEF LedgerInv, TypeOK, AccountsInv
<1>2. /\ redeeming.remaining \in Nat /\ redeeming.drawn \in Nat /\ redeeming.redeemed \in Nat
      /\ totals.coll \in Nat /\ totals.debt \in Nat
  BY <1>1 DEF LoopTypes, ProgressSet, ValuesSet
<1>3. balances[redArgs.redeemer] \in Nat
  BY <1>1 DEF LoopTypes, RedArgsSet, TokenTypes
<1>4. redeeming.redeemed <= balances[redArgs.redeemer]
  <2>1. redeeming.redeemed + redeeming.remaining <= balances[redArgs.redeemer]
    BY DEF LoopsTracked
  <2> QED BY <1>2, <1>3, <2>1
<1>5. Covers(activePool, redeeming.drawn, redeeming.redeemed)
  <2>1. /\ SumFunction(collOf) \in Nat /\ SumFunction(debtOf) \in Nat
        /\ activePool.coll \in Nat /\ activePool.debt \in Nat
    BY <1>1, SumsTyped, PoolFields
  <2> QED BY <1>1, <1>2, <2>1 DEF TrovesSummed, Covers
<1> QED BY <1>4, <1>5 DEF RedemptionEndChecks

\* Only a failing check sets the flag, and no check fails.
LEMMA NextPanic ==
    LedgerInv /\ AccountsInv /\ DebtInv /\ WholeInv /\ ComputableInv /\ LoopsTracked
        /\ RewardsSeen /\ OpenTrovesShare /\ RedeemedAreSolvent
        /\ NoPanic /\ [Next]_vars => NoPanic'
<1> SUFFICES ASSUME LedgerInv, AccountsInv, DebtInv, WholeInv, ComputableInv,
                    LoopsTracked, RewardsSeen, OpenTrovesShare, RedeemedAreSolvent,
                    NoPanic, [Next]_vars
             PROVE  NoPanic'
  OBVIOUS
<1>1. DebtHeld /\ OpenTrovesAreWhole
  BY DEF DebtInv, WholeInv
<1>2. ASSUME UNCHANGED panicked PROVE NoPanic'
  BY <1>2 DEF NoPanic
<1>3. CASE revertLiquidation
  <2>1. /\ pc = "liquidating" /\ LiquidationFails
        /\ panicked' = (panicked \/ IF LoopOver THEN totals.debt > 0
                                                ELSE MoreThanOneTrove)
    BY <1>3 DEF revertLiquidation
  <2>2. CASE LoopOver
    <3>1. totals.debt = 0 \/ ~FinishChecks
      BY <2>1, <2>2 DEF LiquidationFails
    <3>2. ~(totals.debt > 0)
      <4>1. CASE totals.debt = 0
        BY <4>1
      <4>2. CASE ~FinishChecks
        BY <2>1, <4>2, FinishChecksHold
      <4> QED BY <3>1, <4>1, <4>2
    <3> QED BY <2>1, <2>2, <3>2 DEF NoPanic
  <2>3. CASE ~LoopOver
    <3>1. /\ stepVals(currentUser) # zeroVals
          /\ ~(MoreThanOneTrove /\ StepChecks(currentUser, stepVals(currentUser)))
      BY <2>1, <2>3 DEF LiquidationFails
    <3>2. StepChecks(currentUser, stepVals(currentUser))
      BY <1>1, <2>1, <2>3, <3>1, StepChecksHold
    <3>3. ~MoreThanOneTrove
      BY <3>1, <3>2
    <3> QED BY <2>1, <2>3, <3>3 DEF NoPanic
  <2> QED BY <2>2, <2>3
<1>4. CASE revertRedemption
  <2>1. /\ pc = "redeeming"
        /\ panicked' = (panicked \/ IF RedemptionOver
                                    THEN redeeming.drawn > 0 /\ ~RedemptionEndChecks
                                    ELSE ~RedeemChecks(redeeming.user))
    BY <1>4 DEF revertRedemption
  <2>2. RedemptionEndChecks
    BY <2>1, RedemptionEndChecksHold
  <2>3. ~RedemptionOver => RedeemChecks(redeeming.user)
    BY <1>1, <2>1, RedeemChecksHold
  <2> QED BY <2>1, <2>2, <2>3 DEF NoPanic
<1>5. CASE \/ \E b \in Borrowers, price \in Prices : BorrowerStep(b, price)
           \/ \E b \in Borrowers : claimCollateral(b)
           \/ \E u \in Users, price \in Prices : DepositorStep(u, price)
           \/ \E u, v \in Users, a \in TransferAmounts : transferUSDD(u, v, a)
  <2>1. UNCHANGED panicked
    BY <1>5 DEF BorrowerStep, openTrove, adjustTrove, withdrawCollGainToTrove,
                closeTroveByOwner, claimCollateral, DepositorStep, provideToSP,
                withdrawFromSP, transferUSDD, Transact
  <2> QED BY <1>2, <2>1
<1>6. CASE \/ \E k \in Keepers, price \in Prices : BeginLoop(k, price)
           \/ \E k \in Keepers, price \in Prices : BeginRedemption(k, price)
  <2>1. UNCHANGED panicked
    BY <1>6 DEF BeginLoop, liquidateTroves, batchLiquidateTroves, beginLiquidation,
                BeginRedemption, redeemCollateral, BeginTx
  <2> QED BY <1>2, <2>1
<1>7. CASE \/ skipTrove \/ liquidateTrove \/ finishLiquidation
           \/ redeemWhole \/ redeemPartly \/ cancelPartial
           \/ \E rate \in RedemptionRates : finishRedemption(rate)
  <2>1. UNCHANGED panicked
    BY <1>7 DEF skipTrove, liquidateTrove, finishLiquidation, redeemWhole,
                redeemPartly, cancelPartial, finishRedemption, CommitTx, controlVars
  <2> QED BY <1>2, <2>1
<1>8. CASE UNCHANGED vars
  BY <1>2, <1>8 DEF vars, controlVars
<1> QED
  BY <1>3, <1>4, <1>5, <1>6, <1>7, <1>8
     DEF Next, Quiet, LiquidationStep, RedemptionStep

\* No assert and no SafeMath check fails inside a liquidation or a redemption,
\* whatever troves the loop visits in which order, in every behaviour in which
\* no rounding has left an open trove without a stake (OpenTrovesShare), a
\* debt that hasPendingRewards does not see (RewardsSeen) or a list so far out
\* of order that a redemption comes to a trove not worth its debt
\* (RedeemedAreSolvent): a revert is then one of the code's own requires.
THEOREM LoopsDoNotPanic ==
    Spec /\ []OpenTrovesShare /\ []RewardsSeen /\ []RedeemedAreSolvent => []NoPanic
<1>1. Init => WholeInv
  BY DEF Init, WholeInv, OpenTrovesAreWhole, TrovesAreWhole, TroveOf
<1>2. Init => ComputableInv
  BY DEF Init, ComputableInv, StakeComputable
<1>3. Init => LoopsTracked
  BY DEF Init, LoopsTracked
<1>4. Init => NoPanic
  BY DEF Init, NoPanic
<1> QED
  BY <1>1, <1>2, <1>3, <1>4, LedgerInvariance, InitAccounts, NextAccounts, NextWhole,
     InitDebt, NextDebt, NextComputable, NextTracked, NextPanic, PTL DEF Spec
=============================================================================
