---------------------------- MODULE DEFTStaking ----------------------------
(***************************************************************************)
(* DEFTStaking.sol with one collateral token.  Stakers of DEFT share the   *)
(* borrowing fees (USDD) and the redemption fees (collateral).  The        *)
(* contract keeps a running sum of the fees per staked token; a staker's   *)
(* gain is the stake times what the sum has grown by since their snapshot. *)
(*                                                                         *)
(* A step is one transaction; one whose requirement fails is not a step.   *)
(***************************************************************************)
EXTENDS Integers, FiniteSets, Functions

CONSTANTS
    Stakers,
    STAKING_PRECISION,      \* DECIMAL_PRECISION, 1e18
    DEFTBalance             \* DEFT each staker has at first

ASSUME StakingAssumption ==
    /\ IsFiniteSet(Stakers)
    /\ STAKING_PRECISION \in Nat \ {0}
    /\ DEFTBalance \in Nat

VARIABLES
    stakes, totalDEFTStaked,
    F_COLL, F_USDD,             \* running sums of fees per staked DEFT
    F_Snapshots,                \* staker -> COLL and USDD
    deftOf,                     \* DEFT balance of each staker
    deftHeld, usddHeld, collHeld \* the contract's balances

stakingVars == <<stakes, totalDEFTStaked, F_COLL, F_USDD, F_Snapshots,
                 deftOf, deftHeld, usddHeld, collHeld>>

StakingTypeOK ==
    /\ stakes \in [Stakers -> Nat]
    /\ totalDEFTStaked \in Nat
    /\ F_COLL \in Nat
    /\ F_USDD \in Nat
    /\ F_Snapshots \in [Stakers -> [COLL : Nat, USDD : Nat]]
    /\ deftOf \in [Stakers -> Nat]
    /\ deftHeld \in Nat
    /\ usddHeld \in Nat
    /\ collHeld \in Nat

StakingInit ==
    /\ stakes = [u \in Stakers |-> 0]
    /\ totalDEFTStaked = 0
    /\ F_COLL = 0
    /\ F_USDD = 0
    /\ F_Snapshots = [u \in Stakers |-> [COLL |-> 0, USDD |-> 0]]
    /\ deftOf = [u \in Stakers |-> DEFTBalance]
    /\ deftHeld = 0
    /\ usddHeld = 0
    /\ collHeld = 0

-----------------------------------------------------------------------------

getPendingCollGain(u) ==
    (stakes[u] * (F_COLL - F_Snapshots[u].COLL)) \div STAKING_PRECISION

getPendingUSDDGain(u) ==
    (stakes[u] * (F_USDD - F_Snapshots[u].USDD)) \div STAKING_PRECISION

\* Mutant: the snapshots are taken on the first stake only.
snapshotsOnce(u) ==
    IF stakes[u] = 0
    THEN [F_Snapshots EXCEPT ![u] = [COLL |-> F_COLL, USDD |-> F_USDD]]
    ELSE F_Snapshots

updateUserSnapshots(u) ==
    [F_Snapshots EXCEPT ![u] = [COLL |-> F_COLL, USDD |-> F_USDD]]

\* The gains leave the contract: the USDD goes to the staker, the collateral
\* to the caller, who is the staker or the gateway.
payGains(u) ==
    /\ F_Snapshots' = updateUserSnapshots(u)
    /\ usddHeld >= getPendingUSDDGain(u)
    /\ usddHeld' = usddHeld - getPendingUSDDGain(u)
    /\ collHeld >= getPendingCollGain(u)
    /\ collHeld' = collHeld - getPendingCollGain(u)

stake(u, amount) ==
    /\ amount > 0
    /\ amount <= deftOf[u]
    /\ stakes' = [stakes EXCEPT ![u] = @ + amount]
    /\ totalDEFTStaked' = totalDEFTStaked + amount
    /\ deftOf' = [deftOf EXCEPT ![u] = @ - amount]
    /\ deftHeld' = deftHeld + amount
    /\ payGains(u)
    /\ UNCHANGED <<F_COLL, F_USDD>>

withdrawable(u, amount) == IF amount < stakes[u] THEN amount ELSE stakes[u]

\* unstake: no more than the stake; an amount of zero only pays the gains
unstake(u, amount) ==
    LET DEFTToWithdraw == withdrawable(u, amount)
    IN  /\ stakes[u] > 0
        /\ stakes' = [stakes EXCEPT ![u] = @ - DEFTToWithdraw]
        /\ totalDEFTStaked' = totalDEFTStaked - DEFTToWithdraw
        /\ deftOf' = [deftOf EXCEPT ![u] = @ + DEFTToWithdraw]
        /\ deftHeld' = deftHeld - DEFTToWithdraw
        /\ payGains(u)
        /\ UNCHANGED <<F_COLL, F_USDD>>

\* Mutant: the fee is divided by the stakes and one more.
feePerStakeDiluted(fee) ==
    (fee * STAKING_PRECISION) \div (totalDEFTStaked + 1)

\* While nobody stakes, a fee is added to no sum: it stays in the contract.
feePerStake(fee) ==
    IF totalDEFTStaked > 0 THEN (fee * STAKING_PRECISION) \div totalDEFTStaked ELSE 0

\* The core contracts send the fee and call increaseF_USDD or increaseF_COLL
\* in one transaction.
increaseF_USDD(fee) ==
    /\ F_USDD' = F_USDD + feePerStake(fee)
    /\ usddHeld' = usddHeld + fee
    /\ UNCHANGED <<stakes, totalDEFTStaked, F_COLL, F_Snapshots, deftOf, deftHeld, collHeld>>

increaseF_COLL(fee) ==
    /\ F_COLL' = F_COLL + feePerStake(fee)
    /\ collHeld' = collHeld + fee
    /\ UNCHANGED <<stakes, totalDEFTStaked, F_USDD, F_Snapshots, deftOf, deftHeld, usddHeld>>

-----------------------------------------------------------------------------

allUSDDGains == SumFunction([u \in Stakers |-> getPendingUSDDGain(u)])

allCollGains == SumFunction([u \in Stakers |-> getPendingCollGain(u)])
=============================================================================
