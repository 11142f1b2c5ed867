---------------------------- MODULE DEFTRewards ----------------------------
(***************************************************************************)
(* The two contracts that give DEFT away over time, Unipool and            *)
(* CommunityIssuance, on one clock.  Each is started once by its owner, at *)
(* any time, and each must be able to pay what it has promised.            *)
(***************************************************************************)
EXTENDS Unipool, CommunityIssuance

CONSTANTS
    PoolDEFT, IssuanceDEFT, \* DEFT minted to each contract
    Rewards,                \* inputs: the reward, the length of the period,
    Durations,
    UniAmounts,             \* liquidity tokens staked and withdrawn,
    SendAmounts             \* DEFT that the stability pool pays out

ASSUME RewardsAssumption ==
    /\ PoolDEFT \in Nat
    /\ IssuanceDEFT \in Nat
    /\ Rewards \subseteq Nat
    /\ Durations \subseteq Nat \ {0}
    /\ UniAmounts \subseteq Nat
    /\ SendAmounts \subseteq Nat

rewardsVars == <<now, poolVars, issuanceVars, ops>>

RewardsInit ==
    /\ now = 1
    /\ UnipoolInit(PoolDEFT)
    /\ IssuanceInit(IssuanceDEFT)
    /\ ops = 0

wait ==
    /\ secondPasses
    /\ UNCHANGED <<poolVars, issuanceVars>>

\* The two starts are not counted as transactions.
startPool ==
    \E reward \in Rewards, length \in Durations :
        /\ start(reward, length)
        /\ UNCHANGED <<now, issuanceVars, ops>>

provide ==
    /\ transaction
    /\ \E a \in Providers :
           \/ \E amount \in UniAmounts : stakeUni(a, amount) \/ withdraw(a, amount)
           \/ claimReward(a)
           \/ withdrawAndClaim(a)
    /\ UNCHANGED <<now, issuanceVars>>

startIssuing ==
    /\ startIssuance(IssuanceDEFT, now)
    /\ UNCHANGED <<now, poolVars, ops>>

issue ==
    /\ transaction
    /\ \/ issueDEFT(now)
       \/ \E amount \in SendAmounts : sendDEFT(amount)
    /\ UNCHANGED <<now, poolVars>>

RewardsNext == wait \/ startPool \/ provide \/ startIssuing \/ issue

RewardsSpec == RewardsInit /\ [][RewardsNext]_rewardsVars

-----------------------------------------------------------------------------

\* Times are in order, balances add up, and no amount is negative.
RewardsTypeOK ==
    /\ UnipoolTypeOK
    /\ totalSupply = SumFunction(balanceOf)
    /\ totalDEFTIssued \in 0..DEFTSupplyCap
    /\ deftOfIssuance \in Nat
    /\ issuedToPool \in Int

\* The pool owns what its providers have earned and what the rest of the
\* period will pay, however often it was empty, claimed from or left.
RewardsBacked == allEarned + remainingReward <= deftBalance

\* No reward is lost to time in which nobody staked: what the pool owns is
\* what it still has to pay, but for the remainder of reward / duration and
\* the rounding of each operation, of the reward per token and of the gains.
NothingLocked ==
    periodFinish > 0
        => LET unused == PoolDEFT - rewardRate * duration
               tokens == UniBalance * Cardinality(Providers)
               rounding == (ops + 1) * (Cardinality(Providers) + 1 + tokens \div UNIT)
           IN  deftBalance - unused - rounding <= allEarned + remainingReward

\* The issue of DEFT never reverts: the curve never falls, and what was
\* issued and not sent is there to be sent, even if the pool once asked for more.
IssuanceNeverReverts ==
    startTime > 0
        => /\ latestTotalDEFTIssued(now) \in totalDEFTIssued..DEFTSupplyCap
           /\ issuedToPool + (latestTotalDEFTIssued(now) - totalDEFTIssued) <= deftOfIssuance

\* A provider's operation does not change what another has earned, whether
\* or not the end of the period moves.
OthersKeepRewards ==
    [][now' = now =>
           \A a \in Providers :
               <<balanceOf[a], rewards[a], userRewardPerTokenPaid[a]>>'
                    = <<balanceOf[a], rewards[a], userRewardPerTokenPaid[a]>>
                   => earned(a)' = earned(a)]_rewardsVars

\* What Unipool owns is what it has promised and not yet paid, no less and,
\* but for rounding, no more.
RewardsInv == RewardsTypeOK /\ RewardsBacked /\ NothingLocked
=============================================================================
