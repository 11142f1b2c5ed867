# A TLA+ model of the USDD stablecoin contracts

USDD is a fork of Liquity. Borrowers lock wrapped ETH in *troves* and mint USDD
against it; the protocol keeps USDD solvent by liquidating troves whose
collateral ratio is too low, against the deposits of a *stability pool* or by
redistributing them to the other troves, and keeps it at its peg by letting
anyone redeem USDD for collateral. The contracts are under
`src/packages/contracts/contracts`. Client libraries (`lib-base`, `lib-ethers`,
`lib-react`, `providers`) and a front end (`dev-frontend`) follow the chain and
submit transactions; a subgraph, a fuzzer and scripts stand beside them.

This directory holds TLA+ modules of the contracts and of the parts of the client
that have state of their own, the TLC configurations that check them on small
instances, and TLAPS proofs of most of the safety properties for instances of any
size.

    cd tla
    tlc -config MCLiquidation.cfg MCProtocol      # a run
    tlapm ProtocolProofs.tla                      # the proofs of a module

## 1. Inventory

### Components

| Component | State it keeps | Operations | Module |
|---|---|---|---|
| TroveManager | troves (status, collateral, debt, stake), reward snapshots, owners' array, total stakes and its snapshots, `L_COLL` and `L_USDDDebt` with their rounding errors, base rate and its clock | liquidate, liquidateTroves, batchLiquidateTroves, redeemCollateral, applyPendingRewards, closeTrove, stakes, decay and fees | `ProtocolState`, `Liquidation`, `Redemption`, `BaseRate` |
| BorrowerOperations | none of its own | openTrove, adjustTrove (addColl, withdrawColl, withdrawUSDD, repayUSDD, moveCollateralGainToTrove), closeTrove, claimCollateral | `BorrowerOperations` |
| ActivePool, DefaultPool, CollSurplusPool, GasPool | recorded collateral and debt, surplus of each owner, the liquidation reserves | increase, decrease and send, each called by one of the other contracts | `ProtocolState` |
| StabilityPool | deposits, front ends and their stakes, product `P`, sums `S` and `G` per epoch and scale, rounding errors | provideToSP, withdrawFromSP, withdrawCollGainToTrove, registerFrontEnd, offset | `StabilityPool`, in aggregate `BorrowerOperations` |
| SortedTroves | doubly linked list of troves by nominal ratio | insert, remove, reInsert, with hints | `SortedTroves`, abstractly `TroveList` |
| PriceFeed, TellorCaller | status (one of five), last good price | setAddresses, fetchPrice | `PriceFeed` |
| USDDToken | supply, balances | mint, burn, transfer, sendToPool, returnFromPool | `ProtocolState` |
| LiquityMath, LiquityBase | none | ratios, composite and net debt, gas compensation, exponentiation | `LiquityMath`, `DecPow` |
| DEFTStaking | stakes, fees per staked token, snapshots | stake, unstake, increaseF_COLL, increaseF_USDD | `DEFTStaking` with `Fees` |
| Unipool | period, rate, reward per token, stakes, rewards | start, stake, withdraw, claimReward, withdrawAndClaim | `Unipool` with `DEFTRewards` |
| CommunityIssuance | cap, start time, DEFT issued | start, issueDEFT, sendDEFT | `CommunityIssuance` with `DEFTRewards`; as used, in `StabilityPool` |
| LiquityStore, BlockPolledLiquityStore | the client's copy of the chain's state | load, update, block listener | `LiquityStore` |
| Transaction.tsx | the page's transaction state, a monitor per transaction | send, receipt, clean-up, hide | `Transactions` |
| TroveViewProvider, TroveManager.tsx | view, edited trove, pending change | events, edits, updates of the store | `TroveView` |
| StakingViewProvider | pending change | the same | `StakingView` |
| WebSocketAugmentedProvider | sockets, listeners, last block seen, reconnect timer | open and close, block events, wait for a transaction, retry | `BlockEvents` |
| BatchedProvider | open batch and its timer | call, dispatch | `BatchedCalls` |
| Trove.ts, Fees.ts, validateTroveChange.tsx | none | whatChanged, apply, rates, validation | `TroveChange`, `BaseRate` |
| HintHelpers, MultiTroveGetter | none | views | not modelled |
| WETHGateway, proxy scripts | none | sequences of calls of the above | not modelled |
| other panels, lib-ethers' translation of calls, deployment scripts, subgraph, fuzzer | | | not modelled |

### How they interact

Every external call is one EVM transaction: atomic, and undone as a whole when
any `require`, `assert` or SafeMath check fails. What is concurrent is the
*order* of transactions: borrowers, depositors, liquidators and redeemers act on
shared storage at prices nobody controls, and with hints and expectations formed
before other transactions ran.

Within a transaction one logical change is made by many calls. A liquidation
moves the rewards a trove has pending from the default to the active pool, takes
its stake out of the total, removes it from the list and the owners' array,
lets the stability pool burn its share of the debt and receive its share of the
collateral, redistributes the rest through `L_COLL` and `L_USDDDebt`, credits the
surplus, snapshots the system and pays the liquidator. Each amount is recorded by
another contract, none of which sees the others' books.

Rewards and losses are *pulled*: a redistribution or an offset changes a few
accumulators only, and each trove and depositor works out what it owns from a
snapshot, often much later.

The client is concurrent in another way. A block starts a fetch of the whole state,
fetches overlap, and the answers come from nodes of which some lag. A transaction
is heard of twice: from its receipt and from the store, in either order.
Block events move between a web socket and polling as sockets break and return.
All of it runs on one thread, as callbacks whose order the network chooses.

### What is hard

* **Long sequences.** An amount wrongly counted in one operation shows only when
  a much later operation of somebody else reverts.
* **Loops over a list they modify.** The recovery loop reads the next trove
  before it closes the current one, keeps its own running copy of the
  stability pool and the system totals, and may change mode midway.
* **Pull accounting with floored divisions.** Accumulators per unit, error
  feedback, changes of scale and epoch in `P`.
* **Stale order.** The list is ordered by ratios that liquidations change
  without telling it, and its users supply hints that are out of date.
* **Partial failure.** A partial redemption is cancelled after the trove's
  rewards have been applied; closing the last trove reverts a whole sequence.
* **Unreliable oracles.** Chainlink and Tellor fail, freeze and jump
  independently, and the feed must neither trust a wrong one nor get stuck.
* **Clocks.** The base rate decays by whole minutes from a clock that only some
  operations set; the reward period is moved by the time a pool was empty.
* **Two copies of one rule.** The client predicts fees, troves and refusals by its
  own arithmetic, from a state that is older than the transaction.
* **Callbacks in any order.** Late fetches, late receipts, reconnection timers and
  batches, all of which share a few variables.

`PROJECT.json` lists the hazards at their lines with the properties that cover
them.

### What makes each component correct

* *TroveManager, BorrowerOperations, pools, token*: the supply equals the recorded
  debt; WETH owned equals WETH recorded; the pools hold what the troves own and
  what they are due; the gas pool holds one reserve per trove; every surplus can
  be claimed; stakes add up and can always be computed; list, array and
  status agree; no loop panics or runs for ever; liquidation and redemption take
  no more than they should; a borrower cannot push the system into Recovery Mode.
* *StabilityPool*: deposits, collateral gains and DEFT gains are backed; one
  depositor's operation does not touch another's.
* *SortedTroves*: links are consistent, any hint works, order is kept; it
  behaves like a sequence.
* *PriceFeed*: the price is positive, current, confirmed when it jumps; trust
  is earned; the feed recovers.
* *Base rate*: it decays however often it is used, like the power it stands for; a
  fee quoted by the client in Normal Mode is accepted unless somebody redeems first.
* *DEFTStaking, Unipool, CommunityIssuance*: what is promised is owned; fees and
  rewards reach those who staked, and nobody's operation takes from another.
* *Front end*: a state that names its block is of that block; the trove shown is
  the trove there is; no success is announced of another transaction; in the end
  the page is up to date and unlocked.
* *Providers*: every block or a later one reaches the store, the receipt arrives, each
  call gets its own answer, and none is rejected while its block is the last announced.
* *Client mathematics*: the trove predicted is the trove that results; what is
  offered is accepted; nothing possible is refused.

## 2. Modules

    LiquityMath <- ProtocolState <- BorrowerOperations \
                                 <- Liquidation         > Protocol <- MCProtocol
                                 <- Redemption         /           <- ProtocolProofs
    TroveList <-(refinement)- SortedTroves <- MCSortedTroves, SortedTrovesProofs
    PriceFeed <- MCPriceFeed, PriceFeedProofs
    StabilityPool <- MCStabilityPool, StabilityPoolProofs
    DecPow, Clock <- BaseRate    \
              DEFTStaking         > Fees <- MCFees, FeesRewardsProofs
    DecPow <- CommunityIssuance  \
    Clock  <- Unipool             > DEFTRewards <- MCDEFTRewards, FeesRewardsProofs
    LiquityStore, Transactions, TroveView, StakingView <- FrontEnd <- MCFrontEnd, FrontEndProofs
    BlockEvents <- BatchedCalls <- Providers <- MCProviders, ProvidersProofs
    LiquityMath <- TroveChange, Protocol <- TroveValidation <- MCTroveValidation
    DataTheorems <- ProtocolProofs, PriceFeedProofs, FeesRewardsProofs, StabilityPoolProofs,
                    SortedTrovesProofs

**`LiquityMath`** has the arithmetic of LiquityMath.sol and LiquityBase.sol with
the fixed-point precisions, ratios and minimum amounts as constants.

**`ProtocolState`** declares the storage that the core contracts share and the
views and helpers of TroveManager: pending rewards, applied rewards, stakes, the
owners' array with its swap-and-pop, the sorted list as a sequence, and
`closeTrove`. It also defines what a transaction is. A call that touches one trove
is one step (`Transact`). A call that loops over troves is one step per trove:
`BeginTx` keeps a copy of the storage in `saved`, `CommitTx` drops it and `RevertTx`
restores it. `pc` says which loop is running, and no other action is enabled
meanwhile. Variables have the contracts' names; `wethHeld`, `gasPoolUSDD`,
`stabilityPoolUSDD` and `stakingUSDD` are token balances of contracts.

**`BorrowerOperations`** has an action per entry point. `adjustTrove` is
`_adjustTrove` for every combination of collateral in or out and USDD borrowed or
repaid, with the requirements of both modes, the fee, the stake, the re-insertion
and the movement of tokens. The module also has the stability pool's entry points
as the rest of the system sees them (totals only, a depositor's gain is nothing or
all of the pool's collateral) and the token transfer.

**`Liquidation`** models `liquidateTroves` and `batchLiquidateTroves` in both modes;
`liquidate(b)` is the batch `<<b>>`, as in the code. `liqArgs` are the arguments and
the mode on entry, `cursor` the loop's position, `running` the copies the loop keeps
of the pool and the system totals, `totals` the `LiquidationTotals`. Steps:
`skipTrove`, `liquidateTrove`, `finishLiquidation` (offset, redistribution, surplus,
snapshots, compensation) and `revertLiquidation`. The reserve, the collateral and
the debt of the troves closed so far stay in `totals` until the end, as in the code,
so the invariants speak of the moments in between too.

**`Redemption`** models `redeemCollateral`: the first hint, the walk towards the
lowest trove that may be redeemed from, `redeemWhole`, `redeemPartly`, the
cancelled partial redemption, and `finishRedemption`.

`liquidateTrove` and the loops of redemption check the asserts and SafeMath
subtractions that the code reaches; a check that fails there sets `panicked` and
reverts, so `NoPanic` says none does. A `require` that the code means to fail (no trove
liquidated, the last trove may not be closed) reverts without it.

**`Protocol`** composes these, declares the properties and states fairness.

**`TroveList`** is the list as a sequence with insertion at any position consistent
with its neighbours' ratios. **`SortedTroves`** is the contract: head, tail, size,
`nextId`, `prevId`, hints, descending and ascending search. It is shown to implement
`TroveList`, whose insertion rule is the one `ProtocolState` uses.

**`PriceFeed`** is `fetchPrice` as a table from the status and the two oracles'
responses to the next status and the source of the price, one definition per
status, in an environment where rounds arrive with good and bad answers and
timestamps, calls revert and stop reverting, decimals change, Tellor reports or
fails, and time passes, in any order.

**`StabilityPool`** has the deposit accounting in full: compounded deposits and
front-end stakes, sums per epoch and scale, error corrections, the issue of DEFT
with kickback rates, and `offset`. `offsets` counts liquidations; it bounds the runs
and appears in the stated rounding errors, the code has no such counter.

**`DecPow`** is exponentiation by squaring as a recursive function, with `decMul`'s
rounding. **`BaseRate`** has the base rate and its clock (`_updateLastFeeOpTime`,
`decayBaseRateFromBorrowing`, `updateBaseRateFromRedemption`), the fees, and beside
them the client's copy (`Fees.ts`). **`DEFTStaking`** is the contract with one
collateral token. **`Fees`** puts them on one clock: borrowings and redemptions pay
fees to the stakers, and a borrower quotes a fee, then submits it as the maximum
after time, other transactions and changes of mode. `recoveryMode` changes at any time, as
prices and other troves have it; in Recovery Mode the client quotes no fee and the contracts
charge none and leave the base rate alone. `redeemed` remembers the rate left by the last
redemption and its time, for the properties; the code has no such variable.

**`Unipool`** and **`CommunityIssuance`** are the two contracts, and **`DEFTRewards`**
runs them on one clock, each started once, at any time, by its owner. **`Clock`** is the
block timestamp, with the bounds on time and on the number of transactions.

**`LiquityStore`** is the store of one user with its overlapping fetches. The chain is a
sequence of what its blocks show of that user. A fetch without a block tag may take
each of its parts from another block. **`Transactions`** is the shared transaction
state: `txs` are the transactions sent, each with the stage it has reached and
the state of its monitor. **`TroveView`** has the table of views and events, and the
editor; of the edited trove it keeps the kind of change. **`StakingView`** is the
pending change of the other panel on the page. **`FrontEnd`** composes them: a step
is one callback with the renders and effects it causes. Wallet, chain and other
users are its environment.

**`BlockEvents`** is the provider's block listening: `sockets` are all sockets
opened so far, since an old one can still call back; `timers` the reconnections
scheduled, of which the code remembers one. `wait` is a `waitForTransaction`. A source
announces any block up to the last one, so that `seenBlock` may go back, as
`_onBlock` lets it when a poll lags or a second socket is still attached.
**`BatchedCalls`** is the batching on top and the retries below. A request remembers
the socket it went over: if that closes, no answer comes. `overtaken` remembers, for the
properties, the calls for a block that was not, or did not remain, the one announced last. A call
that must not be batched, or is made where there is no Multicall, is sent at once. **`Providers`** composes
them with an application that opens, closes, listens and calls.

**`TroveChange`** is the client's arithmetic of troves and its validation.
**`TroveValidation`** extends `Protocol` with it, and compares in every reachable
state what the client offers with what the action of the contract would do
(`ENABLED` of the action with the client's arguments).

The modules named `...Proofs` hold the theorems (section 5), **`DataTheorems`** the facts
about sums, halving recursions, lists and rounded quotients that several of them need.

`lib-base` and `lib-ethers` still use the names of the original contracts (LUSD, LQTY,
`L_ETH`); the models take them for their counterparts in this repository.

### Abstractions

* A price is any member of `Prices`, chosen by each transaction: what `PriceFeed`
  guarantees of it, and all the core relies on, is that it is positive.
* In `Protocol` borrowing and redemption fees are any rate in a set; the base rate, its
  decay and the maximum fee a caller accepts are in `Fees`. They restrict which
  transactions succeed, so `Protocol` has all behaviours of the code with the rates
  chosen. The bootstrap period is left out.
* In `Fees` collateral is worth one USDD and the supply is a constant: the base rate
  depends on the redeemed fraction only.
* A step of the front end is a callback with all it causes, as React runs the
  effects of a render before the next. Amounts that the user edits are in
  `TroveChange`, the order of events in `FrontEnd`, not both at once.
* In `Providers` a call does not revert, and one confirmation is waited for, as the
  front end does.
* Hints in `Protocol` are a nondeterministic choice among the valid positions.
* Addresses, authorisation between contracts and events are left out.

## 3. Runs

The runs of `MCProtocol` use the proportions of the deployed contracts: reserve 200,
minimum net debt 1800, MCR 110%, CCR 150%, gas compensation 1/200, with a precision
of 1/10000. Two prices, 1.60 and 1.00, make troves of the chosen sizes safe or
liquidatable and the system normal or in recovery. Three borrowers are
the fewest with which a trove is liquidated while two others share what is
redistributed. In `MCSortedTroves` five positive ratios give every relative order, with
ties, of three members and a trove to be inserted.

| Run | Bounds | Shows |
|---|---|---|
| `liquidation` | 3 borrowers, 4 sizes of trove, stability pool empty or not, 5 transactions, all batches | all books stay consistent through sequences and batches in both modes and no loop panics; a trove at or above MCR is liquidated only in recovery, fully offset, and keeps its surplus |
| `rewards` | 3 borrowers, 3 sizes, 5 adjustments, the highest fee (5%), 6 transactions | pools cover troves and their pending rewards, stakes add up and are computable after redistributions, open troves keep the minimum; no borrower's operation starts or worsens Recovery Mode |
| `redemption` | 3 borrowers, 2 sizes, 2 amounts, all first hints, limited and unlimited loops, 5 transactions, fair | books balanced through whole, partial and cancelled redemptions, before and after a redistribution; redemption at face value and only from troves worth their debt; every loop ends |
| `sorted_list` | 4 troves, at most 3 in the list, 5 positive ratios, all pairs of hints, any redistribution | consistent links, search always succeeds, calls keep the order, and the linked list implements `TroveList`, the full list included |
| `price_feed` | prices 5% apart, one jump, a negative Chainlink answer, a zero Tellor value, 2 decimals, timeout of 0 ticks, fair | positive, current and confirmed prices, trust earned, recovery once both oracles agree |
| `stability_pool` | 2 accounts, each depositor and front end, 4 debts (small, half, nearly all, more than all), 2 liquidations, DEFT issued by any operation | deposits, gains and DEFT claims backed up to a stated error, through changes of scale and epoch; nobody's operation touches another's |
| `fees` | 2 stakers, minutes of 3 ticks, 10 ticks, 4 operations and changes of mode, 3 sizes of redemption | decay not stalled and equal to the power; quoted fees accepted, through changes of mode; gains backed, fees shared, operations settle |
| `deft_rewards` | 2 providers, period of 3 ticks, 7 ticks, 5 operations, 2 amounts sent | rewards backed, none lost to empty times, none changed by others; the issue never reverts |
| `front_end` | 2 inputs out of: transactions sent, changes by others, rejected fetches and receipts; any clicks, fair | the trove, the transaction and the stake shown are right and in the end current |
| `providers` | 2 blocks, 3 sockets, 2 calls, 4 inputs (sockets, calls, listeners, late announcements), fair | listening to the current source, no block or receipt missed, each call settled with its own answer, none rejected before another block is announced |
| `trove_validation` | 3 borrowers, 2 sizes, 5 transactions, 24 edits of every trove in every state | predictions exact, offers accepted, refusals justified |

Some properties of the runs are conjunctions of named parts, each with its own comment
in the module; the text below speaks of the parts.

| Property | Parts |
|---|---|
| `LedgerInv` | `TypeOK`, `SupplyMatchesDebt`, `CollateralAccountedFor`, `SavedBalanced` |
| `BooksInv` | `USDDAccountedFor`, `GasPoolReserved`, `SurplusBacked`, `ActivePoolMatchesTroves`, `CollRewardsCovered`, `OwnersListed` |
| `StakesSound` | `StakesAddUp`, `DebtRewardsCovered`, `StakeAlwaysComputable`, `OpenTrovesAreWhole`, `OpenTrovesShare`, `RewardsSeen` |
| `RedemptionAtFaceValue` | `RedeemedAreSolvent`, and what a step of a redemption may take |
| `ListInv`, `FeedInv`, `PoolInv` | `TypeOK` with `WellLinked`, `PositivePrice`, `DepositsNearlyBacked` |
| `GainsNearlyBacked` | `CollGainsNearlyBacked`, `DEFTGainsNearlyBacked` |
| `DecaySound`, `QuotesAccepted` | `DecayNotStalled`, `DecayIsPower`; `QuotedFeeAccepted`, `QuotedRedemptionAccepted` |
| `StakingInv`, `StakersPaid` | `TypeOK`, `GainsBacked`; `FeesReachStakers`, `OperationsSettle` |
| `RewardsInv` | `RewardsTypeOK`, `RewardsBacked`, `NothingLocked` |
| `StoreInv`, `TroveShownRight` | `TypeOK`, `TaggedStateConsistent`; `NoGhostTrove`, `NetworkNeverHidesTrove` |
| `PageSettles` | `StoreCatchesUp`, `EventuallyIdle`, `StakingUnlocks` |
| `ListeningInv`, `AnswersRight` | `TypeOK`, `AttachedToCurrent`, `MinedBlockNotSkipped`; `AnswersMatch`, `FreshBlockNotRejected` |
| `RequestsSettle` | `ReceiptArrives`, `CallsSettle` |
| `ValidationAgrees` | `OfferedChangeAccepted`, `NothingRefusedWrongly` |

`PROJECT.json` lists for every property a mutant of a definition that violates it in
its run. A mutant violates one part of a conjunction, not each of them.

Five transactions allow three openings, a deposit and a liquidation that leaves
troves in every state, or three openings, a redistribution and a redemption; six allow
an adjustment or opening after a redistribution and a liquidation after that. In `StabilityPool` precision 100 and scale factor 10 keep the
relation 1e18 to 1e9 (its square root), and amounts are well above the precision, as
18-decimal amounts are; two liquidations are enough to change scale twice under
a deposit, or to change it, refill the pool and empty it. In `PriceFeed` a response is of
age 0, or older than the timeout, or from the future or the epoch, which are all the
ages the code tells apart.

In `fees` a minute of three ticks lets operations come at, before and after a whole
minute, and ten ticks hold three minutes, so that even and odd exponents occur. In
`deft_rewards` the period of three ticks can be interrupted by an empty pool, left
unfinished and resumed. Two inputs of the page suffice for a transaction against a
liquidation, two overlapping transactions, or a transaction against a lost fetch; the
user's clicks are not bounded. Two blocks are one that a lagging node does not have
and the one before it, which is also the one a late source announces; three sockets are
one broken, one reopened and one leaked. Waiting for a transaction is not counted among
the inputs. The four operations of `fees` hold a redemption, a change to Recovery Mode, in which a
quote is made (quotes are not counted), the change back and a borrowing.

Deadlock is checked in `Protocol`, `SortedTroves` and `PriceFeed`, with `Quiet`
standing for nobody submitting a transaction in `Protocol`, so a loop that can
neither continue, end nor revert would be reported. The other runs do without: all
USDD may have been burned, the clock and the operations end at their bounds, and a
page or a provider of which nothing more is asked rests.

### Disagreements between code and comments

One run is expected to be violated. It states what a comment of the contracts says.

| Run | Statement | What the code does |
|---|---|---|
| `batch_recovery` | the capped branch compares with the total ratio "accounting for the preceding liquidations" (TroveManager.sol:498) | `batchLiquidateTroves` does not deduct surpluses from its running collateral (line 963), `liquidateTroves` does |

Others are known from the same models and have no run:

* "Nodes remain sorted by current NICR" (SortedTroves.sol:28): two troves of nearly
  equal ratio change places when their floored rewards differ. `SearchSucceeds` shows
  that insertion still works.
* The rounding error "favors the Stability Pool" (StabilityPool.sol:620): the
  correction of the next liquidation can overcompensate, at real scale by about 1e7
  wei. `DepositsNearlyBacked` states the bound that does hold for the deposits, one
  precision-th of all the USDD, however many liquidations there are;
  `CollGainsNearlyBacked` and `DEFTGainsNearlyBacked` allow that much per liquidation.
* "the user withdraws all of their compounded deposit" (StabilityPool.sol:419, :861):
  the withdrawal reverts at line 445 when the front end's stake has been rounded
  below the deposit.
* `assert(newP > 0)` (StabilityPool.sol:682) is a guard of `offset`, not an
  invariant: it fails when the pool is twice reduced to less than a billionth.
* `hasPendingRewards` compares the collateral snapshot only: "A Trove has pending rewards
  if its snapshot is less than the current rewards per-unit-staked sum"
  (TroveManager.sol:1500). A redistribution whose collateral per unit of stake rounds
  to zero raises `L_USDDDebt` alone; an adjustment then changes the stake without applying
  the debt, and the pending debts may exceed the default pool's. With 18 decimals that
  takes a redistribution of less than a billion-billionth of all stakes. It was found
  when the induction step for the default pool's debt failed, and TLC confirms it with a precision of 100 and
  a trove with one unit of collateral. Therefore the collateral half of the
  statement, `CollRewardsCovered`, is proved for every behaviour, and the debt half,
  `DebtRewardsCovered`, for those in which `RewardsSeen` holds, which the run `rewards` checks.
* In Recovery Mode an adjustment that borrows must not lower the trove's ratio
  (`_requireNewICRisAboveOldICR`, BorrowerOperations.sol:766), but both ratios are rounded
  down: a trove may borrow up to a wei per 1.5 USDD of its debt against nothing, and the total
  ratio may lose a unit of its last place. The instance of `rewards` does not reach it.
* chainlinkWorking "is maintained as long as Chainlink is working properly"
  (README.md:381 of the repository), while a broken Tellor changes the status too, as
  the table that follows that sentence has it.

### What the client's models show besides

The properties of `fees`, `front_end`, `providers` and `trove_validation` are worded around
the following behaviours, which a maintainer may want to know of.

* Validation offers four kinds of change that the contracts may refuse (`knownGap`):
  adding collateral or repaying without reaching MCR in Normal Mode; a withdrawal in
  Recovery Mode; borrowing below CCR in Recovery Mode; a closure that brings the total
  ratio below CCR. The transaction then reverts; nothing is lost but its gas.
* In Recovery Mode `borrowingRate` is zero (Fees.ts:116) and the page submits the
  tolerance of 0.5% as the maximum fee (TroveManager.tsx:171). If the system is back in
  Normal Mode when the transaction is mined, the fee is at least the floor of 0.5% plus the
  decayed base rate, and the contract refuses it unless that rate has decayed to zero, without
  any redemption in between. `QuotedFeeAccepted` therefore distinguishes the mode in which a
  quote was made. The other direction is safe: a quote from Normal Mode is
  enough in either mode, and again after a change back.
* The trove editor stays locked (`changePending`) if the store shows an adjustment
  before the wallet's `send` resolves (TroveManager.tsx:191-203).
* A confirmed adjustment dispatches TROVE_CLOSED if the user has meanwhile edited the
  trove into a closure (TroveManager.tsx:196-199): the reason why
  `NetworkNeverHidesTrove` excepts receipts.
* A revert reason that arrives late is not cancelled, because `finished` is already
  set, and replaces the state of another transaction (Transaction.tsx:315-341): the
  reason why `SuccessIsCurrent` speaks of successes. A second transaction sent while
  one waits leaves both unmonitored (:361-366), and its panel may stay locked. The
  clean-up that follows a failure to get a receipt replaces the failure by idle.
* A late fetch sets the store back until the next block. A fetch that resolves after
  the store was stopped schedules its 30 second timer again.
* An edit that is an `invalidCreation` when the trove appears from elsewhere makes
  `apply` throw in the reducer (TroveManager.tsx:130, Trove.ts:616-619).
* `closeWebSocket` clears the reconnection timer only if there is a socket: closed
  between a break and the reconnection, it is reopened. When the application has
  opened another socket meanwhile, the reconnection replaces it while it stays
  attached, and when that one closes it closes the current one.
* `getTransactionReceipt` tests `ready`, a promise, where `call` tests `isReady`.
* `_onBlock` stores whatever block a source announces, and `_retrySeenBlock` ends the retries
  when that differs from the block of the call (WebSocketAugmentedProvider.ts:87, :108). If
  polling takes over from a socket, or a second socket is still attached, and announces an earlier
  block, a call at the last block is rejected although no newer one was announced, and the
  listeners hear of the earlier one. `FreshBlockNotRejected` therefore speaks of *another*
  block: a call at the block announced last is not rejected as long as no announcement differs
  from it.
* A batched call is executed with the Multicall contract as its sender, which a TODO in
  BatchedProvider.ts:120-129 says; the read calls of the protocol do not look at it, and
  the model has no senders.
* An editor that is mounted while a transaction of the trove waits for approval (sent before
  a liquidation took the editor away, for example) starts a change of its own, and is locked.
* A request on its way over a socket that closes is never answered, and with it a
  wait or a call: the exceptions in `ReceiptArrives` and `CallsSettle`.

## 4. Fairness

* `Protocol!FairSpec`: weak fairness of the steps of a loop in flight. The EVM
  runs a transaction it has begun to its end. Nobody is assumed to submit one.
* `PriceFeed!FairSpec`: weak fairness of `fetchPrice`. Every operation that needs
  a price fetches it and anyone may call it. Oracles are under no
  obligation: `FeedRecovers` assumes their agreement in its premise.
* `FrontEnd!FairSpec`: weak fairness of what the browser, the network and the chain
  do: fetches that are not rejected resolve, blocks keep coming and are announced, the
  user answers the wallet, sent transactions are mined and their receipts arrive,
  timers fire. Rejections are inputs, of which there are finitely many. The user need
  not press anything, and others need not act.
* `Providers!FairSpec`: weak fairness of timers that were set (batching, retrying, block
  listeners), of the announcement of the last block and of the handshake of a socket: a source
  that is behind is so only finitely often (late announcements are inputs); strong fairness of
  an answer by a node that is up to date, for each call and for the receipt: a load
  balancer does not for ever choose nodes that lag. Sockets need not stay open, and
  reconnection is not assumed: polling takes over.

## 5. Proofs

TLAPS proves the following for every value of the constants that the assumptions allow:
any finite set of borrowers, stakers or depositors, any prices, rates, amounts and
precisions, any number of transactions, blocks, sockets and fetches. The runs of section 3
check the same definitions on small instances.

| Module | Theorem | States |
|---|---|---|
| `ProtocolProofs` | `LedgerInvariance` | `LedgerInv`; from it `TypeCorrectness`, `SupplyBacked`, `CollateralConserved` |
| | `BooksInvariance` | `BooksInv` |
| | `StakesTotalled`, `TrovesStayWhole` | `StakesAddUp` and `OpenTrovesAreWhole`, parts of `StakesSound` |
| | `LiquidationIsCapped` | `CappedLiquidation` |
| | `BorrowersKeepNormalMode` | the Normal Mode half of `BorrowersKeepSystemSafe` |
| | `RedemptionsTakeFaceValue` | `RedemptionAtFaceValue` but for the order in which troves are redeemed |
| | `DebtsAreCovered` | `DebtRewardsCovered`, where `RewardsSeen` |
| | `StakesAreComputable` | `StakeAlwaysComputable`, where `OpenTrovesShare` |
| | `LoopsDoNotPanic` | `NoPanic`, where `RewardsSeen`, `OpenTrovesShare` and `RedeemedAreSolvent` |
| `SortedTrovesProofs` | `ListInvariance`, `SearchesSucceed`, `OrderKept` | `ListInv`, `SearchSucceeds`, `CallsKeepOrder` |
| | `LinksImplementTheList` | `ImplementsTroveList`, the refinement |
| `StabilityPoolProofs` | `DepositsAreBacked`, `OthersStayUntouched` | `PoolInv` (its type part also as `PoolTypeCorrect`), `OthersUntouched` |
| `PriceFeedProofs` | `FeedInvariance`, `PricesCurrent`, `JumpsConfirmed`, `TrustEarned` | `FeedInv`, `PricesAreCurrent`, `JumpsAreConfirmed`, `TrustIsEarned` |
| `FeesRewardsProofs` | `StakingInvariance`, `StakersArePaid` | `StakingInv`, `StakersPaid` |
| | `DecPowFalls`, `ClientPowerAgrees` | the rounded power falls with its exponent; the client's power is the contracts' |
| | `QuotesAreAccepted` | `QuotesAccepted` (its second part also as `RedemptionQuotesAccepted`) |
| | `RewardsAreBacked`, `ProvidersKeepRewards` | `RewardsInv`, `OthersKeepRewards` |
| | `IssuanceAlwaysPossible` | `IssuanceNeverReverts` |
| `FrontEndProofs` | `StoreInvariance`, `TroveShown`, `SuccessCurrent` | `StoreInv`, `TroveShownRight`, `SuccessIsCurrent` |
| `ProvidersProofs` | `ListeningInvariance`, `AnswersInvariance` | `ListeningInv`, `AnswersRight` |

Every proof of an invariant has one lemma per action, and before these the lemmas on
what the operators of the model compute. Only `FeedInv` and `LedgerInv` are inductive as they
stand; what has to be added to the others is what makes the code work.

**`LedgerInv`.** Types alone are not inductive. Most subtractions are guarded by SafeMath,
but the model, like the contracts, burns USDD and sends WETH that is owned by *all* users
and contracts together, and the totals stay non-negative only because they equal sums of
recorded amounts that were checked. The books alone are not inductive either, because
sums of amounts need amounts to be numbers. A transaction may be rolled back, so what
it would restore has to be balanced as well. Hence

    LedgerInv == TypeOK /\ SupplyMatchesDebt /\ CollateralAccountedFor /\ SavedBalanced

The two action properties of `ProtocolProofs` need `LedgerInv` only: that of
a capped liquidation follows from the branch the code takes and a bound on the
rounded quotient, the other from the fact that the total ratio an operation has checked is
the one it leaves, the fee in the debt and the rewards applied on the way included.

**`AccountsInv`** (`ProtocolProofs`) adds what `BooksInv` lacks. The pending rewards are rounded
down, so that they are covered says too little about the next redistribution: `RewardsHeld`
says that the products of stake and reward per unit, before the division, together
with the error carried to the next redistribution, are at most the default pool's collateral
times the precision. The owners' array and the list have no repetitions, and each owner's
index is its position (`TrovesListed`), without which swap-and-pop would lose one. The totals
of a liquidation split into what is offset, redistributed, compensated and claimed (`Splits`),
nothing is in flight outside a loop (`OnlyInFlight`), and the saved storage has
the same books (`SavedBooks`). **`WholeInv`** adds to `OpenTrovesAreWhole` that the saved
storage has whole troves too.

**No panic.** That no assert and no SafeMath check fails in a loop needs all of these
invariants and three more. `DebtInv` is `RewardsHeld` for the debt. `ComputableInv` adds to the
assert of `_computeNewStake` that a liquidation leaves an open trove, so that the snapshot of
the stakes it takes is not zero. `LoopsTracked` ties what a loop has in memory to the storage:
the deposits and the system's totals that a liquidation tracks are the recorded ones less what
it will take at its end, and a redemption is at an open trove, having redeemed no more than
the redeemer holds. From these every check of an iteration and of the end of a transaction
follows (`StepChecksHold`, `FinishChecksHold`, `RedeemChecksHold`, `RedemptionEndChecksHold`).
Three hypotheses remain, each about every state of the behaviour, because the rounding of the
code does not exclude their failure for all constants: every open trove has a stake
(`OpenTrovesShare`), `hasPendingRewards` sees every pending debt (`RewardsSeen`), and a redemption
comes only to troves worth their debt (`RedeemedAreSolvent`). The last begins at a trove of at
least MCR, and its failure would take a list that is out of order by more than the 10% between
the two. The runs `rewards` and `redemption` check the three as parts of `StakesSound` and
`RedemptionAtFaceValue`.

**`LinksInv`** (`SortedTrovesProofs`) says that a sequence without repetitions represents the
pointers: first and last are head and tail, neighbours point at each other, whoever is
not in it points nowhere, and `size` is its length. The walks of the searches are functions
of the number of steps; they end because a walk along the sequence meets nobody
twice. The refinement maps the pointers to that sequence.

**`FeesInv`** does the same as `AccountsInv` for the stakers: `ClaimsCovered` is about the
claims before the division. **`QuotesInv`** says that the borrowing rate now is at most a quote
made in Normal Mode since the last redemption, and nothing of one made in Recovery Mode, which
is zero; a change of mode alters neither the rate nor the quote. Time lowers the rate because the rounded power falls
(`DecPowFalls`: `_decPow` splits an exponent in half, so a product of two smaller rounded
powers has to be compared with one of two other ones), and a borrowing that restarts the clock
writes the decayed rate. **`IssuanceInv`** says that what is issued is no more than the curve
by now, and that the contract owns what it has not sent. **`UnipoolInv`** states both bounds,
what is owned covers the claims and does not exceed them by more than a loss per operation,
before the division by the precision, with what the rest of the period pays; that rest stays
the same while the pool is empty because the end of the period is then moved.

**`SharesInv`** (`StabilityPoolProofs`) is about the deposits before any rounding. A deposit is a
share of the product `P`, and the shares of all deposits of the current epoch have some
common denominator: the invariant says that one exists with which the shares times `P`, and the
error that the next loss is going to correct, are at most the pool's USDD plus a
precision-th of all USDD. An offset rounds the loss per unit up and carries what that takes
as the new error, so it preserves the bound exactly, and the bound does not grow. A settled
deposit is rounded down to a smaller share; a deposit two scales or an epoch old counts for
nothing. **`SnapshotsInv`** says that a snapshot of a deposit that is not
empty was taken at a product of at least one, at an epoch and scale not in the future, of sums
that have not shrunk since. It needs the square of the scale factor to be at most the
precision (1e9 and 1e18 in the contract, `PoolAssumption`), so that a change of scale cannot
raise the product above the precision.

**`PageInv`** (`FrontEndProofs`) adds to the properties what the page remembers of its start
(`LoadingInv`) and, for every transaction sent, what its monitor may do given the state the
transactions share (`MonitorsInv`). **`ProvidersInv`** adds the shape of sockets, timers and waits
(`ShapesInv`), what a batch in the making, a call under way and a settled call have to
do with each other (`CallsInv`), and that a call whose block is not the one announced
last is settled or has been overtaken (`SeenInv`). Nothing is assumed of the order of announcements.

TLC has checked each of these invariants on the instances of the runs.

**Data.** The provers have no induction over data. `DataTheorems` replaces it by the least
counterexample, which exists because the natural numbers are well-founded. In this way
it proves that the sum of a function over a finite set (`SumFunction`) does not depend
on the order, is monotone, linear, scales and changes with one argument by the change of one
value; that sequences without repetitions stay so when one inserts or removes an element, and
what that does to neighbours and positions; and that a function that is recursive in half its argument satisfies its equation
(`HalvingRecursion`), which is how `squaring`, the loop of `_decPow`, and `shifting`, the loop of
`Decimal.pow`, are unfolded. `PriceFeedProofs` does the same for the powers of ten.

**Assumptions** are named in the modules that declare the constants, and TLC evaluates them
in every run. They say that arguments, rates and amounts are natural numbers of the right
shape, that precisions, prices and minimum debts are positive, that sets of actors are finite
and the null address is nobody, and how the deployed ratios compare (100% < MCR < CCR, the
fee floors at most 100%, the highest borrowing fee with the client's tolerance at most 100%,
oracle decimals at most 18). `RedemptionQuotesAccepted` and `QuotesAreAccepted` have a
hypothesis of their own: that time stays below the cap of the exponent in `_decPow`, a
thousand years, beyond which the client and the contracts do differ.

### Checked by TLC only

* Liveness (`TransactionsEnd`, `FeedRecovers`, `PageSettles`, `BlocksReachStore`,
  `RequestsSettle`), and the `ENABLED` of `TroveValidation`: outside the prover's reach.
* `OpenTrovesShare` and `RewardsSeen`, which rounding breaks for some constants (section 3).
  The rest of `StakesSound`, and `NoPanic`, are proved where they hold.
* The Recovery Mode half of `BorrowersKeepSystemSafe`, which rounding breaks for some
  constants (section 3), and the part of `RedemptionAtFaceValue` on the order of redemptions
  (`RedeemedAreSolvent` and the ratio of at least MCR), which needs the list to
  be sorted by current ratios: redistributions keep it so only up to rounding.
* `GainsNearlyBacked`: its tolerance is stated for the bounds of the run. A gain is a quotient
  of a deposit, a sum and a snapshot of the product; what the correction of the loss
  adds to a later gain is of second order, but it accumulates.
* `DecaySound`, whose tolerance of one unit is the one of the run.

## 6. Not modelled

* The bootstrap period; allowances, permit, ownership and the callers' authorisation;
  WETHGateway, whose address BorrowerOperations never stores: the argument is not
  assigned (BorrowerOperations.sol:143); LockupContract and DEFTToken, which are not in the
  repository.
* HintHelpers and MultiTroveGetter: views; the models take any hint.
* Proxy scripts: sequences of calls, all of them behaviours of the models.
* More than one collateral token: TroveManager and BorrowerOperations know one;
  DEFTStaking and CollSurplusPool keep a list, with accumulators or balances of its own
  for each token.
* In the client: the panels for the stability pool, farming, redemption, liquidation
  and registration, which repeat the patterns of the trove's and the stake's with other
  amounts; lib-ethers' translation of calls, logs and units; the store's refresh
  timer; reverting calls in a batch, which reject the whole batch; confirmations
  beyond the first.
* Deployment scripts run once, in sequence. `mainnetDeploymentHelpers.js` passes the
  arguments of the original contracts (`priceFeed.setAddresses` with two addresses at
  line 244, `deftTokenParams` undefined at line 187), and
  `lib-ethers/utils/deploy.ts` deploys the original contracts.
* Subgraph, fuzzer, examples, gas tests and development chain: indexing and tooling.

## 7. Plan

What is left to prove or to model:

1. In `Protocol`: a condition on the amounts (a smallest trove and a largest total) from which
   the three hypotheses of `LoopsDoNotPanic` follow.
2. In `StabilityPool`: a bound of the gains for any number of liquidations.
3. `WETHGateway` with the callers' authorisation, and the bootstrap period.
