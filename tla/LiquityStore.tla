----------------------------- MODULE LiquityStore -----------------------------
(***************************************************************************)
(* lib-base/src/LiquityStore.ts and lib-ethers/src/                        *)
(* BlockPolledLiquityStore.ts: the client's copy of the user's state.      *)
(* Every block starts a fetch of all parts of the state at that block.     *)
(* Fetches overlap, resolve in any order, and may be rejected.             *)
(*                                                                         *)
(* A block is what it shows of the user.  A block that shows nothing new   *)
(* is not appended to the chain: its fetch is one more fetch of the last   *)
(* block of the chain.                                                     *)
(***************************************************************************)
EXTENDS Naturals, Sequences

VARIABLES
    chain,                  \* the blocks; the first is the one at the start
    announced,              \* the last block that the provider announced
    fetches,                \* blocks being fetched, Latest for "latest"
    loaded,
    troveAt, surplusAt,     \* the block each part of the base state is from
    blockTag                \* the extra state; Latest if undefined

storeVars == <<announced, fetches, loaded, troveAt, surplusAt, blockTag>>

Latest == 0

Statuses == {"nonExistent", "open", "closedByOwner", "closedByLiquidation", "closedByRedemption"}

Blocks == [status : Statuses, trove : 0..2, surplus : BOOLEAN, stake : 0..1]

height == Len(chain)

trove == [status |-> chain[troveAt].status, amount |-> chain[troveAt].trove]

hasSurplusCollateral == chain[surplusAt].surplus

\* start: the fetch of the latest state, and the listener to blocks.
StoreInit(first) ==
    /\ chain = <<first>>
    /\ announced = 1
    /\ fetches = {Latest}
    /\ loaded = FALSE
    /\ troveAt = 1
    /\ surplusAt = 1
    /\ blockTag = Latest

StoreTypeOK ==
    /\ chain \in Seq(Blocks)
    /\ announced \in 1..height
    /\ fetches \subseteq {Latest} \union (1..height)
    /\ loaded \in BOOLEAN
    /\ troveAt \in 1..height
    /\ surplusAt \in 1..height
    /\ blockTag \in {Latest} \union (1..height)

-----------------------------------------------------------------------------

\* The block listener starts a fetch.  The provider announces blocks in
\* order and may skip some.
blockListener ==
    \E tag \in (announced + 1)..height :
        /\ announced' = tag
        /\ fetches' = fetches \union {tag}
        /\ UNCHANGED <<loaded, troveAt, surplusAt, blockTag>>

\* A block that shows nothing new of the user.  While fetches are under way
\* its own is no different from that of the last block, and it is left out.
quietBlock ==
    /\ announced = height
    /\ fetches = {}
    /\ <<loaded, troveAt, surplusAt, blockTag>> # <<TRUE, height, height, height>>
    /\ fetches' = {height}
    /\ UNCHANGED <<announced, loaded, troveAt, surplusAt, blockTag>>

\* _get is rejected with any of its parts; nobody catches it.
fetchRejected ==
    /\ \E tag \in fetches : fetches' = fetches \ {tag}
    /\ UNCHANGED <<announced, loaded, troveAt, surplusAt, blockTag>>

\* The parts of a tagged fetch are of that block.  Each part of an untagged
\* one is of whichever block was the latest when its call was answered.
PartsOf(tag) ==
    IF tag = Latest THEN (1..height) \X (1..height) ELSE {<<tag, tag>>}

\* _load and _update: the parts and the extra state are replaced at once.
\* An undefined tag does not replace the old one (_reduceExtra).
setState(parts, tag) ==
    /\ troveAt' = parts[1]
    /\ surplusAt' = parts[2]
    /\ blockTag' = IF tag = Latest THEN blockTag ELSE tag
    /\ loaded' = TRUE

\* Mutants: the fetch of the latest state updates a loaded store as well;
\* the block listener leaves loading to that fetch.
appliesAlways(tag) == TRUE

appliesOnlyLoaded(tag) == (tag = Latest) # loaded

\* The fetch of the latest state only loads the store; one of a block loads
\* or updates it.
applies(tag) == tag = Latest => ~loaded

fetchIgnored(tag) ==
    /\ tag \in fetches
    /\ ~applies(tag)
    /\ fetches' = fetches \ {tag}
    /\ UNCHANGED <<announced, loaded, troveAt, surplusAt, blockTag>>

fetchApplied(tag) ==
    /\ tag \in fetches
    /\ applies(tag)
    /\ fetches' = fetches \ {tag}
    /\ \E parts \in PartsOf(tag) : setState(parts, tag)
    /\ UNCHANGED announced
=============================================================================
