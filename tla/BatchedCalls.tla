---------------------------- MODULE BatchedCalls ----------------------------
(***************************************************************************)
(* providers/src/BatchedProvider.ts: read calls made within 10 ms of each  *)
(* other are sent as one call of the Multicall contract; and the retries   *)
(* of WebSocketAugmentedProvider.ts below it: a call at the block that was *)
(* announced last is repeated while the node that it reaches does not have *)
(* that block.                                                             *)
(*                                                                         *)
(* An answer is the pair of the call it belongs to and the block it was    *)
(* computed at.  A call that reverts is not modelled, nor is the sender of *)
(* a call, which is the Multicall contract when it is batched.             *)
(***************************************************************************)
EXTENDS BlockEvents, SequencesExt

CONSTANT MaxCalls           \* bound: read calls made

ASSUME BatchedCallsAssumption == MaxCalls \in Nat

\* Calls are numbered in the order in which they are made.
Calls == 1..MaxCalls

VARIABLES
    asked,                  \* the block tag of a call that was made
    batched,                \* the batch that is open: calls and block tag
    timeoutPending,         \* its timer is set
    requests,               \* sent: calls, tag, the block retried for or None,
                            \* the socket it went over, whether it waits to retry
    outcome,                \* of each call: nothing yet, rejected, or an answer
    overtaken               \* history: the calls for a block that was not, or did
                            \* not remain, the one announced last

callVars == <<asked, batched, timeoutPending, requests, outcome, overtaken>>

Latest == 0
Unasked == MaxHeight + 1
Nothing == <<>>
Rejected == <<"rejected">>
emptyBatch == [calls |-> <<>>, blockTag |-> Latest]

BatchedCallsInit ==
    /\ asked = [c \in Calls |-> Unasked]
    /\ batched = emptyBatch
    /\ timeoutPending = FALSE
    /\ requests = {}
    /\ outcome = [c \in Calls |-> Nothing]
    /\ overtaken = {}

BatchedCallsTypeOK ==
    /\ asked \in [Calls -> 0..Unasked]
    /\ ToSet(batched.calls) \subseteq Calls
    /\ batched.blockTag \in 0..height
    /\ timeoutPending \in BOOLEAN
    /\ \A r \in requests :
          /\ r.calls # <<>> /\ ToSet(r.calls) \subseteq Calls
          /\ r.tag \in 0..height
          /\ r.startingBlock \in {None, r.tag}
          /\ r.via \in 0..Len(sockets)
          /\ r.delayed \in BOOLEAN
    /\ \A c \in Calls : outcome[c] \in {Nothing, Rejected} \union (Calls \X (1..height))
    /\ overtaken \subseteq Calls

-----------------------------------------------------------------------------

\* A block is announced, which overtakes the pending calls for any other.
announced(blockNumber) ==
    /\ onBlock(blockNumber)
    /\ overtaken' = overtaken \union
           {c \in Calls : asked[c] \notin {Unasked, Latest, blockNumber} /\ outcome[c] = Nothing}
    /\ UNCHANGED <<asked, batched, timeoutPending, requests, outcome>>

\* A call goes over the socket only when that is open.
performVia ==
    IF wsProvider # None /\ sockets[wsProvider].state = "open" THEN wsProvider ELSE None

\* Mutant: the block announced last is taken for one that every node has.
startingBlockAfter(tag) == IF tag # Latest /\ tag > seenBlock THEN tag ELSE None

\* Only a call at the block announced last is repeated.
startingBlock(tag) == IF tag # Latest /\ tag = seenBlock THEN tag ELSE None

\* call of WebSocketAugmentedProvider.
superCall(calls, tag) ==
    [calls |-> calls, tag |-> tag, startingBlock |-> startingBlock(tag),
     via |-> performVia, delayed |-> FALSE]

alreadyBatchedCallsConflictWith(tag) == batched.calls # <<>> /\ tag # batched.blockTag

\* Mutant: the timer is set again only for a batch that is empty.
enqueueFirst(c, tag) ==
    /\ batched' = [calls |-> Append(batched.calls, c),
                   blockTag |-> IF batched.calls = <<>> THEN tag ELSE batched.blockTag]
    /\ timeoutPending' = (batched.calls = <<>>)

\* _enqueueCall: the tag of a batch is that of its first call, and the timer
\* starts again with every call.
enqueueCall(c, tag) ==
    /\ batched' = [calls |-> Append(batched.calls, c),
                   blockTag |-> IF batched.calls = <<>> THEN tag ELSE batched.blockTag]
    /\ timeoutPending' = TRUE

\* call of BatchedProvider.  One that is not batchable, because it limits gas
\* or because the chain has no Multicall contract, is sent at once.
call(c, tag, batchable) ==
    /\ \A d \in Calls : asked[d] = Unasked <=> d >= c
    /\ asked' = [asked EXCEPT ![c] = tag]
    /\ overtaken' = overtaken \union {d \in {c} : tag \notin {Latest, seenBlock}}
    /\ IF ~batchable \/ alreadyBatchedCallsConflictWith(tag)
       THEN requests' = requests \union {superCall(<<c>>, tag)} /\ UNCHANGED <<batched, timeoutPending>>
       ELSE enqueueCall(c, tag) /\ UNCHANGED requests
    /\ UNCHANGED <<outcome, blockVars>>

\* _dispatchCalls, up to the await.
dispatchCalls ==
    /\ timeoutPending
    /\ timeoutPending' = FALSE
    /\ requests' = requests \union {superCall(batched.calls, batched.blockTag)}
    /\ batched' = emptyBatch
    /\ UNCHANGED <<asked, outcome, overtaken, blockVars>>

\* The callbacks of _dispatchCalls: each call gets the result at its place, or
\* all are rejected.  A promise keeps the first outcome it is given.
settle(r, results) ==
    outcome' = [c \in Calls |->
                   IF c \in ToSet(r.calls) /\ outcome[c] = Nothing
                   THEN results[CHOOSE i \in DOMAIN r.calls : r.calls[i] = c]
                   ELSE outcome[c]]

\* _retrySeenBlock: a node at block h answers, or has not the header.
callAnswered(r, h) ==
    /\ r \in requests
    /\ ~r.delayed
    /\ answerable(r.via)
    /\ LET block == IF r.tag = Latest THEN h ELSE r.tag
       IN  IF block <= h
           THEN /\ requests' = requests \ {r}
                /\ settle(r, [i \in DOMAIN r.calls |-> <<r.calls[i], block>>])
           ELSE IF r.startingBlock # seenBlock
           THEN /\ requests' = requests \ {r}
                /\ settle(r, [i \in DOMAIN r.calls |-> Rejected])
           ELSE /\ requests' = (requests \ {r}) \union {[r EXCEPT !.delayed = TRUE]}
                /\ UNCHANGED outcome
    /\ UNCHANGED <<asked, batched, timeoutPending, overtaken, blockVars>>

\* The delay of _retrySeenBlock ends: the call is performed again.
retry(r) ==
    /\ r \in requests
    /\ r.delayed
    /\ requests' = (requests \ {r}) \union {[r EXCEPT !.delayed = FALSE, !.via = performVia]}
    /\ UNCHANGED <<asked, batched, timeoutPending, outcome, overtaken, blockVars>>
=============================================================================
