------------------------------ MODULE Providers ------------------------------
(***************************************************************************)
(* The provider the front end uses: batched calls over block events over   *)
(* a web socket or polling (BatchedWebSocketAugmentedWeb3Provider).        *)
(***************************************************************************)
EXTENDS BatchedCalls

CONSTANT MaxInputs          \* bound: what the front end and the network do

ASSUME ProvidersAssumption == MaxInputs \in Nat

VARIABLE inputs

vars == <<blockVars, callVars, inputs>>

Init == BlockEventsInit /\ BatchedCallsInit /\ inputs = 0

\* What the front end asks for again and again, sockets that break, and
\* announcements that are behind.  The store reads at the block it was told of,
\* others at the latest.
Input ==
    /\ inputs < MaxInputs
    /\ inputs' = inputs + 1
    /\ \/ /\ \/ openedByApp \/ closedByApp
             \/ \E i \in DOMAIN sockets : onWebSocketClose(i)
             \/ storeStarts \/ storeStops
          /\ UNCHANGED callVars
       \/ \E c \in Calls, tag \in {Latest, told}, batchable \in BOOLEAN :
             call(c, tag, batchable)
       \/ \E b \in 1..(height - 1) : announced(b)

BlockStep ==
    \/ \E i \in DOMAIN sockets : socketOpens(i) \/ reconnect(i)
    \/ blockListenersTold
    \/ waitForTransaction
    \/ \E h \in 1..height : receiptAnswered(h)
    \/ mineBlock

CallStep ==
    \/ dispatchCalls
    \/ \E r \in requests : retry(r) \/ \E h \in 1..height : callAnswered(r, h)

Next ==
    \/ Input
    \/ BlockStep /\ UNCHANGED <<callVars, inputs>>
    \/ announced(height) /\ UNCHANGED inputs
    \/ CallStep /\ UNCHANGED inputs

Spec == Init /\ [][Next]_vars

(***************************************************************************)
(* Timers go off; the last block is announced, and sources are behind it   *)
(* only finitely often, as each announces later and later blocks; the      *)
(* handshake of a socket that does not break succeeds; a request that can  *)
(* be answered is answered, and not for ever by nodes that are behind.     *)
(***************************************************************************)
Fairness ==
    /\ WF_vars(announced(height) /\ UNCHANGED inputs)
    /\ WF_vars(blockListenersTold /\ UNCHANGED <<callVars, inputs>>)
    /\ WF_vars((\E i \in DOMAIN sockets : socketOpens(i)) /\ UNCHANGED <<callVars, inputs>>)
    /\ SF_vars(receiptAnswered(height) /\ UNCHANGED <<callVars, inputs>>)
    /\ WF_vars(dispatchCalls /\ UNCHANGED inputs)
    /\ WF_vars((\E r \in requests : retry(r)) /\ UNCHANGED inputs)
    /\ \A c \in Calls :
          SF_vars((\E r \in requests : c \in ToSet(r.calls) /\ callAnswered(r, height))
                  /\ UNCHANGED inputs)

FairSpec == Spec /\ Fairness

-----------------------------------------------------------------------------

\* Every variable has its type; a batch that is sent is not empty.
TypeOK == BlockEventsTypeOK /\ BatchedCallsTypeOK /\ inputs \in 0..MaxInputs

\* Whatever the order in which sockets are opened, break and are closed and
\* listeners come and go, block events are taken from the current source while
\* somebody listens, and from no source that is current when nobody does
\* (_switchover, _startBlockEvents, _stopBlockEvents).
AttachedToCurrent ==
    /\ baseAttached = (wsProvider = None /\ blockListeners # {})
    /\ wsProvider # None => sockets[wsProvider].attached = (blockListeners # {})

\* A wait for a transaction that was told of a block does not go on to the next
\* block when the transaction was in the one it was told of
\* (_getTransactionReceiptFromLatest).
MinedBlockNotSkipped ==
    wait.pc = "listening" /\ wait.latestBlock # 0 => minedAt # wait.latestBlock

\* Batched or not, a call gets its own answer, at the block that it asked for
\* (_dispatchCalls, _alreadyBatchedCallsConflictWith).
AnswersMatch ==
    \A c \in Calls : outcome[c] \notin {Nothing, Rejected} =>
        /\ outcome[c][1] = c
        /\ asked[c] # Latest => outcome[c][2] = asked[c]

\* A call is rejected for want of a block only when it was not for the block
\* announced last when it was made, or another was announced before it was
\* settled, be it newer or older: _retrySeenBlock gives up on any other.
FreshBlockNotRejected ==
    \A c \in Calls : outcome[c] = Rejected => c \in overtaken

\* A store that listens is told of every block or a later one, through broken
\* sockets and reconnections.
BlocksReachStore ==
    \A b \in 1..MaxHeight :
        height >= b ~> told >= b \/ "store" \notin blockListeners

\* Once the transaction is mined, a wait for it ends, unless its request went
\* over a socket that has closed.
ReceiptArrives ==
    minedAt # 0 /\ wait.pc # "idle" ~> wait.pc = "done" \/ lost(wait.via)

\* A call is settled, unless its request went over a socket that has closed.
CallsSettle ==
    \A c \in Calls :
        asked[c] # Unasked ~>
            \/ outcome[c] # Nothing
            \/ \E r \in requests : c \in ToSet(r.calls) /\ lost(r.via)

\* Blocks are listened for where they are announced, and none that was
\* announced is skipped by a wait for a transaction.
ListeningInv == TypeOK /\ AttachedToCurrent /\ MinedBlockNotSkipped

\* A call is answered with its own result at the block it asked for, whatever
\* it is batched with, and is not rejected while that block is the last heard
\* of, whatever node it reaches.
AnswersRight == AnswersMatch /\ FreshBlockNotRejected

\* Waits and calls end, those apart whose request was lost with its socket.
RequestsSettle == ReceiptArrives /\ CallsSettle
=============================================================================
