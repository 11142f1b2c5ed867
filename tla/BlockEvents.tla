----------------------------- MODULE BlockEvents -----------------------------
(***************************************************************************)
(* providers/src/WebSocketAugmentedProvider.ts: new blocks are heard of    *)
(* from a web socket while there is one, and by polling otherwise; bursts  *)
(* are merged; a transaction is waited for block by block.                 *)
(*                                                                         *)
(* The sockets, the polling provider and the nodes are external.  Nodes    *)
(* lag: an answer is as of some block that need not be the last, and a     *)
(* block that is announced need not be newer than the one before, which    *)
(* another node may have announced.  A request sent over a socket that has *)
(* closed since is never answered.                                         *)
(***************************************************************************)
EXTENDS Naturals, Sequences

CONSTANTS
    MaxHeight,              \* bound: blocks; the last stands for all later ones
    MaxSockets              \* bound: sockets opened

ASSUME BlockEventsAssumption == MaxHeight \in Nat \ {0} /\ MaxSockets \in Nat

VARIABLES
    height,
    sockets,                \* every socket opened: its state, whether the block
                            \* listener is on it, whether its onClose is set
    wsProvider,             \* the current one, or None
    timers,                 \* reconnections scheduled, named for the socket
    reconnectTimerId,       \* that broke; the one that is remembered
    baseAttached,           \* the block listener is on the base provider
    inEffect,               \* the front end's effect has run, not its clean-up
    blockListeners,         \* who listens: the store, a wait for a transaction
    seenBlock,              \* the block announced last, which need not be the newest
    blockListenerScheduled,
    told,                   \* the block the store was last told of
    minedAt,                \* the block of the transaction, 0 before it is mined
    wait                    \* waitForTransaction: pc, latestBlock, and the socket
                            \* that the request for the receipt went to

socketVars == <<sockets, wsProvider, timers, reconnectTimerId, baseAttached, inEffect>>
listenVars == <<blockListeners, seenBlock, blockListenerScheduled, told>>
chainVars == <<height, minedAt>>
blockVars == <<chainVars, socketVars, listenVars, wait>>

None == 0

BlockEventsInit ==
    /\ height = 1
    /\ sockets = <<>>
    /\ wsProvider = None
    /\ timers = {}
    /\ reconnectTimerId = None
    /\ baseAttached = FALSE
    /\ inEffect = FALSE
    /\ blockListeners = {}
    /\ seenBlock = 0
    /\ blockListenerScheduled = FALSE
    /\ told = 0
    /\ minedAt = 0
    /\ wait = [pc |-> "idle", latestBlock |-> 0, via |-> None]

BlockEventsTypeOK ==
    /\ height \in 1..MaxHeight
    /\ \A i \in DOMAIN sockets :
          sockets[i] \in [state : {"connecting", "open", "closed"},
                          attached : BOOLEAN, watched : BOOLEAN]
    /\ Len(sockets) <= MaxSockets
    /\ wsProvider \in 0..Len(sockets)
    /\ timers \subseteq 1..Len(sockets)
    /\ reconnectTimerId \in 0..Len(sockets)
    /\ baseAttached \in BOOLEAN
    /\ inEffect \in BOOLEAN
    /\ blockListeners \subseteq {"store", "tx"}
    /\ seenBlock \in 0..height
    /\ blockListenerScheduled \in BOOLEAN
    /\ told \in 0..height
    /\ minedAt \in 0..height
    /\ wait.pc \in {"idle", "asking", "listening", "done"}
    /\ wait.latestBlock \in 0..height
    /\ wait.via \in 0..Len(sockets)

-----------------------------------------------------------------------------
(* Where block events come from.                                           *)

attach(socks, i, b) == IF i = None THEN socks ELSE [socks EXCEPT ![i].attached = b]

\* _switchover and _startBlockEvents, with the sockets as just changed.
switchover(socks, ws) ==
    IF blockListeners = {} THEN sockets' = socks /\ UNCHANGED baseAttached
    ELSE /\ sockets' = attach(socks, ws, TRUE)
         /\ baseAttached' = (ws = None)

\* The socket that was the current one is not closed.
openWebSocket ==
    LET ws == Len(sockets) + 1
    IN  /\ Len(sockets) < MaxSockets
        /\ wsProvider' = ws
        /\ switchover(Append(sockets, [state |-> "connecting", attached |-> FALSE,
                                       watched |-> TRUE]), ws)

\* closeWebSocket, with the timers that remain.  Without a socket it does
\* nothing: a reconnection that is scheduled stays scheduled.
closeWebSocket(socks) ==
    IF wsProvider = None
    THEN sockets' = socks /\ UNCHANGED <<wsProvider, baseAttached>>
    ELSE /\ wsProvider' = None
         /\ switchover([socks EXCEPT ![wsProvider].state = "closed",
                                     ![wsProvider].watched = FALSE], None)

timersLeft == IF wsProvider = None THEN timers ELSE timers \ {reconnectTimerId}

\* The front end's effect opens a socket, and its clean-up closes it.
openedByApp ==
    /\ ~inEffect
    /\ inEffect' = TRUE
    /\ openWebSocket
    /\ UNCHANGED <<timers, reconnectTimerId, listenVars, chainVars, wait>>

closedByApp ==
    /\ inEffect
    /\ inEffect' = FALSE
    /\ closeWebSocket(sockets)
    /\ timers' = timersLeft
    /\ reconnectTimerId' = IF wsProvider = None THEN reconnectTimerId ELSE None
    /\ UNCHANGED <<listenVars, chainVars, wait>>

\* A socket breaks or is refused, possibly one that is no longer the current one:
\* whichever it is, the current one is closed.
onWebSocketClose(i) ==
    /\ sockets[i].state # "closed"
    /\ sockets[i].watched
    /\ closeWebSocket([sockets EXCEPT ![i].state = "closed"])
    /\ timers' = timersLeft \union {i}
    /\ reconnectTimerId' = i
    /\ UNCHANGED <<inEffect, listenVars, chainVars, wait>>

reconnect(t) ==
    /\ t \in timers
    /\ timers' = timers \ {t}
    /\ openWebSocket
    /\ UNCHANGED <<reconnectTimerId, inEffect, listenVars, chainVars, wait>>

\* External: the handshake succeeds.
socketOpens(i) ==
    /\ sockets[i].state = "connecting"
    /\ sockets' = [sockets EXCEPT ![i].state = "open"]
    /\ UNCHANGED <<wsProvider, timers, reconnectTimerId, baseAttached, inEffect,
                   listenVars, chainVars, wait>>

-----------------------------------------------------------------------------
(* Who listens to blocks.                                                  *)

\* _addBlockListener and _startBlockEvents.
addBlockListener(l) ==
    /\ blockListeners' = blockListeners \union {l}
    /\ IF blockListeners = {}
       THEN /\ sockets' = attach(sockets, wsProvider, TRUE)
            /\ baseAttached' = (wsProvider = None \/ baseAttached)
       ELSE UNCHANGED <<sockets, baseAttached>>

stopBlockEvents ==
    /\ sockets' = attach(sockets, wsProvider, FALSE)
    /\ baseAttached' = (baseAttached /\ wsProvider # None)

\* Mutant: the events stop although others listen.
removeAndStop(ls) ==
    /\ blockListeners' = blockListeners \ ls
    /\ IF ls # {} THEN stopBlockEvents ELSE UNCHANGED <<sockets, baseAttached>>

\* _removeBlockListener and _stopBlockEvents.
removeBlockListener(ls) ==
    /\ blockListeners' = blockListeners \ ls
    /\ IF blockListeners # {} /\ blockListeners \subseteq ls
       THEN stopBlockEvents ELSE UNCHANGED <<sockets, baseAttached>>

\* The store starts and stops listening.
storeStarts ==
    /\ "store" \notin blockListeners
    /\ addBlockListener("store")
    /\ UNCHANGED <<wsProvider, timers, reconnectTimerId, inEffect, seenBlock,
                   blockListenerScheduled, told, chainVars, wait>>

storeStops ==
    /\ "store" \in blockListeners
    /\ removeBlockListener({"store"})
    /\ UNCHANGED <<wsProvider, timers, reconnectTimerId, inEffect, seenBlock,
                   blockListenerScheduled, told, chainVars, wait>>

\* External: the base provider polls, or an open socket is sent the head of its
\* node.
hearsOfBlocks ==
    \/ baseAttached
    \/ \E i \in DOMAIN sockets : sockets[i].attached /\ sockets[i].state = "open"

\* _onBlock, with any block that exists: nodes lag, sockets that are no longer
\* the current one stay attached, and polling that is resumed announces the
\* blocks it missed.
onBlock(blockNumber) ==
    /\ hearsOfBlocks
    /\ seenBlock' = blockNumber
    /\ blockListenerScheduled' = TRUE
    /\ UNCHANGED <<blockListeners, told, socketVars, chainVars, wait>>

\* The request for the receipt goes to the socket even before it is open.
askReceipt(latest) == [pc |-> "asking", latestBlock |-> latest, via |-> wsProvider]

\* The timer of _onBlock: every listener is told of the block seen last.  One
\* that listens once is told, leaves, and asks for the receipt again.
blockListenersTold ==
    /\ blockListenerScheduled
    /\ blockListenerScheduled' = FALSE
    /\ told' = IF "store" \in blockListeners THEN seenBlock ELSE told
    /\ removeBlockListener(blockListeners \intersect {"tx"})
    /\ wait' = IF "tx" \in blockListeners THEN askReceipt(seenBlock) ELSE wait
    /\ UNCHANGED <<wsProvider, timers, reconnectTimerId, inEffect, seenBlock, chainVars>>

-----------------------------------------------------------------------------
(* waitForTransaction.                                                     *)

answerable(via) == IF via = None THEN TRUE ELSE sockets[via].state = "open"
lost(via) == via # None /\ sockets[via].state = "closed"

waitForTransaction ==
    /\ wait.pc = "idle"
    /\ wait' = askReceipt(0)
    /\ UNCHANGED <<socketVars, listenVars, chainVars>>

\* Mutant: the announced block is not looked into.
settlesUnseen(found, h) == wait.latestBlock = 0 \/ ~found \/ h >= wait.latestBlock

\* What _getTransactionReceiptFromLatest takes for an answer, given whether the
\* node that is at block h has the receipt.  Otherwise it asks again.
settles(found, h) ==
    \/ wait.latestBlock = 0
    \/ ~found /\ minedAt # wait.latestBlock
    \/ found /\ h >= wait.latestBlock

receiptAnswered(h) ==
    LET found == minedAt # 0 /\ minedAt <= h
    IN  /\ wait.pc = "asking"
        /\ answerable(wait.via)
        /\ IF ~settles(found, h)
           THEN wait' = askReceipt(wait.latestBlock) /\ UNCHANGED <<sockets, baseAttached, blockListeners>>
           ELSE IF found
           THEN wait' = [wait EXCEPT !.pc = "done", !.via = None]
                /\ UNCHANGED <<sockets, baseAttached, blockListeners>>
           ELSE wait' = [wait EXCEPT !.pc = "listening", !.via = None] /\ addBlockListener("tx")
        /\ UNCHANGED <<wsProvider, timers, reconnectTimerId, inEffect, seenBlock,
                       blockListenerScheduled, told, chainVars>>

\* External: a block is mined, with or without the transaction.
mineBlock ==
    /\ height < MaxHeight
    /\ height' = height + 1
    /\ minedAt' \in {minedAt, IF minedAt = 0 THEN height + 1 ELSE minedAt}
    /\ UNCHANGED <<socketVars, listenVars, wait>>
=============================================================================
