--------------------------- MODULE ProvidersProofs ---------------------------
(***************************************************************************)
(* For any number of blocks, sockets and calls: blocks are listened for    *)
(* where they are announced and none is skipped by a wait (ListeningInv),  *)
(* and a call gets its own answer and is rejected only when another block  *)
(* was announced (AnswersRight).                                           *)
(***************************************************************************)
EXTENDS Providers, TLAPS

SocketSet == [state : {"connecting", "open", "closed"}, attached : BOOLEAN, watched : BOOLEAN]

WaitSet == [pc : {"idle", "asking", "listening", "done"}, latestBlock : Nat, via : Nat]

BatchSet == [calls : Seq(Calls), blockTag : Nat]

RequestSet == [calls : Seq(Calls), tag : Nat, startingBlock : Nat, via : Nat,
               delayed : BOOLEAN]

\* The shapes that the type invariant leaves open.
ShapesInv ==
    /\ sockets \in Seq(SocketSet)
    /\ wait \in WaitSet
    /\ batched \in BatchSet
    /\ requests \subseteq RequestSet
    /\ DOMAIN outcome = Calls

\* Calls are batched only with calls of their tag, and the timer of a batch
\* that has calls is set.
BatchInv ==
    /\ \A c \in ToSet(batched.calls) : asked[c] = batched.blockTag
    /\ timeoutPending => batched.calls # <<>>

\* The calls that have been overtaken or settled.
Past == overtaken \union {c \in Calls : outcome[c] # Nothing}

\* The other calls are for the latest state or the block announced last.
SeenInv == \A c \in Calls : asked[c] \in {Unasked, Latest, seenBlock} \/ c \in Past

\* A request asks for what its calls asked for.  One that is not repeated is
\* for the latest state, or all its calls are past.
RequestOK(r, was, past) ==
    /\ \A c \in ToSet(r.calls) : was[c] = r.tag
    /\ r.startingBlock = None => r.tag = Latest \/ ToSet(r.calls) \subseteq past

\* Calls that were not made have no outcome.
CallsInv ==
    /\ BatchInv
    /\ SeenInv
    /\ \A r \in requests : RequestOK(r, asked, Past)
    /\ \A c \in Calls : asked[c] = Unasked => outcome[c] = Nothing

ProvidersInv ==
    /\ ListeningInv
    /\ AnswersRight
    /\ ShapesInv
    /\ CallsInv

-----------------------------------------------------------------------------
(* Block events *)

\* The sockets, and where block events are taken from.
SockOK ==
    /\ sockets \in Seq(SocketSet) /\ Len(sockets) <= MaxSockets
    /\ wsProvider \in 0..Len(sockets)
    /\ timers \subseteq 1..Len(sockets)
    /\ reconnectTimerId \in 0..Len(sockets)
    /\ baseAttached \in BOOLEAN
    /\ inEffect \in BOOLEAN
    /\ AttachedToCurrent

\* The blocks, who listens to them, and the wait for a transaction.
BlocksOK ==
    /\ height \in 1..MaxHeight
    /\ blockListeners \subseteq {"store", "tx"}
    /\ seenBlock \in 0..height
    /\ blockListenerScheduled \in BOOLEAN
    /\ told \in 0..height
    /\ minedAt \in 0..height
    /\ wait \in WaitSet /\ wait.latestBlock \in 0..height
    /\ MinedBlockNotSkipped

\* The part of the invariant that is about block events.
BlockInv == SockOK /\ BlocksOK /\ wait.via \in 0..Len(sockets)

\* What a step that announces no block may do to what the calls refer to.
Onward == height' >= height /\ seenBlock' = seenBlock /\ Len(sockets') >= Len(sockets)

\* The two parts say the same as the invariant.
LEMMA BlockParts ==
    ShapesInv /\ BlockEventsTypeOK /\ AttachedToCurrent /\ MinedBlockNotSkipped
        <=> ShapesInv /\ BlockInv
<1>1. ASSUME ShapesInv, BlockEventsTypeOK, AttachedToCurrent, MinedBlockNotSkipped
      PROVE  BlockInv
  BY <1>1 DEF ShapesInv, BlockEventsTypeOK, BlockInv, SockOK, BlocksOK
<1>2. ASSUME ShapesInv, BlockInv
      PROVE  BlockEventsTypeOK /\ AttachedToCurrent /\ MinedBlockNotSkipped
  <2>1. \A i \in DOMAIN sockets : sockets[i] \in SocketSet
    BY <1>2 DEF ShapesInv
  <2>2. wait.pc \in {"idle", "asking", "listening", "done"}
    BY <1>2 DEF ShapesInv, WaitSet
  <2> QED BY <1>2, <2>1, <2>2 DEF BlockEventsTypeOK, BlockInv, SockOK, BlocksOK, SocketSet
<1> QED BY <1>1, <1>2

\* The listener is put on one socket or taken off it.
LEMMA AttachOne ==
    ASSUME NEW socks \in Seq(SocketSet), NEW i \in 0..Len(socks), NEW b \in BOOLEAN
    PROVE  /\ attach(socks, i, b) \in Seq(SocketSet)
           /\ Len(attach(socks, i, b)) = Len(socks)
           /\ i # None => attach(socks, i, b)[i].attached = b
<1>1. CASE i = None
  BY <1>1 DEF attach
<1>2. CASE i # None
  <2> DEFINE sock == [socks[i] EXCEPT !.attached = b]
  <2>1. i \in DOMAIN socks /\ socks[i] \in SocketSet
    BY <1>2 DEF None
  <2>2. sock \in SocketSet /\ sock.attached = b
    BY <2>1 DEF SocketSet
  <2>3. attach(socks, i, b) = [socks EXCEPT ![i] = sock]
    BY <1>2 DEF attach
  <2> HIDE DEF sock
  <2> QED BY <2>1, <2>2, <2>3
<1> QED BY <1>1, <1>2

\* The current source of block events is another, or has gone.
LEMMA Switches ==
    ASSUME SockOK, NEW socks \in Seq(SocketSet), NEW ws \in 0..Len(socks),
           switchover(socks, ws), wsProvider' = ws, UNCHANGED blockListeners,
           ws # None => socks[ws].attached = FALSE
    PROVE  /\ sockets' \in Seq(SocketSet) /\ Len(sockets') = Len(socks)
           /\ baseAttached' \in BOOLEAN /\ AttachedToCurrent'
<1>1. CASE blockListeners = {}
  <2>1. sockets' = socks /\ baseAttached' = baseAttached /\ blockListeners' = {}
    BY <1>1 DEF switchover
  <2>2. baseAttached = FALSE
    BY <1>1 DEF SockOK, AttachedToCurrent
  <2> QED BY <2>1, <2>2 DEF AttachedToCurrent, None
<1>2. CASE blockListeners # {}
  <2>1. /\ sockets' = attach(socks, ws, TRUE) /\ baseAttached' = (ws = None)
        /\ blockListeners' # {}
    BY <1>2 DEF switchover
  <2>2. /\ sockets' \in Seq(SocketSet) /\ Len(sockets') = Len(socks)
        /\ ws # None => sockets'[ws].attached = TRUE
    BY <2>1, AttachOne
  <2> QED BY <2>1, <2>2 DEF AttachedToCurrent, None
<1> QED BY <1>1, <1>2

\* A socket is opened.
LEMMA Opens ==
    ASSUME SockOK, openWebSocket, UNCHANGED blockListeners
    PROVE  /\ sockets' \in Seq(SocketSet) /\ Len(sockets') = Len(sockets) + 1
           /\ Len(sockets') <= MaxSockets /\ wsProvider' \in 0..Len(sockets')
           /\ baseAttached' \in BOOLEAN /\ AttachedToCurrent'
<1> DEFINE new == [state |-> "connecting", attached |-> FALSE, watched |-> TRUE]
           ws == Len(sockets) + 1
           socks == Append(sockets, new)
<1>1. sockets \in Seq(SocketSet) /\ new \in SocketSet /\ new.attached = FALSE
  BY DEF SockOK, SocketSet
<1>2. /\ Len(sockets) < MaxSockets /\ wsProvider' = ws
      /\ switchover(socks, ws)
  BY DEF openWebSocket
<1> HIDE DEF new
<1>3. /\ socks \in Seq(SocketSet) /\ Len(socks) = ws /\ ws \in 0..Len(socks)
      /\ socks[ws] = new /\ Len(sockets) \in Nat
  BY <1>1
<1> HIDE DEF ws, socks
<1>4. /\ sockets' \in Seq(SocketSet) /\ Len(sockets') = Len(socks)
      /\ baseAttached' \in BOOLEAN /\ AttachedToCurrent'
  BY <1>1, <1>2, <1>3, Switches
<1>5. MaxSockets \in Nat
  BY BlockEventsAssumption
<1> QED BY <1>2, <1>3, <1>4, <1>5 DEF ws

\* The current socket, if there is one, is closed.
LEMMA Closes ==
    ASSUME SockOK, NEW socks \in Seq(SocketSet), Len(socks) = Len(sockets),
           closeWebSocket(socks), UNCHANGED blockListeners
    PROVE  /\ sockets' \in Seq(SocketSet) /\ Len(sockets') = Len(sockets)
           /\ wsProvider' \in 0..Len(sockets')
           /\ baseAttached' \in BOOLEAN /\ AttachedToCurrent'
<1>1. CASE wsProvider = None
  BY <1>1 DEF closeWebSocket, SockOK, AttachedToCurrent, None
<1>2. CASE wsProvider # None
  <2> DEFINE sock == [socks[wsProvider] EXCEPT !.state = "closed", !.watched = FALSE]
             closed == [socks EXCEPT ![wsProvider] = sock]
  <2>1. wsProvider \in DOMAIN socks /\ socks[wsProvider] \in SocketSet
    BY <1>2 DEF SockOK, None
  <2>2. sock \in SocketSet
    BY <2>1 DEF SocketSet
  <2>3. [socks EXCEPT ![wsProvider].state = "closed", ![wsProvider].watched = FALSE] = closed
    BY <2>1
  <2>4. wsProvider' = None /\ switchover(closed, None)
    BY <1>2, <2>3 DEF closeWebSocket
  <2> HIDE DEF sock
  <2>5. closed \in Seq(SocketSet) /\ Len(closed) = Len(socks) /\ Len(socks) \in Nat
    BY <2>1, <2>2
  <2> HIDE DEF closed
  <2>6. None \in 0..Len(closed)
    BY <2>5 DEF None
  <2>7. /\ sockets' \in Seq(SocketSet) /\ Len(sockets') = Len(closed)
        /\ baseAttached' \in BOOLEAN /\ AttachedToCurrent'
    BY <2>4, <2>5, <2>6, Switches
  <2> QED BY <2>4, <2>5, <2>6, <2>7
<1> QED BY <1>1, <1>2

\* The state of one socket changes.
LEMMA StateOfSocket ==
    ASSUME SockOK, NEW i \in DOMAIN sockets, NEW s \in {"connecting", "open", "closed"}
    PROVE  LET socks == [sockets EXCEPT ![i].state = s]
           IN  /\ socks \in Seq(SocketSet) /\ Len(socks) = Len(sockets)
               /\ \A j \in DOMAIN sockets : socks[j].attached = sockets[j].attached
<1> DEFINE sock == [sockets[i] EXCEPT !.state = s]
           socks == [sockets EXCEPT ![i] = sock]
<1>1. sockets \in Seq(SocketSet) /\ sockets[i] \in SocketSet
  BY DEF SockOK
<1>2. sock \in SocketSet /\ sock.attached = sockets[i].attached
  BY <1>1 DEF SocketSet
<1>3. [sockets EXCEPT ![i].state = s] = socks
  OBVIOUS
<1> HIDE DEF sock
<1>4. /\ socks \in Seq(SocketSet) /\ Len(socks) = Len(sockets)
      /\ \A j \in DOMAIN sockets : socks[j].attached = sockets[j].attached
  BY <1>1, <1>2
<1> QED BY <1>3, <1>4

\* What opens, closes and breaks sockets keeps the block events where they
\* are announced.
LEMMA SocketsKeep ==
    ASSUME BlockInv,
           \/ openedByApp \/ closedByApp
           \/ \E i \in DOMAIN sockets : onWebSocketClose(i) \/ socketOpens(i) \/ reconnect(i)
    PROVE  BlockInv' /\ Onward
<1>1. /\ SockOK /\ BlocksOK /\ wait.via \in 0..Len(sockets) /\ Len(sockets) \in Nat
      /\ MaxSockets \in Nat
  BY BlockEventsAssumption DEF BlockInv, SockOK
<1>2. UNCHANGED <<listenVars, chainVars, wait>>
  BY DEF openedByApp, closedByApp, onWebSocketClose, socketOpens, reconnect
<1>3. BlocksOK' /\ UNCHANGED blockListeners
  BY <1>1, <1>2 DEF BlocksOK, listenVars, chainVars, MinedBlockNotSkipped
<1>4. ASSUME SockOK', Len(sockets') >= Len(sockets)
      PROVE  BlockInv' /\ Onward
  <2>1. height' = height /\ seenBlock' = seenBlock /\ wait' = wait
    BY <1>2 DEF listenVars, chainVars
  <2>2. height \in Nat /\ seenBlock \in Nat /\ Len(sockets') \in Nat
    BY <1>1, <1>4 DEF BlocksOK, SockOK
  <2> QED BY <1>1, <1>3, <1>4, <2>1, <2>2 DEF BlockInv, Onward
<1>5. ASSUME NEW left, left \subseteq timers, openWebSocket, timers' = left,
             UNCHANGED reconnectTimerId, inEffect' \in BOOLEAN
      PROVE  BlockInv' /\ Onward
  <2>1. /\ sockets' \in Seq(SocketSet) /\ Len(sockets') = Len(sockets) + 1
        /\ Len(sockets') <= MaxSockets /\ wsProvider' \in 0..Len(sockets')
        /\ baseAttached' \in BOOLEAN /\ AttachedToCurrent'
    BY <1>1, <1>3, <1>5, Opens
  <2>2. SockOK' /\ Len(sockets') >= Len(sockets)
    BY <1>1, <1>5, <2>1 DEF SockOK
  <2> QED BY <1>4, <2>2
<1>6. ASSUME NEW socks \in Seq(SocketSet), Len(socks) = Len(sockets), closeWebSocket(socks),
             timers' \subseteq 1..Len(sockets), reconnectTimerId' \in 0..Len(sockets),
             inEffect' \in BOOLEAN
      PROVE  BlockInv' /\ Onward
  <2>1. /\ sockets' \in Seq(SocketSet) /\ Len(sockets') = Len(sockets)
        /\ wsProvider' \in 0..Len(sockets')
        /\ baseAttached' \in BOOLEAN /\ AttachedToCurrent'
    BY <1>1, <1>3, <1>6, Closes
  <2>2. SockOK' /\ Len(sockets') >= Len(sockets)
    BY <1>1, <1>6, <2>1 DEF SockOK
  <2> QED BY <1>4, <2>2
<1>7. CASE openedByApp
  BY <1>5, <1>7 DEF openedByApp
<1>8. CASE closedByApp
  <2>1. sockets \in Seq(SocketSet) /\ closeWebSocket(sockets) /\ inEffect' \in BOOLEAN
    BY <1>1, <1>8 DEF closedByApp, SockOK
  <2>2. timers' \subseteq 1..Len(sockets)
    BY <1>1, <1>8 DEF closedByApp, SockOK, timersLeft
  <2>3. reconnectTimerId' \in 0..Len(sockets)
    BY <1>1, <1>8 DEF closedByApp, SockOK, None
  <2> QED BY <1>6, <2>1, <2>2, <2>3
<1>9. ASSUME NEW i \in DOMAIN sockets, onWebSocketClose(i)
      PROVE  BlockInv' /\ Onward
  <2> DEFINE socks == [sockets EXCEPT ![i].state = "closed"]
  <2>1. socks \in Seq(SocketSet) /\ Len(socks) = Len(sockets)
    BY <1>1, StateOfSocket
  <2>2. /\ closeWebSocket(socks)
        /\ timers' \subseteq 1..Len(sockets) /\ reconnectTimerId' \in 0..Len(sockets)
        /\ inEffect' \in BOOLEAN
    BY <1>1, <1>9 DEF onWebSocketClose, SockOK, timersLeft, None
  <2> HIDE DEF socks
  <2> QED BY <1>6, <2>1, <2>2
<1>10. ASSUME NEW i \in DOMAIN sockets, socketOpens(i)
       PROVE  BlockInv' /\ Onward
  <2>1. /\ sockets' \in Seq(SocketSet) /\ Len(sockets') = Len(sockets)
        /\ \A j \in DOMAIN sockets : sockets'[j].attached = sockets[j].attached
    BY <1>1, <1>10, StateOfSocket DEF socketOpens
  <2>2. UNCHANGED <<wsProvider, timers, reconnectTimerId, baseAttached, inEffect>>
    BY <1>10 DEF socketOpens
  <2>3. AttachedToCurrent'
    <3>1. wsProvider # None => wsProvider \in DOMAIN sockets
      BY <1>1 DEF SockOK, None
    <3> QED BY <1>1, <1>3, <2>1, <2>2, <3>1 DEF AttachedToCurrent, SockOK, None
  <2>4. SockOK' /\ Len(sockets') >= Len(sockets)
    BY <1>1, <2>1, <2>2, <2>3 DEF SockOK
  <2> QED BY <1>4, <2>4
<1>11. ASSUME NEW i \in DOMAIN sockets, reconnect(i)
       PROVE  BlockInv' /\ Onward
  <2>1. inEffect' \in BOOLEAN
    BY <1>1, <1>11 DEF reconnect, SockOK
  <2>2. timers \ {i} \subseteq timers
    OBVIOUS
  <2> QED BY <1>5, <1>11, <2>1, <2>2 DEF reconnect
<1> QED BY <1>7, <1>8, <1>9, <1>10, <1>11

\* Somebody begins to listen, or goes on.
LEMMA Adds ==
    ASSUME SockOK, NEW l, addBlockListener(l),
           UNCHANGED <<wsProvider, timers, reconnectTimerId, inEffect>>
    PROVE  SockOK' /\ Len(sockets') = Len(sockets)
<1>1. CASE blockListeners = {}
  <2>1. /\ sockets' = attach(sockets, wsProvider, TRUE) /\ blockListeners' # {}
        /\ baseAttached' = (wsProvider = None \/ baseAttached)
    BY <1>1 DEF addBlockListener
  <2>2. /\ sockets' \in Seq(SocketSet) /\ Len(sockets') = Len(sockets)
        /\ wsProvider # None => sockets'[wsProvider].attached = TRUE
    BY <2>1, AttachOne DEF SockOK
  <2>3. baseAttached = FALSE
    BY <1>1 DEF SockOK, AttachedToCurrent
  <2>4. AttachedToCurrent'
    BY <2>1, <2>2, <2>3 DEF AttachedToCurrent, None
  <2> QED BY <2>1, <2>2, <2>3, <2>4 DEF SockOK
<1>2. CASE blockListeners # {}
  <2>1. UNCHANGED <<sockets, baseAttached>> /\ blockListeners' # {}
    BY <1>2 DEF addBlockListener
  <2>2. AttachedToCurrent'
    BY <1>2, <2>1 DEF SockOK, AttachedToCurrent, None
  <2> QED BY <2>1, <2>2 DEF SockOK
<1> QED BY <1>1, <1>2

\* Some of those who listen leave.
LEMMA Removes ==
    ASSUME SockOK, NEW ls, removeBlockListener(ls),
           UNCHANGED <<wsProvider, timers, reconnectTimerId, inEffect>>
    PROVE  SockOK' /\ Len(sockets') = Len(sockets)
<1>1. CASE blockListeners # {} /\ blockListeners \subseteq ls
  <2>1. /\ sockets' = attach(sockets, wsProvider, FALSE) /\ blockListeners' = {}
        /\ baseAttached' = (baseAttached /\ wsProvider # None)
    BY <1>1 DEF removeBlockListener, stopBlockEvents
  <2>2. /\ sockets' \in Seq(SocketSet) /\ Len(sockets') = Len(sockets)
        /\ wsProvider # None => sockets'[wsProvider].attached = FALSE
    BY <2>1, AttachOne DEF SockOK
  <2>3. baseAttached' = FALSE
    BY <2>1 DEF SockOK, AttachedToCurrent
  <2>4. AttachedToCurrent'
    BY <2>1, <2>2, <2>3 DEF AttachedToCurrent, None
  <2> QED BY <2>1, <2>2, <2>3, <2>4 DEF SockOK
<1>2. CASE ~(blockListeners # {} /\ blockListeners \subseteq ls)
  <2>1. /\ UNCHANGED <<sockets, baseAttached>>
        /\ blockListeners' = {} <=> blockListeners = {}
    BY <1>2 DEF removeBlockListener
  <2>2. AttachedToCurrent'
    BY <2>1 DEF SockOK, AttachedToCurrent, None
  <2> QED BY <2>1, <2>2 DEF SockOK
<1> QED BY <1>1, <1>2

\* Who listens, and what listeners are told.
LEMMA ListenersKeep ==
    ASSUME BlockInv, storeStarts \/ storeStops \/ blockListenersTold
    PROVE  BlockInv' /\ Onward
<1>1. /\ SockOK /\ BlocksOK /\ wait.via \in 0..Len(sockets) /\ Len(sockets) \in Nat
      /\ height \in Nat /\ seenBlock \in Nat /\ wsProvider \in 0..Len(sockets)
  BY DEF BlockInv, SockOK, BlocksOK
<1>2. CASE storeStarts
  <2>1. SockOK' /\ Len(sockets') = Len(sockets)
    BY <1>1, <1>2, Adds DEF storeStarts
  <2>2. BlocksOK' /\ UNCHANGED <<height, seenBlock, wait>>
    BY <1>1, <1>2 DEF storeStarts, BlocksOK, addBlockListener, chainVars, MinedBlockNotSkipped
  <2> QED BY <1>1, <2>1, <2>2 DEF BlockInv, Onward
<1>3. CASE storeStops
  <2>1. SockOK' /\ Len(sockets') = Len(sockets)
    BY <1>1, <1>3, Removes DEF storeStops
  <2>2. BlocksOK' /\ UNCHANGED <<height, seenBlock, wait>>
    BY <1>1, <1>3 DEF storeStops, BlocksOK, removeBlockListener, chainVars, MinedBlockNotSkipped
  <2> QED BY <1>1, <2>1, <2>2 DEF BlockInv, Onward
<1>4. CASE blockListenersTold
  <2>1. /\ UNCHANGED <<wsProvider, timers, reconnectTimerId, inEffect, seenBlock,
                       height, minedAt>>
        /\ removeBlockListener(blockListeners \intersect {"tx"})
        /\ blockListenerScheduled' = FALSE
        /\ told' = IF "store" \in blockListeners THEN seenBlock ELSE told
        /\ wait' = IF "tx" \in blockListeners THEN askReceipt(seenBlock) ELSE wait
    BY <1>4 DEF blockListenersTold, chainVars
  <2>2. SockOK' /\ Len(sockets') = Len(sockets)
    BY <1>1, <2>1, Removes
  <2>3. told' \in 0..height' /\ blockListeners' \subseteq {"store", "tx"}
    BY <1>1, <2>1 DEF BlocksOK, removeBlockListener
  <2>4. /\ wait' \in WaitSet /\ wait'.latestBlock \in 0..height
        /\ wait'.via \in 0..Len(sockets) /\ MinedBlockNotSkipped'
    <3>1. CASE "tx" \in blockListeners
      <4>1. wait' = [pc |-> "asking", latestBlock |-> seenBlock, via |-> wsProvider]
        BY <2>1, <3>1 DEF askReceipt
      <4> QED BY <1>1, <4>1 DEF WaitSet, BlocksOK, MinedBlockNotSkipped
    <3>2. CASE "tx" \notin blockListeners
      BY <1>1, <2>1, <3>2 DEF BlocksOK, MinedBlockNotSkipped
    <3> QED BY <3>1, <3>2
  <2>5. BlocksOK'
    BY <1>1, <2>1, <2>3, <2>4 DEF BlocksOK
  <2> QED BY <1>1, <2>1, <2>2, <2>4, <2>5 DEF BlockInv, Onward
<1> QED BY <1>2, <1>3, <1>4

\* A block is announced, the last one or an older one.
LEMMA OnBlockKeeps ==
    ASSUME BlockInv, NEW b \in 1..height, onBlock(b)
    PROVE  BlockInv' /\ seenBlock' = b /\ height' = height /\ sockets' = sockets
<1>1. SockOK /\ BlocksOK /\ wait.via \in 0..Len(sockets) /\ height \in Nat
  BY DEF BlockInv, BlocksOK
<1>2. /\ UNCHANGED <<blockListeners, told, height, minedAt, wait, sockets, wsProvider,
                     timers, reconnectTimerId, baseAttached, inEffect>>
      /\ seenBlock' = b /\ blockListenerScheduled' = TRUE
  BY DEF onBlock, socketVars, chainVars
<1>3. SockOK'
  BY <1>1, <1>2 DEF SockOK, AttachedToCurrent, None
<1>4. BlocksOK'
  BY <1>1, <1>2 DEF BlocksOK, MinedBlockNotSkipped
<1> QED BY <1>1, <1>2, <1>3, <1>4 DEF BlockInv

\* The wait for a transaction, and the blocks it is mined in: a wait does
\* not go on past the block it was told of.
LEMMA WaitKeeps ==
    ASSUME BlockInv,
           waitForTransaction \/ mineBlock \/ \E h \in 1..height : receiptAnswered(h)
    PROVE  BlockInv' /\ Onward
<1>1. /\ SockOK /\ BlocksOK /\ wait.via \in 0..Len(sockets) /\ Len(sockets) \in Nat
      /\ height \in Nat /\ seenBlock \in Nat /\ wsProvider \in 0..Len(sockets)
      /\ wait \in WaitSet /\ wait.latestBlock \in 0..height /\ MaxHeight \in Nat
  BY BlockEventsAssumption DEF BlockInv, SockOK, BlocksOK
<1>2. ASSUME NEW latest \in 0..height
      PROVE  /\ askReceipt(latest) \in WaitSet
             /\ askReceipt(latest).latestBlock = latest
             /\ askReceipt(latest).via = wsProvider
             /\ askReceipt(latest).pc = "asking"
  BY <1>1 DEF askReceipt, WaitSet
<1>3. CASE waitForTransaction
  <2>1. /\ UNCHANGED <<height, seenBlock, sockets, wsProvider, timers, reconnectTimerId,
                       baseAttached, inEffect, blockListeners, blockListenerScheduled,
                       told, minedAt>>
        /\ wait' = askReceipt(0)
    BY <1>3 DEF waitForTransaction, socketVars, chainVars, listenVars
  <2>2. /\ wait' \in WaitSet /\ wait'.latestBlock = 0 /\ wait'.via = wsProvider
        /\ wait'.pc = "asking"
    BY <1>1, <1>2, <2>1
  <2>3. SockOK'
    BY <1>1, <2>1 DEF SockOK, AttachedToCurrent, None
  <2>4. BlocksOK'
    BY <1>1, <2>1, <2>2 DEF BlocksOK, MinedBlockNotSkipped
  <2> QED BY <1>1, <2>1, <2>2, <2>3, <2>4 DEF BlockInv, Onward
<1>4. CASE mineBlock
  <2>1. /\ UNCHANGED <<seenBlock, sockets, wsProvider, timers, reconnectTimerId,
                       baseAttached, inEffect, blockListeners, blockListenerScheduled,
                       told, wait>>
        /\ height < MaxHeight /\ height' = height + 1
        /\ minedAt' \in {minedAt, height + 1}
    BY <1>4 DEF mineBlock, socketVars, listenVars
  <2>2. SockOK'
    BY <1>1, <2>1 DEF SockOK, AttachedToCurrent, None
  <2>3. MinedBlockNotSkipped'
    BY <1>1, <2>1 DEF BlocksOK, MinedBlockNotSkipped
  <2>4. BlocksOK'
    BY <1>1, <2>1, <2>3 DEF BlocksOK
  <2> QED BY <1>1, <2>1, <2>2, <2>4 DEF BlockInv, Onward
<1>5. ASSUME NEW h \in 1..height, receiptAnswered(h)
      PROVE  BlockInv' /\ Onward
  <2> DEFINE found == minedAt # 0 /\ minedAt <= h
  <2>1. /\ UNCHANGED <<wsProvider, timers, reconnectTimerId, inEffect, seenBlock,
                       blockListenerScheduled, told, height, minedAt>>
        /\ \/ /\ wait' = askReceipt(wait.latestBlock)
              /\ UNCHANGED <<sockets, baseAttached, blockListeners>>
           \/ /\ wait' = [wait EXCEPT !.pc = "done", !.via = None]
              /\ UNCHANGED <<sockets, baseAttached, blockListeners>>
           \/ /\ settles(found, h) /\ ~found
              /\ wait' = [wait EXCEPT !.pc = "listening", !.via = None]
              /\ addBlockListener("tx")
    BY <1>5 DEF receiptAnswered, chainVars
  <2> HIDE DEF found
  <2>2. CASE /\ wait' = askReceipt(wait.latestBlock)
             /\ UNCHANGED <<sockets, baseAttached, blockListeners>>
    <3>1. /\ wait' \in WaitSet /\ wait'.latestBlock = wait.latestBlock
          /\ wait'.via = wsProvider /\ wait'.pc = "asking"
      BY <1>1, <1>2, <2>2
    <3>2. SockOK'
      BY <1>1, <2>1, <2>2 DEF SockOK, AttachedToCurrent, None
    <3>3. BlocksOK'
      BY <1>1, <2>1, <2>2, <3>1 DEF BlocksOK, MinedBlockNotSkipped
    <3> QED BY <1>1, <2>1, <2>2, <3>1, <3>2, <3>3 DEF BlockInv, Onward
  <2>3. CASE /\ wait' = [wait EXCEPT !.pc = "done", !.via = None]
             /\ UNCHANGED <<sockets, baseAttached, blockListeners>>
    <3>1. /\ wait' \in WaitSet /\ wait'.latestBlock = wait.latestBlock
          /\ wait'.via = 0 /\ wait'.pc = "done"
      BY <1>1, <2>3 DEF WaitSet, None
    <3>2. SockOK'
      BY <1>1, <2>1, <2>3 DEF SockOK, AttachedToCurrent, None
    <3>3. BlocksOK'
      BY <1>1, <2>1, <2>3, <3>1 DEF BlocksOK, MinedBlockNotSkipped
    <3> QED BY <1>1, <2>1, <2>3, <3>1, <3>2, <3>3 DEF BlockInv, Onward
  <2>4. CASE /\ settles(found, h) /\ ~found
             /\ wait' = [wait EXCEPT !.pc = "listening", !.via = None]
             /\ addBlockListener("tx")
    <3>1. /\ wait' \in WaitSet /\ wait'.latestBlock = wait.latestBlock
          /\ wait'.via = 0
      BY <1>1, <2>4 DEF WaitSet, None
    <3>2. SockOK' /\ Len(sockets') = Len(sockets)
      BY <1>1, <2>1, <2>4, Adds
    <3>3. MinedBlockNotSkipped'
      BY <2>1, <2>4, <3>1 DEF settles, MinedBlockNotSkipped
    <3>4. blockListeners' \subseteq {"store", "tx"}
      BY <1>1, <2>4 DEF BlocksOK, addBlockListener
    <3>5. BlocksOK'
      BY <1>1, <2>1, <3>1, <3>3, <3>4 DEF BlocksOK
    <3> QED BY <1>1, <2>1, <3>1, <3>2, <3>5 DEF BlockInv, Onward
  <2> QED BY <2>1, <2>2, <2>3, <2>4
<1> QED BY <1>3, <1>4, <1>5

-----------------------------------------------------------------------------
(* Calls *)

\* The batch that is open.
BatchOK ==
    /\ batched \in BatchSet
    /\ timeoutPending \in BOOLEAN
    /\ batched.blockTag \in 0..height
    /\ BatchInv

\* A request, given the tags asked for, the calls that are past, the height
\* and the number of sockets.
FullRequest(r, was, past, h, n) ==
    /\ r \in RequestSet
    /\ r.calls # <<>>
    /\ r.tag \in 0..h
    /\ r.startingBlock \in {None, r.tag}
    /\ r.via \in 0..n
    /\ RequestOK(r, was, past)

RequestsOK == \A r \in requests : FullRequest(r, asked, Past, height, Len(sockets))

\* The outcome o of a call c that asked for the block a.
OutcomeOK(o, c, a, over, h) ==
    /\ o \in {Nothing, Rejected} \union (Calls \X (1..h))
    /\ o \notin {Nothing, Rejected} => o[1] = c /\ (a # Latest => o[2] = a)
    /\ o = Rejected => c \in over
    /\ a = Unasked => o = Nothing

OutcomesOK ==
    /\ asked \in [Calls -> 0..Unasked]
    /\ DOMAIN outcome = Calls
    /\ \A c \in Calls : OutcomeOK(outcome[c], c, asked[c], overtaken, height)

\* The calls that were overtaken.
SeenOK == overtaken \subseteq Calls /\ SeenInv

\* The part of the invariant that is about calls.
CallInv == BatchOK /\ RequestsOK /\ OutcomesOK /\ SeenOK

\* The elements of a sequence of calls are calls.
LEMMA ElementsOf ==
    ASSUME NEW s \in Seq(Calls)
    PROVE  /\ ToSet(s) \subseteq Calls
           /\ \A c \in Calls : ToSet(Append(s, c)) = ToSet(s) \union {c}
<1>1. ToSet(s) \subseteq Calls
  BY DEF ToSet
<1>2. ASSUME NEW c \in Calls
      PROVE  ToSet(Append(s, c)) = ToSet(s) \union {c}
  <2> DEFINE t == Append(s, c)
  <2>1. /\ DOMAIN t = 1..(Len(s) + 1) /\ DOMAIN s = 1..Len(s) /\ Len(s) \in Nat
        /\ \A i \in 1..Len(s) : t[i] = s[i]
        /\ t[Len(s) + 1] = c
    OBVIOUS
  <2> HIDE DEF t
  <2>2. ASSUME NEW x \in ToSet(t) PROVE x \in ToSet(s) \union {c}
    <3>1. PICK i \in DOMAIN t : x = t[i]
      BY DEF ToSet
    <3>2. CASE i = Len(s) + 1
      BY <2>1, <3>1, <3>2
    <3>3. CASE i # Len(s) + 1
      <4>1. i \in DOMAIN s /\ s[i] = x
        BY <2>1, <3>1, <3>3
      <4> QED BY <4>1 DEF ToSet
    <3> QED BY <3>2, <3>3
  <2>3. ASSUME NEW x \in ToSet(s) PROVE x \in ToSet(t)
    <3>1. PICK i \in DOMAIN s : x = s[i]
      BY DEF ToSet
    <3>2. i \in DOMAIN t /\ t[i] = x
      BY <2>1, <3>1
    <3> QED BY <3>2 DEF ToSet
  <2>4. c \in ToSet(t)
    <3>1. Len(s) + 1 \in DOMAIN t
      BY <2>1
    <3> QED BY <2>1, <3>1 DEF ToSet
  <2>5. ToSet(t) = ToSet(s) \union {c}
    BY <2>2, <2>3, <2>4
  <2> QED BY <2>5 DEF t
<1> QED BY <1>1, <1>2

\* The parts say the same as the invariant.
LEMMA CallParts ==
    CallInv <=>
        /\ BatchedCallsTypeOK /\ CallsInv /\ AnswersRight
        /\ batched \in BatchSet /\ requests \subseteq RequestSet /\ DOMAIN outcome = Calls
<1>1. ASSUME BatchedCallsTypeOK, CallsInv, AnswersRight,
             batched \in BatchSet, requests \subseteq RequestSet, DOMAIN outcome = Calls
      PROVE  CallInv
  <2>1. BatchOK
    BY <1>1 DEF BatchOK, BatchedCallsTypeOK, CallsInv
  <2>2. RequestsOK
    BY <1>1 DEF RequestsOK, FullRequest, BatchedCallsTypeOK, CallsInv
  <2>3. OutcomesOK
    BY <1>1 DEF OutcomesOK, OutcomeOK, BatchedCallsTypeOK, CallsInv, AnswersRight,
       AnswersMatch, FreshBlockNotRejected
  <2>4. SeenOK
    BY <1>1 DEF SeenOK, BatchedCallsTypeOK, CallsInv
  <2> QED BY <2>1, <2>2, <2>3, <2>4 DEF CallInv
<1>2. ASSUME CallInv
      PROVE  /\ BatchedCallsTypeOK /\ CallsInv /\ AnswersRight
             /\ batched \in BatchSet /\ requests \subseteq RequestSet
             /\ DOMAIN outcome = Calls
  <2>1. /\ batched \in BatchSet /\ requests \subseteq RequestSet
        /\ DOMAIN outcome = Calls
    BY <1>2 DEF CallInv, BatchOK, RequestsOK, FullRequest, OutcomesOK
  <2>2. batched.calls \in Seq(Calls) /\ \A r \in requests : r.calls \in Seq(Calls)
    BY <2>1 DEF BatchSet, RequestSet
  <2>3. ToSet(batched.calls) \subseteq Calls
        /\ \A r \in requests : ToSet(r.calls) \subseteq Calls
    BY <2>2, ElementsOf
  <2>4. \A r \in requests : r.delayed \in BOOLEAN
    BY <2>1 DEF RequestSet
  <2>5. BatchedCallsTypeOK
    BY <1>2, <2>3, <2>4 DEF CallInv, BatchOK, RequestsOK, FullRequest, OutcomesOK,
       OutcomeOK, SeenOK, BatchedCallsTypeOK
  <2>6. CallsInv
    BY <1>2 DEF CallInv, BatchOK, RequestsOK, FullRequest, OutcomesOK, OutcomeOK, SeenOK,
       CallsInv
  <2>7. AnswersRight
    BY <1>2 DEF CallInv, OutcomesOK, OutcomeOK, AnswersRight, AnswersMatch,
       FreshBlockNotRejected
  <2> QED BY <2>1, <2>5, <2>6, <2>7
<1> QED BY <1>1, <1>2

\* What was true of calls stays true when blocks are mined and sockets are
\* opened, and when more calls are past.
LEMMA CallsKept ==
    ASSUME CallInv, BlockInv, BlockInv',
           height' >= height, Len(sockets') >= Len(sockets),
           UNCHANGED <<asked, batched, timeoutPending, requests, outcome>>,
           overtaken \subseteq overtaken', SeenOK'
    PROVE  CallInv'
<1>1. /\ height \in Nat /\ height' \in Nat /\ height' >= height
      /\ Len(sockets) \in Nat /\ Len(sockets') \in Nat /\ Len(sockets') >= Len(sockets)
      /\ MaxHeight \in Nat
  BY BlockEventsAssumption DEF BlockInv, BlocksOK, SockOK
<1>2. BatchOK'
  BY <1>1 DEF CallInv, BatchOK, BatchInv
<1>3. Past \subseteq Past'
  BY DEF Past
<1>4. RequestsOK'
  <2> DEFINE past == Past'
  <2> HIDE DEF past
  <2>1. Past \subseteq past
    BY <1>3 DEF past
  <2>2. ASSUME NEW r \in requests
        PROVE  FullRequest(r, asked, past, height', Len(sockets'))
    <3>1. FullRequest(r, asked, Past, height, Len(sockets))
      BY DEF CallInv, RequestsOK
    <3> QED BY <1>1, <2>1, <3>1 DEF FullRequest, RequestOK
  <2> QED BY <2>2 DEF RequestsOK, past
<1>5. OutcomesOK'
  <2>1. ASSUME NEW c \in Calls
        PROVE  OutcomeOK(outcome[c], c, asked[c], overtaken', height')
    <3>1. OutcomeOK(outcome[c], c, asked[c], overtaken, height)
      BY DEF CallInv, OutcomesOK
    <3>2. Calls \X (1..height) \subseteq Calls \X (1..height')
      BY <1>1
    <3> QED BY <1>1, <3>1, <3>2 DEF OutcomeOK
  <2> QED BY <2>1 DEF CallInv, OutcomesOK, Unasked
<1> QED BY <1>2, <1>4, <1>5 DEF CallInv

\* A block is announced: the pending calls for another are overtaken.
LEMMA AnnouncedKeeps ==
    ASSUME CallInv, BlockInv, NEW b \in 1..height, announced(b)
    PROVE  CallInv' /\ BlockInv'
<1>1. BlockInv' /\ seenBlock' = b /\ height' = height /\ sockets' = sockets
  BY OnBlockKeeps DEF announced
<1>2. /\ UNCHANGED <<asked, batched, timeoutPending, requests, outcome>>
      /\ overtaken' = overtaken \union
             {c \in Calls : asked[c] \notin {Unasked, Latest, b} /\ outcome[c] = Nothing}
  BY DEF announced
<1>3. SeenOK'
  <2>1. overtaken' \subseteq Calls
    BY <1>2 DEF CallInv, SeenOK
  <2>2. ASSUME NEW c \in Calls
        PROVE  asked[c] \in {Unasked, Latest, b} \/ c \in Past'
    BY <1>2 DEF Past
  <2> QED BY <1>1, <1>2, <2>1, <2>2 DEF SeenOK, SeenInv
<1>4. /\ height \in Nat /\ Len(sockets) \in Nat
  BY DEF BlockInv, BlocksOK, SockOK
<1>5. height' >= height /\ Len(sockets') >= Len(sockets) /\ overtaken \subseteq overtaken'
  BY <1>1, <1>2, <1>4
<1> QED BY <1>1, <1>2, <1>3, <1>5, CallsKept

\* A call that is sent now: if it is not to be repeated, it is for the latest
\* state or not for the block announced last.
LEMMA NewRequest ==
    ASSUME BlockInv, NEW calls \in Seq(Calls), calls # <<>>, NEW tag \in 0..height,
           NEW was, NEW past, \A c \in ToSet(calls) : was[c] = tag,
           tag \in {Latest, seenBlock} \/ ToSet(calls) \subseteq past
    PROVE  FullRequest(superCall(calls, tag), was, past, height, Len(sockets))
<1> DEFINE r == superCall(calls, tag)
<1>1. /\ seenBlock \in Nat /\ height \in Nat /\ seenBlock <= height
      /\ Len(sockets) \in Nat /\ wsProvider \in 0..Len(sockets)
  BY DEF BlockInv, BlocksOK, SockOK
<1>2. /\ startingBlock(tag) \in {None, tag} /\ startingBlock(tag) \in Nat
      /\ startingBlock(tag) = None => tag = Latest \/ tag # seenBlock
  BY <1>1 DEF startingBlock, None, Latest
<1>3. performVia \in 0..Len(sockets)
  BY <1>1 DEF performVia, None
<1>4. /\ r.calls = calls /\ r.tag = tag /\ r.startingBlock = startingBlock(tag)
      /\ r.via = performVia /\ r \in RequestSet
  BY <1>1, <1>2, <1>3 DEF superCall, RequestSet
<1> HIDE DEF r
<1>5. FullRequest(r, was, past, height, Len(sockets))
  BY <1>1, <1>2, <1>3, <1>4 DEF FullRequest, RequestOK
<1> QED BY <1>5 DEF r

\* A call is made: it joins the batch that is open, if that has its tag.
LEMMA CallKeeps ==
    ASSUME CallInv, BlockInv, NEW c \in Calls, NEW tag \in 0..height,
           NEW batchable \in BOOLEAN, call(c, tag, batchable)
    PROVE  CallInv'
<1>1. /\ height \in Nat /\ seenBlock \in Nat /\ seenBlock <= height
      /\ height <= MaxHeight /\ MaxHeight \in Nat
  BY BlockEventsAssumption DEF BlockInv, BlocksOK
<1>2. /\ height' = height /\ seenBlock' = seenBlock /\ sockets' = sockets
      /\ asked[c] = Unasked <=> c >= c
      /\ asked' = [asked EXCEPT ![c] = tag]
      /\ outcome' = outcome
      /\ overtaken' = overtaken \union {d \in {c} : tag \notin {Latest, seenBlock}}
  BY DEF call, blockVars, chainVars, listenVars, socketVars
<1>3. c >= c
  BY DEF Calls
<1>4. /\ asked[c] = Unasked
      /\ asked \in [Calls -> 0..Unasked] /\ asked' \in [Calls -> 0..Unasked]
  BY <1>1, <1>2, <1>3 DEF CallInv, OutcomesOK, Unasked
<1>5. asked'[c] = tag /\ \A d \in Calls : asked[d] # Unasked => asked'[d] = asked[d]
  BY <1>2, <1>4
<1>6. /\ overtaken \subseteq overtaken' /\ Past \subseteq Past'
      /\ tag \in {Latest, seenBlock} \/ c \in Past'
  BY <1>2 DEF Past
<1>7. SeenOK'
  <2>1. overtaken' \subseteq Calls
    BY <1>2 DEF CallInv, SeenOK
  <2>2. ASSUME NEW d \in Calls
        PROVE  asked'[d] \in {Unasked, Latest, seenBlock} \/ d \in Past'
    <3>1. asked[d] \in {Unasked, Latest, seenBlock} \/ d \in Past
      BY DEF CallInv, SeenOK, SeenInv
    <3>2. CASE d = c
      BY <1>5, <1>6, <3>2
    <3>3. CASE d # c
      <4>1. asked'[d] = asked[d]
        BY <1>2, <1>4, <3>3
      <4> QED BY <1>6, <3>1, <4>1
    <3> QED BY <3>2, <3>3
  <2> QED BY <1>2, <2>1, <2>2 DEF SeenOK, SeenInv
<1>8. OutcomesOK'
  <2>1. ASSUME NEW d \in Calls
        PROVE  OutcomeOK(outcome[d], d, asked'[d], overtaken', height)
    <3>1. OutcomeOK(outcome[d], d, asked[d], overtaken, height)
      BY DEF CallInv, OutcomesOK
    <3>2. CASE d = c
      <4>1. outcome[d] = Nothing
        BY <1>2, <1>4, <3>1, <3>2 DEF OutcomeOK
      <4>2. Nothing # Rejected
        BY DEF Nothing, Rejected
      <4> QED BY <4>1, <4>2 DEF OutcomeOK
    <3>3. CASE d # c
      <4>1. asked'[d] = asked[d]
        BY <1>2, <1>4, <3>3
      <4> QED BY <1>6, <3>1, <4>1 DEF OutcomeOK
    <3> QED BY <3>2, <3>3
  <2> QED BY <1>2, <1>4, <2>1 DEF CallInv, OutcomesOK
<1>9. ASSUME NEW r \in requests
      PROVE  FullRequest(r, asked', Past', height, Len(sockets))
  <2>1. FullRequest(r, asked, Past, height, Len(sockets))
    BY DEF CallInv, RequestsOK
  <2>2. ToSet(r.calls) \subseteq Calls
    BY <2>1, ElementsOf DEF FullRequest, RequestSet
  <2>3. ASSUME NEW d \in ToSet(r.calls)
        PROVE  asked'[d] = r.tag
    <3>1. asked[d] = r.tag /\ r.tag \in 0..height
      BY <2>1 DEF FullRequest, RequestOK
    <3> QED BY <1>1, <1>5, <2>2, <3>1 DEF Unasked
  <2> DEFINE was == asked'
             past == Past'
  <2>4. Past \subseteq past /\ \A d \in ToSet(r.calls) : was[d] = r.tag
    BY <1>6, <2>3
  <2> HIDE DEF was, past
  <2>5. FullRequest(r, was, past, height, Len(sockets))
    BY <2>1, <2>4 DEF FullRequest, RequestOK
  <2> QED BY <2>5 DEF was, past
<1>10. /\ batched \in BatchSet /\ batched.calls \in Seq(Calls)
      /\ batched.blockTag \in 0..height
      /\ ToSet(batched.calls) \subseteq Calls
  BY ElementsOf DEF CallInv, BatchOK, BatchInv, BatchSet
<1>11. ASSUME NEW d \in ToSet(batched.calls)
      PROVE  asked'[d] = batched.blockTag
  <2>1. asked[d] = batched.blockTag
    BY DEF CallInv, BatchOK, BatchInv
  <2> QED BY <1>1, <1>5, <1>10, <2>1 DEF Unasked
<1>12. CASE ~batchable \/ alreadyBatchedCallsConflictWith(tag)
  <2>1. /\ requests' = requests \union {superCall(<<c>>, tag)}
        /\ UNCHANGED <<batched, timeoutPending>>
    BY <1>12 DEF call
  <2>2. FullRequest(superCall(<<c>>, tag), asked', Past', height, Len(sockets))
    <3> DEFINE calls == <<c>>
               was == asked'
               past == Past'
    <3>1. calls \in Seq(Calls) /\ calls # <<>> /\ ToSet(calls) = {c}
      BY DEF ToSet
    <3>2. /\ \A d \in ToSet(calls) : was[d] = tag
          /\ tag \in {Latest, seenBlock} \/ ToSet(calls) \subseteq past
      BY <1>5, <1>6, <3>1
    <3> HIDE DEF calls, was, past
    <3>3. FullRequest(superCall(calls, tag), was, past, height, Len(sockets))
      BY <3>1, <3>2, NewRequest
    <3> QED BY <3>3 DEF calls, was, past
  <2>3. RequestsOK'
    BY <1>2, <1>9, <2>1, <2>2 DEF RequestsOK
  <2>4. BatchOK'
    BY <1>2, <1>11, <2>1 DEF CallInv, BatchOK, BatchInv
  <2> QED BY <1>7, <1>8, <2>3, <2>4 DEF CallInv
<1>13. CASE batchable /\ ~alreadyBatchedCallsConflictWith(tag)
  <2> DEFINE blockTagNow == IF batched.calls = <<>> THEN tag ELSE batched.blockTag
  <2>1. /\ batched' = [calls |-> Append(batched.calls, c), blockTag |-> blockTagNow]
        /\ timeoutPending' = TRUE /\ requests' = requests
    BY <1>13 DEF call, enqueueCall
  <2>2. blockTagNow = tag
    BY <1>13 DEF alreadyBatchedCallsConflictWith
  <2> HIDE DEF blockTagNow
  <2>3. /\ batched'.calls = Append(batched.calls, c) /\ batched'.blockTag = tag
        /\ batched' \in BatchSet
    BY <1>1, <1>10, <2>1, <2>2 DEF BatchSet
  <2>4. ToSet(batched'.calls) = ToSet(batched.calls) \union {c}
    BY <1>10, <2>3, ElementsOf
  <2>5. batched.calls # <<>> => batched.blockTag = tag
    BY <1>13 DEF alreadyBatchedCallsConflictWith
  <2>6. batched.calls = <<>> => ToSet(batched.calls) = {}
    BY DEF ToSet
  <2>7. \A d \in ToSet(batched'.calls) : asked'[d] = batched'.blockTag
    BY <1>5, <1>11, <2>3, <2>4, <2>5, <2>6
  <2>8. batched'.calls # <<>>
    BY <1>10, <2>3
  <2>9. BatchOK'
    BY <1>1, <1>2, <2>1, <2>3, <2>7, <2>8 DEF BatchOK, BatchInv
  <2>10. RequestsOK'
    BY <1>2, <1>9, <2>1 DEF RequestsOK
  <2> QED BY <1>7, <1>8, <2>9, <2>10 DEF CallInv
<1> QED BY <1>12, <1>13

\* The batch is sent, or a call is repeated.
LEMMA SentKeeps ==
    ASSUME CallInv, BlockInv, dispatchCalls \/ \E r \in requests : retry(r)
    PROVE  CallInv'
<1>1. /\ height' = height /\ seenBlock' = seenBlock /\ sockets' = sockets
      /\ asked' = asked /\ outcome' = outcome /\ overtaken' = overtaken
  BY DEF dispatchCalls, retry, blockVars, chainVars, listenVars, socketVars
<1>2. /\ height \in Nat /\ seenBlock \in Nat /\ seenBlock <= height
      /\ Len(sockets) \in Nat /\ wsProvider \in 0..Len(sockets)
  BY DEF BlockInv, BlocksOK, SockOK
<1>3. OutcomesOK' /\ SeenOK' /\ Past' = Past
  BY <1>1 DEF CallInv, OutcomesOK, SeenOK, SeenInv, Past
<1>4. ASSUME NEW r \in requests
      PROVE  FullRequest(r, asked, Past, height, Len(sockets))
  BY DEF CallInv, RequestsOK
<1>5. CASE dispatchCalls
  <2>1. /\ requests' = requests \union {superCall(batched.calls, batched.blockTag)}
        /\ timeoutPending /\ timeoutPending' = FALSE /\ batched' = emptyBatch
    BY <1>5 DEF dispatchCalls
  <2> DEFINE calls == batched.calls
             tag == batched.blockTag
  <2>2. /\ calls \in Seq(Calls) /\ calls # <<>> /\ tag \in 0..height
        /\ \A c \in ToSet(calls) : asked[c] = tag
    BY <1>2, <2>1 DEF CallInv, BatchOK, BatchInv, BatchSet
  <2> HIDE DEF calls, tag
  <2>3. tag \in {Latest, seenBlock} \/ ToSet(calls) \subseteq Past
    <3>1. ToSet(calls) \subseteq Calls /\ tag # Unasked
      BY <2>2, <1>2, ElementsOf, BlockEventsAssumption DEF Unasked, BlockInv, BlocksOK
    <3> QED BY <2>2, <3>1 DEF CallInv, SeenOK, SeenInv
  <2>4. FullRequest(superCall(calls, tag), asked, Past, height, Len(sockets))
    BY <2>2, <2>3, NewRequest
  <2>5. RequestsOK'
    BY <1>1, <1>3, <1>4, <2>1, <2>4 DEF RequestsOK, calls, tag
  <2>6. /\ batched'.calls = <<>> /\ batched'.blockTag = 0 /\ batched' \in BatchSet
    BY <2>1 DEF emptyBatch, BatchSet, Latest
  <2>7. ToSet(batched'.calls) = {}
    BY <2>6 DEF ToSet
  <2>8. BatchOK'
    <3>1. timeoutPending' \in BOOLEAN /\ ~timeoutPending'
      BY <2>1
    <3>2. batched'.blockTag \in 0..height'
      BY <1>1, <1>2, <2>6
    <3> QED BY <2>6, <2>7, <3>1, <3>2 DEF BatchOK, BatchInv
  <2> QED BY <1>3, <2>5, <2>8 DEF CallInv
<1>6. ASSUME NEW r \in requests, retry(r)
      PROVE  CallInv'
  <2> DEFINE s == [r EXCEPT !.delayed = FALSE, !.via = performVia]
  <2>1. /\ requests' = (requests \ {r}) \union {s}
        /\ UNCHANGED <<batched, timeoutPending>>
    BY <1>6 DEF retry
  <2>2. FullRequest(r, asked, Past, height, Len(sockets))
    BY <1>4
  <2>3. performVia \in 0..Len(sockets)
    BY <1>2 DEF performVia, None
  <2>4. /\ s \in RequestSet /\ s.calls = r.calls /\ s.tag = r.tag
        /\ s.startingBlock = r.startingBlock /\ s.via = performVia
    <3>1. performVia \in Nat /\ r \in RequestSet
      BY <1>2, <2>2, <2>3 DEF FullRequest
    <3> DEFINE via == performVia
               mid == [r EXCEPT !.delayed = FALSE]
    <3> HIDE DEF via
    <3>2. /\ mid \in RequestSet /\ mid.calls = r.calls /\ mid.tag = r.tag
          /\ mid.startingBlock = r.startingBlock
      BY <3>1 DEF RequestSet
    <3>3. s = [mid EXCEPT !.via = via]
      BY DEF via
    <3> HIDE DEF mid, s
    <3>4. /\ s \in RequestSet /\ s.calls = mid.calls /\ s.tag = mid.tag
          /\ s.startingBlock = mid.startingBlock /\ s.via = via
      BY <3>1, <3>2, <3>3 DEF RequestSet, via
    <3> QED BY <3>2, <3>4 DEF via
  <2> HIDE DEF s
  <2>5. FullRequest(s, asked, Past, height, Len(sockets))
    BY <2>2, <2>3, <2>4 DEF FullRequest, RequestOK
  <2>6. RequestsOK'
    BY <1>1, <1>3, <1>4, <2>1, <2>5 DEF RequestsOK
  <2>7. BatchOK'
    BY <1>1, <2>1 DEF CallInv, BatchOK, BatchInv
  <2> QED BY <1>3, <2>6, <2>7 DEF CallInv
<1> QED BY <1>5, <1>6

\* A node answers, or does not have the block: each call of the request gets
\* its own result, and none is rejected that was not overtaken.
LEMMA AnswerKeeps ==
    ASSUME CallInv, BlockInv, NEW r \in requests, NEW h \in 1..height, callAnswered(r, h)
    PROVE  CallInv'
<1>1. /\ height' = height /\ seenBlock' = seenBlock /\ sockets' = sockets
      /\ asked' = asked /\ batched' = batched /\ timeoutPending' = timeoutPending
      /\ overtaken' = overtaken
  BY DEF callAnswered, blockVars, chainVars, listenVars, socketVars
<1>2. /\ height \in Nat /\ seenBlock \in Nat /\ seenBlock <= height
      /\ height <= MaxHeight /\ MaxHeight \in Nat
  BY BlockEventsAssumption DEF BlockInv, BlocksOK
<1>3. BatchOK'
  BY <1>1 DEF CallInv, BatchOK, BatchInv
<1>4. ASSUME NEW s \in requests
      PROVE  FullRequest(s, asked, Past, height, Len(sockets))
  BY DEF CallInv, RequestsOK
<1>5. /\ r \in RequestSet /\ r.tag \in 0..height /\ r.startingBlock \in {None, r.tag}
      /\ RequestOK(r, asked, Past) /\ r.calls \in Seq(Calls)
  BY <1>4 DEF FullRequest, RequestSet
<1> DEFINE block == IF r.tag = Latest THEN h ELSE r.tag
<1>6. ASSUME NEW results, requests' = requests \ {r}, settle(r, results),
             \A i \in DOMAIN r.calls : outcome[r.calls[i]] = Nothing =>
                 OutcomeOK(results[i], r.calls[i], r.tag, overtaken, height)
      PROVE  CallInv'
  <2>1. /\ DOMAIN outcome' = Calls
        /\ \A c \in Calls : outcome[c] # Nothing => outcome'[c] = outcome[c]
    BY <1>6 DEF settle
  <2>2. Past \subseteq Past'
    BY <1>1, <2>1 DEF Past
  <2>3. SeenOK'
    BY <1>1, <2>2 DEF CallInv, SeenOK, SeenInv
  <2>4. RequestsOK'
    <3> DEFINE past == Past'
    <3> HIDE DEF past
    <3>1. ASSUME NEW s \in requests
          PROVE  FullRequest(s, asked, past, height, Len(sockets))
      <4>1. FullRequest(s, asked, Past, height, Len(sockets)) /\ Past \subseteq past
        BY <1>4, <2>2 DEF past
      <4> QED BY <4>1 DEF FullRequest, RequestOK
    <3> QED BY <1>1, <1>6, <3>1 DEF RequestsOK, past
  <2>5. ASSUME NEW c \in Calls
        PROVE  OutcomeOK(outcome'[c], c, asked[c], overtaken, height)
    <3>1. CASE c \in ToSet(r.calls) /\ outcome[c] = Nothing
      <4> DEFINE i == CHOOSE i \in DOMAIN r.calls : r.calls[i] = c
      <4>1. i \in DOMAIN r.calls /\ r.calls[i] = c
        BY <3>1 DEF ToSet
      <4>2. outcome'[c] = results[i]
        BY <1>6, <3>1 DEF settle
      <4>3. asked[c] = r.tag
        BY <1>5, <3>1 DEF RequestOK
      <4> HIDE DEF i
      <4> QED BY <1>6, <3>1, <4>1, <4>2, <4>3
    <3>2. CASE ~(c \in ToSet(r.calls) /\ outcome[c] = Nothing)
      <4>1. outcome'[c] = outcome[c]
        BY <1>6, <3>2 DEF settle
      <4> QED BY <4>1 DEF CallInv, OutcomesOK
    <3> QED BY <3>1, <3>2
  <2>6. OutcomesOK'
    BY <1>1, <2>1, <2>5 DEF CallInv, OutcomesOK
  <2> QED BY <1>3, <2>4, <2>6, <2>3 DEF CallInv
<1>7. Unasked # r.tag
  BY <1>2, <1>5 DEF Unasked
<1>8. CASE block <= h
  <2> DEFINE results == [i \in DOMAIN r.calls |-> <<r.calls[i], block>>]
  <2>1. requests' = requests \ {r} /\ settle(r, results)
    BY <1>8 DEF callAnswered
  <2>2. block \in 1..height /\ (r.tag # Latest => block = r.tag)
    BY <1>2, <1>5, <1>8 DEF Latest
  <2> HIDE DEF block
  <2>3. ASSUME NEW i \in DOMAIN r.calls
        PROVE  OutcomeOK(results[i], r.calls[i], r.tag, overtaken, height)
    <3> DEFINE c == r.calls[i]
               o == <<c, block>>
    <3>1. c \in Calls /\ results[i] = o
      BY <1>5
    <3> HIDE DEF c, results
    <3>2. o \in Calls \X (1..height) /\ o[1] = c /\ o[2] = block /\ o # Rejected
      BY <2>2, <3>1 DEF Rejected
    <3> HIDE DEF o
    <3>3. OutcomeOK(o, c, r.tag, overtaken, height)
      BY <1>7, <2>2, <3>2 DEF OutcomeOK
    <3> QED BY <3>1, <3>3 DEF c
  <2> HIDE DEF results
  <2> QED BY <1>6, <2>1, <2>3
<1>9. CASE ~(block <= h) /\ r.startingBlock # seenBlock
  <2> DEFINE results == [i \in DOMAIN r.calls |-> Rejected]
  <2>1. requests' = requests \ {r} /\ settle(r, results)
    BY <1>9 DEF callAnswered
  <2>2. r.tag # Latest
    BY <1>2, <1>9
  <2>3. ToSet(r.calls) \subseteq Past
    <3>1. CASE r.startingBlock = None
      BY <1>5, <2>2, <3>1 DEF RequestOK
    <3>2. CASE r.startingBlock # None
      <4>1. r.tag \notin {Unasked, Latest, seenBlock} /\ ToSet(r.calls) \subseteq Calls
        BY <1>5, <1>7, <1>9, <2>2, <3>2, ElementsOf
      <4> QED BY <1>5, <4>1 DEF RequestOK, CallInv, SeenOK, SeenInv
    <3> QED BY <3>1, <3>2
  <2>4. ASSUME NEW i \in DOMAIN r.calls, outcome[r.calls[i]] = Nothing
        PROVE  OutcomeOK(results[i], r.calls[i], r.tag, overtaken, height)
    <3>1. results[i] = Rejected
      OBVIOUS
    <3>2. r.calls[i] \in overtaken
      BY <2>3, <2>4 DEF Past, ToSet
    <3> HIDE DEF results
    <3> QED BY <1>7, <3>1, <3>2 DEF OutcomeOK
  <2> HIDE DEF results
  <2> QED BY <1>6, <2>1, <2>4
<1>10. CASE ~(block <= h) /\ r.startingBlock = seenBlock
  <2> DEFINE s == [r EXCEPT !.delayed = TRUE]
  <2>1. requests' = (requests \ {r}) \union {s} /\ outcome' = outcome
    BY <1>10 DEF callAnswered
  <2>2. /\ s \in RequestSet /\ s.calls = r.calls /\ s.tag = r.tag
        /\ s.startingBlock = r.startingBlock /\ s.via = r.via
    BY <1>5 DEF RequestSet
  <2> HIDE DEF s
  <2>3. FullRequest(s, asked, Past, height, Len(sockets))
    BY <1>4, <2>2 DEF FullRequest, RequestOK
  <2>4. RequestsOK'
    <3>1. Past' = Past
      BY <1>1, <2>1 DEF Past
    <3> QED BY <1>1, <1>4, <2>1, <2>3, <3>1 DEF RequestsOK
  <2>5. OutcomesOK' /\ SeenOK'
    BY <1>1, <2>1 DEF CallInv, OutcomesOK, SeenOK, SeenInv, Past
  <2> QED BY <1>3, <2>4, <2>5 DEF CallInv
<1> QED BY <1>8, <1>9, <1>10

-----------------------------------------------------------------------------
(* The provider *)

\* The invariant by its parts.
LEMMA ProvidersParts == ProvidersInv <=> BlockInv /\ CallInv /\ inputs \in 0..MaxInputs
<1>1. ASSUME ProvidersInv PROVE BlockInv /\ CallInv /\ inputs \in 0..MaxInputs
  <2>1. /\ ShapesInv /\ BlockEventsTypeOK /\ AttachedToCurrent /\ MinedBlockNotSkipped
        /\ BatchedCallsTypeOK /\ CallsInv /\ AnswersRight
    BY <1>1 DEF ProvidersInv, ListeningInv, TypeOK
  <2>2. BlockInv
    BY <2>1, BlockParts
  <2>3. CallInv
    BY <2>1, CallParts DEF ShapesInv
  <2> QED BY <1>1, <2>2, <2>3 DEF ProvidersInv, ListeningInv, TypeOK
<1>2. ASSUME BlockInv, CallInv, inputs \in 0..MaxInputs PROVE ProvidersInv
  <2>1. /\ BatchedCallsTypeOK /\ CallsInv /\ AnswersRight
        /\ batched \in BatchSet /\ requests \subseteq RequestSet /\ DOMAIN outcome = Calls
    BY <1>2, CallParts
  <2>2. ShapesInv
    BY <1>2, <2>1 DEF ShapesInv, BlockInv, SockOK, BlocksOK
  <2>3. BlockEventsTypeOK /\ AttachedToCurrent /\ MinedBlockNotSkipped
    BY <1>2, <2>2, BlockParts
  <2> QED BY <1>2, <2>1, <2>2, <2>3 DEF ProvidersInv, ListeningInv, TypeOK
<1> QED BY <1>1, <1>2

\* Every step of the provider keeps the invariant.
LEMMA NextProviders ==
    ASSUME ProvidersInv, [Next]_vars
    PROVE  ProvidersInv'
<1>1. /\ BlockInv /\ CallInv /\ inputs \in 0..MaxInputs /\ MaxInputs \in Nat
      /\ height \in Nat /\ told \in 0..height
  BY ProvidersParts, ProvidersAssumption DEF BlockInv, BlocksOK
<1>2. ASSUME BlockInv', Onward, UNCHANGED callVars, inputs' \in 0..MaxInputs
      PROVE  ProvidersInv'
  <2>1. /\ UNCHANGED <<asked, batched, timeoutPending, requests, outcome, overtaken>>
        /\ seenBlock' = seenBlock
    BY <1>2 DEF callVars, Onward
  <2>2. SeenOK'
    BY <1>1, <2>1 DEF CallInv, SeenOK, SeenInv, Past
  <2>3. CallInv'
    BY <1>1, <1>2, <2>1, <2>2, CallsKept DEF Onward
  <2>4. (ProvidersInv <=> BlockInv /\ CallInv /\ inputs \in 0..MaxInputs)'
    BY ProvidersParts, PTL
  <2> QED BY <1>2, <2>3, <2>4
<1>3. ASSUME CallInv', UNCHANGED blockVars, inputs' \in 0..MaxInputs
      PROVE  ProvidersInv'
  <2>1. BlockInv'
    BY <1>1, <1>3 DEF BlockInv, SockOK, BlocksOK, blockVars, chainVars, socketVars,
       listenVars, AttachedToCurrent, MinedBlockNotSkipped, None
  <2>2. (ProvidersInv <=> BlockInv /\ CallInv /\ inputs \in 0..MaxInputs)'
    BY ProvidersParts, PTL
  <2> QED BY <1>3, <2>1, <2>2
<1>4. ASSUME NEW b \in 1..height, announced(b), inputs' \in 0..MaxInputs
      PROVE  ProvidersInv'
  <2>1. CallInv' /\ BlockInv'
    BY <1>1, <1>4, AnnouncedKeeps
  <2>2. (ProvidersInv <=> BlockInv /\ CallInv /\ inputs \in 0..MaxInputs)'
    BY ProvidersParts, PTL
  <2> QED BY <1>4, <2>1, <2>2
<1>5. CASE Input
  <2>1. inputs' \in 0..MaxInputs
    BY <1>1, <1>5 DEF Input
  <2>2. CASE /\ \/ openedByApp \/ closedByApp
                \/ \E i \in DOMAIN sockets : onWebSocketClose(i)
             /\ UNCHANGED callVars
    BY <1>1, <1>2, <2>1, <2>2, SocketsKeep
  <2>3. CASE (storeStarts \/ storeStops) /\ UNCHANGED callVars
    BY <1>1, <1>2, <2>1, <2>3, ListenersKeep
  <2>4. ASSUME NEW c \in Calls, NEW tag \in {Latest, told}, NEW batchable \in BOOLEAN,
               call(c, tag, batchable)
        PROVE  ProvidersInv'
    <3>1. tag \in 0..height
      BY <1>1 DEF Latest
    <3>2. CallInv'
      BY <1>1, <2>4, <3>1, CallKeeps
    <3>3. UNCHANGED blockVars
      BY <2>4 DEF call
    <3> QED BY <1>3, <2>1, <3>2, <3>3
  <2>5. ASSUME NEW b \in 1..(height - 1), announced(b)
        PROVE  ProvidersInv'
    <3>1. b \in 1..height
      BY <1>1
    <3> QED BY <1>4, <2>1, <2>5, <3>1
  <2> QED BY <1>5, <2>2, <2>3, <2>4, <2>5 DEF Input
<1>6. CASE BlockStep /\ UNCHANGED <<callVars, inputs>>
  <2>1. BlockInv' /\ Onward
    BY <1>1, <1>6, SocketsKeep, ListenersKeep, WaitKeeps DEF BlockStep
  <2> QED BY <1>1, <1>2, <1>6, <2>1
<1>7. CASE CallStep /\ UNCHANGED inputs
  <2>1. CallInv'
    BY <1>1, <1>7, SentKeeps, AnswerKeeps DEF CallStep
  <2>2. UNCHANGED blockVars
    BY <1>7 DEF CallStep, dispatchCalls, retry, callAnswered
  <2> QED BY <1>1, <1>3, <1>7, <2>1, <2>2
<1>8. CASE announced(height) /\ UNCHANGED inputs
  <2>1. height \in 1..height
    BY <1>1 DEF BlockInv, BlocksOK
  <2> QED BY <1>1, <1>4, <1>8, <2>1
<1>9. CASE UNCHANGED vars
  <2>1. UNCHANGED blockVars /\ inputs' = inputs
    BY <1>9 DEF vars
  <2>2. /\ asked' = asked /\ batched' = batched /\ timeoutPending' = timeoutPending
        /\ requests' = requests /\ outcome' = outcome /\ overtaken' = overtaken
        /\ height' = height /\ seenBlock' = seenBlock /\ sockets' = sockets
    BY <1>9 DEF vars, callVars, blockVars, chainVars, socketVars, listenVars
  <2>3. CallInv'
    BY <1>1, <2>2 DEF CallInv, BatchOK, BatchInv, RequestsOK, OutcomesOK, SeenOK, SeenInv,
       Past
  <2> QED BY <1>1, <1>3, <2>1, <2>3
<1> QED BY <1>5, <1>6, <1>7, <1>9, <1>8 DEF Next

\* The provider before anything is asked of it.
LEMMA InitProviders == Init => ProvidersInv
<1> SUFFICES ASSUME Init PROVE ProvidersInv
  OBVIOUS
<1>1. MaxHeight \in Nat /\ MaxHeight >= 1 /\ MaxSockets \in Nat /\ MaxInputs \in Nat
  BY BlockEventsAssumption, ProvidersAssumption
<1>2. sockets \in Seq(SocketSet) /\ Len(sockets) = 0
  BY DEF Init, BlockEventsInit
<1>3. SockOK
  <2>1. /\ wsProvider = 0 /\ timers = {} /\ reconnectTimerId = 0 /\ blockListeners = {}
    BY DEF Init, BlockEventsInit, None
  <2>2. baseAttached = FALSE /\ baseAttached \in BOOLEAN /\ inEffect \in BOOLEAN
    BY DEF Init, BlockEventsInit
  <2>3. AttachedToCurrent
    BY <2>1, <2>2 DEF AttachedToCurrent, None
  <2> QED BY <1>1, <1>2, <2>1, <2>2, <2>3 DEF SockOK
<1>4. wait \in WaitSet /\ wait.pc = "idle" /\ wait.latestBlock = 0 /\ wait.via = 0
  BY DEF Init, BlockEventsInit, WaitSet, None
<1>5. BlocksOK
  <2>1. height = 1 /\ blockListeners = {} /\ seenBlock = 0 /\ told = 0 /\ minedAt = 0
    BY DEF Init, BlockEventsInit
  <2>2. blockListenerScheduled \in BOOLEAN
    BY DEF Init, BlockEventsInit
  <2> QED BY <1>1, <1>4, <2>1, <2>2 DEF BlocksOK, MinedBlockNotSkipped
<1>6. BlockInv
  BY <1>2, <1>3, <1>4, <1>5 DEF BlockInv
<1>7. BatchOK
  <2>1. batched \in BatchSet /\ batched.calls = <<>> /\ batched.blockTag = 0
    BY DEF Init, BatchedCallsInit, emptyBatch, BatchSet, Latest
  <2>2. ToSet(batched.calls) = {}
    BY <2>1 DEF ToSet
  <2>3. timeoutPending \in BOOLEAN /\ ~timeoutPending
    BY DEF Init, BatchedCallsInit
  <2>4. height = 1 /\ seenBlock = 0
    BY DEF Init, BlockEventsInit
  <2> QED BY <2>1, <2>2, <2>3, <2>4 DEF BatchOK, BatchInv
<1>8. RequestsOK
  BY DEF Init, BatchedCallsInit, RequestsOK
<1>9. OutcomesOK
  <2>1. Nothing # Rejected
    BY DEF Nothing, Rejected
  <2> QED BY <1>1, <2>1 DEF Init, BatchedCallsInit, OutcomesOK, OutcomeOK, Unasked
<1>10. SeenOK
  BY DEF Init, BatchedCallsInit, SeenOK, SeenInv
<1> QED BY <1>1, <1>6, <1>7, <1>8, <1>9, <1>10, ProvidersParts DEF CallInv, Init

\* The inductive invariant of the provider.
THEOREM ProvidersInvariance == Spec => []ProvidersInv
<1>1. ProvidersInv /\ [Next]_vars => ProvidersInv'
  BY NextProviders
<1> QED BY InitProviders, <1>1, PTL DEF Spec

\* Whatever the order in which sockets are opened, break and are closed and
\* listeners come and go, block events are taken from the current source
\* while somebody listens, and a wait for a transaction does not skip the
\* block it was told of.
THEOREM ListeningInvariance == Spec => []ListeningInv
<1>1. ProvidersInv => ListeningInv
  BY DEF ProvidersInv
<1> QED BY ProvidersInvariance, <1>1, PTL

\* Batched or not, repeated or not, a call gets its own answer at the block
\* it asked for, and is rejected for want of that block only when it was not
\* the last announced, or another, newer or older, was announced meanwhile.
THEOREM AnswersInvariance == Spec => []AnswersRight
<1>1. ProvidersInv => AnswersRight
  BY DEF ProvidersInv
<1> QED BY ProvidersInvariance, <1>1, PTL
=============================================================================
