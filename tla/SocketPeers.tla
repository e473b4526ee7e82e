----------------------------- MODULE SocketPeers -----------------------------
(***************************************************************************)
(* The datagram socket of the game in the browser: SOCKFS of               *)
(* public/ioquake3.js.                                                     *)
(*                                                                         *)
(* A browser has no UDP.  The socket keeps a websocket for every address   *)
(* it sent to (peers, keyed by address), makes one when there is none or   *)
(* when the one there is ends, queues datagrams until it is open, and      *)
(* collects what comes in (recv_queue).  Every websocket is a session of   *)
(* the proxy (module Proxy), which gives it a UDP port of its own: to the  *)
(* game server, a second websocket is a second client.                     *)
(*                                                                         *)
(* JavaScript runs one task at a time, so a call of the game and an event  *)
(* of a websocket is a step each.  The state of a websocket changes in the *)
(* task that fires its events, except that the other end's close frame     *)
(* makes it CLOSING with no event: between the two a send makes a new      *)
(* peer, under the same key, that the close event then removes.            *)
(***************************************************************************)
EXTENDS Naturals, Sequences, Functions

CONSTANTS
    Addr,           \* the addresses the game sends to
    MaxPeers,       \* bound on the websockets that are made
    MaxSends,       \* bound on the datagrams the game sends
    MaxReplies      \* bound on the datagrams the servers send

ASSUME SocketPeersAssumption ==
    /\ MaxPeers \in Nat /\ MaxSends \in Nat /\ MaxReplies \in Nat

VARIABLES
    fd,             \* the game's socket: "new", "bound" or "closed"
    peers,          \* the peer of an address, None if there is none
    addr,           \* the addresses of the peers made so far
    readyState,     \* the state of its websocket, "none" before it is made
    sendQueue,      \* dgram_send_queue: what waits for the websocket to open
    wire,           \* what the websocket took and the proxy did not read yet
    heard,          \* what the proxy has read
    sends,          \* number of datagrams sent by the game
    replies,        \* number of datagrams sent by the servers
    inbox,          \* those on their way to the websocket
    recvQueue,      \* recv_queue: those the game has not read yet
    received        \* those it has read, by address


sendVars == <<sendQueue, wire, heard, sends>>
recvVars == <<replies, inbox, recvQueue, received>>
vars == <<fd, peers, addr, readyState, sendVars, recvVars>>

Peer == 1..MaxPeers
None == 0
\* The first message of a websocket, which names the port the socket is bound
\* to; the proxy drops it.  The datagrams are numbered from 1.
PortMessage == 0
Message == 0..MaxSends
Reply == 1..MaxReplies

made == Len(addr)
Made == 1..made

Live(p) == readyState[p] \in {"connecting", "open"}
Registered(p) == peers[addr[p]] = p

TypeOK ==
    /\ fd \in {"new", "bound", "closed"}
    /\ addr \in Seq(Addr) /\ made <= MaxPeers
    /\ peers \in [Addr -> 0..made]
    /\ readyState \in [Peer -> {"none", "connecting", "open", "closing", "closed"}]
    /\ sendQueue \in [Peer -> Seq(Message)]
    /\ wire \in [Peer -> Seq(Message)]
    /\ heard \in [Peer -> Seq(Message)]
    /\ sends \in 0..MaxSends
    /\ replies \in 0..MaxReplies
    /\ inbox \in [Peer -> Seq(Reply)]
    /\ recvQueue \in Seq([from : Addr, reply : Reply])
    /\ received \in [Addr -> SUBSET Reply]

Init ==
    /\ fd = "new"
    /\ peers = [a \in Addr |-> None]
    /\ addr = <<>>
    /\ readyState = [p \in Peer |-> "none"]
    /\ sendQueue = [p \in Peer |-> <<>>]
    /\ wire = [p \in Peer |-> <<>>]
    /\ heard = [p \in Peer |-> <<>>]
    /\ sends = 0 /\ replies = 0
    /\ inbox = [p \in Peer |-> <<>>]
    /\ recvQueue = <<>>
    /\ received = [a \in Addr |-> {}]

-----------------------------------------------------------------------------
(* The game's calls *)

\* bind: a browser cannot listen, so that only the port is kept.  The game
\* binds its socket before it uses it.
Bind ==
    /\ fd = "new"
    /\ fd' = "bound"
    /\ UNCHANGED <<peers, addr, readyState, sendVars, recvVars>>

\* Variant: A peer is replaced unless its websocket is open.
NeedsPeer_UnlessOpen(a) == peers[a] = None \/ readyState[peers[a]] # "open"

\* The peer the message is sent with: the one of the address, unless it ends.
NeedsPeer(a) ==
    peers[a] = None \/ readyState[peers[a]] \in {"closing", "closed"}

\* Variant: The port message is not queued before the first datagram.
CreatePeer_PortLast(a, message) ==
    LET p == made + 1 IN
    /\ p \in Peer
    /\ addr' = Append(addr, a)
    /\ peers' = [peers EXCEPT ![a] = p]
    /\ readyState' = [readyState EXCEPT ![p] = "connecting"]
    /\ sendQueue' = [sendQueue EXCEPT ![p] = <<message, PortMessage>>]
    /\ UNCHANGED wire

\* createPeer: connect, register, and queue the port message before the first.
CreatePeer(a, message) ==
    LET p == made + 1 IN
    /\ p \in Peer
    /\ addr' = Append(addr, a)
    /\ peers' = [peers EXCEPT ![a] = p]
    /\ readyState' = [readyState EXCEPT ![p] = "connecting"]
    /\ sendQueue' = [sendQueue EXCEPT ![p] = <<PortMessage, message>>]
    /\ UNCHANGED wire

\* The peer is there: the websocket takes the message, or it waits.
SendToPeer(p, message) ==
    /\ IF readyState[p] = "open"
       THEN /\ wire' = [wire EXCEPT ![p] = Append(@, message)]
            /\ UNCHANGED sendQueue
       ELSE /\ sendQueue' = [sendQueue EXCEPT ![p] = Append(@, message)]
            /\ UNCHANGED wire
    /\ UNCHANGED <<addr, peers, readyState>>

\* sendmsg
Send(a) ==
    /\ fd = "bound" /\ sends < MaxSends
    /\ sends' = sends + 1
    /\ IF NeedsPeer(a) THEN CreatePeer(a, sends') ELSE SendToPeer(peers[a], sends')
    /\ UNCHANGED <<fd, heard, recvVars>>

\* recvmsg
Receive ==
    /\ fd = "bound" /\ recvQueue # <<>>
    /\ LET m == Head(recvQueue) IN
       received' = [received EXCEPT ![m.from] = @ \cup {m.reply}]
    /\ recvQueue' = Tail(recvQueue)
    /\ UNCHANGED <<fd, peers, addr, readyState, sendVars, replies, inbox>>

\* close: ends the websockets of the registered peers, and forgets these.
Close ==
    /\ fd = "bound"
    /\ fd' = "closed"
    /\ readyState' = [p \in Peer |->
           IF p \in Range(peers) /\ Live(p) THEN "closing" ELSE readyState[p]]
    /\ peers' = [a \in Addr |-> None]
    /\ UNCHANGED <<addr, sendVars, recvVars>>

-----------------------------------------------------------------------------
(* The events of a websocket *)

\* Variant: What waits is sent and kept.
Open_KeepsQueue(p) ==
    /\ readyState[p] = "connecting"
    /\ readyState' = [readyState EXCEPT ![p] = "open"]
    /\ wire' = [wire EXCEPT ![p] = @ \o sendQueue[p]]
    /\ UNCHANGED <<fd, peers, addr, sendQueue, heard, sends, recvVars>>

\* handleOpen: sends what waits.
Open(p) ==
    /\ readyState[p] = "connecting"
    /\ readyState' = [readyState EXCEPT ![p] = "open"]
    /\ wire' = [wire EXCEPT ![p] = @ \o sendQueue[p]]
    /\ sendQueue' = [sendQueue EXCEPT ![p] = <<>>]
    /\ UNCHANGED <<fd, peers, addr, heard, sends, recvVars>>

\* handleMessage: for a datagram; game servers send no port message.
TakeMessage(p) ==
    /\ readyState[p] = "open" /\ inbox[p] # <<>>
    /\ recvQueue' = Append(recvQueue, [from |-> addr[p], reply |-> Head(inbox[p])])
    /\ inbox' = [inbox EXCEPT ![p] = Tail(@)]
    /\ UNCHANGED <<fd, peers, addr, readyState, sendVars, replies, received>>

\* removePeer: by the key, whoever is registered under it.
RemovePeer(p) ==
    peers' = [peers EXCEPT ![addr[p]] = None]

\* handleClose: the websocket ended, after a handshake or by an error.
HandleClose(p) ==
    /\ readyState[p] \in {"connecting", "open", "closing"}
    /\ readyState' = [readyState EXCEPT ![p] = "closed"]
    /\ RemovePeer(p)
    /\ sendQueue' = [sendQueue EXCEPT ![p] = <<>>]
    /\ inbox' = [inbox EXCEPT ![p] = <<>>]
    /\ UNCHANGED <<fd, addr, wire, heard, sends, replies, recvQueue, received>>

-----------------------------------------------------------------------------
(* The network, the proxy and the game servers *)

\* The other end's close frame: no event yet.
CloseFrame(p) ==
    /\ readyState[p] = "open"
    /\ readyState' = [readyState EXCEPT ![p] = "closing"]
    /\ UNCHANGED <<fd, peers, addr, sendVars, recvVars>>

\* The proxy reads a message, and forwards it unless it is the port message.
ProxyReads(p) ==
    /\ wire[p] # <<>>
    /\ heard' = [heard EXCEPT ![p] = Append(@, Head(wire[p]))]
    /\ wire' = [wire EXCEPT ![p] = Tail(@)]
    /\ UNCHANGED <<fd, peers, addr, readyState, sendQueue, sends, recvVars>>

\* What an ended connection still carried is lost.
WireLost(p) ==
    /\ readyState[p] = "closed" /\ wire[p] # <<>>
    /\ wire' = [wire EXCEPT ![p] = <<>>]
    /\ UNCHANGED <<fd, peers, addr, readyState, sendQueue, heard, sends, recvVars>>

\* The game servers know the clients they heard of.
ServerSends(p) ==
    /\ readyState[p] = "open" /\ Range(heard[p]) \ {PortMessage} # {}
    /\ replies < MaxReplies
    /\ replies' = replies + 1
    /\ inbox' = [inbox EXCEPT ![p] = Append(@, replies')]
    /\ UNCHANGED <<fd, peers, addr, readyState, sendVars, recvQueue, received>>

Game == Bind \/ (\E a \in Addr : Send(a)) \/ Receive \/ Close
Websocket(p) == Open(p) \/ TakeMessage(p) \/ HandleClose(p)
Network(p) == CloseFrame(p) \/ ProxyReads(p) \/ WireLost(p) \/ ServerSends(p)

Next ==
    \/ Game
    \/ \E p \in Peer : Websocket(p) \/ Network(p)

Spec == Init /\ [][Next]_vars

-----------------------------------------------------------------------------
(* Properties *)

\* The messages of a peer, from the first: those the proxy read, those on the
\* websocket and those waiting.
Stream(p) == heard[p] \o wire[p] \o sendQueue[p]

Increasing(s) == \A i, j \in DOMAIN s : i < j => s[i] < s[j]

\* A session carries the port message, first and once, and then datagrams in
\* the order in which the game sent them; no datagram is in two sessions.
StreamsOk ==
    /\ \A p \in Peer : Increasing(Stream(p))
    /\ \A p \in Peer : Stream(p) # <<>> => Stream(p)[1] = PortMessage
    /\ \A p, q \in Peer : p # q =>
           Range(Stream(p)) \cap Range(Stream(q)) \subseteq {PortMessage}

\* A websocket in use is taken out of the map, so that the next datagram makes
\* the game a second client of its server and no close ends the first, only
\* by the close event of an older one that is not in the map either: it was
\* replaced while the other end closed it, or had this happen to it.  No send,
\* no open or message event and no other address does it.
OnlyOlderCloseOrphans ==
    [][\A p \in Made :
        (Live(p) /\ Registered(p)) /\ (Live(p)' /\ ~Registered(p)') =>
            \E q \in 1..(p - 1) :
                /\ addr[q] = addr[p] /\ ~Registered(q)
                /\ readyState[q] # "closed" /\ readyState'[q] = "closed"]_vars

-----------------------------------------------------------------------------
(* What the socket promises *)

\* What the game sent to an address, or was sent from there, is on its way
\* as long as a session with the address, or recv_queue, holds it.
Sessions(a) == {p \in Made : addr[p] = a}
Datagram == Message \ {PortMessage}

SentFlight == [a \in Addr |->
    {i \in Datagram : \E p \in Sessions(a) : i \in Range(wire[p]) \cup Range(sendQueue[p])}]
SentArrived == [a \in Addr |->
    {i \in Datagram : \E p \in Sessions(a) : i \in Range(heard[p])}]
RepliedFlight == [a \in Addr |->
    {i \in Reply : \/ \E p \in Sessions(a) : i \in Range(inbox[p])
                   \/ [from |-> a, reply |-> i] \in Range(recvQueue)}]

Sent == INSTANCE Datagrams
    WITH count <- sends, flight <- SentFlight, arrived <- SentArrived
Replied == INSTANCE Datagrams
    WITH count <- replies, flight <- RepliedFlight, arrived <- received

\* The socket is a datagram socket, for what the game sends and for what it
\* receives: nothing arrives twice, elsewhere or from nowhere, whatever
\* websockets open, fail and are replaced meanwhile.
ImplementsDatagrams == Sent!Spec /\ Replied!Spec

==============================================================================
