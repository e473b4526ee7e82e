-------------------------- MODULE SocketPeersProofs --------------------------
(***************************************************************************)
(* Proofs about the socket of the game, for any number of addresses,       *)
(* websockets, datagrams and replies: that it is a datagram socket.        *)
(***************************************************************************)
EXTENDS SocketPeers, SequenceTheorems, TLAPS

(* Sequences of numbers *)

\* A sequence and what it grows by: the parts of an increasing concatenation.
LEMMA IncreasingParts ==
    ASSUME NEW s \in Seq(Message), NEW t \in Seq(Message), Increasing(s \o t)
    PROVE  /\ Increasing(s) /\ Increasing(t)
           /\ \A x \in Range(s), y \in Range(t) : x < y
  <1> DEFINE u == s \o t
  <1>1. /\ Len(s) \in Nat /\ Len(t) \in Nat /\ u \in Seq(Message)
        /\ DOMAIN s = 1..Len(s) /\ DOMAIN t = 1..Len(t)
        /\ DOMAIN u = 1..(Len(s) + Len(t))
        /\ \A i \in 1..Len(s) : i \in DOMAIN u /\ u[i] = s[i]
        /\ \A j \in 1..Len(t) : j + Len(s) \in DOMAIN u /\ u[j + Len(s)] = t[j]
    BY ConcatProperties, LenProperties
  <1> HIDE DEF u
  <1>2. \A i, j \in DOMAIN u : i < j => u[i] < u[j]
    BY DEF Increasing, u
  <1>3. Increasing(s)
    BY <1>1, <1>2 DEF Increasing
  <1>4. Increasing(t)
    <2>1. SUFFICES ASSUME NEW i \in 1..Len(t), NEW j \in 1..Len(t), i < j
                   PROVE  t[i] < t[j]
      BY <1>1 DEF Increasing
    <2>2. /\ i + Len(s) \in DOMAIN u /\ j + Len(s) \in DOMAIN u
          /\ i + Len(s) < j + Len(s)
      BY <1>1, <2>1
    <2> QED
      BY <1>1, <1>2, <2>2
  <1>5. ASSUME NEW x \in Range(s), NEW y \in Range(t)
        PROVE  x < y
    <2>1. PICK i \in 1..Len(s) : x = s[i]
      BY <1>1, <1>5 DEF Range
    <2>2. PICK j \in 1..Len(t) : y = t[j]
      BY <1>1, <1>5 DEF Range
    <2>3. i < j + Len(s) /\ i \in DOMAIN u /\ j + Len(s) \in DOMAIN u
      BY <1>1
    <2>4. u[i] < u[j + Len(s)]
      BY <1>2, <2>3
    <2> QED
      BY <1>1, <2>1, <2>2, <2>4
  <1> QED
    BY <1>3, <1>4, <1>5

LEMMA AppendFacts ==
    ASSUME NEW S, NEW s \in Seq(S), NEW x \in S
    PROVE  /\ Append(s, x) \in Seq(S) /\ Append(s, x) # <<>>
           /\ Range(Append(s, x)) = Range(s) \cup {x}
           /\ s # <<>> => Append(s, x)[1] = s[1]
  <1> DEFINE u == Append(s, x)
  <1>1. /\ u \in Seq(S) /\ u # <<>> /\ Len(u) = Len(s) + 1
        /\ \A i \in 1..Len(s) : u[i] = s[i]
        /\ u[Len(s) + 1] = x
    BY AppendProperties
  <1>2. /\ Len(s) \in Nat /\ DOMAIN s = 1..Len(s) /\ DOMAIN u = 1..(Len(s) + 1)
        /\ s # <<>> => Len(s) # 0
    BY <1>1, LenProperties, EmptySeq
  <1> HIDE DEF u
  <1>3. DOMAIN u = DOMAIN s \cup {Len(s) + 1}
    BY <1>2
  <1>4. Range(u) = Range(s) \cup {x}
    BY <1>1, <1>2, <1>3 DEF Range
  <1>5. s # <<>> => u[1] = s[1]
    BY <1>1, <1>2
  <1> QED
    BY <1>1, <1>4, <1>5 DEF u

LEMMA TailFacts ==
    ASSUME NEW S, NEW s \in Seq(S), s # <<>>
    PROVE  /\ Head(s) \in S /\ Tail(s) \in Seq(S)
           /\ Range(s) = {Head(s)} \cup Range(Tail(s))
           /\ s = <<Head(s)>> \o Tail(s)
  <1> DEFINE h == <<Head(s)>>
  <1>1. /\ Head(s) \in S /\ Tail(s) \in Seq(S) /\ h \in Seq(S) /\ Len(h) = 1
        /\ Len(s) \in Nat \ {0} /\ Len(Tail(s)) = Len(s) - 1
        /\ \A i \in 1..Len(Tail(s)) : Tail(s)[i] = s[i + 1]
        /\ h[1] = s[1]
    BY HeadTailProperties, EmptySeq
  <1>2. /\ h \o Tail(s) \in Seq(S)
        /\ Len(h \o Tail(s)) = Len(s)
        /\ \A i \in 1..Len(s) : (h \o Tail(s))[i] =
               IF i <= 1 THEN h[i] ELSE Tail(s)[i - 1]
    BY <1>1, ConcatProperties
  <1>3. \A i \in 1..Len(s) : (h \o Tail(s))[i] = s[i]
    <2> TAKE i \in 1..Len(s)
    <2>1. CASE i = 1
      BY <1>1, <1>2, <2>1
    <2>2. CASE i # 1
      <3>1. i - 1 \in 1..Len(Tail(s)) /\ (i - 1) + 1 = i /\ ~(i <= 1)
        BY <1>1, <2>2
      <3> QED
        BY <1>1, <1>2, <3>1
    <2> QED
      BY <2>1, <2>2
  <1>4. s = h \o Tail(s)
    BY <1>2, <1>3, SeqEqual
  <1>5. Range(h) = {Head(s)}
    BY <1>1 DEF Range
  <1> HIDE DEF h
  <1>6. Range(h \o Tail(s)) = Range(h) \cup Range(Tail(s))
    <2>1. ASSUME NEW u \in Seq(S), NEW v \in Seq(S)
          PROVE  Range(u \o v) = Range(u) \cup Range(v)
      BY RangeConcatenation, Zenon
    <2> QED
      BY <1>1, <2>1
  <1> QED
    BY <1>1, <1>4, <1>5, <1>6 DEF h

\* The first of an increasing sequence is not among the rest.
LEMMA HeadOnce ==
    ASSUME NEW s \in Seq(Message), s # <<>>, Increasing(s)
    PROVE  Head(s) \notin Range(Tail(s))
  <1>1. /\ Head(s) \in Message /\ Tail(s) \in Seq(Message)
        /\ s = <<Head(s)>> \o Tail(s)
    BY TailFacts
  <1>2. <<Head(s)>> \in Seq(Message) /\ Range(<<Head(s)>>) = {Head(s)}
    BY <1>1 DEF Range
  <1>3. \A y \in Range(Tail(s)) : Head(s) < y
    BY <1>1, <1>2, IncreasingParts
  <1>4. Head(s) \in Nat
    BY <1>1, SocketPeersAssumption DEF Message
  <1> QED
    BY <1>3, <1>4

LEMMA AppendIncreases ==
    ASSUME NEW s \in Seq(Message), NEW n \in Message, Increasing(s),
           \A x \in Range(s) : x < n
    PROVE  Increasing(Append(s, n))
  <1> DEFINE u == Append(s, n)
  <1>1. /\ Len(u) = Len(s) + 1 /\ u \in Seq(Message)
        /\ \A i \in 1..Len(s) : u[i] = s[i]
        /\ u[Len(s) + 1] = n
    BY AppendProperties
  <1>2. /\ Len(s) \in Nat /\ DOMAIN s = 1..Len(s) /\ DOMAIN u = 1..(Len(s) + 1)
    BY <1>1, LenProperties
  <1> HIDE DEF u
  <1>3. \A i \in 1..Len(s) : s[i] < n
    BY <1>2 DEF Range
  <1>4. SUFFICES ASSUME NEW i \in DOMAIN u, NEW j \in DOMAIN u, i < j
                 PROVE  u[i] < u[j]
    BY DEF Increasing, u
  <1>5. i \in 1..Len(s)
    BY <1>2, <1>4
  <1>6. CASE j \in 1..Len(s)
    BY <1>1, <1>2, <1>4, <1>5, <1>6 DEF Increasing
  <1>7. CASE j = Len(s) + 1
    BY <1>1, <1>3, <1>5, <1>7
  <1> QED
    BY <1>2, <1>6, <1>7

-----------------------------------------------------------------------------
(* The inductive invariant *)

\* A registered peer is one of its address and has not had its close event;
\* a peer that is not made holds nothing.
PeersOk ==
    /\ \A a \in Addr : peers[a] # None =>
           /\ peers[a] \in Made /\ addr[peers[a]] = a
           /\ readyState[peers[a]] \in {"connecting", "open", "closing"}
    /\ \A p \in Made : readyState[p] # "none"
    /\ \A p \in Peer \ Made :
           /\ readyState[p] = "none"
           /\ sendQueue[p] = <<>> /\ wire[p] = <<>> /\ heard[p] = <<>>
           /\ inbox[p] = <<>>

\* What waits, waits for the first opening; a stream is never emptied before
\* the close event.
QueuesOk ==
    \A p \in Peer :
        /\ sendQueue[p] # <<>> \/ readyState[p] = "connecting" =>
              wire[p] = <<>> /\ heard[p] = <<>>
        /\ readyState[p] \in {"open", "closed"} => sendQueue[p] = <<>>
        /\ readyState[p] \in {"connecting", "open", "closing"} => Stream(p) # <<>>

StreamsBounded ==
    \A p \in Peer : \A x \in Range(Stream(p)) : x <= sends

SendInv == TypeOK /\ PeersOk /\ QueuesOk /\ StreamsOk /\ StreamsBounded

LEMMA MadeFacts ==
    ASSUME TypeOK
    PROVE  /\ made \in Nat /\ Made \subseteq Peer /\ None \notin Made
           /\ DOMAIN addr = Made
           /\ \A p \in Made : addr[p] \in Addr
  <1>1. addr \in Seq(Addr) /\ Len(addr) <= MaxPeers
    BY DEF TypeOK, made
  <1>2. Len(addr) \in Nat /\ DOMAIN addr = 1..Len(addr)
    BY <1>1, LenProperties
  <1> QED
    BY <1>1, <1>2, ElementOfSeq, SocketPeersAssumption DEF made, Made, Peer, None

LEMMA StreamType ==
    ASSUME TypeOK, NEW p \in Peer
    PROVE  Stream(p) \in Seq(Message)
  <1>1. heard[p] \in Seq(Message) /\ wire[p] \in Seq(Message) /\ sendQueue[p] \in Seq(Message)
    BY DEF TypeOK
  <1>2. heard[p] \o wire[p] \in Seq(Message)
    BY <1>1, ConcatProperties
  <1> QED
    BY <1>1, <1>2, ConcatProperties DEF Stream

LEMMA InitSendInv == Init => SendInv
  <1> SUFFICES ASSUME Init PROVE SendInv
    OBVIOUS
  <1>1. made = 0 /\ Made = {} /\ Peer \ Made = Peer
    BY DEF Init, made, Made
  <1>2. \A p \in Peer : Stream(p) = <<>>
    BY DEF Init, Stream
  <1>3. TypeOK
    <2>1. /\ <<>> \in Seq(Message) /\ <<>> \in Seq(Reply) /\ <<>> \in Seq(Addr)
          /\ <<>> \in Seq([from : Addr, reply : Reply])
      BY EmptySeq
    <2>2. 0 \in 0..made /\ made <= MaxPeers /\ 0 \in 0..MaxSends /\ 0 \in 0..MaxReplies
      BY <1>1, SocketPeersAssumption
    <2> QED
      BY <2>1, <2>2 DEF Init, TypeOK, None
  <1>4. PeersOk
    BY <1>1 DEF Init, PeersOk, None
  <1>5. QueuesOk
    BY DEF Init, QueuesOk
  <1>6. StreamsOk /\ StreamsBounded
    BY <1>2 DEF StreamsOk, StreamsBounded, Increasing, Range
  <1> QED
    BY <1>3, <1>4, <1>5, <1>6 DEF SendInv

-----------------------------------------------------------------------------
(* A step and the types *)

LEMMA SendType ==
    ASSUME TypeOK, NEW a \in Addr, Send(a)
    PROVE  TypeOK'
  <1> DEFINE n == sends + 1
  <1>1. /\ sends' = n /\ n \in 0..MaxSends /\ n \in Message /\ 0 \in Message
        /\ UNCHANGED <<fd, heard, replies, inbox, recvQueue, received>>
    BY SocketPeersAssumption DEF TypeOK, Send, Message, recvVars
  <1> HIDE DEF n
  <1>2. CASE NeedsPeer(a)
    <2>1. CreatePeer(a, n)
      BY <1>1, <1>2 DEF Send
    <2>2. made + 1 \in Peer /\ made \in Nat
      BY <2>1, MadeFacts DEF CreatePeer
    <2>3. /\ addr' \in Seq(Addr) /\ Len(addr') = Len(addr) + 1
      BY <2>1, AppendProperties DEF CreatePeer, TypeOK
    <2>4. made' = made + 1 /\ made' <= MaxPeers
      BY <2>2, <2>3, SocketPeersAssumption DEF made, Peer
    <2>5. peers' \in [Addr -> 0..made']
      BY <2>1, <2>2, <2>4 DEF CreatePeer, TypeOK
    <2>6. <<PortMessage, n>> \in Seq(Message)
      BY <1>1 DEF PortMessage
    <2>7. sendQueue' \in [Peer -> Seq(Message)] /\ UNCHANGED wire
      BY <2>1, <2>6 DEF CreatePeer, TypeOK
    <2> QED
      BY <1>1, <2>1, <2>3, <2>4, <2>5, <2>7 DEF CreatePeer, TypeOK
  <1>3. CASE ~NeedsPeer(a)
    <2>1. SendToPeer(peers[a], n)
      BY <1>1, <1>3 DEF Send
    <2>2. /\ UNCHANGED <<peers, addr, readyState>> /\ made' = made
      BY <2>1 DEF SendToPeer, made
    <2>3. ASSUME NEW s \in Seq(Message)
          PROVE  Append(s, n) \in Seq(Message)
      BY <1>1, AppendProperties
    <2>4. /\ wire' \in [Peer -> Seq(Message)] /\ sendQueue' \in [Peer -> Seq(Message)]
      <3> DEFINE p == peers[a]
      <3>1. p \in Peer
        BY <1>3, MadeFacts DEF NeedsPeer, TypeOK, None, Made
      <3>2. /\ \/ wire' = wire
               \/ wire' = [wire EXCEPT ![p] = Append(wire[p], n)]
            /\ \/ sendQueue' = sendQueue
               \/ sendQueue' = [sendQueue EXCEPT ![p] = Append(sendQueue[p], n)]
        BY <2>1 DEF SendToPeer
      <3> HIDE DEF p
      <3>3. Append(wire[p], n) \in Seq(Message) /\ Append(sendQueue[p], n) \in Seq(Message)
        BY <2>3, <3>1 DEF TypeOK
      <3> QED
        BY <3>1, <3>2, <3>3 DEF TypeOK
    <2> QED
      BY <1>1, <2>2, <2>4 DEF TypeOK
  <1> QED
    BY <1>2, <1>3

LEMMA NextType ==
    ASSUME TypeOK, PeersOk, [Next]_vars
    PROVE  TypeOK'
  <1> USE DEF recvVars, sendVars, made
  <1>1. CASE Bind
    BY <1>1 DEF TypeOK, Bind
  <1>2. ASSUME NEW a \in Addr, Send(a) PROVE TypeOK'
    BY <1>2, SendType
  <1>3. CASE Receive
    <2>1. /\ Head(recvQueue) \in [from : Addr, reply : Reply]
          /\ Tail(recvQueue) \in Seq([from : Addr, reply : Reply])
      BY <1>3, HeadTailProperties DEF TypeOK, Receive
    <2>2. received' \in [Addr -> SUBSET Reply]
      BY <1>3, <2>1 DEF TypeOK, Receive
    <2> QED
      BY <1>3, <2>1, <2>2 DEF TypeOK, Receive
  <1>4. CASE Close
    <2>1. peers' \in [Addr -> 0..made']
      BY <1>4, MadeFacts DEF Close, None
    <2> QED
      BY <1>4, <2>1 DEF TypeOK, Close
  <1>5. ASSUME NEW p \in Peer, Websocket(p) PROVE TypeOK'
    <2>1. CASE Open(p)
      <3>1. wire[p] \o sendQueue[p] \in Seq(Message) /\ <<>> \in Seq(Message)
        BY ConcatProperties, EmptySeq DEF TypeOK
      <3> QED
        BY <2>1, <3>1 DEF TypeOK, Open
    <2>2. CASE TakeMessage(p)
      <3>0. p \in Made
        BY <2>2 DEF TakeMessage, PeersOk
      <3>1. Head(inbox[p]) \in Reply /\ Tail(inbox[p]) \in Seq(Reply)
        BY <2>2, HeadTailProperties DEF TypeOK, TakeMessage
      <3>2. [from |-> addr[p], reply |-> Head(inbox[p])] \in [from : Addr, reply : Reply]
        BY <3>0, <3>1, MadeFacts
      <3>3. recvQueue' \in Seq([from : Addr, reply : Reply])
        BY <2>2, <3>2, AppendProperties DEF TypeOK, TakeMessage
      <3> QED
        BY <2>2, <3>1, <3>3 DEF TypeOK, TakeMessage
    <2>3. CASE HandleClose(p)
      <3>1. <<>> \in Seq(Message) /\ <<>> \in Seq(Reply)
        BY EmptySeq
      <3>2. made' = made /\ None \in 0..made
        BY <2>3, MadeFacts DEF HandleClose, None
      <3>3. peers' \in [Addr -> 0..made']
        BY <2>3, <3>2 DEF TypeOK, HandleClose, RemovePeer
      <3> QED
        BY <2>3, <3>1, <3>2, <3>3 DEF TypeOK, HandleClose
    <2> QED
      BY <1>5, <2>1, <2>2, <2>3 DEF Websocket
  <1>6. ASSUME NEW p \in Peer, Network(p) PROVE TypeOK'
    <2>1. CASE CloseFrame(p)
      BY <2>1 DEF TypeOK, CloseFrame
    <2>2. CASE ProxyReads(p)
      <3>1. Head(wire[p]) \in Message /\ Tail(wire[p]) \in Seq(Message)
        BY <2>2, HeadTailProperties DEF TypeOK, ProxyReads
      <3>2. Append(heard[p], Head(wire[p])) \in Seq(Message)
        BY <3>1, AppendProperties DEF TypeOK
      <3> QED
        BY <2>2, <3>1, <3>2 DEF TypeOK, ProxyReads
    <2>3. CASE WireLost(p)
      BY <2>3, EmptySeq DEF TypeOK, WireLost
    <2>4. CASE ServerSends(p)
      <3>1. replies + 1 \in Reply /\ replies + 1 \in 0..MaxReplies
        BY <2>4, SocketPeersAssumption DEF TypeOK, ServerSends, Reply
      <3>2. Append(inbox[p], replies + 1) \in Seq(Reply)
        BY <3>1, AppendProperties DEF TypeOK
      <3> QED
        BY <2>4, <3>1, <3>2 DEF TypeOK, ServerSends
    <2> QED
      BY <1>6, <2>1, <2>2, <2>3, <2>4 DEF Network
  <1>7. CASE UNCHANGED vars
    BY <1>7 DEF TypeOK, vars
  <1> QED
    BY <1>1, <1>2, <1>3, <1>4, <1>5, <1>6, <1>7 DEF Next, Game

-----------------------------------------------------------------------------
(* A step and the streams *)

\* A stream takes the datagram that is sent, or loses an end of it.
Grows(p) ==
    /\ sends' = sends + 1
    /\ \/ Stream(p) = <<>> /\ Stream(p)' = <<PortMessage, sends'>>
       \/ Stream(p) # <<>> /\ Stream(p)' = Append(Stream(p), sends')

Shrinks(p) == \E t \in Seq(Message) : Stream(p) = Stream(p)' \o t

LEMMA UnchangedShrinks ==
    ASSUME TypeOK, NEW p \in Peer, Stream(p)' = Stream(p)
    PROVE  Shrinks(p)
  <1>1. <<>> \in Seq(Message) /\ Stream(p) \o <<>> = Stream(p)
    BY StreamType, ConcatEmptySeq, EmptySeq
  <1> QED
    BY <1>1 DEF Shrinks

LEMMA GrowsOk ==
    ASSUME TypeOK, TypeOK', StreamsOk, StreamsBounded, NEW p \in Peer, Grows(p)
    PROVE  /\ Increasing(Stream(p)') /\ Stream(p)'[1] = PortMessage
           /\ \A x \in Range(Stream(p)') :
                 x = PortMessage \/ x = sends' \/ x \in Range(Stream(p))
           /\ sends' = sends + 1
  <1> DEFINE s == Stream(p)
             n == sends'
  <1>1. /\ sends \in Nat /\ n \in Message /\ n = sends + 1 /\ PortMessage \in Message
        /\ s \in Seq(Message)
        /\ Increasing(s) /\ (s # <<>> => s[1] = PortMessage)
        /\ \A x \in Range(s) : x <= sends
    BY StreamType, SocketPeersAssumption
       DEF Grows, TypeOK, Message, PortMessage, StreamsOk, StreamsBounded
  <1>2. \A x \in Range(s) : x < n
    <2> TAKE x \in Range(s)
    <2>1. x \in Nat
      BY <1>1, RangeOfSeq, SocketPeersAssumption DEF Message
    <2> QED
      BY <1>1, <2>1
  <1>3. CASE Stream(p) = <<>> /\ Stream(p)' = <<PortMessage, sends'>>
    BY <1>1, <1>3 DEF Increasing, Range, PortMessage
  <1>4. CASE s # <<>> /\ Stream(p)' = Append(s, n)
    <2> HIDE DEF s, n
    <2>1. Increasing(Append(s, n))
      BY <1>1, <1>2, AppendIncreases
    <2>2. /\ Range(Append(s, n)) = Range(s) \cup {n}
          /\ Append(s, n)[1] = s[1]
      BY <1>1, <1>4, AppendFacts
    <2> QED
      BY <1>1, <1>4, <2>1, <2>2 DEF s, n
  <1> QED
    BY <1>3, <1>4 DEF Grows

LEMMA ShrinksOk ==
    ASSUME TypeOK, TypeOK', StreamsOk, NEW p \in Peer, Shrinks(p)
    PROVE  /\ Increasing(Stream(p)') /\ (Stream(p)' # <<>> => Stream(p)'[1] = PortMessage)
           /\ Range(Stream(p)') \subseteq Range(Stream(p))
  <1>1. PICK t \in Seq(Message) : Stream(p) = Stream(p)' \o t
    BY DEF Shrinks
  <1>2. Stream(p)' \in Seq(Message)
    <2>1. heard'[p] \in Seq(Message) /\ wire'[p] \in Seq(Message) /\ sendQueue'[p] \in Seq(Message)
      BY DEF TypeOK
    <2>2. heard'[p] \o wire'[p] \in Seq(Message)
      BY <2>1, ConcatProperties
    <2> QED
      BY <2>1, <2>2, ConcatProperties DEF Stream
  <1> DEFINE s == Stream(p)'
  <1>3. s \in Seq(Message) /\ Increasing(s \o t) /\ (s \o t # <<>> => (s \o t)[1] = PortMessage)
    BY <1>1, <1>2 DEF StreamsOk
  <1> HIDE DEF s
  <1>4. Increasing(s)
    BY <1>3, IncreasingParts
  <1>5. Range(s) \subseteq Range(s \o t)
    <2>1. Range(s \o t) = Range(s) \cup Range(t)
      BY <1>3, RangeConcatenation
    <2> QED
      BY <2>1
  <1>6. s # <<>> => s[1] = (s \o t)[1] /\ s \o t # <<>>
    <2>1. s # <<>> => Len(s) \in Nat /\ 1 <= Len(s)
      BY <1>3, EmptySeq
    <2>2. /\ Len(t) \in Nat
          /\ \A i \in 1..Len(s) + Len(t) : (s \o t)[i] = IF i <= Len(s) THEN s[i] ELSE t[i - Len(s)]
      BY <1>3, ConcatProperties, LenProperties
    <2>3. s \o t = <<>> => s = <<>>
      BY <1>3, ConcatEqualIffEmpty
    <2> QED
      BY <2>1, <2>2, <2>3
  <1> QED
    BY <1>1, <1>3, <1>4, <1>5, <1>6 DEF s

LEMMA StreamsStep ==
    ASSUME TypeOK, TypeOK', StreamsOk, StreamsBounded, sends <= sends',
           \A p \in Peer : Grows(p) \/ Shrinks(p),
           \A p, q \in Peer : Grows(p) /\ Grows(q) => p = q
    PROVE  StreamsOk' /\ StreamsBounded'
  <1>1. \A p \in Peer : Increasing(Stream(p)') /\ (Stream(p)' # <<>> => Stream(p)'[1] = PortMessage)
    BY GrowsOk, ShrinksOk
  <1>2. ASSUME NEW p \in Peer, NEW x \in Range(Stream(p)')
        PROVE  \/ x = PortMessage
               \/ x \in Range(Stream(p)) /\ x <= sends
               \/ x = sends' /\ Grows(p) /\ sends' = sends + 1
    <2>1. \A y \in Range(Stream(p)) : y <= sends
      BY DEF StreamsBounded
    <2> QED
      BY <1>2, <2>1, GrowsOk, ShrinksOk
  <1>3. sends \in Nat /\ sends' \in Nat
    BY SocketPeersAssumption DEF TypeOK
  <1>4. \A p \in Peer : Range(Stream(p)) \subseteq Nat
    BY StreamType, RangeOfSeq, SocketPeersAssumption DEF Message
  <1>5. StreamsBounded'
    <2>1. SUFFICES ASSUME NEW p \in Peer, NEW x \in Range(Stream(p)')
                   PROVE  x <= sends'
      BY DEF StreamsBounded
    <2> QED
      BY <1>2, <1>3, <1>4 DEF PortMessage
  <1>6. ASSUME NEW p \in Peer, NEW q \in Peer, p # q
        PROVE  Range(Stream(p)') \cap Range(Stream(q)') \subseteq {PortMessage}
    <2>1. SUFFICES ASSUME NEW x \in Range(Stream(p)'), x \in Range(Stream(q)'), x # PortMessage
                   PROVE  FALSE
      OBVIOUS
    <2>2. ~(x \in Range(Stream(p)) /\ x \in Range(Stream(q)))
      BY <1>6, <2>1 DEF StreamsOk
    <2>3. ~(Grows(p) /\ Grows(q))
      BY <1>6
    <2>4. \/ x \in Range(Stream(p)) /\ x <= sends
          \/ x = sends' /\ Grows(p) /\ sends' = sends + 1
      BY <1>2, <2>1
    <2>5. \/ x \in Range(Stream(q)) /\ x <= sends
          \/ x = sends' /\ Grows(q) /\ sends' = sends + 1
      BY <1>2, <2>1
    <2> QED
      BY <1>3, <1>4, <2>2, <2>3, <2>4, <2>5
  <1> QED
    BY <1>1, <1>5, <1>6 DEF StreamsOk

-----------------------------------------------------------------------------
(* Each action and the invariant *)

LEMMA StreamParts ==
    ASSUME TypeOK, NEW p \in Peer
    PROVE  /\ heard[p] \in Seq(Message) /\ wire[p] \in Seq(Message)
           /\ sendQueue[p] \in Seq(Message)
           /\ Stream(p) = (heard[p] \o wire[p]) \o sendQueue[p]
           /\ Stream(p) = <<>> => heard[p] = <<>> /\ wire[p] = <<>> /\ sendQueue[p] = <<>>
  <1>1. heard[p] \in Seq(Message) /\ wire[p] \in Seq(Message) /\ sendQueue[p] \in Seq(Message)
    BY DEF TypeOK
  <1>2. heard[p] \o wire[p] \in Seq(Message)
    BY <1>1, ConcatProperties
  <1>3. Stream(p) = <<>> => heard[p] \o wire[p] = <<>> /\ sendQueue[p] = <<>>
    BY <1>1, <1>2, ConcatEqualIffEmpty DEF Stream
  <1> QED
    BY <1>1, <1>3, ConcatEqualIffEmpty DEF Stream

\* What a datagram that is sent does to the streams.
LEMMA SendStreams ==
    ASSUME SendInv, NEW a \in Addr, Send(a)
    PROVE  \E g \in Peer :
              /\ Grows(g) /\ Stream(g)' # <<>>
              /\ \A p \in Peer \ {g} : Stream(p)' = Stream(p)
  <1> DEFINE n == sends + 1
  <1>1. /\ sends' = n /\ n \in Message /\ 0 \in Message /\ UNCHANGED heard
        /\ TypeOK /\ PeersOk /\ QueuesOk
    BY SocketPeersAssumption DEF SendInv, TypeOK, Send, Message
  <1> HIDE DEF n
  <1>2. CASE NeedsPeer(a)
    <2>1. PICK g \in Peer :
              /\ g = made + 1 /\ UNCHANGED wire
              /\ sendQueue' = [sendQueue EXCEPT ![g] = <<PortMessage, n>>]
      BY <1>1, <1>2 DEF Send, CreatePeer
    <2>2. g \in Peer \ Made
      BY <1>1, <2>1, MadeFacts DEF Made
    <2>3. heard[g] = <<>> /\ wire[g] = <<>> /\ sendQueue[g] = <<>>
      BY <1>1, <2>2 DEF PeersOk
    <2>4. /\ sendQueue'[g] = <<PortMessage, n>>
          /\ \A p \in Peer \ {g} : sendQueue'[p] = sendQueue[p]
      BY <1>1, <2>1 DEF TypeOK
    <2>5. <<PortMessage, n>> \in Seq(Message)
      BY <1>1 DEF PortMessage
    <2>6. Stream(g) = <<>>
      BY <2>3 DEF Stream
    <2>7. Stream(g)' = <<PortMessage, n>>
      <3>1. Stream(g)' = (heard[g] \o wire[g]) \o sendQueue'[g]
        BY <1>1, <2>1 DEF Stream
      <3>2. (<<>> \o <<>>) \o <<PortMessage, n>> = <<PortMessage, n>>
        BY <2>5, ConcatEmptySeq
      <3> QED
        BY <2>3, <2>4, <3>1, <3>2
    <2>8. \A p \in Peer \ {g} : Stream(p)' = Stream(p)
      BY <1>1, <2>1, <2>4 DEF Stream
    <2>9. Grows(g)
      BY <1>1, <2>6, <2>7 DEF Grows, n
    <2> QED
      BY <2>1, <2>7, <2>8, <2>9
  <1>3. CASE ~NeedsPeer(a)
    <2>1. PICK g \in Peer :
              g = peers[a] /\ readyState[g] \in {"connecting", "open", "closing"}
      BY <1>1, <1>3, MadeFacts DEF NeedsPeer, PeersOk
    <2>2. \/ /\ readyState[g] = "open"
             /\ wire' = [wire EXCEPT ![g] = Append(@, n)]
             /\ UNCHANGED sendQueue
          \/ /\ sendQueue' = [sendQueue EXCEPT ![g] = Append(@, n)]
             /\ UNCHANGED wire
      BY <1>1, <1>3, <2>1 DEF Send, SendToPeer
    <2>3. /\ heard[g] \in Seq(Message) /\ wire[g] \in Seq(Message)
          /\ sendQueue[g] \in Seq(Message) /\ heard[g] \o wire[g] \in Seq(Message)
          /\ Stream(g) # <<>>
      BY <1>1, <2>1, StreamParts, ConcatProperties DEF QueuesOk
    <2>4. ASSUME NEW s \in Seq(Message), NEW t \in Seq(Message)
          PROVE  s \o Append(t, n) = Append(s \o t, n)
      <3>1. Append(t, n) = t \o <<n>> /\ Append(s \o t, n) = (s \o t) \o <<n>>
        BY <1>1, AppendIsConcat, ConcatProperties
      <3>2. <<n>> \in Seq(Message)
        BY <1>1
      <3> QED
        BY <3>1, <3>2, ConcatAssociative
    <2>5. Stream(g)' = Append(Stream(g), n)
      <3>1. CASE readyState[g] = "open" /\ wire' = [wire EXCEPT ![g] = Append(@, n)]
                 /\ UNCHANGED sendQueue
        <4>1. sendQueue[g] = <<>>
          BY <1>1, <2>1, <3>1 DEF QueuesOk
        <4>2. wire'[g] = Append(wire[g], n) /\ wire'[g] \in Seq(Message)
          BY <1>1, <2>1, <2>3, <3>1, AppendProperties DEF TypeOK
        <4>3. Stream(g) = heard[g] \o wire[g]
          BY <2>3, <4>1, ConcatEmptySeq DEF Stream
        <4>4. Stream(g)' = heard[g] \o wire'[g]
          <5>1. Stream(g)' = (heard[g] \o wire'[g]) \o <<>>
            BY <1>1, <3>1, <4>1 DEF Stream
          <5>2. heard[g] \o wire'[g] \in Seq(Message)
            BY <2>3, <4>2, ConcatProperties
          <5> QED
            BY <5>1, <5>2, ConcatEmptySeq
        <4> QED
          BY <2>3, <2>4, <4>2, <4>3, <4>4
      <3>2. CASE sendQueue' = [sendQueue EXCEPT ![g] = Append(@, n)] /\ UNCHANGED wire
        <4>1. sendQueue'[g] = Append(sendQueue[g], n)
          BY <1>1, <2>1, <3>2 DEF TypeOK
        <4>2. Stream(g)' = (heard[g] \o wire[g]) \o sendQueue'[g]
          BY <1>1, <3>2 DEF Stream
        <4> QED
          BY <2>3, <2>4, <4>1, <4>2 DEF Stream
      <3> QED
        BY <2>2, <3>1, <3>2
    <2>6. \A p \in Peer \ {g} : Stream(p)' = Stream(p)
      BY <1>1, <2>1, <2>2 DEF Stream, TypeOK
    <2>7. Grows(g) /\ Stream(g)' # <<>>
      <3>1. Append(Stream(g), n) # <<>>
        BY <1>1, <2>1, StreamType, AppendProperties
      <3> QED
        BY <1>1, <2>3, <2>5, <3>1 DEF Grows, n
    <2> QED
      BY <2>1, <2>6, <2>7
  <1> QED
    BY <1>2, <1>3

LEMMA Associative ==
    \A s, t, u \in Seq(Message) : (s \o t) \o u = s \o (t \o u)
  <1> TAKE s, t, u \in Seq(Message)
  <1> QED
    BY ConcatAssociative

\* Opening and reading move messages along a stream.
LEMMA OpenStreams ==
    ASSUME SendInv, NEW p \in Peer, Open(p), NEW q \in Peer
    PROVE  Stream(q)' = Stream(q)
  <1>1. /\ TypeOK /\ UNCHANGED heard
        /\ wire' = [wire EXCEPT ![p] = @ \o sendQueue[p]]
        /\ sendQueue' = [sendQueue EXCEPT ![p] = <<>>]
    BY DEF SendInv, Open
  <1>2. CASE q # p
    BY <1>1, <1>2 DEF Stream, TypeOK
  <1>3. CASE q = p
    <2>1. /\ heard[p] \in Seq(Message) /\ wire[p] \in Seq(Message) /\ sendQueue[p] \in Seq(Message)
          /\ wire'[p] = wire[p] \o sendQueue[p] /\ sendQueue'[p] = <<>>
      BY <1>1 DEF TypeOK
    <2>2. Stream(p)' = (heard[p] \o wire'[p]) \o <<>>
      BY <1>1, <2>1 DEF Stream
    <2>3. wire'[p] \in Seq(Message) /\ heard[p] \o wire'[p] \in Seq(Message)
      BY <2>1, ConcatProperties
    <2>4. Stream(p)' = heard[p] \o (wire[p] \o sendQueue[p])
      BY <2>1, <2>2, <2>3, ConcatEmptySeq
    <2>5. heard[p] \o (wire[p] \o sendQueue[p]) = (heard[p] \o wire[p]) \o sendQueue[p]
      BY <2>1, Associative
    <2> QED
      BY <1>3, <2>4, <2>5 DEF Stream
  <1> QED
    BY <1>2, <1>3

LEMMA ReadStreams ==
    ASSUME SendInv, NEW p \in Peer, ProxyReads(p), NEW q \in Peer
    PROVE  Stream(q)' = Stream(q)
  <1>1. /\ TypeOK /\ UNCHANGED sendQueue /\ wire[p] # <<>>
        /\ wire' = [wire EXCEPT ![p] = Tail(@)]
        /\ heard' = [heard EXCEPT ![p] = Append(@, Head(wire[p]))]
    BY DEF SendInv, ProxyReads
  <1>2. CASE q # p
    BY <1>1, <1>2 DEF Stream, TypeOK
  <1>3. CASE q = p
    <2>1. /\ heard[p] \in Seq(Message) /\ wire[p] \in Seq(Message)
          /\ wire'[p] = Tail(wire[p]) /\ heard'[p] = Append(heard[p], Head(wire[p]))
      BY <1>1 DEF TypeOK
    <2>2. PICK x \in Message, t \in Seq(Message) :
              x = Head(wire[p]) /\ t = Tail(wire[p]) /\ wire[p] = <<x>> \o t
      BY <1>1, <2>1, TailFacts
    <2>3. Append(heard[p], x) = heard[p] \o <<x>> /\ <<x>> \in Seq(Message)
      BY <2>1, AppendIsConcat
    <2>4. (heard[p] \o <<x>>) \o t = heard[p] \o (<<x>> \o t)
      <3>1. heard[p] \in Seq(Message) /\ <<x>> \in Seq(Message) /\ t \in Seq(Message)
        BY <2>1, <2>2
      <3> QED
        BY <3>1, Associative
    <2>5. heard'[p] \o wire'[p] = heard[p] \o wire[p]
      BY <2>1, <2>2, <2>3, <2>4
    <2> QED
      BY <1>1, <1>3, <2>5 DEF Stream
  <1> QED
    BY <1>2, <1>3

\* The end of a connection cuts what waits; what it carried is lost, or not.
LEMMA CloseStreams ==
    ASSUME SendInv, NEW p \in Peer, HandleClose(p) \/ WireLost(p), NEW q \in Peer
    PROVE  Shrinks(q) /\ (q # p => Stream(q)' = Stream(q))
  <1>1. TypeOK /\ UNCHANGED heard
    BY DEF SendInv, HandleClose, WireLost
  <1>2. CASE q # p
    <2>1. Stream(q)' = Stream(q)
      BY <1>1, <1>2 DEF Stream, TypeOK, HandleClose, WireLost
    <2> QED
      BY <1>1, <2>1, UnchangedShrinks
  <1>3. CASE q = p
    <2>1. /\ heard[p] \in Seq(Message) /\ wire[p] \in Seq(Message) /\ sendQueue[p] \in Seq(Message)
          /\ heard[p] \o wire[p] \in Seq(Message) /\ heard[p] \o <<>> = heard[p]
      BY <1>1, ConcatProperties, ConcatEmptySeq DEF TypeOK
    <2>2. CASE HandleClose(p)
      <3>1. UNCHANGED wire /\ sendQueue'[p] = <<>>
        BY <1>1, <2>2 DEF HandleClose, TypeOK
      <3>2. Stream(p)' = (heard[p] \o wire[p]) \o <<>>
        BY <1>1, <3>1 DEF Stream
      <3>3. Stream(p)' = heard[p] \o wire[p]
        BY <2>1, <3>2, ConcatEmptySeq
      <3> QED
        BY <1>3, <2>1, <3>3 DEF Shrinks, Stream
    <2>3. CASE WireLost(p)
      <3>1. UNCHANGED sendQueue /\ wire'[p] = <<>> /\ sendQueue[p] = <<>>
        BY <1>1, <2>3 DEF WireLost, TypeOK, SendInv, QueuesOk
      <3>2. Stream(p)' = (heard[p] \o <<>>) \o <<>>
        BY <1>1, <3>1 DEF Stream
      <3>3. Stream(p)' = heard[p]
        BY <2>1, <3>2
      <3>4. Stream(p) = heard[p] \o wire[p]
        BY <2>1, <3>1, ConcatEmptySeq DEF Stream
      <3> QED
        BY <1>3, <2>1, <3>3, <3>4 DEF Shrinks
    <2> QED
      BY <2>2, <2>3
  <1> QED
    BY <1>2, <1>3

\* The other actions leave the streams alone.
Quiet == UNCHANGED <<sendQueue, wire, heard, sends>>

LEMMA QuietStreams ==
    ASSUME Quiet, NEW q \in Peer
    PROVE  Stream(q)' = Stream(q)
  BY DEF Quiet, Stream

LEMMA NextStreams ==
    ASSUME SendInv, TypeOK', [Next]_vars
    PROVE  StreamsOk' /\ StreamsBounded'
  <1>1. TypeOK /\ StreamsOk /\ StreamsBounded /\ sends \in Nat
    BY SocketPeersAssumption DEF SendInv, TypeOK
  <1>2. CASE \E a \in Addr : Send(a)
    <2>1. PICK a \in Addr : Send(a)
      BY <1>2
    <2>2. PICK g \in Peer :
              /\ Grows(g)
              /\ \A p \in Peer \ {g} : Stream(p)' = Stream(p)
      BY <2>1, SendStreams
    <2>3. sends' = sends + 1
      BY <2>1 DEF Send
    <2>4. \A p \in Peer : p # g => Shrinks(p) /\ ~Grows(p)
      <3>1. TAKE p \in Peer
      <3>2. HAVE p # g
      <3>3. Stream(p)' = Stream(p) /\ Shrinks(p)
        BY <1>1, <2>2, <3>2, UnchangedShrinks
      <3>4. ASSUME Grows(p) PROVE FALSE
        <4>1. Stream(p) \in Seq(Message) /\ sends' \in Message
          BY <1>1, StreamType, SocketPeersAssumption DEF TypeOK, Message
        <4>2. CASE Stream(p) = <<>>
          BY <3>3, <3>4, <4>2 DEF Grows
        <4>3. CASE Stream(p) # <<>>
          <5>1. Stream(p) = Append(Stream(p), sends')
            BY <3>3, <3>4, <4>3 DEF Grows
          <5>2. Len(Stream(p)) = Len(Stream(p)) + 1 /\ Len(Stream(p)) \in Nat
            BY <4>1, <5>1, AppendProperties, LenProperties
          <5> QED
            BY <5>2
        <4> QED
          BY <4>2, <4>3
      <3> QED
        BY <3>3, <3>4
    <2> QED
      BY <1>1, <2>2, <2>3, <2>4, StreamsStep
  <1>3. CASE (\A p \in Peer : Shrinks(p)) /\ sends' = sends
    <2>1. \A p \in Peer : ~Grows(p)
      BY <1>1, <1>3 DEF Grows
    <2> QED
      BY <1>1, <1>3, <2>1, StreamsStep
  <1>4. CASE Quiet
    <2>1. sends' = sends
      BY <1>4 DEF Quiet
    <2> QED
      BY <1>1, <1>3, <1>4, <2>1, QuietStreams, UnchangedShrinks
  <1>5. ASSUME NEW p \in Peer, Websocket(p) \/ Network(p)
        PROVE  Quiet \/ ((\A q \in Peer : Shrinks(q)) /\ sends' = sends)
    <2>1. CASE Open(p)
      BY <1>1, <2>1, OpenStreams, UnchangedShrinks DEF Open
    <2>2. CASE HandleClose(p) \/ WireLost(p)
      BY <2>2, CloseStreams DEF HandleClose, WireLost
    <2>3. CASE ProxyReads(p)
      BY <1>1, <2>3, ReadStreams, UnchangedShrinks DEF ProxyReads
    <2>4. CASE TakeMessage(p) \/ CloseFrame(p) \/ ServerSends(p)
      BY <2>4 DEF TakeMessage, CloseFrame, ServerSends, Quiet, sendVars
    <2> QED
      BY <1>5, <2>1, <2>2, <2>3, <2>4 DEF Websocket, Network
  <1>6. CASE Bind \/ Receive \/ Close \/ UNCHANGED vars
    <2>1. Quiet
      BY <1>6 DEF Bind, Receive, Close, vars, Quiet, sendVars
    <2> QED
      BY <1>4, <2>1
  <1> QED
    BY <1>2, <1>3, <1>4, <1>5, <1>6 DEF Next, Game

\* A step and the map of peers, and what the peers hold.
LEMMA NextPeersQueues ==
    ASSUME SendInv, TypeOK', [Next]_vars
    PROVE  PeersOk' /\ QueuesOk'
  <1> USE DEF SendInv
  <1>1. /\ TypeOK /\ PeersOk /\ QueuesOk
        /\ made \in Nat /\ Made \subseteq Peer /\ None \notin Made
        /\ DOMAIN addr = Made /\ \A p \in Made : addr[p] \in Addr
    BY MadeFacts
  <1>2. ASSUME NEW a \in Addr, Send(a) PROVE PeersOk' /\ QueuesOk'
    <2>1. PICK g \in Peer : Stream(g)' # <<>> /\ \A p \in Peer \ {g} : Stream(p)' = Stream(p)
      BY <1>2, SendStreams
    <2>2. UNCHANGED <<heard, inbox>>
      BY <1>2 DEF Send, recvVars
    <2>3. CASE NeedsPeer(a)
      <3>1. PICK p \in Peer :
                /\ p = made + 1
                /\ addr' = Append(addr, a) /\ UNCHANGED wire
                /\ peers' = [peers EXCEPT ![a] = p]
                /\ readyState' = [readyState EXCEPT ![p] = "connecting"]
                /\ sendQueue' = [sendQueue EXCEPT ![p] = <<PortMessage, sends'>>]
        BY <1>2, <2>3 DEF Send, CreatePeer
      <3>2. /\ made' = made + 1 /\ Made' = Made \cup {p} /\ p \notin Made
            /\ \A q \in Made : addr'[q] = addr[q]
            /\ addr'[p] = a
        <4>1. addr \in Seq(Addr) /\ Made = 1..Len(addr) /\ made = Len(addr)
          BY <1>1 DEF TypeOK, Made, made
        <4>2. /\ Len(addr') = Len(addr) + 1 /\ addr'[Len(addr) + 1] = a
              /\ \A i \in 1..Len(addr) : addr'[i] = addr[i]
          BY <3>1, <4>1, AppendProperties
        <4>3. Made' = 1..(Len(addr) + 1)
          BY <4>2 DEF Made, made
        <4> QED
          BY <1>1, <3>1, <4>1, <4>2, <4>3 DEF made
      <3>3. heard[p] = <<>> /\ wire[p] = <<>> /\ inbox[p] = <<>>
        BY <1>1, <3>1, <3>2 DEF PeersOk
      <3>4. PeersOk'
        <4>1. ASSUME NEW b \in Addr, peers'[b] # None
              PROVE  /\ peers'[b] \in Made' /\ addr'[peers'[b]] = b
                     /\ readyState'[peers'[b]] \in {"connecting", "open", "closing"}
          <5>1. CASE b = a
            BY <1>1, <3>1, <3>2, <5>1 DEF TypeOK
          <5>2. CASE b # a
            <6>1. peers'[b] = peers[b]
              BY <1>1, <3>1, <5>2 DEF TypeOK
            <6>2. PICK q \in Made : q = peers[b]
              BY <1>1, <4>1, <6>1 DEF PeersOk
            <6>3. addr[q] = b /\ readyState[q] \in {"connecting", "open", "closing"}
              BY <1>1, <4>1, <6>1, <6>2 DEF PeersOk
            <6>4. readyState'[q] = readyState[q] /\ addr'[q] = addr[q] /\ q \in Made'
              BY <1>1, <3>1, <3>2, <6>2 DEF TypeOK
            <6> QED
              BY <6>1, <6>2, <6>3, <6>4
          <5> QED
            BY <5>1, <5>2
        <4>2. ASSUME NEW q \in Made' PROVE readyState'[q] # "none"
          <5>1. CASE q = p
            BY <1>1, <3>1, <5>1 DEF TypeOK
          <5>2. CASE q # p
            <6>1. q \in Made /\ readyState[q] # "none"
              BY <1>1, <3>2, <4>2, <5>2 DEF PeersOk
            <6>2. readyState'[q] = readyState[q]
              BY <1>1, <3>1, <5>2, <6>1 DEF TypeOK
            <6> QED
              BY <6>1, <6>2
          <5> QED
            BY <5>1, <5>2
        <4>3. \A q \in Peer \ Made' :
                /\ readyState'[q] = "none"
                /\ sendQueue'[q] = <<>> /\ wire'[q] = <<>> /\ heard'[q] = <<>>
                /\ inbox'[q] = <<>>
          BY <1>1, <2>2, <3>1, <3>2 DEF TypeOK, PeersOk
        <4> QED
          BY <4>1, <4>2, <4>3 DEF PeersOk
      <3>5. ASSUME NEW q \in Peer
            PROVE  /\ sendQueue'[q] # <<>> \/ readyState'[q] = "connecting" =>
                         wire'[q] = <<>> /\ heard'[q] = <<>>
                   /\ readyState'[q] \in {"open", "closed"} => sendQueue'[q] = <<>>
                   /\ readyState'[q] \in {"connecting", "open", "closing"} => Stream(q)' # <<>>
        <4>1. CASE q = p
          <5>1. sendQueue'[p] # <<>> /\ readyState'[p] = "connecting"
            BY <1>1, <3>1 DEF TypeOK
          <5>2. Stream(p)' # <<>>
            <6>1. p = g \/ Stream(p)' = Stream(p)
              BY <2>1
            <6>2. PortMessage \in Message /\ sends' \in Message
              BY <1>2, <1>1, SocketPeersAssumption DEF Send, TypeOK, Message, PortMessage
            <6>3. Stream(p)' = (heard[p] \o wire[p]) \o sendQueue'[p]
              BY <2>2, <3>1 DEF Stream
            <6>4. sendQueue'[p] = <<PortMessage, sends'>>
              BY <1>1, <3>1 DEF TypeOK
            <6>5. (<<>> \o <<>>) \o <<PortMessage, sends'>> = <<PortMessage, sends'>>
              BY <6>2, ConcatEmptySeq
            <6> QED
              BY <3>3, <6>3, <6>4, <6>5
          <5> QED
            BY <2>2, <3>1, <3>3, <4>1, <5>1, <5>2
        <4>2. CASE q # p
          <5>1. /\ readyState'[q] = readyState[q] /\ sendQueue'[q] = sendQueue[q]
                /\ wire'[q] = wire[q] /\ heard'[q] = heard[q]
            BY <1>1, <2>2, <3>1, <4>2 DEF TypeOK
          <5>2. Stream(q)' = Stream(q)
            BY <5>1 DEF Stream
          <5> QED
            BY <1>1, <5>1, <5>2 DEF QueuesOk
        <4> QED
          BY <4>1, <4>2
      <3> QED
        BY <3>4, <3>5 DEF QueuesOk
    <2>4. CASE ~NeedsPeer(a)
      <3>1. PICK p \in Peer :
                /\ p = peers[a] /\ p \in Made
                /\ readyState[p] \in {"connecting", "open"}
                /\ \/ /\ readyState[p] = "open" /\ UNCHANGED sendQueue
                      /\ wire' = [wire EXCEPT ![p] = Append(@, sends')]
                   \/ /\ readyState[p] # "open" /\ UNCHANGED wire
                      /\ sendQueue' = [sendQueue EXCEPT ![p] = Append(@, sends')]
        BY <1>1, <1>2, <2>4 DEF Send, SendToPeer, NeedsPeer, PeersOk
      <3>2. /\ UNCHANGED <<peers, addr, readyState>> /\ Made' = Made
        BY <1>2, <2>4 DEF Send, SendToPeer, Made, made
      <3>3. \A q \in Peer \ {p} : sendQueue'[q] = sendQueue[q] /\ wire'[q] = wire[q]
        BY <1>1, <3>1 DEF TypeOK
      <3>4. PeersOk'
        BY <1>1, <2>2, <3>1, <3>2, <3>3 DEF PeersOk
      <3>5. readyState[p] = "connecting" => wire[p] = <<>> /\ heard[p] = <<>>
        BY <1>1 DEF QueuesOk
      <3>6. ASSUME NEW q \in Peer
            PROVE  /\ sendQueue'[q] # <<>> \/ readyState'[q] = "connecting" =>
                         wire'[q] = <<>> /\ heard'[q] = <<>>
                   /\ readyState'[q] \in {"open", "closed"} => sendQueue'[q] = <<>>
                   /\ readyState'[q] \in {"connecting", "open", "closing"} => Stream(q)' # <<>>
        <4>1. readyState[q] \in {"connecting", "open", "closing"} => Stream(q)' # <<>>
          BY <1>1, <2>1 DEF QueuesOk
        <4>2. CASE q = p
          BY <1>1, <2>2, <3>1, <3>2, <3>5, <4>1, <4>2 DEF QueuesOk
        <4>3. CASE q # p
          BY <1>1, <2>2, <3>2, <3>3, <4>1, <4>3 DEF QueuesOk
        <4> QED
          BY <4>2, <4>3
      <3> QED
        BY <3>4, <3>6 DEF QueuesOk
    <2> QED
      BY <2>3, <2>4
  <1>3. ASSUME UNCHANGED <<peers, addr, readyState, sendQueue, wire, heard, inbox>>
        PROVE  PeersOk' /\ QueuesOk'
    <2>1. \A q \in Peer : Stream(q)' = Stream(q)
      BY <1>3 DEF Stream
    <2>2. Made' = Made
      BY <1>3 DEF Made, made
    <2> QED
      BY <1>1, <1>3, <2>1, <2>2 DEF PeersOk, QueuesOk
  <1>4. CASE Bind \/ Receive \/ UNCHANGED vars
    BY <1>3, <1>4 DEF Bind, Receive, vars, sendVars, recvVars
  <1>5. CASE Close
    <2>1. /\ UNCHANGED <<addr, sendQueue, wire, heard, inbox>>
          /\ peers' = [a \in Addr |-> None]
          /\ readyState' = [p \in Peer |->
                 IF p \in Range(peers) /\ Live(p) THEN "closing" ELSE readyState[p]]
      BY <1>5 DEF Close, sendVars, recvVars
    <2>2. Made' = Made /\ \A q \in Peer : Stream(q)' = Stream(q)
      BY <2>1 DEF Made, made, Stream
    <2>3. \A q \in Peer :
             \/ readyState'[q] = readyState[q]
             \/ readyState'[q] = "closing" /\ readyState[q] \in {"connecting", "open"}
      BY <2>1 DEF Live
    <2>4. PeersOk'
      BY <1>1, <2>1, <2>2, <2>3 DEF PeersOk
    <2>5. QueuesOk'
      BY <1>1, <2>1, <2>2, <2>3 DEF QueuesOk
    <2> QED
      BY <2>4, <2>5
  <1>6. ASSUME NEW p \in Peer, Websocket(p) \/ Network(p)
        PROVE  PeersOk' /\ QueuesOk'
    <2>1. UNCHANGED addr /\ Made' = Made
      BY <1>6 DEF Websocket, Network, Open, TakeMessage, HandleClose, CloseFrame,
         ProxyReads, WireLost, ServerSends, Made, made
    <2>2. CASE Open(p)
      <3>1. /\ UNCHANGED <<peers, heard, inbox>> /\ readyState[p] = "connecting"
            /\ readyState'[p] = "open" /\ sendQueue'[p] = <<>>
            /\ \A q \in Peer \ {p} : /\ readyState'[q] = readyState[q] /\ wire'[q] = wire[q]
                                     /\ sendQueue'[q] = sendQueue[q]
        BY <1>1, <2>2 DEF Open, TypeOK, recvVars
      <3>2. \A q \in Peer : Stream(q)' = Stream(q)
        BY <2>2, OpenStreams
      <3>3. p \in Made
        BY <1>1, <3>1 DEF PeersOk
      <3>4. PeersOk'
        BY <1>1, <2>1, <3>1, <3>3 DEF PeersOk
      <3>5. QueuesOk'
        BY <1>1, <3>1, <3>2 DEF QueuesOk
      <3> QED
        BY <3>4, <3>5
    <2>3. CASE HandleClose(p)
      <3>1. /\ UNCHANGED <<wire, heard>>
            /\ readyState[p] # "none" /\ readyState'[p] = "closed" /\ sendQueue'[p] = <<>>
            /\ \A q \in Peer \ {p} : /\ readyState'[q] = readyState[q] /\ inbox'[q] = inbox[q]
                                     /\ sendQueue'[q] = sendQueue[q]
        BY <1>1, <2>3 DEF HandleClose, TypeOK
      <3>2. p \in Made
        BY <1>1, <3>1 DEF PeersOk
      <3>3. peers'[addr[p]] = None /\ \A a \in Addr \ {addr[p]} : peers'[a] = peers[a]
        BY <1>1, <2>3, <3>2 DEF HandleClose, RemovePeer, TypeOK
      <3>4. ASSUME NEW a \in Addr, peers'[a] # None
            PROVE  /\ peers'[a] \in Made' /\ addr'[peers'[a]] = a
                   /\ readyState'[peers'[a]] \in {"connecting", "open", "closing"}
        <4>1. a # addr[p] /\ peers'[a] = peers[a]
          BY <3>3, <3>4
        <4>2. peers[a] \in Made /\ peers[a] # p
          BY <1>1, <3>4, <4>1 DEF PeersOk
        <4> QED
          BY <1>1, <2>1, <3>1, <3>4, <4>1, <4>2 DEF PeersOk
      <3>5. PeersOk'
        BY <1>1, <2>1, <3>1, <3>2, <3>4 DEF PeersOk
      <3>6. QueuesOk'
        BY <1>1, <2>3, <3>1, CloseStreams DEF QueuesOk
      <3> QED
        BY <3>5, <3>6
    <2>4. CASE WireLost(p)
      <3>1. /\ UNCHANGED <<peers, readyState, sendQueue, heard, inbox>>
            /\ readyState[p] = "closed" /\ wire'[p] = <<>>
            /\ \A q \in Peer \ {p} : wire'[q] = wire[q]
        BY <1>1, <2>4 DEF WireLost, TypeOK, recvVars
      <3>2. PeersOk'
        BY <1>1, <2>1, <3>1 DEF PeersOk
      <3>3. QueuesOk'
        BY <1>1, <2>4, <3>1, CloseStreams DEF QueuesOk
      <3> QED
        BY <3>2, <3>3
    <2>5. CASE ProxyReads(p)
      <3>1. /\ UNCHANGED <<peers, readyState, sendQueue, inbox>> /\ wire[p] # <<>>
            /\ \A q \in Peer \ {p} : wire'[q] = wire[q] /\ heard'[q] = heard[q]
        BY <1>1, <2>5 DEF ProxyReads, TypeOK, recvVars
      <3>2. PeersOk'
        BY <1>1, <2>1, <3>1 DEF PeersOk
      <3>3. QueuesOk'
        BY <1>1, <2>5, <3>1, ReadStreams DEF QueuesOk
      <3> QED
        BY <3>2, <3>3
    <2>6. CASE TakeMessage(p) \/ ServerSends(p)
      <3>1. /\ UNCHANGED <<peers, readyState, sendQueue, wire, heard>> /\ readyState[p] = "open"
            /\ \A q \in Peer \ {p} : inbox'[q] = inbox[q]
        BY <1>1, <2>6 DEF TakeMessage, ServerSends, TypeOK, sendVars
      <3>2. p \in Made /\ \A q \in Peer : Stream(q)' = Stream(q)
        BY <1>1, <3>1 DEF PeersOk, Stream
      <3>3. PeersOk'
        BY <1>1, <2>1, <3>1, <3>2 DEF PeersOk
      <3>4. QueuesOk'
        BY <1>1, <3>1, <3>2 DEF QueuesOk
      <3> QED
        BY <3>3, <3>4
    <2>7. CASE CloseFrame(p)
      <3>1. /\ UNCHANGED <<peers, sendQueue, wire, heard, inbox>> /\ readyState[p] = "open"
            /\ readyState'[p] = "closing"
            /\ \A q \in Peer \ {p} : readyState'[q] = readyState[q]
        BY <1>1, <2>7 DEF CloseFrame, TypeOK, sendVars, recvVars
      <3>2. p \in Made /\ \A q \in Peer : Stream(q)' = Stream(q)
        BY <1>1, <3>1 DEF PeersOk, Stream
      <3>3. PeersOk'
        BY <1>1, <2>1, <3>1, <3>2 DEF PeersOk
      <3>4. QueuesOk'
        BY <1>1, <3>1, <3>2 DEF QueuesOk
      <3> QED
        BY <3>3, <3>4
    <2> QED
      BY <1>6, <2>2, <2>3, <2>4, <2>5, <2>6, <2>7 DEF Websocket, Network
  <1> QED
    BY <1>2, <1>4, <1>5, <1>6 DEF Next, Game

LEMMA NextSendInv ==
    ASSUME SendInv, [Next]_vars
    PROVE  SendInv'
  <1>1. TypeOK'
    BY NextType DEF SendInv
  <1> QED
    BY <1>1, NextStreams, NextPeersQueues DEF SendInv

\* The types are kept.
THEOREM TypeCorrect == Spec => []TypeOK
  <1>1. SendInv => TypeOK
    BY DEF SendInv
  <1> QED
    BY <1>1, InitSendInv, NextSendInv, PTL DEF Spec

\* Every session carries the port message, first and once, and then datagrams
\* in the order in which they were sent, and no datagram is in two sessions.
THEOREM StreamsCorrect == Spec => []StreamsOk
  <1>1. SendInv => StreamsOk
    BY DEF SendInv
  <1> QED
    BY <1>1, InitSendInv, NextSendInv, PTL DEF Spec

-----------------------------------------------------------------------------
(* Orphans *)

\* Who is registered is the latest peer of the address.
LatestRegistered ==
    \A p \in Made : peers[addr[p]] # None => p <= peers[addr[p]]

\* The peers and the addresses after a step: a new peer of an address that
\* has none or ends, an address that is cleared, or all of them.
LEMMA PeersStep ==
    ASSUME SendInv, [Next]_vars
    PROVE  \/ UNCHANGED <<peers, addr>>
           \/ \E a \in Addr : /\ NeedsPeer(a) /\ Made' = Made \cup {made + 1}
                              /\ peers' = [peers EXCEPT ![a] = made + 1]
                              /\ addr'[made + 1] = a
                              /\ \A p \in Made : addr'[p] = addr[p]
           \/ \E p \in Made : HandleClose(p) /\ UNCHANGED addr
           \/ Close /\ UNCHANGED addr
  <1>1. TypeOK /\ PeersOk /\ made \in Nat /\ Made \subseteq Peer
    BY MadeFacts DEF SendInv
  <1>2. ASSUME NEW a \in Addr, Send(a), NeedsPeer(a)
        PROVE  /\ Made' = Made \cup {made + 1}
               /\ peers' = [peers EXCEPT ![a] = made + 1]
               /\ addr'[made + 1] = a
               /\ \A p \in Made : addr'[p] = addr[p]
    <2>1. addr' = Append(addr, a) /\ peers' = [peers EXCEPT ![a] = made + 1]
      BY <1>2 DEF Send, CreatePeer
    <2>2. addr \in Seq(Addr) /\ Made = 1..Len(addr) /\ made = Len(addr)
      BY <1>1 DEF TypeOK, Made, made
    <2>3. /\ Len(addr') = Len(addr) + 1 /\ addr'[Len(addr) + 1] = a
          /\ \A i \in 1..Len(addr) : addr'[i] = addr[i]
      BY <2>1, <2>2, AppendProperties
    <2>4. Made' = 1..(Len(addr) + 1)
      BY <2>3 DEF Made, made
    <2>5. 1..(Len(addr) + 1) = (1..Len(addr)) \cup {Len(addr) + 1}
      BY <1>1, <2>2
    <2> QED
      BY <2>1, <2>2, <2>3, <2>4, <2>5
  <1>3. ASSUME NEW a \in Addr, Send(a), ~NeedsPeer(a)
        PROVE  UNCHANGED <<peers, addr>>
    BY <1>3 DEF Send, SendToPeer
  <1>4. ASSUME NEW p \in Peer, HandleClose(p)
        PROVE  p \in Made /\ UNCHANGED addr
    BY <1>1, <1>4 DEF PeersOk, HandleClose
  <1>5. ASSUME NEW p \in Peer, Websocket(p) \/ Network(p), ~HandleClose(p)
        PROVE  UNCHANGED <<peers, addr>>
    BY <1>5 DEF Websocket, Network, Open, TakeMessage, CloseFrame, ProxyReads,
       WireLost, ServerSends
  <1>6. Close => UNCHANGED addr
    BY DEF Close
  <1>7. CASE Bind \/ Receive \/ UNCHANGED vars
    BY <1>7 DEF Bind, Receive, vars
  <1> QED
    BY <1>2, <1>3, <1>4, <1>5, <1>6, <1>7 DEF Next, Game

LEMMA NextLatest ==
    ASSUME SendInv, LatestRegistered, [Next]_vars
    PROVE  LatestRegistered'
  <1>1. /\ TypeOK /\ made \in Nat /\ Made = 1..made
        /\ \A p \in Made : addr[p] \in Addr
    BY MadeFacts DEF SendInv, Made
  <1>2. CASE UNCHANGED <<peers, addr>>
    BY <1>2 DEF LatestRegistered, Made, made
  <1>3. CASE \E a \in Addr : /\ Made' = Made \cup {made + 1}
                             /\ peers' = [peers EXCEPT ![a] = made + 1]
                             /\ addr'[made + 1] = a
                             /\ \A p \in Made : addr'[p] = addr[p]
    <2>1. PICK a \in Addr : /\ Made' = Made \cup {made + 1}
                            /\ peers' = [peers EXCEPT ![a] = made + 1]
                            /\ addr'[made + 1] = a
                            /\ \A p \in Made : addr'[p] = addr[p]
      BY <1>3
    <2>2. /\ peers'[a] = made + 1
          /\ \A b \in Addr \ {a} : peers'[b] = peers[b]
      BY <1>1, <2>1 DEF TypeOK
    <2>3. SUFFICES ASSUME NEW p \in Made', peers'[addr'[p]] # None
                   PROVE  p <= peers'[addr'[p]]
      BY DEF LatestRegistered
    <2>4. CASE p = made + 1
      BY <1>1, <2>1, <2>2, <2>4
    <2>5. CASE p \in Made
      <3>1. addr'[p] = addr[p] /\ addr[p] \in Addr /\ p <= made
        BY <1>1, <2>1, <2>5
      <3>2. CASE addr[p] = a
        BY <1>1, <2>2, <2>5, <3>1, <3>2
      <3>3. CASE addr[p] # a
        BY <2>2, <2>3, <2>5, <3>1, <3>3 DEF LatestRegistered
      <3> QED
        BY <3>2, <3>3
    <2> QED
      BY <2>1, <2>3, <2>4, <2>5
  <1>4. CASE UNCHANGED addr /\ \A a \in Addr : peers'[a] \in {peers[a], None}
    <2>1. Made' = Made
      BY <1>4 DEF Made, made
    <2> QED
      BY <1>1, <1>4, <2>1 DEF LatestRegistered
  <1>5. Close \/ (\E p \in Made : HandleClose(p)) => \A a \in Addr : peers'[a] \in {peers[a], None}
    BY <1>1 DEF Close, HandleClose, RemovePeer, TypeOK
  <1> QED
    BY <1>2, <1>3, <1>4, <1>5, PeersStep

\* Only the close event of an older, replaced or orphaned websocket of the
\* same address takes a websocket in use out of the map.
THEOREM OrphansCorrect == Spec => OnlyOlderCloseOrphans
  <1>1. Init => LatestRegistered
    BY DEF Init, LatestRegistered, Made, made
  <1>2. ASSUME SendInv, LatestRegistered, [Next]_vars, NEW p \in Made,
               Live(p), Registered(p), Live(p)', ~Registered(p)'
        PROVE  \E q \in 1..(p - 1) :
                  /\ addr[q] = addr[p] /\ ~Registered(q)
                  /\ readyState[q] # "closed" /\ readyState'[q] = "closed"
    <2>1. /\ TypeOK /\ PeersOk /\ made \in Nat /\ Made = 1..made /\ Made \subseteq Peer
          /\ \A q \in Made : addr[q] \in Addr
      BY <1>2, MadeFacts DEF SendInv, Made
    <2>2. peers[addr[p]] = p /\ p # None /\ readyState[p] \in {"connecting", "open"}
      BY <1>2, <2>1 DEF Registered, Live, None
    <2>3. ~Close
      BY <1>2, <2>1, <2>2 DEF Close, Live, Range, TypeOK
    <2>4. ~UNCHANGED <<peers, addr>>
      BY <1>2 DEF Registered
    <2>5. ASSUME NEW a \in Addr, NeedsPeer(a),
                 peers' = [peers EXCEPT ![a] = made + 1],
                 \A q \in Made : addr'[q] = addr[q]
          PROVE  FALSE
      <3>1. a # addr[p]
        BY <2>2, <2>5 DEF NeedsPeer
      <3>2. peers'[addr'[p]] = peers[addr[p]]
        BY <2>1, <2>5, <3>1 DEF TypeOK
      <3> QED
        BY <1>2, <2>2, <3>2 DEF Registered
    <2>6. PICK q \in Made : HandleClose(q) /\ UNCHANGED addr
      BY <1>2, <2>3, <2>4, <2>5, PeersStep
    <2>7. readyState[q] # "closed" /\ readyState'[q] = "closed"
      BY <2>1, <2>6 DEF HandleClose, TypeOK
    <2>8. addr[q] = addr[p]
      BY <1>2, <2>1, <2>2, <2>6 DEF HandleClose, RemovePeer, Registered, TypeOK
    <2>9. q # p /\ ~Registered(q)
      BY <1>2, <2>2, <2>7, <2>8 DEF Live, Registered
    <2>10. q <= p
      BY <1>2, <2>2, <2>8 DEF LatestRegistered
    <2> QED
      BY <2>1, <2>7, <2>8, <2>9, <2>10
  <1>3. SendInv /\ LatestRegistered /\ [Next]_vars =>
            [\A p \in Made :
                (Live(p) /\ Registered(p)) /\ (Live(p)' /\ ~Registered(p)') =>
                    \E q \in 1..(p - 1) :
                        /\ addr[q] = addr[p] /\ ~Registered(q)
                        /\ readyState[q] # "closed" /\ readyState'[q] = "closed"]_vars
    BY <1>2
  <1> QED
    BY <1>1, <1>3, InitSendInv, NextSendInv, NextLatest, PTL DEF Spec, OnlyOlderCloseOrphans

-----------------------------------------------------------------------------
(* The socket implements a datagram socket: what the game sends *)

LEMMA SentMembers ==
    ASSUME NEW a \in Addr, NEW i
    PROVE  /\ i \in SentFlight[a] <=>
                 i \in Datagram /\ \E p \in Sessions(a) :
                     i \in Range(wire[p]) \cup Range(sendQueue[p])
           /\ i \in SentArrived[a] <=>
                 i \in Datagram /\ \E p \in Sessions(a) : i \in Range(heard[p])
  BY DEF SentFlight, SentArrived

\* The maps are functions of the addresses: equal where their values are.
LEMMA SentFunctions ==
    /\ SentFlight = [a \in Addr |-> SentFlight[a]]
    /\ SentArrived = [a \in Addr |-> SentArrived[a]]
    /\ SentFlight' = [a \in Addr |-> SentFlight'[a]]
    /\ SentArrived' = [a \in Addr |-> SentArrived'[a]]
  BY DEF SentFlight, SentArrived

\* A datagram that the proxy reads is nowhere else on its way.
LEMMA ReadOnce ==
    ASSUME SendInv, NEW p \in Peer, wire[p] # <<>>
    PROVE  /\ Head(wire[p]) \in Message
           /\ Range(wire[p]) = {Head(wire[p])} \cup Range(Tail(wire[p]))
           /\ Head(wire[p]) \notin Range(Tail(wire[p]))
           /\ sendQueue[p] = <<>>
           /\ Head(wire[p]) # PortMessage =>
                 \A q \in Peer \ {p} :
                     Head(wire[p]) \notin Range(wire[q]) \cup Range(sendQueue[q])
  <1>1. TypeOK /\ StreamsOk /\ QueuesOk
    BY DEF SendInv
  <1>2. /\ heard[p] \in Seq(Message) /\ wire[p] \in Seq(Message) /\ sendQueue[p] \in Seq(Message)
        /\ heard[p] \o wire[p] \in Seq(Message)
        /\ Increasing((heard[p] \o wire[p]) \o sendQueue[p])
    BY <1>1, ConcatProperties DEF TypeOK, StreamsOk, Stream
  <1>3. Increasing(wire[p])
    BY <1>2, IncreasingParts
  <1>4. \A q \in Peer : Range(wire[q]) \cup Range(sendQueue[q]) \subseteq Range(Stream(q))
    <2> TAKE q \in Peer
    <2>1. /\ heard[q] \in Seq(Message) /\ wire[q] \in Seq(Message) /\ sendQueue[q] \in Seq(Message)
          /\ heard[q] \o wire[q] \in Seq(Message)
      BY <1>1, ConcatProperties DEF TypeOK
    <2>2. Range(heard[q] \o wire[q]) = Range(heard[q]) \cup Range(wire[q])
      BY <2>1, RangeConcatenation
    <2>3. Range((heard[q] \o wire[q]) \o sendQueue[q])
              = Range(heard[q] \o wire[q]) \cup Range(sendQueue[q])
      BY <2>1, RangeConcatenation
    <2> QED
      BY <2>2, <2>3 DEF Stream
  <1>5. /\ Head(wire[p]) \in Message
        /\ Range(wire[p]) = {Head(wire[p])} \cup Range(Tail(wire[p]))
    BY <1>2, TailFacts
  <1>6. Head(wire[p]) \notin Range(Tail(wire[p]))
    BY <1>2, <1>3, HeadOnce
  <1>7. sendQueue[p] = <<>>
    BY <1>1 DEF QueuesOk
  <1>8. ASSUME NEW q \in Peer \ {p}, Head(wire[p]) # PortMessage
        PROVE  Head(wire[p]) \notin Range(wire[q]) \cup Range(sendQueue[q])
    <2>1. Head(wire[p]) \in Range(Stream(p))
      BY <1>4, <1>5
    <2>2. Head(wire[p]) \notin Range(Stream(q))
      BY <1>1, <1>8, <2>1 DEF StreamsOk
    <2> QED
      BY <1>4, <2>2
  <1> QED
    BY <1>5, <1>6, <1>7, <1>8

LEMMA SameSessions ==
    ASSUME UNCHANGED addr, NEW a \in Addr
    PROVE  Sessions(a)' = Sessions(a)
  BY DEF Sessions, Made, made

\* A datagram that is sent is on its way to its address.
LEMMA SendSends ==
    ASSUME SendInv, NEW a \in Addr, Send(a)
    PROVE  Sent!Send(a)
  <1> DEFINE n == sends + 1
  <1>1. /\ TypeOK /\ PeersOk /\ sends' = n /\ n \in Message /\ n # PortMessage
        /\ UNCHANGED heard /\ made \in Nat /\ Made \subseteq Peer /\ Made = 1..made
        /\ \A p \in Made : addr[p] \in Addr
    BY SocketPeersAssumption, MadeFacts
       DEF SendInv, TypeOK, Send, Message, PortMessage, Made
  <1> HIDE DEF n
  <1>2. PICK g \in Peer :
            /\ \A b \in Addr : Sessions(b)' = IF b = a THEN Sessions(b) \cup {g} ELSE Sessions(b)
            /\ g \in Sessions(a) \/ (heard[g] = <<>> /\ wire[g] = <<>> /\ sendQueue[g] = <<>>)
            /\ \A i \in Datagram :
                  i \in Range(wire'[g]) \cup Range(sendQueue'[g]) <=>
                      i = n \/ i \in Range(wire[g]) \cup Range(sendQueue[g])
            /\ \A p \in Peer \ {g} : wire'[p] = wire[p] /\ sendQueue'[p] = sendQueue[p]
    <2>1. CASE NeedsPeer(a)
      <3>1. PICK g \in Peer :
                /\ g = made + 1 /\ UNCHANGED wire /\ addr' = Append(addr, a)
                /\ sendQueue' = [sendQueue EXCEPT ![g] = <<PortMessage, n>>]
        BY <1>1, <2>1 DEF Send, CreatePeer
      <3>2. addr \in Seq(Addr) /\ made = Len(addr)
        BY <1>1 DEF TypeOK, made
      <3>3. /\ Len(addr') = g /\ addr'[g] = a
            /\ \A i \in 1..made : addr'[i] = addr[i]
        BY <3>1, <3>2, AppendProperties
      <3>4. Made' = Made \cup {g} /\ g \notin Made
        <4>1. Made' = 1..g
          BY <3>3 DEF Made, made
        <4> QED
          BY <1>1, <3>1, <4>1
      <3>5. \A b \in Addr : Sessions(b)' = IF b = a THEN Sessions(b) \cup {g} ELSE Sessions(b)
        BY <1>1, <3>3, <3>4 DEF Sessions
      <3>6. heard[g] = <<>> /\ wire[g] = <<>> /\ sendQueue[g] = <<>>
        BY <1>1, <3>4 DEF PeersOk
      <3>7. /\ sendQueue'[g] = <<PortMessage, n>>
            /\ \A p \in Peer \ {g} : sendQueue'[p] = sendQueue[p]
        BY <1>1, <3>1 DEF TypeOK
      <3>8. Range(<<PortMessage, n>>) = {PortMessage, n} /\ Range(<<>>) = {}
        BY DEF Range
      <3> QED
        BY <3>1, <3>5, <3>6, <3>7, <3>8 DEF Datagram
    <2>2. CASE ~NeedsPeer(a)
      <3>1. PICK g \in Peer : g = peers[a] /\ g \in Made /\ addr[g] = a
        BY <1>1, <2>2 DEF NeedsPeer, PeersOk
      <3>2. /\ UNCHANGED addr
            /\ \/ wire' = [wire EXCEPT ![g] = Append(@, n)] /\ UNCHANGED sendQueue
               \/ sendQueue' = [sendQueue EXCEPT ![g] = Append(@, n)] /\ UNCHANGED wire
        BY <1>1, <2>2, <3>1 DEF Send, SendToPeer
      <3>3. \A b \in Addr : Sessions(b)' = Sessions(b)
        BY <3>2, SameSessions
      <3>4. g \in Sessions(a)
        BY <3>1 DEF Sessions
      <3>5. /\ Range(Append(wire[g], n)) = Range(wire[g]) \cup {n}
            /\ Range(Append(sendQueue[g], n)) = Range(sendQueue[g]) \cup {n}
        <4>1. wire[g] \in Seq(Message) /\ sendQueue[g] \in Seq(Message)
          BY <1>1 DEF TypeOK
        <4> QED
          BY <1>1, <4>1, AppendFacts
      <3>6. \A p \in Peer \ {g} : wire'[p] = wire[p] /\ sendQueue'[p] = sendQueue[p]
        BY <1>1, <3>2 DEF TypeOK
      <3>7. \/ wire'[g] = Append(wire[g], n) /\ sendQueue'[g] = sendQueue[g]
            \/ sendQueue'[g] = Append(sendQueue[g], n) /\ wire'[g] = wire[g]
        BY <1>1, <3>2 DEF TypeOK
      <3>8. \A i : i \in Range(wire'[g]) \cup Range(sendQueue'[g]) <=>
                      i = n \/ i \in Range(wire[g]) \cup Range(sendQueue[g])
        <4>1. \/ /\ Range(wire'[g]) = Range(wire[g]) \cup {n}
                 /\ Range(sendQueue'[g]) = Range(sendQueue[g])
              \/ /\ Range(sendQueue'[g]) = Range(sendQueue[g]) \cup {n}
                 /\ Range(wire'[g]) = Range(wire[g])
          <5>1. CASE wire'[g] = Append(wire[g], n) /\ sendQueue'[g] = sendQueue[g]
            BY <3>5, <5>1
          <5>2. CASE sendQueue'[g] = Append(sendQueue[g], n) /\ wire'[g] = wire[g]
            BY <3>5, <5>2
          <5> QED
            BY <3>7, <5>1, <5>2
        <4> QED
          BY <4>1
      <3> QED
        BY <3>3, <3>4, <3>6, <3>8
    <2> QED
      BY <2>1, <2>2
  <1>3. \A b \in Addr : Sessions(b) \subseteq Peer
    BY <1>1 DEF Sessions
  <1>4. n \in Datagram
    BY <1>1 DEF Datagram
  <1>5. Range(<<>>) = {}
    BY DEF Range
  <1>6. ASSUME NEW b \in Addr
        PROVE  /\ SentFlight'[b] = IF b = a THEN SentFlight[b] \cup {n} ELSE SentFlight[b]
               /\ SentArrived'[b] = SentArrived[b]
    <2>1. SentFlight'[b] = {i \in Datagram : \E p \in Sessions(b)' :
                               i \in Range(wire'[p]) \cup Range(sendQueue'[p])}
      BY DEF SentFlight, Datagram
    <2>2. SentArrived'[b] = {i \in Datagram : \E p \in Sessions(b)' : i \in Range(heard'[p])}
      BY DEF SentArrived, Datagram
    <2>3. SentFlight[b] = {i \in Datagram : \E p \in Sessions(b) :
                              i \in Range(wire[p]) \cup Range(sendQueue[p])}
      BY DEF SentFlight
    <2>4. SentArrived[b] = {i \in Datagram : \E p \in Sessions(b) : i \in Range(heard[p])}
      BY DEF SentArrived
    <2>5. CASE b = a
      <3>1. Sessions(b)' = Sessions(b) \cup {g}
        BY <1>2, <2>5
      <3>2. SentArrived'[b] = SentArrived[b]
        BY <1>1, <1>2, <1>5, <2>2, <2>4, <2>5, <3>1
      <3>3. ASSUME NEW i \in Datagram
            PROVE  (\E p \in Sessions(b)' : i \in Range(wire'[p]) \cup Range(sendQueue'[p])) <=>
                       i = n \/ \E p \in Sessions(b) : i \in Range(wire[p]) \cup Range(sendQueue[p])
        <4>1. i \in Range(wire'[g]) \cup Range(sendQueue'[g]) <=>
                 i = n \/ i \in Range(wire[g]) \cup Range(sendQueue[g])
          BY <1>2
        <4>2. \A p \in Sessions(b) \ {g} : wire'[p] = wire[p] /\ sendQueue'[p] = sendQueue[p]
          BY <1>2, <1>3
        <4>3. g \in Sessions(b) \/ Range(wire[g]) \cup Range(sendQueue[g]) = {}
          BY <1>2, <1>5, <2>5
        <4> QED
          BY <3>1, <4>1, <4>2, <4>3
      <3> QED
        BY <1>4, <2>1, <2>3, <2>5, <3>2, <3>3
    <2>6. CASE b # a
      <3>1. Sessions(b)' = Sessions(b)
        BY <1>2, <2>6
      <3>2. g \notin Sessions(b) \/ (heard[g] = <<>> /\ wire[g] = <<>> /\ sendQueue[g] = <<>>)
        BY <1>2, <2>6 DEF Sessions
      <3>3. g \notin Sessions(b)
        BY <1>2, <1>3, <2>6, <3>1 DEF Sessions
      <3>4. \A p \in Sessions(b) : wire'[p] = wire[p] /\ sendQueue'[p] = sendQueue[p]
        BY <1>2, <1>3, <3>3
      <3> QED
        BY <1>1, <2>1, <2>2, <2>3, <2>4, <2>6, <3>1, <3>4
    <2> QED
      BY <2>5, <2>6
  <1>7. SentFlight' = [SentFlight EXCEPT ![a] = @ \cup {n}]
    BY <1>6, SentFunctions
  <1>8. SentArrived' = SentArrived
    BY <1>6, SentFunctions
  <1> QED
    BY <1>1, <1>7, <1>8 DEF Sent!Send, n

\* What the proxy reads has arrived, unless it is the port message.
LEMMA ReadArrives ==
    ASSUME SendInv, NEW p \in Peer, ProxyReads(p)
    PROVE  (\E a \in Addr : Sent!Arrive(a)) \/ UNCHANGED Sent!vars
  <1>1. /\ TypeOK /\ PeersOk /\ wire[p] # <<>> /\ UNCHANGED <<sendQueue, sends, addr>>
        /\ Made \subseteq Peer /\ \A q \in Made : addr[q] \in Addr
    BY MadeFacts DEF SendInv, ProxyReads
  <1>2. PICK x \in Message :
            /\ x = Head(wire[p])
            /\ Range(wire[p]) = {x} \cup Range(Tail(wire[p]))
            /\ x \notin Range(Tail(wire[p])) /\ sendQueue[p] = <<>>
            /\ x # PortMessage => \A q \in Peer \ {p} :
                   x \notin Range(wire[q]) \cup Range(sendQueue[q])
    BY <1>1, ReadOnce
  <1>3. /\ Range(wire'[p]) = Range(wire[p]) \ {x}
        /\ Range(heard'[p]) = Range(heard[p]) \cup {x}
        /\ \A q \in Peer \ {p} : wire'[q] = wire[q] /\ heard'[q] = heard[q]
    <2>1. wire'[p] = Tail(wire[p]) /\ heard'[p] = Append(heard[p], x) /\ heard[p] \in Seq(Message)
      BY <1>1, <1>2 DEF ProxyReads, TypeOK
    <2>2. Range(Append(heard[p], x)) = Range(heard[p]) \cup {x}
      BY <2>1, AppendFacts
    <2>3. \A q \in Peer \ {p} : wire'[q] = wire[q] /\ heard'[q] = heard[q]
      BY <1>1 DEF ProxyReads, TypeOK
    <2> QED
      BY <1>2, <2>1, <2>2, <2>3
  <1>4. Range(<<>>) = {}
    BY DEF Range
  <1>5. p \in Made
    BY <1>1 DEF PeersOk
  <1>6. \A b \in Addr : Sessions(b)' = Sessions(b) /\ Sessions(b) \subseteq Peer
    BY <1>1, SameSessions DEF Sessions
  <1>7. ASSUME NEW b \in Addr, NEW i \in Datagram
        PROVE  /\ i \in SentFlight'[b] <=> \E q \in Sessions(b) :
                      i \in Range(wire'[q]) \cup Range(sendQueue[q])
               /\ i \in SentFlight[b] <=> \E q \in Sessions(b) :
                      i \in Range(wire[q]) \cup Range(sendQueue[q])
               /\ i \in SentArrived'[b] <=> \E q \in Sessions(b) : i \in Range(heard'[q])
               /\ i \in SentArrived[b] <=> \E q \in Sessions(b) : i \in Range(heard[q])
    BY <1>1, <1>6 DEF SentFlight, SentArrived, Datagram
  <1>8. \A b \in Addr : /\ SentFlight[b] \subseteq Datagram /\ SentFlight'[b] \subseteq Datagram
                        /\ SentArrived[b] \subseteq Datagram /\ SentArrived'[b] \subseteq Datagram
    BY DEF SentFlight, SentArrived, Datagram
  <1>9. CASE x = PortMessage
    <2>1. ASSUME NEW b \in Addr, NEW i \in Datagram
          PROVE  /\ i \in SentFlight'[b] <=> i \in SentFlight[b]
                 /\ i \in SentArrived'[b] <=> i \in SentArrived[b]
      <3>1. i # x
        BY <1>9 DEF Datagram
      <3>2. \A q \in Peer : (i \in Range(wire'[q]) <=> i \in Range(wire[q]))
                            /\ (i \in Range(heard'[q]) <=> i \in Range(heard[q]))
        BY <1>3, <3>1
      <3> QED
        BY <1>6, <1>7, <3>2
    <2>2. \A b \in Addr : SentFlight'[b] = SentFlight[b] /\ SentArrived'[b] = SentArrived[b]
      BY <1>8, <2>1
    <2>3. SentFlight' = SentFlight /\ SentArrived' = SentArrived
      BY <2>2, SentFunctions
    <2> QED
      BY <1>1, <2>3 DEF Sent!vars
  <1>10. CASE x # PortMessage
    <2>1. PICK a \in Addr : a = addr[p]
      BY <1>1, <1>5
    <2>2. x \in Datagram
      BY <1>10 DEF Datagram
    <2>3. /\ p \in Sessions(a)
          /\ \A b \in Addr \ {a} : p \notin Sessions(b)
      BY <1>5, <2>1 DEF Sessions
    <2>4. x \in SentFlight[a]
      BY <1>2, <1>7, <2>2, <2>3
    <2>5. ASSUME NEW b \in Addr, NEW i \in Datagram
          PROVE  /\ i \in SentFlight'[b] <=> i \in SentFlight[b] /\ (b = a => i # x)
                 /\ i \in SentArrived'[b] <=> i \in SentArrived[b] \/ (b = a /\ i = x)
      <3>1. CASE b # a
        <4>1. \A q \in Sessions(b) : wire'[q] = wire[q] /\ heard'[q] = heard[q]
          BY <1>3, <1>6, <2>3, <3>1
        <4> QED
          BY <1>7, <3>1, <4>1
      <3>2. CASE b = a /\ i # x
        <4>1. \A q \in Peer : (i \in Range(wire'[q]) <=> i \in Range(wire[q]))
                              /\ (i \in Range(heard'[q]) <=> i \in Range(heard[q]))
          BY <1>3, <3>2
        <4> QED
          BY <1>6, <1>7, <3>2, <4>1
      <3>3. CASE b = a /\ i = x
        <4>1. \A q \in Peer : x \notin Range(wire'[q]) \cup Range(sendQueue[q])
          BY <1>2, <1>3, <1>4, <1>10
        <4>2. i \notin SentFlight'[b]
          BY <1>6, <1>7, <3>3, <4>1
        <4>3. i \in SentArrived'[b]
          BY <1>3, <1>7, <2>3, <3>3
        <4> QED
          BY <3>3, <4>2, <4>3
      <3> QED
        BY <3>1, <3>2, <3>3
    <2>6. \A b \in Addr :
             /\ SentFlight'[b] = IF b = a THEN SentFlight[b] \ {x} ELSE SentFlight[b]
             /\ SentArrived'[b] = IF b = a THEN SentArrived[b] \cup {x} ELSE SentArrived[b]
      BY <1>8, <2>2, <2>5
    <2>7. /\ SentFlight' = [SentFlight EXCEPT ![a] = @ \ {x}]
          /\ SentArrived' = [SentArrived EXCEPT ![a] = @ \cup {x}]
      BY <2>6, SentFunctions
    <2> QED
      BY <1>1, <2>4, <2>7 DEF Sent!Arrive
  <1> QED
    BY <1>9, <1>10

\* The end of a connection loses what it holds.
LEMMA CloseLoses ==
    ASSUME SendInv, NEW p \in Peer, HandleClose(p) \/ WireLost(p)
    PROVE  Sent!Lose
  <1>1. TypeOK /\ UNCHANGED <<heard, sends, addr>> /\ Made \subseteq Peer
    BY MadeFacts DEF SendInv, HandleClose, WireLost
  <1>2. Range(<<>>) = {}
    BY DEF Range
  <1>3. \A q \in Peer : /\ Range(wire'[q]) \subseteq Range(wire[q])
                        /\ Range(sendQueue'[q]) \subseteq Range(sendQueue[q])
    <2>1. \A q \in Peer : /\ wire'[q] = wire[q] \/ wire'[q] = <<>>
                          /\ sendQueue'[q] = sendQueue[q] \/ sendQueue'[q] = <<>>
      BY <1>1 DEF HandleClose, WireLost, TypeOK
    <2> TAKE q \in Peer
    <2>2. Range(wire'[q]) \subseteq Range(wire[q])
      BY <1>2, <2>1
    <2>3. Range(sendQueue'[q]) \subseteq Range(sendQueue[q])
      BY <1>2, <2>1
    <2> QED
      BY <2>2, <2>3
  <1>4. \A b \in Addr : Sessions(b)' = Sessions(b) /\ Sessions(b) \subseteq Peer
    BY <1>1, SameSessions DEF Sessions
  <1>5. ASSUME NEW b \in Addr
        PROVE  SentFlight'[b] \subseteq SentFlight[b] /\ SentArrived'[b] = SentArrived[b]
    <2>1. /\ SentFlight'[b] = {i \in Datagram : \E q \in Sessions(b) :
                                  i \in Range(wire'[q]) \cup Range(sendQueue'[q])}
          /\ SentArrived'[b] = {i \in Datagram : \E q \in Sessions(b) : i \in Range(heard[q])}
      BY <1>1, <1>4 DEF SentFlight, SentArrived, Datagram
    <2>2. /\ SentFlight[b] = {i \in Datagram : \E q \in Sessions(b) :
                                 i \in Range(wire[q]) \cup Range(sendQueue[q])}
          /\ SentArrived[b] = {i \in Datagram : \E q \in Sessions(b) : i \in Range(heard[q])}
      BY DEF SentFlight, SentArrived
    <2> QED
      BY <1>3, <1>4, <2>1, <2>2
  <1>6. SentArrived' = SentArrived
    BY <1>5, SentFunctions
  <1> QED
    BY <1>1, <1>5, <1>6, SentFunctions DEF Sent!Lose

\* Opening moves what waits to the websocket.
LEMMA OpenStutters ==
    ASSUME SendInv, NEW p \in Peer, Open(p)
    PROVE  UNCHANGED Sent!vars
  <1>1. /\ TypeOK /\ UNCHANGED <<heard, sends, addr>> /\ Made \subseteq Peer
        /\ wire'[p] = wire[p] \o sendQueue[p] /\ sendQueue'[p] = <<>>
        /\ \A q \in Peer \ {p} : wire'[q] = wire[q] /\ sendQueue'[q] = sendQueue[q]
    BY MadeFacts DEF SendInv, Open, TypeOK
  <1>2. Range(wire'[p]) \cup Range(sendQueue'[p]) = Range(wire[p]) \cup Range(sendQueue[p])
    <2>1. wire[p] \in Seq(Message) /\ sendQueue[p] \in Seq(Message)
      BY <1>1 DEF TypeOK
    <2>2. Range(wire[p] \o sendQueue[p]) = Range(wire[p]) \cup Range(sendQueue[p])
      BY <2>1, RangeConcatenation
    <2>3. Range(<<>>) = {}
      BY DEF Range
    <2> QED
      BY <1>1, <2>2, <2>3
  <1>3. \A b \in Addr : Sessions(b)' = Sessions(b) /\ Sessions(b) \subseteq Peer
    BY <1>1, SameSessions DEF Sessions
  <1>4. ASSUME NEW b \in Addr
        PROVE  SentFlight'[b] = SentFlight[b] /\ SentArrived'[b] = SentArrived[b]
    <2>1. /\ SentFlight'[b] = {i \in Datagram : \E q \in Sessions(b) :
                                  i \in Range(wire'[q]) \cup Range(sendQueue'[q])}
          /\ SentArrived'[b] = {i \in Datagram : \E q \in Sessions(b) : i \in Range(heard[q])}
      BY <1>1, <1>3 DEF SentFlight, SentArrived, Datagram
    <2>2. /\ SentFlight[b] = {i \in Datagram : \E q \in Sessions(b) :
                                 i \in Range(wire[q]) \cup Range(sendQueue[q])}
          /\ SentArrived[b] = {i \in Datagram : \E q \in Sessions(b) : i \in Range(heard[q])}
      BY DEF SentFlight, SentArrived
    <2>3. \A q \in Sessions(b) : Range(wire'[q]) \cup Range(sendQueue'[q])
                                     = Range(wire[q]) \cup Range(sendQueue[q])
      BY <1>1, <1>2, <1>3
    <2> QED
      BY <2>1, <2>2, <2>3
  <1>5. SentFlight' = SentFlight /\ SentArrived' = SentArrived
    BY <1>4, SentFunctions
  <1> QED
    BY <1>1, <1>5 DEF Sent!vars

LEMMA QuietStutters ==
    ASSUME UNCHANGED <<wire, sendQueue, heard, sends, addr>>
    PROVE  UNCHANGED Sent!vars
  BY DEF Sent!vars, SentFlight, SentArrived, Sessions, Datagram, Made, made

\* Every datagram of the game arrives at its address, once or not at all.
THEOREM SentCorrect == Spec => Sent!Spec
  <1>1. Init => Sent!Init
    <2> SUFFICES ASSUME Init PROVE Sent!Init
      OBVIOUS
    <2>1. Made = {} /\ sends = 0
      BY DEF Init, Made, made
    <2>2. \A a \in Addr : Sessions(a) = {}
      BY <2>1 DEF Sessions
    <2> QED
      BY <2>1, <2>2 DEF Sent!Init, SentFlight, SentArrived
  <1>2. ASSUME SendInv, [Next]_vars
        PROVE  [Sent!Next]_(Sent!vars)
    <2>1. ASSUME NEW a \in Addr, Send(a) PROVE Sent!Next
      BY <1>2, <2>1, SendSends DEF Sent!Next
    <2>2. CASE Bind \/ Receive \/ Close \/ UNCHANGED vars
      <3>1. UNCHANGED <<wire, sendQueue, heard, sends, addr>>
        BY <2>2 DEF Bind, Receive, Close, vars, sendVars
      <3> QED
        BY <3>1, QuietStutters
    <2>3. ASSUME NEW p \in Peer, Websocket(p) \/ Network(p)
          PROVE  [Sent!Next]_(Sent!vars)
      <3>1. CASE Open(p)
        BY <1>2, <3>1, OpenStutters
      <3>2. CASE HandleClose(p) \/ WireLost(p)
        BY <1>2, <3>2, CloseLoses DEF Sent!Next
      <3>3. CASE ProxyReads(p)
        <4>1. (\E a \in Addr : Sent!Arrive(a)) \/ UNCHANGED Sent!vars
          BY <1>2, <3>3, ReadArrives
        <4> QED
          BY <4>1 DEF Sent!Next
      <3>4. CASE TakeMessage(p) \/ CloseFrame(p) \/ ServerSends(p)
        <4>1. UNCHANGED <<wire, sendQueue, heard, sends, addr>>
          BY <3>4 DEF TakeMessage, CloseFrame, ServerSends, sendVars
        <4> QED
          BY <4>1, QuietStutters
      <3> QED
        BY <2>3, <3>1, <3>2, <3>3, <3>4 DEF Websocket, Network
    <2> QED
      BY <1>2, <2>1, <2>2, <2>3 DEF Next, Game
  <1> QED
    BY <1>1, <1>2, InitSendInv, NextSendInv, PTL DEF Spec, Sent!Spec

-----------------------------------------------------------------------------
(* The socket implements a datagram socket: what the game receives *)

Places == [from : Addr, reply : Reply]

\* A reply is in one place on its way, and was sent.
RepliesOk ==
    /\ \A p, q \in Peer : \A i \in DOMAIN inbox[p], j \in DOMAIN inbox[q] :
           inbox[p][i] = inbox[q][j] => p = q /\ i = j
    /\ \A i, j \in DOMAIN recvQueue : recvQueue[i].reply = recvQueue[j].reply => i = j
    /\ \A p \in Peer : \A i \in DOMAIN inbox[p], j \in DOMAIN recvQueue :
           inbox[p][i] # recvQueue[j].reply
    /\ \A p \in Peer : \A i \in DOMAIN inbox[p] : inbox[p][i] <= replies
    /\ \A j \in DOMAIN recvQueue : recvQueue[j].reply <= replies

ReplyInv == SendInv /\ RepliesOk

\* The values of a sequence and of what an action makes of it, by position.
LEMMA TailPositions ==
    ASSUME NEW S, NEW s \in Seq(S), s # <<>>
    PROVE  /\ DOMAIN s = 1..Len(s) /\ DOMAIN Tail(s) = 1..(Len(s) - 1)
           /\ Len(s) \in Nat \ {0} /\ Head(s) = s[1]
           /\ \A i \in DOMAIN Tail(s) : i + 1 \in DOMAIN s /\ Tail(s)[i] = s[i + 1]
  <1>1. /\ Len(s) \in Nat \ {0} /\ Tail(s) \in Seq(S) /\ Len(Tail(s)) = Len(s) - 1
        /\ \A i \in 1..Len(Tail(s)) : Tail(s)[i] = s[i + 1]
    BY HeadTailProperties, EmptySeq
  <1>2. DOMAIN s = 1..Len(s) /\ DOMAIN Tail(s) = 1..(Len(s) - 1)
    BY <1>1, LenProperties
  <1>3. Head(s) = s[1]
    OBVIOUS
  <1> QED
    BY <1>1, <1>2, <1>3

LEMMA AppendPositions ==
    ASSUME NEW S, NEW s \in Seq(S), NEW x \in S
    PROVE  /\ DOMAIN Append(s, x) = DOMAIN s \cup {Len(s) + 1}
           /\ Len(s) + 1 \notin DOMAIN s
           /\ \A i \in DOMAIN s : Append(s, x)[i] = s[i]
           /\ Append(s, x)[Len(s) + 1] = x
  <1>1. /\ Append(s, x) \in Seq(S) /\ Len(Append(s, x)) = Len(s) + 1
        /\ \A i \in 1..Len(s) : Append(s, x)[i] = s[i]
        /\ Append(s, x)[Len(s) + 1] = x
    BY AppendProperties
  <1>2. /\ DOMAIN s = 1..Len(s) /\ Len(s) \in Nat
        /\ DOMAIN Append(s, x) = 1..(Len(s) + 1)
    BY <1>1, LenProperties
  <1> QED
    BY <1>1, <1>2

LEMMA NextRepliesOk ==
    ASSUME ReplyInv, [Next]_vars
    PROVE  RepliesOk'
  <1>1. TypeOK /\ PeersOk /\ RepliesOk /\ replies \in Nat
    BY SocketPeersAssumption DEF ReplyInv, SendInv, TypeOK
  <1>2. CASE UNCHANGED <<inbox, recvQueue, replies>>
    BY <1>1, <1>2 DEF RepliesOk
  <1>3. CASE Receive
    <2>1. /\ recvQueue \in Seq(Places) /\ recvQueue # <<>>
          /\ recvQueue' = Tail(recvQueue) /\ UNCHANGED <<inbox, replies>>
      BY <1>1, <1>3 DEF Receive, TypeOK, Places
    <2>2. \A i \in DOMAIN recvQueue' : i + 1 \in DOMAIN recvQueue
                                       /\ recvQueue'[i] = recvQueue[i + 1] /\ i \in Nat
      BY <2>1, TailPositions
    <2>3. ASSUME NEW i \in DOMAIN recvQueue', NEW j \in DOMAIN recvQueue',
                 recvQueue'[i].reply = recvQueue'[j].reply
          PROVE  i = j
      <3>1. i + 1 = j + 1
        BY <1>1, <2>2, <2>3 DEF RepliesOk
      <3> QED
        BY <2>2, <3>1
    <2> QED
      BY <1>1, <2>1, <2>2, <2>3 DEF RepliesOk
  <1>4. ASSUME NEW p \in Peer, TakeMessage(p)
        PROVE  RepliesOk'
    <2>1. PICK x \in Reply :
              /\ inbox[p] \in Seq(Reply) /\ inbox[p] # <<>> /\ x = inbox[p][1]
              /\ inbox'[p] = Tail(inbox[p])
              /\ \A q \in Peer \ {p} : inbox'[q] = inbox[q]
              /\ recvQueue' = Append(recvQueue, [from |-> addr[p], reply |-> x])
              /\ UNCHANGED replies
      BY <1>1, <1>4, HeadTailProperties DEF TakeMessage, TypeOK
    <2>2. p \in Made /\ addr[p] \in Addr
      BY <1>1, <1>4, MadeFacts DEF TakeMessage, PeersOk
    <2>3. PICK n \in Nat :
              /\ DOMAIN recvQueue' = DOMAIN recvQueue \cup {n} /\ n \notin DOMAIN recvQueue
              /\ \A i \in DOMAIN recvQueue : recvQueue'[i] = recvQueue[i]
              /\ recvQueue'[n].reply = x
      <3>1. recvQueue \in Seq(Places) /\ [from |-> addr[p], reply |-> x] \in Places
        BY <1>1, <2>2 DEF TypeOK, Places
      <3>2. Len(recvQueue) + 1 \in Nat
        BY <3>1, LenProperties
      <3> QED
        BY <2>1, <3>1, <3>2, AppendPositions
    <2>4. /\ 1 \in DOMAIN inbox[p]
          /\ \A i \in DOMAIN inbox'[p] : i + 1 \in DOMAIN inbox[p] /\ i + 1 # 1
                                         /\ i \in Nat /\ inbox'[p][i] = inbox[p][i + 1]
      BY <2>1, TailPositions
    <2>5. \A q \in Peer : \A i \in DOMAIN inbox'[q] :
             \E k \in DOMAIN inbox[q] : /\ inbox'[q][i] = inbox[q][k]
                                        /\ k = IF q = p THEN i + 1 ELSE i
      BY <2>1, <2>4
    <2>6. ASSUME NEW q \in Peer, NEW r \in Peer, NEW i \in DOMAIN inbox'[q],
                 NEW j \in DOMAIN inbox'[r], inbox'[q][i] = inbox'[r][j]
          PROVE  q = r /\ i = j
      <3>1. PICK k \in DOMAIN inbox[q] : inbox'[q][i] = inbox[q][k]
                                         /\ k = IF q = p THEN i + 1 ELSE i
        BY <2>5
      <3>2. PICK l \in DOMAIN inbox[r] : inbox'[r][j] = inbox[r][l]
                                         /\ l = IF r = p THEN j + 1 ELSE j
        BY <2>5
      <3>3. inbox[q][k] = inbox[r][l]
        BY <2>6, <3>1, <3>2
      <3>4. q = r /\ k = l
        BY <1>1, <3>3 DEF RepliesOk
      <3>5. q = p => i \in Nat /\ j \in Nat
        BY <2>4, <3>4
      <3> QED
        BY <3>1, <3>2, <3>4, <3>5
    <2>7. ASSUME NEW q \in Peer, NEW i \in DOMAIN inbox'[q]
          PROVE  inbox'[q][i] # x /\ inbox'[q][i] <= replies
      <3>1. PICK k \in DOMAIN inbox[q] : inbox'[q][i] = inbox[q][k]
                                         /\ k = IF q = p THEN i + 1 ELSE i
        BY <2>5
      <3>2. inbox[q][k] <= replies
        BY <1>1 DEF RepliesOk
      <3>3. ~(q = p /\ k = 1)
        BY <2>4, <3>1
      <3> QED
        BY <1>1, <2>1, <2>4, <3>1, <3>2, <3>3 DEF RepliesOk
    <2>8. \A q \in Peer : \A i \in DOMAIN inbox'[q], j \in DOMAIN recvQueue' :
             inbox'[q][i] # recvQueue'[j].reply
      BY <1>1, <2>3, <2>5, <2>7 DEF RepliesOk
    <2>9. \A i, j \in DOMAIN recvQueue' :
             recvQueue'[i].reply = recvQueue'[j].reply => i = j
      <3>1. \A j \in DOMAIN recvQueue : recvQueue[j].reply # x
        BY <1>1, <2>1, <2>4 DEF RepliesOk
      <3> QED
        BY <1>1, <2>3, <3>1 DEF RepliesOk
    <2>10. \A j \in DOMAIN recvQueue' : recvQueue'[j].reply <= replies
      <3>1. x <= replies
        BY <1>1, <2>1, <2>4 DEF RepliesOk
      <3> QED
        BY <1>1, <2>3, <3>1 DEF RepliesOk
    <2> QED
      BY <2>1, <2>6, <2>7, <2>8, <2>9, <2>10 DEF RepliesOk
  <1>5. ASSUME NEW p \in Peer, HandleClose(p)
        PROVE  RepliesOk'
    <2>1. /\ inbox'[p] = <<>> /\ UNCHANGED <<recvQueue, replies>>
          /\ \A q \in Peer \ {p} : inbox'[q] = inbox[q]
      BY <1>1, <1>5 DEF HandleClose, TypeOK
    <2>2. \A q \in Peer : inbox'[q] = <<>> \/ inbox'[q] = inbox[q]
      BY <2>1
    <2>3. DOMAIN <<>> = {}
      OBVIOUS
    <2> QED
      BY <1>1, <2>1, <2>2, <2>3 DEF RepliesOk
  <1>6. ASSUME NEW p \in Peer, ServerSends(p)
        PROVE  RepliesOk'
    <2>1. /\ replies' = replies + 1 /\ UNCHANGED recvQueue
          /\ inbox'[p] = Append(inbox[p], replies')
          /\ \A q \in Peer \ {p} : inbox'[q] = inbox[q]
      BY <1>1, <1>6 DEF ServerSends, TypeOK
    <2>2. PICK n \in Nat :
              /\ DOMAIN inbox'[p] = DOMAIN inbox[p] \cup {n} /\ n \notin DOMAIN inbox[p]
              /\ \A i \in DOMAIN inbox[p] : inbox'[p][i] = inbox[p][i]
              /\ inbox'[p][n] = replies'
      <3>1. inbox[p] \in Seq(Nat) /\ Len(inbox[p]) + 1 \in Nat /\ replies' \in Nat
        <4>1. inbox[p] \in Seq(Reply) /\ Reply \subseteq Nat
          BY <1>1, SocketPeersAssumption DEF TypeOK, Reply
        <4>2. Len(inbox[p]) \in Nat
          BY <4>1, LenProperties
        <4>3. inbox[p] \in Seq(Nat)
          BY <4>1, SeqMonotonic
        <4> QED
          BY <1>1, <2>1, <4>2, <4>3
      <3> QED
        BY <2>1, <3>1, AppendPositions
    <2>3. /\ \A q \in Peer : \A i \in DOMAIN inbox[q] : inbox[q][i] \in Nat
          /\ \A j \in DOMAIN recvQueue : recvQueue[j].reply \in Nat
      <3>1. Reply \subseteq Nat /\ \A q \in Peer : inbox[q] \in Seq(Reply)
        BY <1>1, SocketPeersAssumption DEF TypeOK, Reply
      <3>2. recvQueue \in Seq(Places)
        BY <1>1 DEF TypeOK, Places
      <3>3. \A q \in Peer : \A i \in DOMAIN inbox[q] : inbox[q][i] \in Reply
        BY <3>1, LenProperties, ElementOfSeq
      <3>4. \A j \in DOMAIN recvQueue : recvQueue[j] \in Places
        BY <3>2, LenProperties, ElementOfSeq
      <3> QED
        BY <3>1, <3>3, <3>4 DEF Places
    <2>4. /\ \A q \in Peer : \A i \in DOMAIN inbox[q] : inbox[q][i] # replies'
          /\ \A j \in DOMAIN recvQueue : recvQueue[j].reply # replies'
      BY <1>1, <2>1, <2>3 DEF RepliesOk
    <2>5. \A q \in Peer : \A i \in DOMAIN inbox'[q] :
             \/ i \in DOMAIN inbox[q] /\ inbox'[q][i] = inbox[q][i]
             \/ q = p /\ i = n /\ inbox'[q][i] = replies'
      BY <2>1, <2>2
    <2>6. \A q, r \in Peer : \A i \in DOMAIN inbox'[q], j \in DOMAIN inbox'[r] :
             inbox'[q][i] = inbox'[r][j] => q = r /\ i = j
      BY <1>1, <2>4, <2>5 DEF RepliesOk
    <2>7. \A q \in Peer : \A i \in DOMAIN inbox'[q] :
             /\ inbox'[q][i] <= replies'
             /\ \A j \in DOMAIN recvQueue : inbox'[q][i] # recvQueue[j].reply
      BY <1>1, <2>1, <2>3, <2>4, <2>5 DEF RepliesOk
    <2>8. \A j \in DOMAIN recvQueue : recvQueue[j].reply <= replies'
      BY <1>1, <2>1, <2>3 DEF RepliesOk
    <2> QED
      BY <1>1, <2>1, <2>6, <2>7, <2>8 DEF RepliesOk
  <1>7. ASSUME NEW p \in Peer,
               Open(p) \/ CloseFrame(p) \/ ProxyReads(p) \/ WireLost(p)
        PROVE  UNCHANGED <<inbox, recvQueue, replies>>
    BY <1>7 DEF Open, CloseFrame, ProxyReads, WireLost, recvVars
  <1>8. ASSUME Bind \/ Close \/ UNCHANGED vars \/ \E a \in Addr : Send(a)
        PROVE  UNCHANGED <<inbox, recvQueue, replies>>
    BY <1>8 DEF Bind, Close, vars, Send, recvVars
  <1> QED
    BY <1>2, <1>3, <1>4, <1>5, <1>6, <1>7, <1>8 DEF Next, Game, Websocket, Network

LEMMA RepliedFunctions ==
    /\ RepliedFlight = [a \in Addr |-> RepliedFlight[a]]
    /\ RepliedFlight' = [a \in Addr |-> RepliedFlight'[a]]
  BY DEF RepliedFlight

LEMMA RepliedMembers ==
    ASSUME NEW a \in Addr, NEW i \in Reply
    PROVE  /\ i \in RepliedFlight[a] <=>
                  \/ \E p \in Sessions(a) : i \in Range(inbox[p])
                  \/ [from |-> a, reply |-> i] \in Range(recvQueue)
           /\ i \in RepliedFlight'[a] <=>
                  \/ \E p \in Sessions(a)' : i \in Range(inbox'[p])
                  \/ [from |-> a, reply |-> i] \in Range(recvQueue')
           /\ RepliedFlight[a] \subseteq Reply /\ RepliedFlight'[a] \subseteq Reply
  BY DEF RepliedFlight, Reply

\* Two maps with the same members are the same.
LEMMA SameReplied ==
    ASSUME \A a \in Addr : \A i \in Reply : i \in RepliedFlight'[a] <=> i \in RepliedFlight[a]
    PROVE  RepliedFlight' = RepliedFlight
  <1>1. \A a \in Addr : RepliedFlight'[a] = RepliedFlight[a]
    <2> TAKE a \in Addr
    <2>1. RepliedFlight[a] \subseteq Reply /\ RepliedFlight'[a] \subseteq Reply
      BY DEF RepliedFlight, Reply
    <2> QED
      BY <2>1
  <1> QED
    BY <1>1, RepliedFunctions

\* A new peer holds no reply.
LEMMA SendRepliesStutter ==
    ASSUME SendInv, NEW a \in Addr, Send(a)
    PROVE  UNCHANGED Replied!vars
  <1>1. /\ UNCHANGED <<inbox, recvQueue, replies, received>> /\ PeersOk
        /\ Made \subseteq Peer /\ made \in Nat /\ Made = 1..made
    BY MadeFacts DEF SendInv, Send, recvVars, Made
  <1>2. \/ UNCHANGED <<peers, addr>>
        \/ made + 1 \in Peer /\ Made' = Made \cup {made + 1} /\ \A p \in Made : addr'[p] = addr[p]
    <2>1. CASE NeedsPeer(a)
      <3>1. addr' = Append(addr, a) /\ made + 1 \in Peer
        BY <2>1 DEF Send, CreatePeer
      <3>2. addr \in Seq(Addr) /\ made = Len(addr)
        BY DEF SendInv, TypeOK, made
      <3>3. Len(addr') = made + 1 /\ \A i \in 1..made : addr'[i] = addr[i]
        BY <3>1, <3>2, AppendProperties
      <3>4. Made' = 1..(made + 1)
        BY <3>3 DEF Made, made
      <3> QED
        BY <1>1, <3>1, <3>3, <3>4
    <2>2. CASE ~NeedsPeer(a)
      BY <2>2 DEF Send, SendToPeer
    <2> QED
      BY <2>1, <2>2
  <1>3. Range(<<>>) = {}
    BY DEF Range
  <1>4. CASE UNCHANGED <<peers, addr>>
    BY <1>1, <1>4 DEF Replied!vars, RepliedFlight, Sessions, Made, made, Reply
  <1>5. CASE made + 1 \in Peer /\ Made' = Made \cup {made + 1} /\ \A p \in Made : addr'[p] = addr[p]
    <2>1. inbox[made + 1] = <<>>
      BY <1>1, <1>5 DEF PeersOk
    <2>2. ASSUME NEW b \in Addr, NEW i \in Reply
          PROVE  (\E p \in Sessions(b)' : i \in Range(inbox[p])) <=>
                     (\E p \in Sessions(b) : i \in Range(inbox[p]))
      BY <1>3, <1>5, <2>1 DEF Sessions
    <2>3. \A b \in Addr : \A i \in Reply : i \in RepliedFlight'[b] <=> i \in RepliedFlight[b]
      BY <1>1, <2>2, RepliedMembers
    <2> QED
      BY <1>1, <2>3, SameReplied DEF Replied!vars
  <1> QED
    BY <1>2, <1>4, <1>5

LEMMA ReplyStep ==
    ASSUME ReplyInv, [Next]_vars
    PROVE  [Replied!Next]_(Replied!vars)
  <1>1. TypeOK /\ PeersOk /\ RepliesOk /\ SendInv /\ Made \subseteq Peer
        /\ \A p \in Made : addr[p] \in Addr
    BY MadeFacts DEF ReplyInv, SendInv
  <1>2. \A a \in Addr : Sessions(a) \subseteq Peer
    BY <1>1 DEF Sessions
  <1>3. ASSUME NEW a \in Addr, Send(a) PROVE UNCHANGED Replied!vars
    BY <1>1, <1>3, SendRepliesStutter
  <1>4. ASSUME UNCHANGED <<addr, inbox, recvQueue, replies, received>>
        PROVE  UNCHANGED Replied!vars
    BY <1>4 DEF Replied!vars, RepliedFlight, Sessions, Made, made, Reply
  <1>5. CASE Bind \/ Close \/ UNCHANGED vars
    BY <1>4, <1>5 DEF Bind, Close, vars, recvVars
  <1>6. CASE Receive
    <2>1. /\ recvQueue \in Seq(Places) /\ recvQueue # <<>>
          /\ recvQueue' = Tail(recvQueue) /\ UNCHANGED <<addr, inbox, replies>>
          /\ received' = [received EXCEPT ![Head(recvQueue).from] = @ \cup {Head(recvQueue).reply}]
      BY <1>1, <1>6 DEF Receive, TypeOK, Places
    <2>2. PICK m \in Places :
              /\ m = Head(recvQueue) /\ m = recvQueue[1] /\ 1 \in DOMAIN recvQueue
              /\ Range(recvQueue) = {m} \cup Range(recvQueue')
      <3>1. Head(recvQueue) \in Places
            /\ Range(recvQueue) = {Head(recvQueue)} \cup Range(Tail(recvQueue))
        BY <2>1, TailFacts
      <3>2. Head(recvQueue) = recvQueue[1] /\ 1 \in DOMAIN recvQueue
        <4>1. /\ Head(recvQueue) = recvQueue[1] /\ DOMAIN recvQueue = 1..Len(recvQueue)
              /\ Len(recvQueue) \in Nat \ {0}
          BY <2>1, TailPositions
        <4> QED
          BY <4>1
      <3> QED
        BY <2>1, <3>1, <3>2
    <2>3. m.from \in Addr /\ m.reply \in Reply /\ m = [from |-> m.from, reply |-> m.reply]
      BY DEF Places
    <2>4. \A k \in Range(recvQueue') : k.reply # m.reply
      <3>1. \A i \in DOMAIN recvQueue' : i + 1 \in DOMAIN recvQueue /\ i + 1 # 1
                                         /\ recvQueue'[i] = recvQueue[i + 1]
        BY <2>1, TailPositions
      <3>2. \A i \in DOMAIN recvQueue' : recvQueue'[i].reply # m.reply
        BY <1>1, <2>2, <3>1 DEF RepliesOk
      <3> QED
        BY <3>2 DEF Range
    <2>5. \A p \in Peer : m.reply \notin Range(inbox[p])
      BY <1>1, <2>2 DEF RepliesOk, Range
    <2>6. \A b \in Addr : Sessions(b)' = Sessions(b)
      BY <2>1, SameSessions
    <2>7. ASSUME NEW b \in Addr, NEW i \in Reply
          PROVE  i \in RepliedFlight'[b] <=>
                     i \in RepliedFlight[b] /\ ~(b = m.from /\ i = m.reply)
      <3> DEFINE k == [from |-> b, reply |-> i]
      <3>1. k = m <=> b = m.from /\ i = m.reply
        BY <2>3
      <3>2. k \in Range(recvQueue) <=> k = m \/ k \in Range(recvQueue')
        BY <2>2
      <3>3. k \in Range(recvQueue') => i # m.reply
        BY <2>4
      <3>4. (\E p \in Sessions(b) : i \in Range(inbox[p])) => i # m.reply
        BY <1>2, <2>5
      <3> QED
        BY <2>1, <2>6, <3>1, <3>2, <3>3, <3>4, RepliedMembers
    <2>8. m.reply \in RepliedFlight[m.from]
      BY <2>2, <2>3, RepliedMembers
    <2>9. \A b \in Addr : RepliedFlight'[b] =
             IF b = m.from THEN RepliedFlight[b] \ {m.reply} ELSE RepliedFlight[b]
      <3>1. \A b \in Addr : RepliedFlight[b] \subseteq Reply /\ RepliedFlight'[b] \subseteq Reply
        BY DEF RepliedFlight, Reply
      <3> QED
        BY <2>3, <2>7, <3>1
    <2>10. RepliedFlight' = [RepliedFlight EXCEPT ![m.from] = @ \ {m.reply}]
      BY <2>9, RepliedFunctions
    <2> QED
      BY <2>1, <2>2, <2>3, <2>8, <2>10 DEF Replied!Next, Replied!Arrive
  <1>7. ASSUME NEW p \in Peer, TakeMessage(p)
        PROVE  UNCHANGED Replied!vars
    <2>1. p \in Made /\ addr[p] \in Addr
      BY <1>1, <1>7 DEF TakeMessage, PeersOk
    <2>2. PICK x \in Reply :
              /\ Range(inbox[p]) = {x} \cup Range(inbox'[p])
              /\ \A q \in Peer \ {p} : inbox'[q] = inbox[q]
              /\ Range(recvQueue') = Range(recvQueue) \cup {[from |-> addr[p], reply |-> x]}
      <3>1. /\ inbox[p] \in Seq(Reply) /\ inbox[p] # <<>> /\ inbox'[p] = Tail(inbox[p])
            /\ \A q \in Peer \ {p} : inbox'[q] = inbox[q]
            /\ recvQueue \in Seq(Places)
            /\ recvQueue' = Append(recvQueue, [from |-> addr[p], reply |-> Head(inbox[p])])
        BY <1>1, <1>7 DEF TakeMessage, TypeOK, Places
      <3>2. Head(inbox[p]) \in Reply /\ Range(inbox[p]) = {Head(inbox[p])} \cup Range(inbox'[p])
        BY <3>1, TailFacts
      <3>3. [from |-> addr[p], reply |-> Head(inbox[p])] \in Places
        BY <2>1, <3>2 DEF Places
      <3>4. Range(recvQueue') = Range(recvQueue)
                                    \cup {[from |-> addr[p], reply |-> Head(inbox[p])]}
        BY <3>1, <3>3, AppendFacts
      <3> QED
        BY <3>1, <3>2, <3>4
    <2>3. UNCHANGED <<addr, replies, received>>
      BY <1>7 DEF TakeMessage
    <2>4. \A b \in Addr : Sessions(b)' = Sessions(b)
      BY <2>3, SameSessions
    <2>5. ASSUME NEW b \in Addr, NEW i \in Reply
          PROVE  i \in RepliedFlight'[b] <=> i \in RepliedFlight[b]
      <3>1. CASE b = addr[p] /\ i = x
        <4>1. p \in Sessions(b) /\ i \in Range(inbox[p])
          BY <2>1, <2>2, <3>1 DEF Sessions
        <4>2. [from |-> b, reply |-> i] \in Range(recvQueue')
          BY <2>2, <3>1
        <4> QED
          BY <4>1, <4>2, RepliedMembers
      <3>2. CASE b # addr[p]
        <4>1. p \notin Sessions(b)
          BY <3>2 DEF Sessions
        <4>2. \A q \in Sessions(b) : inbox'[q] = inbox[q]
          BY <1>2, <2>2, <4>1
        <4>3. [from |-> b, reply |-> i] # [from |-> addr[p], reply |-> x]
          BY <3>2
        <4> QED
          BY <2>2, <2>4, <4>2, <4>3, RepliedMembers
      <3>3. CASE i # x
        <4>1. \A q \in Peer : i \in Range(inbox'[q]) <=> i \in Range(inbox[q])
          BY <2>2, <3>3
        <4>2. [from |-> b, reply |-> i] # [from |-> addr[p], reply |-> x]
          BY <3>3
        <4> QED
          BY <1>2, <2>2, <2>4, <4>1, <4>2, RepliedMembers
      <3> QED
        BY <3>1, <3>2, <3>3
    <2> QED
      BY <2>3, <2>5, SameReplied DEF Replied!vars
  <1>8. ASSUME NEW p \in Peer, HandleClose(p)
        PROVE  Replied!Lose
    <2>1. /\ UNCHANGED <<addr, replies, received, recvQueue>>
          /\ \A q \in Peer : inbox'[q] = <<>> \/ inbox'[q] = inbox[q]
      BY <1>1, <1>8 DEF HandleClose, TypeOK
    <2>2. \A b \in Addr : Sessions(b)' = Sessions(b)
      BY <2>1, SameSessions
    <2>3. Range(<<>>) = {}
      BY DEF Range
    <2>4. \A q \in Peer : \A i : i \in Range(inbox'[q]) => i \in Range(inbox[q])
      BY <2>1, <2>3
    <2>5. ASSUME NEW b \in Addr, NEW i \in Reply, i \in RepliedFlight'[b]
          PROVE  i \in RepliedFlight[b]
      BY <1>2, <2>1, <2>2, <2>4, <2>5, RepliedMembers
    <2>6. \A b \in Addr : RepliedFlight'[b] \subseteq RepliedFlight[b]
      <3>1. \A b \in Addr : RepliedFlight'[b] \subseteq Reply
        BY DEF RepliedFlight, Reply
      <3> QED
        BY <2>5, <3>1
    <2> QED
      BY <2>1, <2>6, RepliedFunctions DEF Replied!Lose
  <1>9. ASSUME NEW p \in Peer, ServerSends(p)
        PROVE  Replied!Send(addr[p]) /\ addr[p] \in Addr
    <2>1. /\ replies' = replies + 1 /\ UNCHANGED <<addr, recvQueue, received>>
          /\ inbox'[p] = Append(inbox[p], replies') /\ inbox[p] \in Seq(Reply)
          /\ \A q \in Peer \ {p} : inbox'[q] = inbox[q]
          /\ p \in Made /\ addr[p] \in Addr
      BY <1>1, <1>9 DEF ServerSends, TypeOK, PeersOk
    <2>2. replies' \in Reply
      BY <1>1, <1>9, SocketPeersAssumption DEF ServerSends, TypeOK, Reply
    <2>3. Range(inbox'[p]) = Range(inbox[p]) \cup {replies'}
      BY <2>1, <2>2, AppendFacts
    <2>4. \A b \in Addr : Sessions(b)' = Sessions(b)
      BY <2>1, SameSessions
    <2>5. ASSUME NEW b \in Addr, NEW i \in Reply
          PROVE  i \in RepliedFlight'[b] <=>
                     i \in RepliedFlight[b] \/ (b = addr[p] /\ i = replies')
      <3>1. CASE b # addr[p]
        <4>1. \A q \in Sessions(b) : inbox'[q] = inbox[q]
          BY <1>2, <2>1, <3>1 DEF Sessions
        <4> QED
          BY <2>1, <2>4, <3>1, <4>1, RepliedMembers
      <3>2. CASE b = addr[p]
        <4>1. p \in Sessions(b)
          BY <2>1, <3>2 DEF Sessions
        <4>2. \A q \in Sessions(b) : i \in Range(inbox'[q]) <=>
                  i \in Range(inbox[q]) \/ (q = p /\ i = replies')
          BY <1>2, <2>1, <2>3
        <4> QED
          BY <2>1, <2>4, <3>2, <4>1, <4>2, RepliedMembers
      <3> QED
        BY <3>1, <3>2
    <2>6. \A b \in Addr : RepliedFlight'[b] =
             IF b = addr[p] THEN RepliedFlight[b] \cup {replies'} ELSE RepliedFlight[b]
      <3>1. \A b \in Addr : RepliedFlight[b] \subseteq Reply /\ RepliedFlight'[b] \subseteq Reply
        BY DEF RepliedFlight, Reply
      <3> QED
        BY <2>2, <2>5, <3>1
    <2>7. RepliedFlight' = [RepliedFlight EXCEPT ![addr[p]] = @ \cup {replies'}]
      BY <2>6, RepliedFunctions
    <2> QED
      BY <2>1, <2>7 DEF Replied!Send
  <1>10. ASSUME NEW p \in Peer, Open(p) \/ CloseFrame(p) \/ ProxyReads(p) \/ WireLost(p)
         PROVE  UNCHANGED Replied!vars
    BY <1>4, <1>10 DEF Open, CloseFrame, ProxyReads, WireLost, recvVars
  <1> QED
    BY <1>3, <1>5, <1>6, <1>7, <1>8, <1>9, <1>10
       DEF Next, Game, Websocket, Network, Replied!Next

\* Every datagram of a server is read by the game as one of that server, once
\* or not at all.
THEOREM RepliedCorrect == Spec => Replied!Spec
  <1>1. Init => Replied!Init /\ RepliesOk
    <2> SUFFICES ASSUME Init PROVE Replied!Init /\ RepliesOk
      OBVIOUS
    <2>1. Made = {} /\ Range(<<>>) = {} /\ DOMAIN <<>> = {}
      BY DEF Init, Made, made, Range
    <2>2. \A a \in Addr : Sessions(a) = {}
      BY <2>1 DEF Sessions
    <2> QED
      BY <2>1, <2>2 DEF Init, Replied!Init, RepliedFlight, RepliesOk
  <1>2. ReplyInv /\ [Next]_vars => ReplyInv'
    BY NextSendInv, NextRepliesOk DEF ReplyInv
  <1>3. ReplyInv /\ [Next]_vars => [Replied!Next]_(Replied!vars)
    BY ReplyStep
  <1>4. Init => ReplyInv
    BY <1>1, InitSendInv DEF ReplyInv
  <1> QED
    BY <1>1, <1>2, <1>3, <1>4, PTL DEF Spec, Replied!Spec

\* The socket of the game is a datagram socket, in both directions.
THEOREM Implements == Spec => ImplementsDatagrams
  BY SentCorrect, RepliedCorrect DEF ImplementsDatagrams
=============================================================================
