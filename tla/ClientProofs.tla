----------------------------- MODULE ClientProofs -----------------------------
(***************************************************************************)
(* Proofs about the client server and about a session of its websocket     *)
(* proxy, for any number of messages and replies.                          *)
(*                                                                         *)
(* Both have goroutines that report how they ended on a channel with less  *)
(* room than there may be reports.                                         *)
(***************************************************************************)
EXTENDS Proxy, ClientServer, SequenceTheorems, TLAPS

\* What the two goroutines and the sockets are while the handler is where it is.
SocketsFollowHandler ==
    /\ handler = "upgrade" => ws = "none"
    /\ handler \in {"listen", "wait", "closeBackend", "closeWs"} => ws = "open"
    /\ handler \in {"upgrade", "listen"} => backend = "none"
    /\ handler \in {"wait", "closeBackend"} => backend = "open"
    /\ handler = "closeWs" => backend # "open"
    /\ backend = "none" => reader = "off" /\ writer = "off"

Ending == handler \in {"closeBackend", "closeWs", "done"}

\* While the browser is there an error is the end of the goroutine it is from,
\* and the reader fails to read only after the end of the writer.
OneEndsFirst ==
    browser = "there" =>
        /\ ~ctxDone
        /\ errc > 0 \/ (Ending /\ backend # "none") => reader = "done" \/ writer = "done"
        /\ reader \in {"readFailed", "writeClose", "closing"} => writer = "done"

ProxyInv == /\ TypeOK
            /\ SocketsClosed
            /\ SocketsFollowHandler
            /\ OneEndsFirst
            /\ PanicsOnlyWhenLeft
-----------------------------------------------------------------------------
LEMMA InitProxyInv == Init => ProxyInv
  <1>1. <<>> \in Seq(Message) /\ <<>> \in Seq(Nat)
    OBVIOUS
  <1>2. Init => TypeOK
    <2>1. 0 \in Nat /\ 0 \in 0..1 /\ 0 \in 0..MaxReplies /\ 0 \in 0..0
      BY ProxyAssumption
    <2> SUFFICES ASSUME Init PROVE TypeOK
      OBVIOUS
    <2>2. held \in Nat /\ replied \in 0..MaxReplies /\ replies \in 0..replied /\ errc \in 0..ErrcCap
      BY <2>1 DEF Init, ErrcCap
    <2>3. sent \in Seq(Message) /\ transit \in Seq(Nat) /\ forwarded \in Seq(Nat)
      BY <1>1 DEF Init
    <2> QED
      BY <2>2, <2>3, Zenon DEF Init, TypeOK
  <1> QED
    BY <1>2 DEF Init, ProxyInv, SocketsClosed, SocketsFollowHandler, OneEndsFirst,
       PanicsOnlyWhenLeft, Ending

\* Sequences of messages only grow by a message or lose their head.
LEMMA ReadMessageType ==
    ASSUME TypeOK, ReadMessage
    PROVE  transit' \in Seq(Nat) /\ held' \in Nat
  <1>1. /\ transit \in Seq(Nat) /\ transit # <<>>
        /\ transit' = Tail(transit) /\ held' = Head(transit)
    BY DEF TypeOK, ReadMessage
  <1> QED
    BY <1>1, HeadTailProperties

LEMMA ForwardType ==
    ASSUME TypeOK, Forward
    PROVE  forwarded' \in Seq(Nat)
  <1>1. /\ forwarded \in Seq(Nat) /\ held \in Nat
        /\ forwarded' = forwarded \/ forwarded' = Append(forwarded, held)
    BY DEF TypeOK, Forward
  <1> QED
    BY <1>1, AppendProperties

LEMMA SendType ==
    ASSUME TypeOK, NEW m \in Message, Send(m)
    PROVE  sent' \in Seq(Message) /\ transit' \in Seq(Nat)
  <1>1. /\ sent \in Seq(Message) /\ transit \in Seq(Nat)
        /\ sent' = Append(sent, m) /\ transit' = Append(transit, Len(sent'))
    BY DEF TypeOK, Send
  <1>2. sent' \in Seq(Message)
    BY <1>1, AppendProperties
  <1>3. Len(sent') \in Nat
    BY <1>2, LenProperties
  <1> QED
    BY <1>1, <1>2, <1>3, AppendProperties

LEMMA NextProxyInv == ProxyInv /\ [Next]_vars => ProxyInv'
  <1> SUFFICES ASSUME ProxyInv, [Next]_vars
               PROVE  ProxyInv'
    OBVIOUS
  <1> USE ProxyAssumption
          DEF ProxyInv, TypeOK, SocketsClosed, SocketsFollowHandler, OneEndsFirst,
              PanicsOnlyWhenLeft, Ending, ErrcCap
  <1>1. CASE Upgrade
    BY <1>1 DEF Upgrade, handlerVars, readerVars, writerVars, peerVars
  <1>2. CASE Listen
    BY <1>2 DEF Listen, handlerVars, readerVars, writerVars, peerVars
  <1>3. CASE ReceiveError
    <2>1. errc = 1 /\ errc' = 0
      BY <1>3 DEF ReceiveError
    <2> QED
      BY <1>3, <2>1 DEF ReceiveError, handlerVars, readerVars, writerVars, peerVars
  <1>4. CASE ContextDone
    BY <1>4 DEF ContextDone, handlerVars, readerVars, writerVars, peerVars
  <1>5. CASE CloseBackend
    BY <1>5 DEF CloseBackend, handlerVars, readerVars, writerVars, peerVars
  <1>6. CASE CloseWs
    BY <1>6 DEF CloseWs, handlerVars, readerVars, writerVars, peerVars
  <1>7. CASE ReadMessage
    <2>1. transit' \in Seq(Nat) /\ held' \in Nat
      BY <1>7, ReadMessageType
    <2> QED
      BY <1>7, <2>1 DEF ReadMessage, handlerVars, writerVars, peerVars
  <1>8. CASE ReadFails
    BY <1>8 DEF ReadFails, handlerVars, writerVars, peerVars
  <1>9. CASE Forward
    <2>1. forwarded' \in Seq(Nat)
      BY <1>9, ForwardType
    <2> QED
      BY <1>9, <2>1 DEF Forward, handlerVars, writerVars, peerVars
  <1>10. CASE ReaderReports
    BY <1>10 DEF ReaderReports, Report, handlerVars, writerVars, peerVars
  <1>11. CASE WriteClose
    BY <1>11 DEF WriteClose, BeginWrite, handlerVars, writerVars, peerVars
  <1>12. CASE CloseWritten
    BY <1>12 DEF CloseWritten, handlerVars, writerVars, peerVars
  <1>13. CASE ReadFrom
    BY <1>13 DEF ReadFrom, handlerVars, readerVars, peerVars
  <1>14. CASE Write
    BY <1>14 DEF Write, BeginWrite, handlerVars, readerVars, peerVars
  <1>15. CASE WriteFails
    BY <1>15 DEF WriteFails, handlerVars, readerVars, peerVars
  <1>16. CASE WriterReports
    BY <1>16 DEF WriterReports, Report, handlerVars, readerVars, peerVars
  <1>17. CASE WriteReturns
    BY <1>17 DEF WriteReturns, handlerVars, readerVars, peerVars
  <1>18. ASSUME NEW m \in Message, Send(m)
       PROVE  ProxyInv'
    <2>1. sent' \in Seq(Message) /\ transit' \in Seq(Nat)
      BY <1>18, SendType
    <2> QED
      BY <1>18, <2>1 DEF Send, handlerVars, writerVars
  <1>19. CASE Leave
    BY <1>19 DEF Leave, handlerVars, readerVars, writerVars
  <1>20. CASE SendInvalid
    BY <1>20 DEF SendInvalid, handlerVars, readerVars, writerVars
  <1>21. CASE Reply
    BY <1>21 DEF Reply, handlerVars, readerVars, writerVars
  <1>22. CASE CancelContext
    BY <1>22 DEF CancelContext, handlerVars, readerVars, writerVars
  <1>23. CASE UNCHANGED vars
    BY <1>23 DEF vars, handlerVars, readerVars, writerVars, peerVars
  <1> QED
    BY <1>1, <1>2, <1>3, <1>4, <1>5, <1>6, <1>7, <1>8, <1>9,
       <1>10, <1>11, <1>12, <1>13, <1>14, <1>15, <1>16, <1>17, <1>18, <1>19, <1>20, <1>21, <1>22, <1>23
       DEF Next, Handler, Reader, Writer, Peers

\* Every way out of ServeHTTP closes what it opened.
THEOREM NoSocketLeftOpen == Spec => []SocketsClosed
  BY InitProxyInv, NextProxyInv, PTL DEF Spec, ProxyInv

\* A panic for two concurrent writes needs a browser that has left or sent an
\* invalid frame: until then the goroutine that fails is over before the other
\* one writes.
THEOREM PanicsNeedALostBrowser == Spec => []PanicsOnlyWhenLeft
  BY InitProxyInv, NextProxyInv, PTL DEF Spec, ProxyInv
-----------------------------------------------------------------------------
(* The order of messages.                                                  *)

\* How many messages the reader has read.
NumRead == Len(sent) - Len(transit)

\* The messages that are not yet read are the last ones, in their order.
InTransit ==
    /\ NumRead \in Nat
    /\ \A i \in 1..Len(transit) : transit[i] = NumRead + i
    /\ reader = "off" => NumRead = 0

\* The reader has forwarded what it read and does not hold.
ReadIsForwarded ==
    /\ reader = "forward" => held = NumRead /\ held \in 1..Len(sent) /\ sent[held] = "game"
    /\ \A i \in 1..Len(forwarded) :
           /\ forwarded[i] \in 1..NumRead /\ sent[forwarded[i]] = "game"
           /\ reader = "forward" => forwarded[i] # held
    /\ \A k \in 1..NumRead :
           sent[k] = "game" =>
               \/ \E i \in 1..Len(forwarded) : forwarded[i] = k
               \/ k = NumRead /\ reader \notin {"off", "read"}

Increasing ==
    \A i, j \in 1..Len(forwarded) : i < j => forwarded[i] < forwarded[j]

OrderInv == TypeOK /\ InTransit /\ ReadIsForwarded /\ Increasing

LEMMA InitOrder == Init => OrderInv
  <1> SUFFICES ASSUME Init PROVE OrderInv
    OBVIOUS
  <1>1. TypeOK
    BY InitProxyInv DEF ProxyInv
  <1>2. Len(sent) = 0 /\ Len(transit) = 0 /\ Len(forwarded) = 0 /\ reader = "off"
    BY DEF Init
  <1> QED
    BY <1>1, <1>2 DEF OrderInv, InTransit, ReadIsForwarded, Increasing, NumRead

LEMMA ReadMessageOrder ==
    ASSUME OrderInv, TypeOK', ReadMessage
    PROVE  OrderInv'
  <1>1. /\ Len(sent) \in Nat /\ Len(transit) \in Nat \ {0} /\ Len(forwarded) \in Nat
        /\ Head(transit) = transit[1] /\ Len(transit') = Len(transit) - 1
        /\ \A i \in 1..Len(transit') : transit'[i] = transit[i + 1]
    BY HeadTailProperties, LenProperties, EmptySeq DEF ReadMessage, OrderInv, TypeOK
  <1>2. UNCHANGED <<sent, forwarded>> /\ reader = "read" /\ held' = transit[1]
    BY <1>1 DEF ReadMessage, peerVars
  <1>3. NumRead' = NumRead + 1 /\ NumRead \in Nat /\ transit[1] = NumRead + 1
        /\ NumRead + 1 \in 1..Len(sent)
    BY <1>1, <1>2 DEF NumRead, OrderInv, InTransit
  <1>4. reader' = IF sent[NumRead + 1] = "port" THEN "read" ELSE "forward"
    BY <1>1, <1>3 DEF ReadMessage
  <1>5. sent[NumRead + 1] \in {"port", "game"}
    BY <1>3, ElementOfSeq DEF OrderInv, TypeOK, Message
  <1>6. InTransit'
    BY <1>1, <1>3, <1>4 DEF OrderInv, InTransit
  <1>7. ReadIsForwarded'
    <2>1. reader' = "forward" => held' = NumRead' /\ held' \in 1..Len(sent') /\ sent'[held'] = "game"
      BY <1>2, <1>3, <1>4, <1>5
    <2>2. ASSUME NEW i \in 1..Len(forwarded')
          PROVE  /\ forwarded'[i] \in 1..NumRead' /\ sent'[forwarded'[i]] = "game"
                 /\ reader' = "forward" => forwarded'[i] # held'
      BY <1>2, <1>3 DEF OrderInv, ReadIsForwarded
    <2>3. ASSUME NEW k \in 1..NumRead', sent'[k] = "game"
          PROVE  \/ \E i \in 1..Len(forwarded') : forwarded'[i] = k
                 \/ k = NumRead' /\ reader' \notin {"off", "read"}
      BY <1>2, <1>3, <1>4, <2>3 DEF OrderInv, ReadIsForwarded
    <2> QED
      BY <2>1, <2>2, <2>3 DEF ReadIsForwarded
  <1> QED
    BY <1>2, <1>6, <1>7 DEF OrderInv, Increasing

LEMMA ForwardOrder ==
    ASSUME OrderInv, TypeOK', Forward
    PROVE  OrderInv'
  <1>1. /\ UNCHANGED <<sent, transit, held>> /\ NumRead' = NumRead
        /\ reader = "forward" /\ reader' \in {"read", "forwardFailed"}
    BY DEF Forward, peerVars, NumRead
  <1>2. InTransit'
    BY <1>1 DEF OrderInv, InTransit
  <1>3. CASE UNCHANGED forwarded /\ reader' = "forwardFailed"
    BY <1>1, <1>2, <1>3 DEF OrderInv, ReadIsForwarded, Increasing
  <1>4. CASE forwarded' = Append(forwarded, held) /\ reader' = "read"
    <2>1. /\ Len(forwarded) \in Nat /\ Len(forwarded') = Len(forwarded) + 1
          /\ forwarded'[Len(forwarded) + 1] = held
          /\ \A i \in 1..Len(forwarded) : forwarded'[i] = forwarded[i]
      BY <1>4, AppendProperties, LenProperties DEF OrderInv, TypeOK
    <2>2. /\ held = NumRead /\ NumRead \in Nat /\ held \in 1..NumRead /\ sent[held] = "game"
          /\ \A i \in 1..Len(forwarded) : forwarded[i] \in 1..NumRead /\ forwarded[i] < held
      BY <1>1 DEF OrderInv, InTransit, ReadIsForwarded
    <2>3. \A i \in 1..Len(forwarded') : i \in 1..Len(forwarded) \/ i = Len(forwarded) + 1
      BY <2>1
    <2>4. ReadIsForwarded'
      <3>1. ASSUME NEW i \in 1..Len(forwarded')
            PROVE  forwarded'[i] \in 1..NumRead' /\ sent'[forwarded'[i]] = "game"
        BY <1>1, <2>1, <2>2, <2>3 DEF OrderInv, ReadIsForwarded
      <3>2. ASSUME NEW k \in 1..NumRead', sent'[k] = "game"
            PROVE  \E i \in 1..Len(forwarded') : forwarded'[i] = k
        <4>1. CASE k = NumRead
          BY <2>1, <2>2, <4>1
        <4>2. CASE k # NumRead
          <5>1. PICK i \in 1..Len(forwarded) : forwarded[i] = k
            BY <1>1, <3>2, <4>2 DEF OrderInv, ReadIsForwarded
          <5> QED
            BY <2>1, <5>1
        <4> QED
          BY <4>1, <4>2
      <3> QED
        BY <1>4, <3>1, <3>2 DEF ReadIsForwarded
    <2>5. Increasing'
      <3> SUFFICES ASSUME NEW i \in 1..Len(forwarded'), NEW j \in 1..Len(forwarded'), i < j
                   PROVE  forwarded'[i] < forwarded'[j]
        BY DEF Increasing
      <3>1. i \in 1..Len(forwarded)
        BY <2>1
      <3> QED
        BY <2>1, <2>2, <2>3, <3>1 DEF OrderInv, Increasing
    <2> QED
      BY <1>2, <2>4, <2>5 DEF OrderInv
  <1> QED
    BY <1>3, <1>4 DEF Forward

LEMMA SendOrder ==
    ASSUME OrderInv, TypeOK', NEW m \in Message, Send(m)
    PROVE  OrderInv'
  <1>1. UNCHANGED <<forwarded, reader, held>> /\ sent' = Append(sent, m)
        /\ transit' = Append(transit, Len(sent'))
    BY DEF Send
  <1>2. /\ Len(sent) \in Nat /\ Len(sent') = Len(sent) + 1
        /\ \A k \in 1..Len(sent) : sent'[k] = sent[k]
        /\ Len(transit) \in Nat /\ Len(transit') = Len(transit) + 1
    BY <1>1, AppendProperties, LenProperties DEF OrderInv, TypeOK
  <1>3. /\ transit'[Len(transit) + 1] = Len(sent')
        /\ \A i \in 1..Len(transit) : transit'[i] = transit[i]
    BY <1>1, <1>2, AppendProperties DEF OrderInv, TypeOK
  <1>4. NumRead' = NumRead /\ NumRead \in Nat /\ NumRead <= Len(sent)
    BY <1>2 DEF NumRead, OrderInv, InTransit
  <1>5. InTransit'
    <2>1. ASSUME NEW i \in 1..Len(transit')
          PROVE  transit'[i] = NumRead' + i
      <3>1. CASE i = Len(transit) + 1
        <4>1. NumRead + (Len(transit) + 1) = Len(sent) + 1
          BY <1>2 DEF NumRead
        <4> QED
          BY <1>2, <1>3, <1>4, <3>1, <4>1
      <3>2. CASE i # Len(transit) + 1
        <4>1. i \in 1..Len(transit)
          BY <1>2, <3>2
        <4> QED
          BY <1>3, <1>4, <4>1 DEF OrderInv, InTransit
      <3> QED
        BY <3>1, <3>2
    <2> QED
      BY <1>1, <1>4, <2>1 DEF OrderInv, InTransit
  <1>6. ReadIsForwarded'
    <2>1. \A k \in 1..NumRead : sent'[k] = sent[k]
      BY <1>2, <1>4
    <2>2. reader' = "forward" => held' = NumRead' /\ held' \in 1..Len(sent') /\ sent'[held'] = "game"
      BY <1>1, <1>2, <1>4, <2>1 DEF OrderInv, ReadIsForwarded
    <2> QED
      BY <1>1, <1>4, <2>1, <2>2 DEF OrderInv, ReadIsForwarded
  <1> QED
    BY <1>1, <1>5, <1>6 DEF OrderInv, Increasing

\* The other steps move no message.
LEMMA OtherOrder ==
    ASSUME OrderInv, TypeOK', UNCHANGED <<sent, transit, forwarded, held>>,
           \/ UNCHANGED reader
           \/ reader = "off" /\ reader' = "read"
           \/ reader' \notin {"off", "read", "forward"}
    PROVE  OrderInv'
  BY DEF OrderInv, InTransit, ReadIsForwarded, Increasing, NumRead

LEMMA NextOrder == ProxyInv /\ OrderInv /\ [Next]_vars => OrderInv'
  <1> SUFFICES ASSUME ProxyInv, OrderInv, [Next]_vars
               PROVE  OrderInv'
    OBVIOUS
  <1>t. TypeOK'
    BY NextProxyInv DEF ProxyInv
  <1> USE DEF handlerVars, readerVars, writerVars, peerVars
  <1>1. CASE ReadMessage
    BY <1>1, <1>t, ReadMessageOrder
  <1>2. CASE Forward
    BY <1>2, <1>t, ForwardOrder
  <1>3. ASSUME NEW m \in Message, Send(m)
        PROVE  OrderInv'
    BY <1>3, <1>t, SendOrder
  <1>4. CASE Upgrade \/ ReceiveError \/ ContextDone \/ CloseBackend \/ CloseWs
    BY <1>4, <1>t, OtherOrder DEF Upgrade, ReceiveError, ContextDone, CloseBackend, CloseWs
  <1>5. CASE Listen
    <2>1. reader = "off"
      BY <1>5 DEF Listen, ProxyInv, SocketsFollowHandler
    <2> QED
      BY <1>5, <1>t, <2>1, OtherOrder DEF Listen
  <1>6. CASE ReadFails \/ ReaderReports \/ WriteClose \/ CloseWritten
    BY <1>6, <1>t, OtherOrder DEF ReadFails, ReaderReports, WriteClose, CloseWritten
  <1>7. CASE Writer \/ WriteReturns
    BY <1>7, <1>t, OtherOrder
       DEF Writer, ReadFrom, Write, WriteReturns, WriteFails, WriterReports
  <1>8. CASE SendInvalid \/ Leave \/ Reply \/ CancelContext \/ UNCHANGED vars
    BY <1>8, <1>t, OtherOrder DEF SendInvalid, Leave, Reply, CancelContext, vars
  <1> QED
    BY <1>1, <1>2, <1>3, <1>4, <1>5, <1>6, <1>7, <1>8 DEF Next, Handler, Reader, Peers

LEMMA OrderImplies == OrderInv => ForwardsInOrder
  <1> SUFFICES ASSUME OrderInv PROVE ForwardsInOrder
    OBVIOUS
  <1>1. /\ DOMAIN forwarded = 1..Len(forwarded) /\ DOMAIN sent = 1..Len(sent)
        /\ Len(sent) \in Nat /\ Len(transit) \in Nat
    BY LenProperties DEF OrderInv, TypeOK
  <1>2. NumRead \in Nat /\ NumRead <= Len(sent)
    BY <1>1 DEF OrderInv, InTransit, NumRead
  <1>3. ASSUME NEW i \in 1..Len(forwarded), NEW k \in 1..Len(sent), k <= forwarded[i]
        PROVE  sent[k] = "game" <=> k \in Range(forwarded)
    <2>1. forwarded[i] \in 1..NumRead /\ k \in 1..NumRead
      BY <1>2, <1>3 DEF OrderInv, ReadIsForwarded
    <2>2. ASSUME sent[k] = "game" PROVE \E j \in 1..Len(forwarded) : forwarded[j] = k
      <3>1. CASE k = forwarded[i]
        BY <3>1
      <3>2. CASE k # forwarded[i]
        BY <1>2, <1>3, <2>1, <2>2, <3>2 DEF OrderInv, ReadIsForwarded
      <3> QED
        BY <3>1, <3>2
    <2>3. ASSUME k \in Range(forwarded) PROVE sent[k] = "game"
      BY <1>1, <2>3 DEF Range, OrderInv, ReadIsForwarded
    <2> QED
      BY <1>1, <2>2, <2>3 DEF Range
  <1> QED
    BY <1>1, <1>3 DEF ForwardsInOrder, OrderInv, Increasing

\* The game server gets the browser's messages in order, each once, with no gap
\* and without the port messages, wherever the session ends.
THEOREM MessagesKeepTheirOrder == Spec => []ForwardsInOrder
  <1>1. Init => ProxyInv /\ OrderInv
    BY InitProxyInv, InitOrder
  <1>2. ProxyInv /\ OrderInv /\ [Next]_vars => (ProxyInv /\ OrderInv)'
    BY NextProxyInv, NextOrder
  <1> QED
    BY <1>1, <1>2, OrderImplies, PTL DEF Spec

-----------------------------------------------------------------------------
(* The end of the goroutines.                                              *)

\* How many of the two goroutines have reported their error.
Reports ==
    (IF reader \in {"writeClose", "closing", "done"} THEN 1 ELSE 0)
        + (IF writer = "done" THEN 1 ELSE 0)

\* The handler takes one of the errors, or leaves for the end of the context.
ErrorsCounted ==
    /\ reader = "off" <=> writer = "off"
    /\ backend # "none" => ws # "none"
    /\ ~Ending => errc = Reports
    /\ Ending /\ reader # "off" => errc = Reports - 1 \/ (ctxDone /\ errc = Reports)

\* Once the handler has returned, a goroutine that is left finds room in errc
\* for its error and every socket it waits for closed. A context that is
\* cancelled makes the exception: the first of two errors takes the room.
LeftGoroutinesGoOn ==
    handler = "done" /\ ~ctxDone =>
        /\ reader \in {"readFailed", "forwardFailed"} \/ writer = "failed" => errc < ErrcCap
        /\ reader = "read" \/ writer = "writing" => ws = "closed"
        /\ writer = "read" => backend = "closed"

LEMMA ErrorsCountedStep == ProxyInv /\ ErrorsCounted /\ [Next]_vars => ErrorsCounted'
  <1> SUFFICES ASSUME ProxyInv, ErrorsCounted, [Next]_vars
               PROVE  ErrorsCounted'
    OBVIOUS
  <1> USE DEF ErrorsCounted, Reports, Ending, ErrcCap, ProxyInv, TypeOK, SocketsFollowHandler,
              handlerVars, readerVars, writerVars, peerVars
  <1>1. CASE Upgrade \/ ContextDone \/ CloseBackend \/ CloseWs
    BY <1>1 DEF Upgrade, ContextDone, CloseBackend, CloseWs
  <1>2. CASE Listen
    BY <1>2 DEF Listen
  <1>3. CASE ReceiveError
    BY <1>3 DEF ReceiveError
  <1>4. CASE ReadMessage \/ ReadFails \/ Forward \/ WriteClose \/ CloseWritten
    BY <1>4 DEF ReadMessage, ReadFails, Forward, WriteClose, CloseWritten
  <1>5. CASE ReaderReports
    BY <1>5 DEF ReaderReports, Report
  <1>6. CASE WriterReports
    BY <1>6 DEF WriterReports, Report
  <1>7. CASE ReadFrom \/ Write \/ WriteFails \/ WriteReturns
    BY <1>7 DEF ReadFrom, Write, WriteFails, WriteReturns
  <1>8. CASE Peers
    BY <1>8 DEF Peers, Send, SendInvalid, Leave, Reply, CancelContext
  <1>9. CASE UNCHANGED vars
    BY <1>9 DEF vars
  <1> QED
    BY <1>1, <1>2, <1>3, <1>4, <1>5, <1>6, <1>7, <1>8, <1>9 DEF Next, Handler, Reader, Writer

\* No goroutine is left waiting for ever after the handler: the second error
\* finds room in errc, and what the goroutines wait for is closed.
THEOREM NobodyIsLeftWaiting == Spec => []LeftGoroutinesGoOn
  <1>1. Init => ErrorsCounted
    BY DEF Init, ErrorsCounted, Reports, Ending
  <1>2. ProxyInv /\ ErrorsCounted => LeftGoroutinesGoOn
    BY DEF ProxyInv, TypeOK, SocketsClosed, SocketsFollowHandler, ErrorsCounted, Reports, Ending,
       ErrcCap, LeftGoroutinesGoOn
  <1> QED
    BY <1>1, <1>2, InitProxyInv, NextProxyInv, ErrorsCountedStep, PTL DEF Spec

-----------------------------------------------------------------------------
(* The client server: whoever reports an error finds room for it.          *)

\* Every goroutine reports at most once, at its end.
Reported ==
    (IF mux = "done" THEN 1 ELSE 0)
        + (IF srv["http"] = "done" THEN 1 ELSE 0) + (IF srv["ws"] = "done" THEN 1 ELSE 0)

\* Where Serve is says what it has started and which servers it shuts down.
PhasesOfServe ==
    /\ serve \in Shutting => cancelled
    /\ serve \in Shutting \ {"downHttp"} \/ "ws" \in down => "http" \in down
    /\ serve \in {"listen", "setup"} => mux = "off"
    /\ serve \in {"select"} \cup Shutting => mux # "off"
    /\ mux = "off" =>
           down = {} /\ \A s \in Servers : srv[s] \in {"off", "launched", "accepting"}

\* Serve takes one of the errors, or leaves for the end of the context.
ReportsCounted ==
    /\ errChan <= Reported
    /\ serve = "returned" /\ ~cancelled => errChan < Reported \/ mux = "off"

\* As long as the listener does not fail by itself it is the shutdown of the
\* http server that closes it, and that server then ends without an error.
ClosedByShutdown ==
    ~broken =>
        /\ "http" \notin down =>
               /\ listener # "closed" /\ mux \in {"off", "accepting"}
               /\ \A s \in Servers : srv[s] \in {"off", "launched", "accepting"}
        /\ srv["http"] # "failed"
        /\ errChan <= (IF mux = "done" THEN 1 ELSE 0) + (IF srv["ws"] = "done" THEN 1 ELSE 0)

ServeInv == ServerTypeOK /\ PhasesOfServe /\ ReportsCounted /\ ClosedByShutdown

LEMMA InitServe == ServerInit => ServeInv
  <1> SUFFICES ASSUME ServerInit PROVE ServeInv
    OBVIOUS
  <1> USE DEF ServerInit, Servers
  <1>1. ServerTypeOK
    <2>1. srv \in [Servers -> {"off", "launched", "accepting", "failed", "done"}]
      OBVIOUS
    <2>2. errChan \in 0..ErrChanCap
      BY DEF ErrChanCap
    <2> QED
      BY <2>1, <2>2, Zenon DEF ServerTypeOK, Shutting
  <1>2. PhasesOfServe
    BY DEF PhasesOfServe, Shutting
  <1>3. ReportsCounted /\ ClosedByShutdown
    BY DEF ReportsCounted, ClosedByShutdown, Reported
  <1> QED
    BY <1>1, <1>2, <1>3 DEF ServeInv

\* Serve itself.
LEMMA ServeStep == ServeInv /\ Serve => ServeInv'
  <1> SUFFICES ASSUME ServeInv, Serve PROVE ServeInv'
    OBVIOUS
  <1> USE DEF ServeInv, PhasesOfServe, ReportsCounted, ClosedByShutdown, Reported,
              ServerTypeOK, Servers, Shutting, ErrChanCap, clientVars
  <1>1. CASE ListenAndServe
    BY <1>1 DEF ListenAndServe
  <1>2. CASE SetUp
    BY <1>2 DEF SetUp
  <1>3. CASE TakeError
    BY <1>3 DEF TakeError
  <1>4. CASE ContextEnds
    BY <1>4 DEF ContextEnds
  <1>5. CASE BeginShutdown("http", "downHttp", "drainHttp")
    BY <1>5 DEF BeginShutdown
  <1>6. CASE BeginShutdown("ws", "downWs", "drainWs")
    BY <1>6 DEF BeginShutdown
  <1>7. CASE Drain("http", "drainHttp", "downWs") \/ Drain("ws", "drainWs", "close")
    <2>1. /\ serve' \in {"downWs", "close"} /\ serve \in {"drainHttp", "drainWs"}
          /\ UNCHANGED <<result, listener, mux, srv, down, closeErr, errChan,
                         busy, silent, cancelled, expired, broken>>
      BY <1>7 DEF Drain
    <2>2. failures' \in BOOLEAN
      BY <1>7 DEF Drain
    <2>3. ServerTypeOK'
      BY <2>1, <2>2
    <2> QED
      BY <2>1, <2>3
  <1>8. CASE CloseListener
    BY <1>8 DEF CloseListener
  <1> QED
    BY <1>1, <1>2, <1>3, <1>4, <1>5, <1>6, <1>7, <1>8 DEF Serve

\* A goroutine of a server.
LEMMA ServerGoroutineStep ==
    ASSUME ServeInv, NEW s \in Servers, ServerStep(s)
    PROVE  ServeInv'
  <1> USE DEF ServeInv, PhasesOfServe, ReportsCounted, ClosedByShutdown, Reported,
              ServerTypeOK, Servers, Shutting, ErrChanCap,
              clientVars, serveVars
  <1>1. CASE StartServer(s)
    <2>1. CASE s \in down
      BY <1>1, <2>1 DEF StartServer
    <2>2. CASE s \notin down
      BY <1>1, <2>2 DEF StartServer
    <2> QED
      BY <2>1, <2>2
  <1>2. CASE AcceptFails(s)
    BY <1>2 DEF AcceptFails
  <1>3. CASE ServerReports(s)
    BY <1>3 DEF ServerReports, SendError
  <1> QED
    BY <1>1, <1>2, <1>3 DEF ServerStep

\* The multiplexer, and the world around.
LEMMA MuxStep == ServeInv /\ (Mux \/ Environment) => ServeInv'
  <1> SUFFICES ASSUME ServeInv, Mux \/ Environment PROVE ServeInv'
    OBVIOUS
  <1> USE DEF ServeInv, PhasesOfServe, ReportsCounted, ClosedByShutdown, Reported,
              ServerTypeOK, Servers, Shutting, ErrChanCap,
              clientVars, serveVars
  <1>1. CASE MuxAcceptFails
    BY <1>1 DEF MuxAcceptFails
  <1>2. CASE MuxReturns
    BY <1>2 DEF MuxReturns
  <1>3. CASE MuxReports
    BY <1>3 DEF MuxReports, SendError
  <1>4. ASSUME UNCHANGED <<serveVars, listener, mux, srv, errChan, broken>>,
               cancelled => cancelled', busy' \subseteq Servers,
               silent' \in BOOLEAN, expired' \in BOOLEAN, cancelled' \in BOOLEAN
        PROVE  ServeInv'
    <2>1. ServerTypeOK'
      BY <1>4, Zenon
    <2>2. PhasesOfServe' /\ ReportsCounted' /\ ClosedByShutdown'
      BY <1>4
    <2> QED
      BY <2>1, <2>2
  <1>5. ASSUME \/ \E s \in Servers : BeginRequest(s) \/ EndRequest(s)
               \/ Connect \/ Disconnect \/ Cancel \/ Expire
        PROVE  ServeInv'
    <2>1. /\ UNCHANGED <<serveVars, listener, mux, srv, errChan, broken>>
          /\ busy' \subseteq Servers
      BY <1>5 DEF BeginRequest, EndRequest, Connect, Disconnect,
         Cancel, Expire
    <2>2. /\ silent' \in BOOLEAN /\ expired' \in BOOLEAN /\ cancelled' \in BOOLEAN
          /\ cancelled => cancelled'
      BY <1>5, Zenon DEF BeginRequest, EndRequest, Connect,
         Disconnect, Cancel, Expire
    <2> QED
      BY <1>4, <2>1, <2>2
  <1>6. CASE BreakListener
    BY <1>6 DEF BreakListener
  <1> QED
    BY <1>1, <1>2, <1>3, <1>4, <1>5, <1>6 DEF Mux, Environment

LEMMA ServeNext == ServeInv /\ [ServerNext]_serverVars => ServeInv'
  <1>1. ServeInv /\ UNCHANGED serverVars => ServeInv'
    BY DEF serverVars, serveVars, clientVars, ServeInv, PhasesOfServe, ReportsCounted,
       ClosedByShutdown, Reported, ServerTypeOK, Servers, Shutting, ErrChanCap
  <1> QED
    BY <1>1, ServeStep, ServerGoroutineStep, MuxStep DEF ServerNext

\* StuckOnlyIfBroken: three goroutines report on a channel for two errors of
\* which nobody takes more than one; still no report blocks for ever, unless the
\* listener failed by itself and the context was cancelled.
THEOREM ReportsFindRoom == ServerSpec => []StuckOnlyIfBroken
  <1>1. ServeInv => StuckOnlyIfBroken
    BY DEF ServeInv, PhasesOfServe, ReportsCounted, ClosedByShutdown, Reported,
       ServerTypeOK, StuckOnlyIfBroken, Servers, Shutting, ErrChanCap
  <1> QED
    BY <1>1, InitServe, ServeNext, PTL DEF ServerSpec


\* While Serve waits, a listener that failed by itself has somebody who will
\* tell: an error is in the channel, the multiplexer is about to report one, or
\* it still waits for a silent connection and the servers have theirs to report.
FailureIsReported ==
    broken /\ serve = "select" =>
        \/ errChan > 0
        \/ mux = "failed"
        \/ mux = "draining" /\ \A s \in Servers : srv[s] \in {"launched", "accepting", "failed"}

\* No server shuts down while Serve waits, and all three goroutines were started.
Waiting ==
    /\ serve \in {"listen", "setup", "select", "downHttp"} => down = {}
    /\ serve = "select" => \A s \in Servers : srv[s] # "off"
    /\ broken => mux \notin {"off", "accepting"}
    /\ serve = "setup" => srv["http"] # "off"
    /\ serve \in {"setup", "select"} /\ mux \in {"off", "accepting"} =>
           \A s \in Servers : srv[s] \in {"off", "launched", "accepting"}

FailureInv == ServeInv /\ Waiting /\ FailureIsReported

LEMMA FailureNext == FailureInv /\ [ServerNext]_serverVars => FailureInv'
  <1> SUFFICES ASSUME FailureInv, [ServerNext]_serverVars
               PROVE  Waiting' /\ FailureIsReported'
    BY ServeNext DEF FailureInv
  <1> USE DEF FailureInv, Waiting, FailureIsReported, Servers, Shutting,
              clientVars, serveVars
  <1>1. CASE ListenAndServe \/ SetUp
    <2>1. serve \in {"listen", "setup"} /\ down' = down /\ broken' = broken
      BY <1>1 DEF ListenAndServe, SetUp
    <2>2. mux = "off" /\ \A s \in Servers : srv[s] \in {"off", "launched", "accepting"}
      BY <2>1 DEF ServeInv, PhasesOfServe
    <2>3. ~broken /\ down = {}
      BY <2>1, <2>2
    <2>4. srv \in [Servers -> {"off", "launched", "accepting", "failed", "done"}]
      BY DEF ServeInv, ServerTypeOK
    <2>5. /\ mux = "off" /\ ~broken /\ ~broken' /\ down' = {}
          /\ \A s \in Servers : srv[s] \in {"off", "launched", "accepting"}
          /\ srv \in [Servers -> {"off", "launched", "accepting", "failed", "done"}]
      BY <2>1, <2>2, <2>3, <2>4
    <2>6. CASE ListenAndServe
      BY <2>5, <2>6 DEF ListenAndServe
    <2>7. CASE SetUp
      BY <2>5, <2>7 DEF SetUp
    <2> QED
      BY <1>1, <2>6, <2>7
  <1>2. CASE TakeError \/ ContextEnds \/ CloseListener
    BY <1>2 DEF TakeError, ContextEnds, CloseListener
  <1>3. CASE \/ BeginShutdown("http", "downHttp", "drainHttp")
             \/ BeginShutdown("ws", "downWs", "drainWs")
             \/ Drain("http", "drainHttp", "downWs") \/ Drain("ws", "drainWs", "close")
    BY <1>3 DEF BeginShutdown, Drain
  <1>4. ASSUME NEW s \in Servers, ServerStep(s)
        PROVE  Waiting' /\ FailureIsReported'
    <2>1. /\ UNCHANGED <<serve, mux, broken, down>>
          /\ errChan' = errChan \/ (errChan < ErrChanCap /\ errChan' = errChan + 1)
      BY <1>4 DEF ServerStep, StartServer, AcceptFails, ServerReports,
         SendError
    <2>2. errChan \in Nat /\ srv \in [Servers -> {"off", "launched", "accepting", "failed", "done"}]
      BY DEF ServeInv, ServerTypeOK, ErrChanCap
    <2>3. srv' = [srv EXCEPT ![s] = srv'[s]] /\ srv'[s] # "off"
      BY <1>4, <2>2 DEF ServerStep, StartServer, AcceptFails, ServerReports
    <2>4. Waiting'
      <3>1. down = {} /\ mux \in {"off", "accepting"} /\ srv[s] \in {"off", "launched", "accepting"}
                => srv'[s] = "accepting"
        BY <1>4, <2>2 DEF ServerStep, StartServer, AcceptFails,
           ServerReports
      <3>2. \A r \in Servers : r # s => srv'[r] = srv[r]
        BY <2>2, <2>3
      <3> QED
        BY <2>1, <2>3, <3>1, <3>2
    <2>5. CASE serve = "select" /\ mux = "draining" /\ srv'[s] = "done"
      <3>0. down = {}
        BY <2>5
      <3>1. errChan' = errChan + 1
        <4>1. ~StartServer(s)
          BY <2>2, <2>5, <3>0 DEF StartServer
        <4>2. ~AcceptFails(s)
          BY <2>2, <2>5, <3>0 DEF AcceptFails
        <4> QED
          BY <1>4, <4>1, <4>2 DEF ServerStep, ServerReports, SendError
      <3> QED
        BY <2>2, <2>4, <3>1
    <2>6. CASE ~(serve = "select" /\ mux = "draining" /\ srv'[s] = "done")
      <3>1. srv'[s] \in {"launched", "accepting", "failed", "done"}
        BY <1>4, <2>2 DEF ServerStep, StartServer, AcceptFails,
           ServerReports
      <3> QED
        BY <2>1, <2>2, <2>3, <2>4, <2>6, <3>1
    <2> QED
      BY <2>5, <2>6
  <1>5. CASE MuxAcceptFails \/ MuxReturns
    BY <1>5 DEF MuxAcceptFails, MuxReturns
  <1>6. CASE MuxReports
    BY <1>6 DEF MuxReports, SendError, ServeInv, ServerTypeOK
  <1>7. CASE \/ \E s \in Servers : BeginRequest(s) \/ EndRequest(s)
             \/ Connect \/ Disconnect \/ Cancel \/ Expire
    BY <1>7 DEF BeginRequest, EndRequest, Connect, Disconnect,
       Cancel, Expire
  <1>8. CASE BreakListener
    BY <1>8 DEF BreakListener
  <1>9. CASE UNCHANGED serverVars
    BY <1>9 DEF serverVars
  <1> QED
    BY <1>1, <1>2, <1>3, <1>4, <1>5, <1>6, <1>7, <1>8, <1>9
       DEF ServerNext, Serve, Mux, Environment

\* FailureIsReported: Serve does not wait for ever with a listener that failed by
\* itself.  (That the report comes is FailureEndsServe.)
THEOREM FailuresAreReported == ServerSpec => []FailureIsReported
  <1>1. ServerInit => FailureInv
    <2>1. ServerInit => Waiting /\ FailureIsReported
      BY DEF ServerInit, Waiting, FailureIsReported, Servers
    <2> QED
      BY <2>1, InitServe DEF FailureInv
  <1>2. FailureInv => FailureIsReported
    BY DEF FailureInv
  <1> QED
    BY <1>1, <1>2, FailureNext, PTL DEF ServerSpec
==============================================================================
