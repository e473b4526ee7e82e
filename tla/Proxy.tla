-------------------------------- MODULE Proxy --------------------------------
(***************************************************************************)
(* One session of the websocket to UDP proxy:                              *)
(* internal/quake/client/proxy.go, ServeHTTP.                              *)
(*                                                                         *)
(* The handler opens a UDP socket (backend) for the browser's websocket    *)
(* (ws), starts a goroutine per direction (reader: ws to backend, writer:  *)
(* backend to ws) and waits for the first error on errc.  The websocket    *)
(* library allows one writer at a time, and panics, if it notices, on two. *)
(***************************************************************************)
EXTENDS Naturals, Sequences, Functions

CONSTANTS
    MaxMessages,    \* bound on the messages of the browser
    MaxReplies      \* bound on the datagrams of the game server

ASSUME ProxyAssumption ==
    MaxMessages \in Nat /\ MaxReplies \in Nat

VARIABLES
    handler,        \* where ServeHTTP is
    reader, held,   \* where the first goroutine is, and the message it read last
    writer,         \* where the second goroutine is
    errc,           \* errors in the channel
    ws, backend,    \* the two sockets
    ctxDone,        \* the request's context is cancelled
    crashed,        \* a goroutine panicked: the program is gone
    browser,        \* the peer of the websocket; "refused" if it sent an invalid frame
    sent,           \* the kind of each message it sent; messages are numbered
    transit,        \* those not yet read
    forwarded,      \* those the game server got
    replies,        \* datagrams it sent that are not yet read
    replied         \* number of datagrams it sent

handlerVars == <<handler, ws, backend>>
readerVars == <<reader, held, transit, forwarded>>
writerVars == <<writer, replies>>
peerVars == <<ctxDone, browser, sent, replied>>
vars == <<handlerVars, readerVars, writerVars, errc, crashed, peerVars>>

\* The kinds of messages: "port" are those with the prefix \xff\xff\xff\xffport.
Message == {"port", "game"}
ErrcCap == 1

TypeOK ==
    /\ handler \in {"upgrade", "listen", "wait", "closeBackend", "closeWs", "done"}
    /\ reader \in {"off", "read", "forward", "readFailed", "forwardFailed",
                   "writeClose", "closing", "done"}
    /\ held \in Nat
    /\ writer \in {"off", "read", "write", "writing", "failed", "done"}
    /\ errc \in 0..ErrcCap
    /\ ws \in {"none", "open", "closed"} /\ backend \in {"none", "open", "closed"}
    /\ ctxDone \in BOOLEAN /\ crashed \in BOOLEAN
    /\ browser \in {"there", "refused", "gone"}
    /\ sent \in Seq(Message) /\ transit \in Seq(Nat) /\ forwarded \in Seq(Nat)
    /\ replied \in 0..MaxReplies /\ replies \in 0..replied

Init ==
    /\ handler = "upgrade" /\ ws = "none" /\ backend = "none"
    /\ reader = "off" /\ held = 0 /\ transit = <<>> /\ forwarded = <<>>
    /\ writer = "off" /\ replies = 0 /\ replied = 0
    /\ errc = 0 /\ crashed = FALSE
    /\ ctxDone = FALSE /\ browser = "there" /\ sent = <<>>

Running == ~crashed     \* a panic takes every goroutine with it

-----------------------------------------------------------------------------
(* The handler.                                                            *)

Upgrade ==
    /\ Running /\ handler = "upgrade"
    /\ \/ handler' = "listen" /\ ws' = "open"
       \/ handler' = "done" /\ UNCHANGED ws
    /\ UNCHANGED <<backend, readerVars, writerVars, errc, crashed, peerVars>>

\* Variant: ws is closed only if the session got under way.
Listen_KeepsWs ==
    /\ Running /\ handler = "listen"
    /\ \/ handler' = "wait" /\ backend' = "open" /\ reader' = "read" /\ writer' = "read"
       \/ handler' = "done" /\ UNCHANGED <<backend, reader, writer>>
    /\ UNCHANGED <<ws, held, transit, forwarded, replies, errc, crashed, peerVars>>

Listen ==
    /\ Running /\ handler = "listen"
    /\ \/ handler' = "wait" /\ backend' = "open" /\ reader' = "read" /\ writer' = "read"
       \/ handler' = "closeWs" /\ UNCHANGED <<backend, reader, writer>>
    /\ UNCHANGED <<ws, held, transit, forwarded, replies, errc, crashed, peerVars>>

ReceiveError ==
    /\ Running /\ handler = "wait" /\ errc > 0
    /\ errc' = errc - 1 /\ handler' = "closeBackend"
    /\ UNCHANGED <<ws, backend, readerVars, writerVars, crashed, peerVars>>

ContextDone ==
    /\ Running /\ handler = "wait" /\ ctxDone
    /\ handler' = "closeBackend"
    /\ UNCHANGED <<ws, backend, readerVars, writerVars, errc, crashed, peerVars>>

\* Variant: the UDP socket is not closed.
CloseBackend_Forgotten ==
    /\ Running /\ handler = "closeBackend"
    /\ handler' = "closeWs"
    /\ UNCHANGED <<ws, backend, readerVars, writerVars, errc, crashed, peerVars>>

\* The deferred calls, the last one first.
CloseBackend ==
    /\ Running /\ handler = "closeBackend"
    /\ backend' = "closed" /\ handler' = "closeWs"
    /\ UNCHANGED <<ws, readerVars, writerVars, errc, crashed, peerVars>>

CloseWs ==
    /\ Running /\ handler = "closeWs"
    /\ ws' = "closed" /\ handler' = "done"
    /\ UNCHANGED <<backend, readerVars, writerVars, errc, crashed, peerVars>>

Handler == Upgrade \/ Listen \/ ReceiveError \/ ContextDone \/ CloseBackend \/ CloseWs

-----------------------------------------------------------------------------
(* errc <- err waits for room in the channel.                              *)

Report == errc < ErrcCap /\ errc' = errc + 1

\* A write to ws begins: two at a time are a data race on the library's flag,
\* noticed or not.
BeginWrite(otherWrites) ==
    \/ crashed' = FALSE
    \/ otherWrites /\ crashed' = TRUE

(* From the browser to the game server.                                    *)

\* Variant: port messages are not told from the others.
ReadMessage_AnyPrefix ==
    /\ Running /\ reader = "read" /\ ws = "open" /\ transit # <<>>
    /\ transit' = Tail(transit) /\ held' = Head(transit)
    /\ reader' = "forward"
    /\ UNCHANGED <<forwarded, handlerVars, writerVars, errc, crashed, peerVars>>

ReadMessage ==
    /\ Running /\ reader = "read" /\ ws = "open" /\ transit # <<>>
    /\ transit' = Tail(transit) /\ held' = Head(transit)
    /\ reader' = (IF sent[Head(transit)] = "port" THEN "read" ELSE "forward")
    /\ UNCHANGED <<forwarded, handlerVars, writerVars, errc, crashed, peerVars>>

\* Variant: only a socket closed by the handler ends the goroutine.
ReadFails_OnlyClosed ==
    /\ Running /\ reader = "read" /\ ws = "closed"
    /\ reader' = "readFailed"
    /\ UNCHANGED <<held, transit, forwarded, handlerVars, writerVars, errc, crashed, peerVars>>

ReadFails ==
    /\ Running /\ reader = "read" /\ (ws = "closed" \/ browser # "there")
    /\ reader' = "readFailed"
    /\ UNCHANGED <<held, transit, forwarded, handlerVars, writerVars, errc, crashed, peerVars>>

\* A write of a datagram returns within its deadline, if only with an error.
Forward ==
    /\ Running /\ reader = "forward"
    /\ \/ /\ backend = "open"
          /\ forwarded' = Append(forwarded, held) /\ reader' = "read"
       \/ reader' = "forwardFailed" /\ UNCHANGED forwarded
    /\ UNCHANGED <<held, transit, handlerVars, writerVars, errc, crashed, peerVars>>

\* Variant: the browser is sent a close message after every kind of error.
ReaderReports_AndCloses ==
    /\ Running /\ reader \in {"readFailed", "forwardFailed"}
    /\ Report /\ reader' = "writeClose"
    /\ UNCHANGED <<held, transit, forwarded, handlerVars, writerVars, crashed, peerVars>>

ReaderReports ==
    /\ Running /\ reader \in {"readFailed", "forwardFailed"}
    /\ Report
    /\ reader' = (IF reader = "readFailed" THEN "writeClose" ELSE "done")
    /\ UNCHANGED <<held, transit, forwarded, handlerVars, writerVars, crashed, peerVars>>

WriteClose ==
    /\ Running /\ reader = "writeClose"
    /\ BeginWrite(writer = "writing") /\ reader' = "closing"
    /\ UNCHANGED <<held, transit, forwarded, handlerVars, writerVars, errc, peerVars>>

CloseWritten ==
    /\ Running /\ reader = "closing" /\ reader' = "done"
    /\ UNCHANGED <<held, transit, forwarded, handlerVars, writerVars, errc, crashed, peerVars>>

Reader == ReadMessage \/ ReadFails \/ Forward \/ ReaderReports \/ WriteClose \/ CloseWritten

-----------------------------------------------------------------------------
(* From the game server to the browser.                                    *)

ReadFrom ==
    /\ Running /\ writer = "read"
    /\ \/ backend = "open" /\ replies > 0 /\ writer' = "write" /\ replies' = replies - 1
       \/ backend = "closed" /\ writer' = "failed" /\ UNCHANGED replies
    /\ UNCHANGED <<handlerVars, readerVars, errc, crashed, peerVars>>

Write ==
    /\ Running /\ writer = "write"
    /\ BeginWrite(reader = "closing") /\ writer' = "writing"
    /\ UNCHANGED <<replies, handlerVars, readerVars, errc, peerVars>>

\* Without a deadline it may wait for a browser that does not read.
WriteReturns ==
    /\ Running /\ writer = "writing" /\ ws = "open"
    /\ writer' = "read"
    /\ UNCHANGED <<replies, handlerVars, readerVars, errc, crashed, peerVars>>

WriteFails ==
    /\ Running /\ writer = "writing" /\ (ws = "closed" \/ browser = "gone")
    /\ writer' = "failed"
    /\ UNCHANGED <<replies, handlerVars, readerVars, errc, crashed, peerVars>>

WriterReports ==
    /\ Running /\ writer = "failed"
    /\ Report /\ writer' = "done"
    /\ UNCHANGED <<replies, handlerVars, readerVars, crashed, peerVars>>

Writer == ReadFrom \/ Write \/ WriteFails \/ WriterReports

-----------------------------------------------------------------------------
(* The browser, the game server and the context.                           *)

Send(m) ==
    /\ Running /\ browser = "there" /\ ws = "open" /\ Len(sent) < MaxMessages
    /\ sent' = Append(sent, m) /\ transit' = Append(transit, Len(sent'))
    /\ UNCHANGED <<reader, held, forwarded, handlerVars, writerVars, errc, crashed,
                   ctxDone, browser, replied>>

Leave ==
    /\ Running /\ browser # "gone" /\ browser' = "gone"
    /\ UNCHANGED <<handlerVars, readerVars, writerVars, errc, crashed, ctxDone, sent, replied>>

\* The library refuses a frame: nothing more is read, the connection stays.
SendInvalid ==
    /\ Running /\ browser = "there" /\ ws = "open"
    /\ browser' = "refused"
    /\ UNCHANGED <<handlerVars, readerVars, writerVars, errc, crashed, ctxDone, sent, replied>>

\* The game server answers whoever wrote to it.
Reply ==
    /\ Running /\ forwarded # <<>> /\ backend = "open" /\ replied < MaxReplies
    /\ replied' = replied + 1 /\ replies' = replies + 1
    /\ UNCHANGED <<writer, handlerVars, readerVars, errc, crashed, ctxDone, browser, sent>>

\* The HTTP server watches the connection for its end until the upgrade, and
\* not after it.
CancelContext ==
    /\ Running /\ handler = "upgrade" /\ browser = "gone" /\ ~ctxDone
    /\ ctxDone' = TRUE
    /\ UNCHANGED <<handlerVars, readerVars, writerVars, errc, crashed, browser, sent, replied>>

Peers == (\E m \in Message : Send(m)) \/ SendInvalid \/ Leave \/ Reply \/ CancelContext

Next == Handler \/ Reader \/ Writer \/ WriteReturns \/ Peers

Spec == Init /\ [][Next]_vars

\* The goroutines run and calls on a closed socket or a lost connection return.
\* Nobody has to send, read or leave: a browser may stay and never read.
Fairness ==
    WF_vars(Handler) /\ WF_vars(Reader) /\ WF_vars(Writer)

FairSpec == Spec /\ Fairness

-----------------------------------------------------------------------------
(* Properties.                                                             *)

\* Every return of ServeHTTP, also the early ones, leaves no socket open.
SocketsClosed == handler = "done" => ws # "open" /\ backend # "open"

\* The game server gets the browser's messages in order, each once and none left
\* out before the last it got, but never the port messages, which it would take
\* for commands.
ForwardsInOrder ==
    /\ \A i, j \in DOMAIN forwarded : i < j => forwarded[i] < forwarded[j]
    /\ \A i \in DOMAIN forwarded, k \in DOMAIN sent :
           k <= forwarded[i] => (sent[k] = "game" <=> k \in Range(forwarded))

\* The goroutines write to ws at the same time only when the browser has left or
\* sent what the library refuses: a session that goes on, or ends for a failure
\* of its UDP side, never panics the program and so never takes the other
\* players' sessions with it.
PanicsOnlyWhenLeft == crashed => browser # "there"

\* A browser that leaves, or sends what the library refuses, ends its session,
\* whatever the goroutines are doing then, also if one is in the middle of a
\* write to a browser that never read.
LeavingEndsSession == browser # "there" /\ ws = "open" ~> handler = "done" \/ crashed

\* The goroutines end with the handler: the second error finds room in errc.
\* Only a handler that left for the end of the context, and so took no error,
\* can leave one of them behind.
GoroutinesEnd ==
    handler = "done" ~> \/ crashed
                        \/ {reader, writer} \subseteq {"off", "done"}
                        \/ ctxDone /\ {reader, writer} \cap {"off", "done"} # {}
=============================================================================
