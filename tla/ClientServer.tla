----------------------------- MODULE ClientServer -----------------------------
(***************************************************************************)
(* The client server: internal/quake/client/server.go, ListenAndServe and  *)
(* Serve.                                                                  *)
(*                                                                         *)
(* One listener is shared by two HTTP servers (http: pages and assets, ws: *)
(* the websocket proxy) through a multiplexer (mux).  Each of the three    *)
(* runs in a goroutine that may report an error on errChan; Serve takes    *)
(* the first error, or shuts everything down when the context ends.        *)
(*                                                                         *)
(* Of the multiplexer it matters that closing either of its listeners      *)
(* closes the shared one, that a failed accept makes the accepts of both   *)
(* servers fail, and that it then waits for connections that it has not    *)
(* assigned to a server yet.                                               *)
(*                                                                         *)
(* The names differ from those of Proxy, so that both can be extended.     *)
(***************************************************************************)
EXTENDS Naturals

VARIABLES
    serve,      \* where ListenAndServe and Serve are
    result,     \* what they returned
    listener,   \* the shared listener
    mux,        \* the goroutine that runs the multiplexer
    srv,        \* the goroutines that run the servers
    down,       \* servers whose Shutdown has begun
    closeErr,   \* the error of the listener's close in the current Shutdown
    failures,   \* shutdownErr # nil
    errChan,    \* errors in the channel
    busy,       \* servers with a request in progress
    silent,     \* a connection has not sent anything yet
    cancelled,  \* the context is cancelled
    expired,    \* the ten seconds of the shutdown are over
    broken      \* the listener failed by itself

Servers == {"http", "ws"}
ErrChanCap_One == 1     \* Variant: a channel like the one of a session.
ErrChanCap == 2

serveVars == <<serve, result, down, closeErr, failures>>
clientVars == <<busy, silent, cancelled, expired, broken>>
serverVars == <<serveVars, listener, mux, srv, errChan, clientVars>>

Shutting == {"downHttp", "drainHttp", "downWs", "drainWs", "close"}

ServerTypeOK ==
    /\ serve \in {"listen", "setup", "select", "returned"} \cup Shutting
    /\ result \in {"none", "nil", "error"}
    /\ listener \in {"none", "open", "closed"}
    /\ mux \in {"off", "accepting", "draining", "failed", "done"}
    /\ srv \in [Servers -> {"off", "launched", "accepting", "failed", "done"}]
    /\ down \subseteq Servers /\ busy \subseteq Servers
    /\ closeErr \in BOOLEAN /\ failures \in BOOLEAN
    /\ errChan \in 0..ErrChanCap
    /\ silent \in BOOLEAN /\ cancelled \in BOOLEAN /\ expired \in BOOLEAN
    /\ broken \in BOOLEAN

ServerInit ==
    /\ serve = "listen" /\ result = "none" /\ listener = "none"
    /\ mux = "off" /\ srv = [s \in Servers |-> "off"]
    /\ down = {} /\ closeErr = FALSE /\ failures = FALSE /\ errChan = 0
    /\ busy = {} /\ silent = FALSE
    /\ cancelled = FALSE /\ expired = FALSE /\ broken = FALSE

-----------------------------------------------------------------------------
(* ListenAndServe and Serve.                                               *)

ListenAndServe ==
    /\ serve = "listen"
    /\ \/ /\ listener' = "open" /\ serve' = "setup"
          /\ srv' = [srv EXCEPT !["http"] = "launched"] /\ UNCHANGED result
       \/ serve' = "returned" /\ result' = "error" /\ UNCHANGED <<listener, srv>>
    /\ UNCHANGED <<mux, down, closeErr, failures, errChan, clientVars>>

\* An address that cannot be used ends Serve with its http goroutine running.
SetUp ==
    /\ serve = "setup"
    /\ \/ /\ serve' = "select" /\ srv' = [srv EXCEPT !["ws"] = "launched"]
          /\ mux' = "accepting" /\ UNCHANGED result
       \/ serve' = "returned" /\ result' = "error" /\ UNCHANGED <<mux, srv>>
    /\ UNCHANGED <<listener, down, closeErr, failures, errChan, clientVars>>

TakeError ==
    /\ serve = "select" /\ errChan > 0
    /\ errChan' = errChan - 1 /\ serve' = "returned" /\ result' = "error"
    /\ UNCHANGED <<listener, mux, srv, down, closeErr, failures, clientVars>>

ContextEnds ==
    /\ serve = "select" /\ cancelled
    /\ serve' = "downHttp"
    /\ UNCHANGED <<result, listener, mux, srv, down, closeErr, failures, errChan, clientVars>>

\* Shutdown of a server first closes the listener it accepts from, ...
BeginShutdown(s, pc, next) ==
    /\ serve = pc /\ serve' = next
    /\ down' = down \cup {s}
    /\ IF srv[s] = "accepting"
       THEN closeErr' = (listener = "closed") /\ listener' = "closed"
       ELSE closeErr' = FALSE /\ UNCHANGED listener
    /\ UNCHANGED <<result, mux, srv, failures, errChan, clientVars>>

\* Variant: the shutdown has no deadline.
Drain_Unlimited(s, pc, next) ==
    /\ serve = pc /\ s \notin busy /\ serve' = next
    /\ failures' = (failures \/ closeErr)
    /\ UNCHANGED <<result, listener, mux, srv, down, closeErr, errChan, clientVars>>

\* ... and then waits for its requests, or for the deadline.
Drain(s, pc, next) ==
    /\ serve = pc /\ serve' = next
    /\ \/ s \notin busy /\ failures' = (failures \/ closeErr)
       \/ s \in busy /\ expired /\ failures' = TRUE
    /\ UNCHANGED <<result, listener, mux, srv, down, closeErr, errChan, clientVars>>

CloseListener ==
    /\ serve = "close" /\ serve' = "returned"
    /\ result' = (IF failures \/ listener = "closed" THEN "error" ELSE "nil")
    /\ listener' = "closed"
    /\ UNCHANGED <<mux, srv, down, closeErr, failures, errChan, clientVars>>

Serve ==
    \/ ListenAndServe \/ SetUp \/ TakeError \/ ContextEnds
    \/ BeginShutdown("http", "downHttp", "drainHttp") \/ Drain("http", "drainHttp", "downWs")
    \/ BeginShutdown("ws", "downWs", "drainWs") \/ Drain("ws", "drainWs", "close")
    \/ CloseListener

-----------------------------------------------------------------------------
(* The goroutines.  errChan <- err waits for room.                         *)

SendError == errChan < ErrChanCap /\ errChan' = errChan + 1

\* http.Server.Serve refuses to run after a Shutdown; on its way out it closes
\* its listener in either case.
StartServer(s) ==
    /\ srv[s] = "launched"
    /\ IF s \in down
       THEN srv' = [srv EXCEPT ![s] = "done"] /\ listener' = "closed"
       ELSE srv' = [srv EXCEPT ![s] = "accepting"] /\ UNCHANGED listener
    /\ UNCHANGED <<serveVars, mux, errChan, clientVars>>

\* Variant: the multiplexer's ErrServerClosed is taken for a regular end, too.
AcceptFails_Quietly(s) ==
    /\ srv[s] = "accepting" /\ mux \in {"draining", "failed", "done"}
    /\ srv' = [srv EXCEPT ![s] = "done"] /\ listener' = "closed"
    /\ UNCHANGED <<serveVars, mux, errChan, clientVars>>

\* The end of the multiplexer is an error that is not filtered, except when
\* this server is shutting down, or if the multiplexer's listener is found
\* closed, as it may be once the multiplexer has returned.
AcceptFails(s) ==
    /\ srv[s] = "accepting" /\ mux \in {"draining", "failed", "done"}
    /\ \/ s \notin down /\ srv' = [srv EXCEPT ![s] = "failed"]
       \/ /\ s \in down \/ mux # "draining"
          /\ srv' = [srv EXCEPT ![s] = "done"]
    /\ listener' = "closed"
    /\ UNCHANGED <<serveVars, mux, errChan, clientVars>>

ServerReports(s) ==
    /\ srv[s] = "failed" /\ SendError
    /\ srv' = [srv EXCEPT ![s] = "done"]
    /\ UNCHANGED <<serveVars, listener, mux, clientVars>>

ServerStep(s) == StartServer(s) \/ AcceptFails(s) \/ ServerReports(s)

MuxAcceptFails ==
    /\ mux = "accepting" /\ listener = "closed"
    /\ mux' = "draining"
    /\ UNCHANGED <<serveVars, listener, srv, errChan, clientVars>>

MuxReturns ==
    /\ mux = "draining" /\ ~silent
    /\ mux' = "failed"
    /\ UNCHANGED <<serveVars, listener, srv, errChan, clientVars>>

MuxReports ==
    /\ mux = "failed" /\ SendError
    /\ mux' = "done"
    /\ UNCHANGED <<serveVars, listener, srv, clientVars>>

Mux == MuxAcceptFails \/ MuxReturns \/ MuxReports

-----------------------------------------------------------------------------
(* Clients, the context, the clock and the network.                        *)

\* Connections taken from the listener reach a server as long as the
\* multiplexer runs, also if the listener has been closed meanwhile.
BeginRequest(s) ==
    /\ mux = "accepting" /\ srv[s] = "accepting" /\ s \notin busy
    /\ busy' = busy \cup {s}
    /\ UNCHANGED <<serveVars, listener, mux, srv, errChan, silent, cancelled, expired, broken>>

EndRequest(s) ==
    /\ s \in busy /\ busy' = busy \ {s}
    /\ UNCHANGED <<serveVars, listener, mux, srv, errChan, silent, cancelled, expired, broken>>

Connect ==
    /\ mux = "accepting" /\ listener = "open" /\ ~silent
    /\ silent' = TRUE
    /\ UNCHANGED <<serveVars, listener, mux, srv, errChan, busy, cancelled, expired, broken>>

Disconnect ==
    /\ silent /\ silent' = FALSE
    /\ UNCHANGED <<serveVars, listener, mux, srv, errChan, busy, cancelled, expired, broken>>

Cancel ==
    /\ ~cancelled /\ cancelled' = TRUE
    /\ UNCHANGED <<serveVars, listener, mux, srv, errChan, busy, silent, expired, broken>>

Expire ==
    /\ serve \in Shutting /\ ~expired /\ expired' = TRUE
    /\ UNCHANGED <<serveVars, listener, mux, srv, errChan, busy, silent, cancelled, broken>>

BreakListener ==
    /\ mux = "accepting" /\ listener = "open"
    /\ mux' = "draining" /\ broken' = TRUE
    /\ UNCHANGED <<serveVars, listener, srv, errChan, busy, silent, cancelled, expired>>

Environment ==
    \/ \E s \in Servers : BeginRequest(s) \/ EndRequest(s)
    \/ Connect \/ Disconnect \/ Cancel \/ Expire \/ BreakListener

ServerNext == Serve \/ Mux \/ (\E s \in Servers : ServerStep(s)) \/ Environment

ServerSpec == ServerInit /\ [][ServerNext]_serverVars

\* The goroutines run and time passes.  Requests may last, and a connection
\* may be silent, for ever.
ServerFairness ==
    /\ WF_serverVars(Serve) /\ WF_serverVars(Mux) /\ WF_serverVars(Expire)
    /\ \A s \in Servers : WF_serverVars(ServerStep(s))

ServerFairSpec == ServerSpec /\ ServerFairness

-----------------------------------------------------------------------------
(* Properties.                                                             *)

\* errChan has room for two of the three errors that a shutdown can bring
\* about, and nobody receives any more: a goroutine is stuck in its report
\* only if the listener broke at the moment of the cancellation.
StuckOnlyIfBroken ==
    serve \in Shutting \cup {"returned"} /\ errChan = ErrChanCap
        /\ (mux = "failed" \/ \E s \in Servers : srv[s] = "failed")
            => broken /\ cancelled

\* A listener that fails ends Serve, also while a connection that never sends
\* anything keeps the multiplexer from returning its error.
FailureEndsServe == broken ~> serve = "returned"

\* A cancelled context ends Serve, however long requests and connections last.
ShutdownEnds == cancelled ~> serve = "returned"
=============================================================================
