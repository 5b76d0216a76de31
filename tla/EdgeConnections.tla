-------------------------- MODULE EdgeConnections --------------------------
(***************************************************************************)
(* Connections to the edge: the control stream that registers one and      *)
(* unregisters it on shutdown, the HTTP/2 and QUIC transports that serve   *)
(* it, and the requests the edge sends over it, which are proxied with the *)
(* configuration the orchestrator holds when they arrive.                  *)
(***************************************************************************)
EXTENDS Orchestrator

CONSTANTS
    Conns,   \* connections, by index
    First,   \* the connection of index 0
    Reqs     \* bound: requests the edge sends

VARIABLES
    conn,     \* the connections
    req,      \* the requests
    graceful  \* gracefulShutdownC is closed

vars == <<orVars, conn, req, graceful>>

(* A connection: its transport ("up", "closed" by cloudflared or "lost"),  *)
(* its control stream, the flag stoppedGracefully, its serve context,      *)
(* whether the wait for requests or the grace period is over, the first    *)
(* error of its routines, and how Serve ended.                             *)
NewConn(p) == [proto |-> p, link |-> "none", control |-> "none", stopped |-> FALSE,
               done |-> FALSE, waited |-> FALSE, err |-> "none", result |-> "none"]

NewReq == [at |-> "none", conn |-> None, kind |-> "http", answers |-> 0, late |-> FALSE]

Init ==
    /\ OrInit
    /\ conn \in [Conns -> {NewConn(p) : p \in {"http2", "quic"}}]
    /\ req = [r \in Reqs |-> NewReq]
    /\ graceful = FALSE

Set(c, new) == conn' = [conn EXCEPT ![c] = new]
Serving(c) == conn[c].link # "none" /\ conn[c].result = "none"
IsQUIC(c) == conn[c].proto = "quic"
Active(c) == {r \in Reqs : req[r].at = "active" /\ req[r].conn = c}

\* What the edge or the operator does to the process.
Shutdown == /\ ~graceful /\ graceful' = TRUE /\ UNCHANGED <<orVars, conn, req>>

\* The context of the server ends: every serve context derives from it.
Cancel ==
    /\ graceful /\ ~stopping
    /\ stopping' = TRUE
    /\ conn' = [c \in Conns |-> [conn[c] EXCEPT !.done = TRUE]]
    /\ UNCHANGED <<version, proxy, limit, running, closer, updating, orphans, waiting, req, graceful>>
-----------------------------------------------------------------------------
(* Serving a connection *)

\* serveConnection: the transport is dialled.
DialFails(c) ==
    /\ conn[c].link = "none" /\ conn[c].result = "none"
    /\ Set(c, [conn[c] EXCEPT !.result = "dial"])
    /\ UNCHANGED <<orVars, req, graceful>>

Dial(c) ==
    /\ conn[c].link = "none" /\ conn[c].result = "none" /\ ~stopping
    /\ Set(c, [conn[c] EXCEPT !.link = "up"])
    /\ UNCHANGED <<orVars, req, graceful>>

\* The control stream is the first stream, opened by Serve over QUIC and by
\* the edge over HTTP/2, where it is one of the active requests.
OpenControlStream(c) ==
    /\ Serving(c) /\ conn[c].link = "up" /\ conn[c].control = "none"
    /\ Set(c, [conn[c] EXCEPT !.control = "registering"])
    /\ UNCHANGED <<orVars, req, graceful>>

\* The handler returns e.  Over QUIC this ends the serve
\* context, at once or, when e is nil, after the grace period.
ControlReturns(c, new, e) ==
    [new EXCEPT !.control = IF IsQUIC(c) /\ e = "nil" THEN "grace" ELSE "returned",
                !.err = IF e = "nil" \/ @ # "none" THEN @ ELSE e,
                !.done = @ \/ (IsQUIC(c) /\ e # "nil")]

\* RegisterConnection fails: another connection to the same server ("dup"), an
\* error of the server that may be retried or not, a timeout, a lost stream.
RegisterFails(c, e) ==
    /\ conn[c].control = "registering"
    /\ Set(c, ControlReturns(c, conn[c], e))
    /\ UNCHANGED <<orVars, req, graceful>>

Registered(c) ==
    /\ conn[c].control = "registering" /\ conn[c].link = "up"
    /\ Set(c, [conn[c] EXCEPT !.control = IF c = First THEN "pushing" ELSE "registered"])
    /\ UNCHANGED <<orVars, req, graceful>>

\* The first connection of a tunnel that is managed locally sends the
\* configuration, read under the lock of the orchestrator.
PushConfig(c) ==
    /\ conn[c].control = "pushing"
    /\ \E remote \in BOOLEAN : remote \/ Free
    /\ Set(c, [conn[c] EXCEPT !.control = "sending"])
    /\ UNCHANGED <<orVars, req, graceful>>

\* The call may fail or time out; the error is only counted.
SendLocalConfiguration(c) ==
    /\ conn[c].control = "sending"
    /\ Set(c, [conn[c] EXCEPT !.control = "registered"])
    /\ UNCHANGED <<orVars, req, graceful>>

\* waitForUnregister: either the context ended or a shutdown began.
WaitForUnregister(c) ==
    /\ conn[c].control = "registered"
    /\ \/ conn[c].done /\ Set(c, [conn[c] EXCEPT !.control = "unregistering"])
       \/ graceful /\ Set(c, [conn[c] EXCEPT !.control = "unregistering", !.stopped = TRUE])
    /\ UNCHANGED <<orVars, req, graceful>>

\* The call to unregister, bounded by the grace period and by the context.
GracefulShutdown(c) ==
    /\ conn[c].control = "unregistering" /\ conn[c].link = "up" /\ ~conn[c].done
    /\ Set(c, ControlReturns(c, conn[c], "nil"))
    /\ UNCHANGED <<orVars, req, graceful>>

UnregisterFails(c) ==
    /\ conn[c].control = "unregistering"
    /\ Set(c, ControlReturns(c, conn[c], IF conn[c].stopped THEN "rpc" ELSE "ctx"))
    /\ UNCHANGED <<orVars, req, graceful>>

\* QUIC only: the ticker of the grace period, or the end of the context.
GraceOver(c) ==
    /\ conn[c].control = "grace"
    /\ Set(c, [conn[c] EXCEPT !.control = "returned", !.done = TRUE, !.waited = TRUE])
    /\ UNCHANGED <<orVars, req, graceful>>

\* The accept loop or the datagram handler of QUIC fails, or a reconnect is
\* asked for: the error group ends the context of the others.
OtherRoutineFails(c) ==
    /\ Serving(c) /\ ~conn[c].done
    /\ Set(c, [conn[c] EXCEPT !.done = TRUE, !.err = IF @ = "none" THEN "other" ELSE @])
    /\ UNCHANGED <<orVars, req, graceful>>

\* The edge closes the connection or the network loses it.  Over QUIC the
\* accept loop sees it, over HTTP/2 the contexts of the requests end.
Lost(c) ==
    /\ conn[c].link = "up"
    /\ Set(c, [conn[c] EXCEPT !.link = "lost", !.done = TRUE])
    /\ UNCHANGED <<orVars, req, graceful>>

\* HTTP2Connection.close waits for the handlers; a request that arrives
\* between the wait and the close is cut.
H2Waited(c) ==
    /\ Serving(c) /\ ~IsQUIC(c) /\ conn[c].done /\ ~conn[c].waited
    /\ Active(c) = {} /\ conn[c].control \in {"none", "returned"}
    /\ Set(c, [conn[c] EXCEPT !.waited = TRUE])
    /\ UNCHANGED <<orVars, req, graceful>>

\* Mutant: the connection is closed as soon as the context ends.
H2CloseAtOnce(c) ==
    /\ Serving(c) /\ ~IsQUIC(c) /\ conn[c].link = "up" /\ conn[c].done
    /\ Set(c, [conn[c] EXCEPT !.link = "closed"])
    /\ UNCHANGED <<orVars, req, graceful>>

H2Close(c) ==
    /\ Serving(c) /\ ~IsQUIC(c) /\ conn[c].link = "up" /\ conn[c].waited
    /\ Set(c, [conn[c] EXCEPT !.link = "closed"])
    /\ UNCHANGED <<orVars, req, graceful>>

\* HTTP2Connection.Serve returns once the transport is gone.
H2Result(k) ==
    IF k.stopped /\ k.err # "other" THEN "nil" ELSE IF k.err # "none" THEN k.err ELSE "lost"

H2Ends(c) ==
    /\ Serving(c) /\ ~IsQUIC(c) /\ conn[c].link # "up"
    /\ Set(c, [conn[c] EXCEPT !.result = H2Result(conn[c]), !.done = TRUE])
    /\ UNCHANGED <<orVars, req, graceful>>

\* quicConnection.Serve waits for its three routines, closes the connection
\* and returns the error of the first one: never nil.
QuicEnds(c) ==
    /\ Serving(c) /\ IsQUIC(c) /\ conn[c].done
    /\ conn[c].control \in {"none", "returned"}
    /\ Set(c, [conn[c] EXCEPT !.result = IF conn[c].err = "none" THEN "control" ELSE conn[c].err,
                              !.link = IF @ = "up" THEN "closed" ELSE @])
    /\ UNCHANGED <<orVars, req, graceful>>
-----------------------------------------------------------------------------
(* Requests *)

\* A request arrives and keeps the proxy that GetOriginProxy gives it now,
\* whatever is configured later.
Arrives(r, c, k) ==
    /\ req[r].at = "none" /\ Serving(c) /\ conn[c].link = "up"
    /\ conn[c].control \notin {"none", "registering"}
    /\ req' = [req EXCEPT ![r] = [at |-> "active", conn |-> c, kind |-> k,
                                  answers |-> 0, late |-> conn[c].done]]
    /\ UNCHANGED <<orVars, conn, graceful>>

ServeHTTP(r, c, k) == ~IsQUIC(c) /\ Arrives(r, c, k)

\* The accept loop of QUIC ends with the context.
AcceptStream(r, c, k) == IsQUIC(c) /\ ~conn[c].done /\ Arrives(r, c, k)

\* The proxy has dialled the origin, or has its answer, and writes the head of
\* the response; a middleware that filters the request does so itself.
Responds(r) ==
    /\ req[r].at = "active" /\ req[r].answers = 0
    /\ req' = [req EXCEPT ![r].answers = 1]
    /\ UNCHANGED <<orVars, conn, graceful>>

WriteRespHeaders(r) == req[r].conn # None /\ ~IsQUIC(req[r].conn) /\ Responds(r)

\* Over QUIC: AckConnection for a stream, WriteRespHeaders for HTTP.
WriteConnectResponse(r) == req[r].conn # None /\ IsQUIC(req[r].conn) /\ Responds(r)

\* An error is written as the response unless a response was begun: then the
\* stream is reset (CancelWrite, or the panic that aborts the handler).
RequestFails(r) ==
    /\ req[r].at = "active"
    /\ req' = [req EXCEPT ![r].answers = 1,
                          ![r].at = IF req[r].answers = 0 THEN "done" ELSE "reset"]
    /\ UNCHANGED <<orVars, conn, graceful>>

RequestEnds(r) ==
    /\ req[r].at = "active" /\ req[r].answers = 1
    /\ req' = [req EXCEPT ![r].at = "done"]
    /\ UNCHANGED <<orVars, conn, graceful>>

\* The handler of a request whose transport is gone returns.
Cut(r) ==
    /\ req[r].at = "active" /\ conn[req[r].conn].link # "up"
    /\ req' = [req EXCEPT ![r].at = "cut"]
    /\ UNCHANGED <<orVars, conn, graceful>>

\* A configuration is pushed over a registered connection.
PushedConfig(c, v) ==
    /\ Serving(c) /\ conn[c].link = "up" /\ conn[c].control \in {"pushing", "sending", "registered", "grace"}
    /\ OrUpdate(v)
    /\ UNCHANGED <<conn, req, graceful>>

Orchestrate == OrStep /\ UNCHANGED <<conn, req, graceful>>

ControlStep(c) ==
    \/ PushConfig(c) \/ SendLocalConfiguration(c) \/ WaitForUnregister(c)
    \/ GracefulShutdown(c) \/ UnregisterFails(c) \/ GraceOver(c)
ServeStep(c) == H2Waited(c) \/ H2Close(c) \/ H2Ends(c) \/ QuicEnds(c)
RegErrors == {"dup", "permanent", "retry"}

Next ==
    \/ Shutdown \/ Cancel \/ Orchestrate
    \/ \E c \in Conns :
          \/ DialFails(c) \/ Dial(c) \/ OpenControlStream(c) \/ Registered(c)
          \/ \E e \in RegErrors : RegisterFails(c, e)
          \/ ControlStep(c) \/ ServeStep(c) \/ OtherRoutineFails(c) \/ Lost(c)
          \/ \E v \in Versions : PushedConfig(c, v)
          \/ \E r \in Reqs, k \in {"http", "stream"} : ServeHTTP(r, c, k) \/ AcceptStream(r, c, k)
    \/ \E r \in Reqs : WriteRespHeaders(r) \/ WriteConnectResponse(r) \/ RequestFails(r) \/ RequestEnds(r) \/ Cut(r)

\* An HTTP request carries the serve context to the origin, so it ends once the
\* context does; a stream ends only when one of its two ends closes it.
HTTPEnds(r) ==
    /\ req[r].at = "active" /\ req[r].kind = "http" /\ conn[req[r].conn].done
    /\ RequestFails(r)

Fairness ==
    /\ WF_vars(Orchestrate)
    /\ \A c \in Conns :
          /\ WF_vars(ControlStep(c)) /\ WF_vars(ServeStep(c))
          /\ WF_vars(\E e \in RegErrors : RegisterFails(c, e))
    /\ \A r \in Reqs : WF_vars(Cut(r)) /\ WF_vars(HTTPEnds(r))

Spec == Init /\ [][Next]_vars /\ Fairness
-----------------------------------------------------------------------------
\* Each request is answered at most once, and one that ends on a live transport
\* is answered or reset: the error path of ServeHTTP and of handleDataStream
\* looks at whether the proxy already began a response.
AnsweredOnce ==
    \A r \in Reqs : /\ req[r].answers <= 1
                    /\ req[r].at \in {"done", "reset"} => req[r].answers = 1

\* A graceful shutdown does not cut requests.  When a request is cut because
\* cloudflared closed the connection, then over HTTP/2 it arrived after the
\* context had ended (close waits for the others), and over QUIC the grace
\* period was over, the context had ended from above, or a routine had failed.
DrainKept ==
    \A r \in Reqs :
       LET k == conn[req[r].conn] IN
       (req[r].at = "cut" /\ k.link = "closed") =>
          IF k.proto = "quic" THEN k.waited \/ stopping \/ k.err # "none" ELSE req[r].late

\* However the connection ends, no request is answered twice or cut for nothing.
RequestsKept == AnsweredOnce /\ DrainKept

\* Once the context of the server has ended every connection ends, unless it
\* is HTTP/2 and a stream stays open: close waits for the handlers of streams,
\* which do not look at the context.
StopWaitsOnlyForStreams ==
    \A c \in Conns :
       (stopping /\ Serving(c)) ~> \/ conn[c].result # "none"
                                   \/ ~IsQUIC(c) /\ \E r \in Active(c) : req[r].kind = "stream"

\* What the edge is promised of a request and of a connection.  One of QUIC is
\* excused once its grace period is over, the process stops or a routine has
\* failed; one of HTTP/2 never is.
View(q) == [at |-> q.at, on |-> q.conn, answers |-> q.answers, late |-> q.late]
ExcusedBy(k, s) == k.proto = "quic" /\ (k.waited \/ s \/ k.err # "none")
Lines == [c \in Conns |-> conn[c].link]
Draining == {c \in Conns : conn[c].done}
Excused == {c \in Conns : ExcusedBy(conn[c], stopping)}
Asks == [r \in Reqs |-> View(req[r])]

Drain == INSTANCE ConnectionDrain WITH line <- Lines, draining <- Draining, excused <- Excused, ask <- Asks

\* Every step of a connection and of its requests is one of ConnectionDrain, or
\* changes nothing that the edge can see.
ImplementsDrain == Drain!Spec

\* The shutdown of the process reaches the origins and every connection, which
\* drains as it promises.
StopCompletes == OriginsStop /\ StopWaitsOnlyForStreams /\ ImplementsDrain
=============================================================================
