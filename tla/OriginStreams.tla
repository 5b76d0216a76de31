--------------------------- MODULE OriginStreams ---------------------------
(***************************************************************************)
(* One proxied stream between the edge (the tunnel) and an origin: the     *)
(* handler dials, acknowledges, pipes both ways and cleans up, while two   *)
(* copying goroutines and, over WebSockets, a pinger use the same streams. *)
(***************************************************************************)
EXTENDS Naturals

VARIABLES
    kind,      \* private, upgrade (HTTP 101), ws, socksConn or socks
    timeouts,  \* --write-stream-timeout is set (by default it is not)
    main,      \* where the handler is
    origin,    \* the connection to the origin
    tunnel,    \* the stream to the edge: open, lost with its connection, or closed
    up, down,  \* the goroutines that copy to the origin and to the tunnel
    pinger,    \* websocket.Conn.pinger
    lock,      \* who holds Conn.writeLock
    done,      \* Conn.done
    slot       \* a slot of the flow limiter is taken

streamVars == <<kind, timeouts, main, origin, tunnel, up, down, pinger, lock, done, slot>>

WS == kind \in {"ws", "socksConn", "socks"}
Socks == kind \in {"socksConn", "socks"}
Over == {"ended", "failed"}

StreamInit ==
    /\ kind \in {"private", "upgrade", "ws", "socksConn", "socks"} /\ timeouts \in BOOLEAN
    /\ main = "start" /\ origin = "none" /\ tunnel = "open"
    /\ up = "off" /\ down = "off" /\ pinger = "off"
    /\ lock = "free" /\ done = FALSE /\ slot = FALSE

\* What a step of the handler leaves alone.
HandlerOnly == UNCHANGED <<kind, timeouts, tunnel, up, down, pinger, lock>>
-----------------------------------------------------------------------------
(* The handler *)

\* Too many flows, or a destination that cannot be parsed: the slot is given back.
ProxyTCP ==
    /\ main = "start" /\ kind = "private"
    /\ \/ main' = "done" /\ UNCHANGED slot
       \/ main' = "dial" /\ slot' = TRUE
    /\ UNCHANGED <<origin, done>> /\ HandlerOnly

\* A middleware filters the request, a bastion has no destination, or a
\* service that streams was matched.
ProxyHTTP ==
    /\ main = "start" /\ kind # "private"
    /\ main' \in {"done", "dial"}
    /\ UNCHANGED <<origin, done, slot>> /\ HandlerOnly

\* DialTCP, RoundTrip or EstablishConnection, which for the SOCKS service does not dial.
EstablishConnection ==
    /\ main = "dial"
    /\ \/ kind = "socks" /\ main' = "ack" /\ UNCHANGED origin
       \/ kind # "socks" /\ main' = "ack" /\ origin' = "open"
       \/ kind # "socks" /\ main' = "return" /\ UNCHANGED origin
    /\ UNCHANGED <<done, slot>> /\ HandlerOnly

AckConnection ==
    /\ main = "ack"
    /\ \/ tunnel = "open" /\ main' = "stream"
       \/ main' = "return"
    /\ UNCHANGED <<origin, done, slot>> /\ HandlerOnly

\* OriginConnection.Stream or stream.Pipe: over a WebSocket the pinger starts first.
Stream ==
    /\ main = "stream"
    /\ pinger' = IF WS THEN "wait" ELSE pinger
    /\ IF Socks
       THEN main' = "socks" /\ UNCHANGED <<up, down>>
       ELSE main' = "pipe" /\ up' = "read" /\ down' = "read"
    /\ UNCHANGED <<kind, timeouts, origin, tunnel, lock, done, slot>>

\* The version, the method and then the request are read from the tunnel, and
\* an answer to the method is written; a failure ends Serve.
SocksAuth ==
    /\ main = "socks" /\ lock = "free"
    /\ \/ main' = "close"
       \/ tunnel = "open" /\ main' = "request"
    /\ UNCHANGED <<origin, done, slot>> /\ HandlerOnly
SocksRequest ==
    /\ main = "request"
    /\ \/ main' = "close"
       \/ tunnel = "open" /\ main' = "address"
    /\ UNCHANGED <<origin, done, slot>> /\ HandlerOnly
\* An address of an unknown type is not answered.
ReadAddrSpec ==
    /\ main = "address"
    /\ \/ main' = "close"
       \/ tunnel = "open" /\ main' = "connect"
    /\ UNCHANGED <<origin, done, slot>> /\ HandlerOnly

\* The request is refused (by its command, the policy or the dial) or accepted.
HandleConnect ==
    /\ main = "connect"
    /\ \/ main' = "refuse" /\ UNCHANGED origin
       \/ main' = "accept" /\ origin' = "open"
    /\ UNCHANGED <<done, slot>> /\ HandlerOnly

\* sendReply is a Write of the WebSocket; without it the target is closed.
SendReply ==
    /\ main \in {"refuse", "accept"} /\ lock = "free"
    /\ \/ /\ main = "accept" /\ tunnel = "open"
          /\ main' = "pipe" /\ up' = "read" /\ down' = "read" /\ UNCHANGED origin
       \/ /\ main' = "close" /\ UNCHANGED <<up, down>>
          /\ origin' = IF main = "accept" THEN "closed" ELSE origin
    /\ UNCHANGED <<kind, timeouts, tunnel, pinger, lock, done, slot>>

\* Pipe returns with the first goroutine; SOCKS waits for both unless one
\* fails, and then closes its target.
PipeReturns ==
    /\ main = "pipe"
    /\ \/ ~Socks /\ {up, down} \intersect Over # {} /\ UNCHANGED origin
       \/ Socks /\ ("failed" \in {up, down} \/ {up, down} \subseteq Over) /\ origin' = "closed"
    /\ main' = IF WS THEN "close" ELSE "return"
    /\ UNCHANGED <<done, slot>> /\ HandlerOnly

\* Mutant: the connection is marked as done without waiting for the write lock.
ConnCloseUnlocked ==
    /\ main = "close" /\ done' = TRUE /\ main' = "return"
    /\ UNCHANGED <<origin, slot>> /\ HandlerOnly

\* Conn.Close, after the context of the pinger was cancelled.
ConnClose ==
    /\ main = "close" /\ lock = "free" /\ done' = TRUE /\ main' = "return"
    /\ UNCHANGED <<origin, slot>> /\ HandlerOnly

\* Mutant: the origin is left open.
HandlerReturnsKeepsOrigin ==
    /\ main = "return" /\ main' = "done" /\ slot' = FALSE /\ UNCHANGED <<origin, done>> /\ HandlerOnly

\* The deferred calls of the handler.
HandlerReturns ==
    /\ main = "return" /\ main' = "done" /\ slot' = FALSE
    /\ origin' = IF origin = "open" THEN "closed" ELSE origin
    /\ UNCHANGED done /\ HandlerOnly

\* runStream closes the QUIC stream: a deadline of now makes a blocked write
\* fail; over HTTP/2 the stream ends with its handler.
CloseStream ==
    /\ main = "done" /\ tunnel = "open" /\ tunnel' = "closed"
    /\ UNCHANGED <<kind, timeouts, main, origin, up, down, pinger, lock, done, slot>>

\* The connection to the edge ends, and with it the context and the stream.
TunnelLost ==
    /\ tunnel = "open" /\ tunnel' = "lost"
    /\ UNCHANGED <<kind, timeouts, main, origin, up, down, pinger, lock, done, slot>>
-----------------------------------------------------------------------------
(* unidirectionalStream, from the tunnel to the origin *)

UpStep(new) == up' = new /\ UNCHANGED <<kind, timeouts, main, origin, tunnel, down, pinger, lock, done, slot>>

\* Data, the end of the stream, or a control frame, which Conn.Read answers
\* without the write lock.
UpRead == up = "read" /\ tunnel = "open" /\ \E r \in {"write", "ended"} \union (IF WS THEN {"pong"} ELSE {}) : UpStep(r)
UpReadFails == up \in {"read", "pong"} /\ tunnel # "open" /\ UpStep("failed")
UpPong == up = "pong" /\ tunnel = "open" /\ UpStep("read")

\* A write to the origin waits as long as the origin does not read, unless
\* there is a timeout, which only tcpConnection has.
UpWrite == up = "write" /\ \E r \in {"read", "failed"} : (r = "read" => origin = "open") /\ UpStep(r)
UpWriteEnds == (origin = "closed" \/ (timeouts /\ kind = "private")) /\ UpWrite
-----------------------------------------------------------------------------
(* unidirectionalStream, from the origin to the tunnel *)

DownStep(new, l) == down' = new /\ lock' = l /\ UNCHANGED <<kind, timeouts, main, origin, tunnel, up, pinger, done, slot>>
Unlock(me) == IF lock = me THEN "free" ELSE lock

DownRead == down = "read" /\ origin = "open" /\ \E r \in {"lock", "ended", "failed"} : DownStep(r, lock)
DownReadFails == down = "read" /\ origin = "closed" /\ DownStep("failed", lock)

\* Conn.Write refuses to write once the connection is closed.
DownLock ==
    /\ down = "lock"
    /\ \/ ~WS /\ DownStep("write", lock)
       \/ WS /\ lock = "free" /\ ~done /\ DownStep("write", "down")
       \/ WS /\ lock = "free" /\ done /\ DownStep("failed", lock)

\* A write to the tunnel waits as long as the client does not read; a timeout
\* cancels the write side of the stream.
DownWrite ==
    /\ down = "write"
    /\ \/ tunnel = "open" /\ DownStep("read", Unlock("down"))
       \/ tunnel = "open" /\ timeouts /\ DownStep("failed", Unlock("down"))
DownWriteFails == down = "write" /\ tunnel # "open" /\ DownStep("failed", Unlock("down"))
-----------------------------------------------------------------------------
(* The pinger *)

PingStep(new, l) == pinger' = new /\ lock' = l /\ UNCHANGED <<kind, timeouts, main, origin, tunnel, up, down, done, slot>>
Cancelled == main \in {"close", "return", "done"} \/ tunnel # "open"

PingTick == pinger = "wait" /\ PingStep("lock", lock)
PingerStops == pinger = "wait" /\ Cancelled /\ PingStep("ended", lock)
Ping ==
    /\ pinger = "lock" /\ lock = "free"
    /\ \/ done /\ PingStep("ended", lock)
       \/ ~done /\ PingStep("write", "ping")
\* The pong message that follows a ping is empty: nothing is written for it.
PingWritten == pinger = "write" /\ tunnel = "open" /\ PingStep("wait", Unlock("ping"))
PingFails == pinger = "write" /\ tunnel # "open" /\ PingStep("wait", Unlock("ping"))
-----------------------------------------------------------------------------
StreamNext ==
    \/ ProxyTCP \/ ProxyHTTP \/ EstablishConnection \/ AckConnection \/ Stream \/ SocksAuth \/ SocksRequest \/ ReadAddrSpec \/ HandleConnect \/ SendReply
    \/ PipeReturns \/ ConnClose \/ HandlerReturns \/ CloseStream \/ TunnelLost
    \/ UpRead \/ UpReadFails \/ UpPong \/ UpWrite
    \/ DownRead \/ DownReadFails \/ DownLock \/ DownWrite \/ DownWriteFails
    \/ PingTick \/ PingerStops \/ Ping \/ PingWritten \/ PingFails

\* The steps that wait for no peer.  Whether a peer reads or sends is left
\* open; PingerStops is strongly fair because a select takes a ready case
\* with some probability each time.
StreamFairness ==
    /\ WF_streamVars(ProxyTCP) /\ WF_streamVars(EstablishConnection) /\ WF_streamVars(AckConnection) /\ WF_streamVars(Stream)
    /\ SF_streamVars(SocksAuth) /\ WF_streamVars(SocksRequest) /\ WF_streamVars(ReadAddrSpec) /\ WF_streamVars(HandleConnect)
    /\ SF_streamVars(SendReply) /\ WF_streamVars(PipeReturns)
    /\ SF_streamVars(ConnClose) /\ WF_streamVars(HandlerReturns) /\ WF_streamVars(CloseStream)
    /\ WF_streamVars(UpReadFails) /\ WF_streamVars(UpWriteEnds) /\ WF_streamVars(DownReadFails)
    /\ SF_streamVars(DownLock) /\ WF_streamVars(DownWriteFails)
    /\ SF_streamVars(PingerStops) /\ SF_streamVars(Ping) /\ WF_streamVars(PingFails)

StreamTypeOK ==
    /\ origin \in {"none", "open", "closed"} /\ tunnel \in {"open", "lost", "closed"}
    /\ up \in {"off", "read", "pong", "write"} \union Over
    /\ down \in {"off", "read", "lock", "write"} \union Over
    /\ pinger \in {"off", "wait", "lock", "write", "ended"} /\ lock \in {"free", "down", "ping"}
-----------------------------------------------------------------------------
\* When the handler of a WebSocket stream returns, no frame of a Write or of a
\* ping is being written and none can follow: the frames that the pinger and
\* the copying goroutine still hold are refused.
NoLateFrame ==
    (WS /\ main \in {"return", "done"} /\ pinger # "off") => /\ down # "write" /\ pinger # "write" /\ lock = "free" /\ done

\* A handler that has returned holds neither its origin nor a slot of the flow
\* limiter, on every path through it: a refused or failed dial, a lost tunnel,
\* a refused SOCKS request, the end of either direction.
NothingHeld == main = "done" => origin # "open" /\ ~slot

Released ==
    /\ main = "done" /\ origin # "open" /\ ~slot
    /\ up \in {"off"} \union Over /\ down \in {"off"} \union Over /\ pinger \in {"off", "ended"}

\* A stream leaves nothing behind: after its handler has returned, both
\* goroutines and the pinger end although they may be blocked on either side,
\* the origin is closed and the slot is free.  With a write timeout the handler
\* of a private TCP stream itself returns when the connection to the edge is
\* lost, even if the origin has stopped reading.
StreamsReleased ==
    (main = "done" \/ (tunnel = "lost" /\ timeouts /\ kind = "private")) ~> Released
=============================================================================
