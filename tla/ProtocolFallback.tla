-------------------------- MODULE ProtocolFallback --------------------------
(***************************************************************************)
(* EdgeTunnelServer.Serve seen from its retries: for each connection the   *)
(* protocolFallback (protocol, inFallback and the backoff), the counter of *)
(* address rotations of IpAddrFallback, and the decision which protocol    *)
(* the next attempt uses, which reads the table of ConnEvents.  That Serve *)
(* is called again after it returns is the Supervisor's business and taken *)
(* for granted here.                                                       *)
(***************************************************************************)
EXTENDS ConnEvents

CONSTANTS
    Selectors,           \* kinds of protocol selector, of "static", "default"
                         \* and "remote"
    First,               \* the connection that is started first
    Retries,             \* TunnelConfig.Retries
    MaxEdgeAddrRetries,  \* TunnelConfig.MaxEdgeAddrRetries
    Refreshes            \* bound: changes of the remote selector's protocol

ASSUME FallbackAssumption ==
    /\ First \in ConnIndexes /\ BufferSize \in Nat \ {0}
    /\ Selectors # {} /\ Selectors \subseteq {"static", "default", "remote"}
    /\ Retries \in Nat /\ MaxEdgeAddrRetries \in Nat /\ Refreshes \in Nat

VARIABLES
    quicBlocked, \* the network lets no QUIC through, and what is up stays up
    selector,    \* the kind of ProtocolSelector
    current,     \* ProtocolSelector.Current()
    refreshes,   \* how often the remote selector has changed it
    pc,          \* "off", "dialing", "connected", "unregistered" or "backoff"
    protocol,    \* protocolFallback.protocol
    inFallback,  \* protocolFallback.inFallback
    retries,     \* BackoffHandler.retries
    reset,       \* BackoffHandler.resetDeadline is set (and in the past)
    addrRetries, \* IpAddrFallback.retriesByConnIndex
    failure,     \* the error Serve is backing off from
    everUsed,    \* history: protocols a connection was registered with
    failures     \* history: failures since the last reset, at most Retries

fbVars == <<protocol, inFallback, retries, reset, addrRetries, failures>>
fallbackVars == <<evVars, fbVars, quicBlocked, selector, current, refreshes, pc, failure, everUsed>>

NoFailure == [fallback |-> FALSE, quicBroken |-> FALSE]

FallbackInit ==
    /\ EvInit /\ quicBlocked \in BOOLEAN
    /\ selector \in Selectors
    /\ current \in (IF selector = "default" THEN {"QUIC"} ELSE Protocols)
    /\ refreshes = 0
    /\ pc = [c \in ConnIndexes |-> IF c = First THEN "dialing" ELSE "off"]
    /\ protocol = [c \in ConnIndexes |-> current]
    /\ inFallback = [c \in ConnIndexes |-> FALSE]
    /\ retries = [c \in ConnIndexes |-> 0] /\ reset = [c \in ConnIndexes |-> FALSE]
    /\ addrRetries = [c \in ConnIndexes |-> 0]
    /\ failure = [c \in ConnIndexes |-> NoFailure]
    /\ everUsed = {} /\ failures = [c \in ConnIndexes |-> 0]

\* ProtocolSelector.Fallback: only QUIC has a fall back, and a protocol the
\* user chose has none.
HasFallback == selector # "static" /\ current = "QUIC"

\* initialize: the other connections use the protocol of the first one.
StartOther(c) ==
    /\ pc[c] = "off" /\ everUsed # {}
    /\ pc' = [pc EXCEPT ![c] = "dialing"]
    /\ protocol' = [protocol EXCEPT ![c] = protocol[First]]
    /\ UNCHANGED <<evVars, quicBlocked, selector, current, refreshes, inFallback, retries, reset, addrRetries, failure, everUsed, failures>>

\* Mutant: the backoff is not reset when the connection is registered.
RegisterKeepsRetries(c) ==
    /\ pc[c] = "dialing" /\ (quicBlocked => protocol[c] = "HTTP2")
    /\ pc' = [pc EXCEPT ![c] = "connected"]
    /\ everUsed' = everUsed \cup {protocol[c]}
    /\ inFallback' = [inFallback EXCEPT ![c] = FALSE]
    /\ failures' = [failures EXCEPT ![c] = 0]
    /\ SendEvents(<<Event(c, "Connected", protocol[c])>>)
    /\ UNCHANGED <<quicBlocked, selector, current, refreshes, protocol, retries, reset, addrRetries, failure>>

\* ServeControlStream registers the connection: sendConnectedEvent, then
\* connectedFuse.Connected resets the backoff.
Register(c) ==
    /\ pc[c] = "dialing" /\ (quicBlocked => protocol[c] = "HTTP2")
    /\ pc' = [pc EXCEPT ![c] = "connected"]
    /\ everUsed' = everUsed \cup {protocol[c]}
    /\ inFallback' = [inFallback EXCEPT ![c] = FALSE]
    /\ retries' = [retries EXCEPT ![c] = 0]
    /\ reset' = [reset EXCEPT ![c] = TRUE]
    /\ failures' = [failures EXCEPT ![c] = 0]
    /\ SendEvents(<<Event(c, "Connected", protocol[c])>>)
    /\ UNCHANGED <<quicBlocked, selector, current, refreshes, protocol, addrRetries, failure>>

\* waitForUnregister, when the connection is lost or shut down.
Unregister(c) ==
    /\ pc[c] = "connected" /\ ~quicBlocked
    /\ pc' = [pc EXCEPT ![c] = "unregistered"]
    /\ SendEvents(<<Event(c, "Unregistering", "HTTP2")>>)
    /\ UNCHANGED <<fbVars, quicBlocked, selector, current, refreshes, failure, everUsed>>

\* BackoffHandler.BackoffTimer: a reset that is due comes first, and the retries stay at
\* their maximum because retryForever is set.
CountBackoff(c) ==
    LET base == IF reset[c] THEN 0 ELSE retries[c] IN
    /\ retries' = [retries EXCEPT ![c] = IF base >= Retries THEN base ELSE base + 1]
    /\ reset' = [reset EXCEPT ![c] = FALSE]

\* The kinds of errors serveTunnel and ShouldGetNewAddress tell apart:
\*   "dial"       the edge cannot be reached: the address is rotated
\*   "dup"        duplicate registration, "permanent" a permanent error, a
\*                cancellation or none: no fall back
\*   "other"      a recoverable error, which may also be an idle timeout
Kinds == {"dial", "dup", "permanent", "other"}

\* shouldFallbackProtocol at the end of Serve.
ShouldFallback(c, kind) ==
    \/ kind = "other"
    \/ kind = "dial" /\ addrRetries[c] >= MaxEdgeAddrRetries

\* Mutant: the counter is set back one rotation too early.
CountAddrRetryEarlyReset(c, kind) ==
    addrRetries' = [addrRetries EXCEPT ![c] =
        IF kind # "dial" THEN @ ELSE IF @ + 1 >= MaxEdgeAddrRetries THEN 0 ELSE @ + 1]

\* IpAddrFallback.ShouldGetNewAddress
CountAddrRetry(c, kind) ==
    addrRetries' = [addrRetries EXCEPT ![c] =
        IF kind # "dial" THEN @ ELSE IF @ >= MaxEdgeAddrRetries THEN 0 ELSE @ + 1]

\* serveTunnel has returned: SendDisconnect, the address, SendReconnect, and
\* Serve starts to wait for the backoff timer.  QUIC is found broken only before a
\* connection has registered: an idle timeout of one that serves is replaced by an
\* error without a cause, such as ControlStreamError.
Fail(c, kind, quicBroken) ==
    /\ pc[c] \in {"dialing", "unregistered"}
    /\ quicBlocked => protocol[c] = "QUIC" /\ kind = "dial"
    /\ quicBroken => protocol[c] = "QUIC" /\ kind \in {"dial", "other"} /\ pc[c] = "dialing"
    /\ kind \in {"dial", "dup"} => pc[c] = "dialing"
    /\ CountAddrRetry(c, kind)
    /\ failure' = [failure EXCEPT ![c] =
          [fallback |-> ShouldFallback(c, kind), quicBroken |-> quicBroken]]
    /\ CountBackoff(c)
    /\ failures' = [failures EXCEPT ![c] = IF @ >= Retries THEN @ ELSE @ + 1]
    /\ pc' = [pc EXCEPT ![c] = "backoff"]
    /\ SendEvents(<<Event(c, "Disconnected", "HTTP2"), Event(c, "Reconnecting", "HTTP2")>>)
    /\ UNCHANGED <<quicBlocked, selector, current, refreshes, protocol, inFallback, everUsed>>

\* The rotation finds no address: Serve returns without backing off.
FailNoAddress(c) ==
    /\ pc[c] = "dialing" /\ ~quicBlocked
    /\ \E kind \in {"dial", "dup"} : CountAddrRetry(c, kind)
    /\ SendEvents(<<Event(c, "Disconnected", "HTTP2")>>)
    /\ UNCHANGED <<quicBlocked, selector, current, refreshes, pc, protocol, inFallback, retries, reset, failure, everUsed, failures>>

\* selectNextProtocol
SelectNextProtocol(c) ==
    IF retries[c] = Retries \/ (HasFallback /\ failure[c].quicBroken)
    THEN IF HasFallback /\ protocol[c] # "HTTP2"
         THEN /\ protocol' = [protocol EXCEPT ![c] = "HTTP2"]
              /\ inFallback' = [inFallback EXCEPT ![c] = TRUE]
              /\ retries' = [retries EXCEPT ![c] = 0]
              /\ reset' = [reset EXCEPT ![c] = TRUE]
              /\ failures' = [failures EXCEPT ![c] = 0]
         ELSE UNCHANGED <<protocol, inFallback, retries, reset, failures>>
    ELSE /\ protocol' = [protocol EXCEPT ![c] = IF inFallback[c] THEN @ ELSE current]
         /\ UNCHANGED <<inFallback, retries, reset, failures>>

\* The backoff timer of Serve fires; Serve returns and is called again.
Retry(c) ==
    /\ pc[c] = "backoff"
    /\ pc' = [pc EXCEPT ![c] = "dialing"]
    /\ failure' = [failure EXCEPT ![c] = NoFailure]
    /\ IF failure[c].fallback /\ ~HasConnectedWith(current)
       THEN SelectNextProtocol(c)
       ELSE UNCHANGED <<protocol, inFallback, retries, reset, failures>>
    /\ UNCHANGED <<evVars, quicBlocked, selector, current, refreshes, addrRetries, everUsed>>

\* remoteProtocolSelector: a call of Current after ResolveTTL fetches the
\* percentages again and may choose another protocol.
Refresh ==
    /\ selector = "remote" /\ refreshes < Refreshes
    /\ current' \in Protocols \ {current}
    /\ refreshes' = refreshes + 1
    /\ UNCHANGED <<evVars, fbVars, quicBlocked, selector, pc, failure, everUsed>>

Observe == (AddSink \/ Dispatch) /\ UNCHANGED <<fbVars, quicBlocked, selector, current, refreshes, pc, failure, everUsed>>

ServeStep(c) ==
    \/ StartOther(c) \/ Register(c) \/ Unregister(c) \/ Retry(c) \/ FailNoAddress(c)
    \/ \E kind \in Kinds, quicBroken \in BOOLEAN : Fail(c, kind, quicBroken)

\* Every connection is up for good.
AllUp == quicBlocked /\ (\A c \in ConnIndexes : pc[c] = "connected") /\ UNCHANGED fallbackVars

FallbackNext == (\E c \in ConnIndexes : ServeStep(c)) \/ Refresh \/ Observe \/ AllUp

FallbackSpec == FallbackInit /\ [][FallbackNext]_fallbackVars

\* Where QUIC is blocked: the goroutines are scheduled, timers fire, and
\* dialling ends one way or the other.
FallbackFairness ==
    /\ WF_fallbackVars(quicBlocked /\ Observe)
    /\ \A c \in ConnIndexes :
          WF_fallbackVars(quicBlocked /\ (\/ StartOther(c) \/ Retry(c) \/ Register(c)
                                          \/ \E broken \in BOOLEAN : Fail(c, "dial", broken)))
-----------------------------------------------------------------------------
(* Properties *)

FallbackTypeOK ==
    /\ EvTypeOK /\ quicBlocked \in BOOLEAN /\ selector \in Selectors
    /\ current \in Protocols /\ refreshes \in 0 .. Refreshes
    /\ pc \in [ConnIndexes -> {"off", "dialing", "connected", "unregistered", "backoff"}]
    /\ protocol \in [ConnIndexes -> Protocols] /\ inFallback \in [ConnIndexes -> BOOLEAN]
    /\ retries \in [ConnIndexes -> 0 .. Retries] /\ reset \in [ConnIndexes -> BOOLEAN]
    /\ addrRetries \in [ConnIndexes -> 0 .. MaxEdgeAddrRetries]
    /\ failure \in [ConnIndexes -> [fallback : BOOLEAN, quicBroken : BOOLEAN]]
    /\ everUsed \subseteq Protocols /\ failures \in [ConnIndexes -> 0 .. Retries]

\* A connection leaves QUIC for its fall back only when QUIC is known to be
\* broken, or after Retries failures in a row: a registration starts the count
\* again.  A protocol that the user chose is never left: "If the user picks a
\* protocol, then we stick to it no matter what" (NewProtocolSelector).
FallbackJustified ==
    [][\A c \in ConnIndexes :
          protocol[c] = "QUIC" /\ protocol'[c] = "HTTP2" /\ current = "QUIC" /\ pc[c] = "backoff" =>
              /\ selector # "static"
              /\ failure[c].quicBroken \/ failures[c] >= Retries]_fallbackVars

\* While no event is lost, the table agrees with the connections whenever all
\* events have been dispatched: the readiness endpoint tells the truth.
TrackerAgrees ==
    events = <<>> /\ ~lost => \A c \in ConnIndexes : tracker[c].connected = (pc[c] = "connected")

\* HasConnectedWith "checks if we've ever had a successful connection to the
\* edge with said protocol".
HasConnectedWithIsTrue == \A p \in Protocols : HasConnectedWith(p) => p \in everUsed

\* Where QUIC is blocked every connection is made in the end with HTTP2.
ReachesEdge == quicBlocked => \A c \in ConnIndexes : <>(pc[c] = "connected")
=============================================================================
