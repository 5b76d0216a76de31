----------------------------- MODULE OriginHTTP -----------------------------
(***************************************************************************)
(* Concurrent HTTP requests to one TLS origin with matchSNItoHost: each    *)
(* request sets the dial function of the transport they share, and the     *)
(* transport keeps connections for later requests.                         *)
(***************************************************************************)
EXTENDS Naturals

CONSTANTS
    Eyeballs,   \* requests that are handled at one time
    HostNames,
    Pool,       \* bound: connections to the origin
    Nothing

ASSUME OriginAssumption == Nothing \notin Eyeballs \union HostNames \union Pool

VARIABLES
    rq,      \* eyeball -> [at, host, conn]
    dialTLS, \* the host in the closure transport.DialTLSContext
    conns    \* connection -> [name: its server name, by: the request on it]

httpVars == <<rq, dialTLS, conns>>

Quiet == [at |-> "idle", host |-> Nothing, conn |-> Nothing]
NoConn == [name |-> Nothing, by |-> Nothing]

HTTPInit ==
    /\ rq = [r \in Eyeballs |-> Quiet] /\ dialTLS = Nothing
    /\ conns = [c \in Pool |-> NoConn]

\* RoundTrip rewrites the URL and sets DialTLSContext for the host of the request.
RoundTrip(r, h) ==
    /\ rq[r].at = "idle" /\ rq' = [rq EXCEPT ![r] = [at |-> "roundTrip", host |-> h, conn |-> Nothing]]
    /\ dialTLS' = h /\ UNCHANGED conns

Send(r, c, name) ==
    /\ rq' = [rq EXCEPT ![r].at = "sent", ![r].conn = c]
    /\ conns' = [conns EXCEPT ![c] = [name |-> name, by |-> r]]
    /\ UNCHANGED dialTLS

\* The transport takes an idle connection to the same address, or dials.
UseIdle(r) ==
    /\ rq[r].at = "roundTrip"
    /\ \E c \in Pool : conns[c].by = Nothing /\ conns[c] # NoConn /\ Send(r, c, conns[c].name)
Dial(r) ==
    /\ rq[r].at = "roundTrip"
    /\ \E c \in Pool : conns[c] = NoConn /\ Send(r, c, dialTLS)

\* The origin cannot be reached or the request was cancelled: the error
\* becomes a 502 response.
RoundTripFails(r) ==
    /\ rq[r].at = "roundTrip" /\ rq' = [rq EXCEPT ![r] = Quiet] /\ UNCHANGED <<dialTLS, conns>>

\* The response is copied to the tunnel and its body closed; the connection is
\* kept when the body was read to its end.
CopyResponse(r, keep) ==
    /\ rq[r].at = "sent" /\ rq' = [rq EXCEPT ![r] = Quiet]
    /\ conns' = [conns EXCEPT ![rq[r].conn] = IF keep THEN [@ EXCEPT !.by = Nothing] ELSE NoConn]
    /\ UNCHANGED dialTLS

\* keepAliveTimeout
IdleCloses(c) ==
    /\ conns[c] # NoConn /\ conns[c].by = Nothing /\ conns' = [conns EXCEPT ![c] = NoConn]
    /\ UNCHANGED <<rq, dialTLS>>

HTTPNext ==
    \/ \E r \in Eyeballs :
          \/ UseIdle(r) \/ Dial(r) \/ RoundTripFails(r)
          \/ \E h \in HostNames : RoundTrip(r, h)
          \/ \E keep \in BOOLEAN : CopyResponse(r, keep)
    \/ \E c \in Pool : IdleCloses(c)

HTTPSpec == HTTPInit /\ [][HTTPNext]_httpVars

\* With matchSNItoHost the server name of the connection that carries a
\* request is the host of that request.
ServerNameMatches == \A r \in Eyeballs : rq[r].at = "sent" => conns[rq[r].conn].name = rq[r].host
=============================================================================
