---------------------------- MODULE MCEdge --------------------------------
(* How connections reach the edge: the supervisor that keeps them, the     *)
(* addresses they are given, and the protocol they use.  Each behaviour is *)
(* of one of the three, so their state spaces add up; the steps at which   *)
(* they meet (an address that is refused, an end that is backed off from)  *)
(* happen at any time in each.                                             *)
EXTENDS Supervisor, EdgePool, ProtocolFallback, TLC

CONSTANTS a1, a2, a3, a4, b1, b2, b3, c1, c2, c3, i0, i1

\* Two IPv4 addresses in each region; one IPv6 address in the first region and
\* two in the second, just enough for three connections.  IPv6 is preferred.
DualAddrs == {a1, a2, a3, a4, b1, b2, b3}
DualRegion == [a \in DualAddrs |-> IF a \in {a1, a2, b1} THEN 1 ELSE 2]
DualVersion == [a \in DualAddrs |-> IF a \in {a1, a2, a3, a4} THEN 4 ELSE 6]

PreferIPv6 == [r \in {1, 2} |-> 6]

VARIABLE part

\* A part that does not run has one initial state, where none of its fair
\* actions is enabled: no shutdown, an IPv4 address for everyone, QUIC not
\* blocked.  Behind a network that blocks QUIC there are two connections with
\* the default selector, otherwise one with another selector.
IdleAddr == c1 :> a1 @@ c2 :> a2 @@ c3 :> a3
MCInit ==
    /\ part \in {"supervisor", "addresses", "protocol"}
    /\ Init /\ (part # "supervisor" => ~graceful)
    /\ IF part = "addresses" THEN PoolInit
       ELSE /\ override = "auto" /\ addr = IdleAddr /\ refused = [c \in ConnIDs |-> "no"]
            /\ usedBy = [a \in Addrs |-> IF \E c \in ConnIDs : IdleAddr[c] = a
                                         THEN CHOOSE c \in ConnIDs : IdleAddr[c] = a ELSE NoConn]
            /\ fellBack = [r \in {1, 2} |-> TRUE] /\ expired = [r \in {1, 2} |-> FALSE]
    /\ FallbackInit /\ (quicBlocked <=> selector = "default")
    /\ part # "protocol" => selector = "static" /\ current = "QUIC"

MCNext ==
    \/ part = "supervisor" /\ Next /\ UNCHANGED <<poolVars, fallbackVars, part>>
    \/ part = "addresses" /\ PoolNext /\ UNCHANGED <<vars, fallbackVars, part>>
    \/ /\ part = "protocol" /\ FallbackNext /\ UNCHANGED <<vars, poolVars, part>>
       /\ ~quicBlocked => pc'[i1] = "off"

MCSpec ==
    /\ MCInit /\ [][MCNext]_<<vars, poolVars, fallbackVars, part>>
    /\ Fairness /\ PoolFairness /\ FallbackFairness
=============================================================================
