------------------------------ MODULE EdgePool ------------------------------
(***************************************************************************)
(* edgediscovery.Edge: the pool of edge addresses, in two regions, that    *)
(* hands one address to each connection of the tunnel.  A region has a     *)
(* primary and a secondary set of addresses, one per IP version, and gives *)
(* out addresses of its active set.  Every operation runs under the mutex  *)
(* of Edge, so an operation is one step; the connections call them in any  *)
(* order.                                                                  *)
(***************************************************************************)
EXTENDS Naturals, Integers, FiniteSets

CONSTANTS
    ConnIDs,       \* connection indices
    Addrs,       \* the addresses DNS returned
    RegionOf,    \* their region, 1 or 2
    Version,     \* their IP version, 4 or 6
    Preference,  \* IP version of the first address of each region
    Overrides,   \* the IP versions to configure, of "auto", "v4" and "v6"
    NoConn         \* no connection, no address

ASSUME AddrsAssumption ==
    /\ IsFiniteSet(Addrs) /\ IsFiniteSet(ConnIDs) /\ NoConn \notin ConnIDs \cup Addrs
    /\ RegionOf \in [Addrs -> {1, 2}]
    /\ Version \in [Addrs -> {4, 6}]
    /\ Preference \in [{1, 2} -> {4, 6}]
    /\ Overrides # {} /\ Overrides \subseteq {"auto", "v4", "v6"}

VARIABLES
    override,    \* the configured IP version, read once
    usedBy,      \* AddrSet: who uses an address
    fellBack,    \* ~primaryIsActive, by region
    expired,     \* primaryTimeout has passed, by region
    addr,        \* the address a connection is serving on
    refused      \* connections whose last call found no address: by which call

poolVars == <<override, usedBy, fellBack, expired, addr, refused>>

PrimaryVersion(r) ==
    CASE override = "v4" -> 4 [] override = "v6" -> 6 [] OTHER -> Preference[r]

Primary(r) == {a \in Addrs : RegionOf[a] = r /\ Version[a] = PrimaryVersion(r)}
Secondary(r) ==
    IF override # "auto" THEN {}
    ELSE {a \in Addrs : RegionOf[a] = r /\ Version[a] # PrimaryVersion(r)}

ActiveSet(fb, r) == IF fb[r] THEN Secondary(r) ELSE Primary(r)
Pool(r) == Primary(r) \cup Secondary(r)

Held(ub, c) == {a \in Addrs : ub[a] = c}
Unused(ub, fb, r) == {a \in ActiveSet(fb, r) : ub[a] = NoConn}
AvailableAddrs(ub, fb, r) == Cardinality(Unused(ub, fb, r))

PoolInit ==
    /\ override \in Overrides
    /\ usedBy = [a \in Addrs |-> NoConn]
    /\ fellBack = [r \in {1, 2} |-> FALSE]
    /\ expired = [r \in {1, 2} |-> FALSE]
    /\ addr = [c \in ConnIDs |-> NoConn]
    /\ refused = [c \in ConnIDs |-> "no"]

\* Mutant: the first region is always tried first.
CandidatesFirstRegion(ub, fb, excluding) ==
    LET free(r) == Unused(ub, fb, r) \ {excluding}
    IN  IF free(1) # {} THEN free(1) ELSE free(2)

\* Regions.GetUnusedAddr: the region with more unused addresses first, either
\* when they have the same number; map iteration picks any address of it.
Candidates(ub, fb, excluding) ==
    LET n(r) == AvailableAddrs(ub, fb, r)
        free(r) == Unused(ub, fb, r) \ {excluding}
    IN  UNION {IF free(r) # {} THEN free(r) ELSE free(3 - r) :
                  r \in {q \in {1, 2} : n(q) >= n(3 - q)}}

\* Region.GiveBack of address a: the connectivity error decides whether the
\* region falls back to its secondary set or returns to its primary set.
FallsBack(a) ==
    ~fellBack[RegionOf[a]] /\ Version[a] = 6 /\ Secondary(RegionOf[a]) # {}
Returns(a) ==
    fellBack[RegionOf[a]] /\ (Version[a] = 4 \/ expired[RegionOf[a]])

\* Mutant: the error is not acted upon.
GiveBackRegionOnly(a, err) == UNCHANGED <<fellBack, expired>>

GiveBackRegion(a, err) ==
    LET r == RegionOf[a] IN
    /\ fellBack' = [fellBack EXCEPT ![r] =
          IF err /\ FallsBack(a) THEN TRUE ELSE IF err /\ Returns(a) THEN FALSE ELSE @]
    /\ expired' = [expired EXCEPT ![r] =
          IF err /\ (FallsBack(a) \/ Returns(a)) THEN FALSE ELSE @]

\* Mutant: the address the connection already has is not looked up.
GetAddrAlwaysNew(c) ==
    /\ addr[c] = NoConn
    /\ IF Candidates(usedBy, fellBack, NoConn) # {}
       THEN \E a \in Candidates(usedBy, fellBack, NoConn) :
              /\ usedBy' = [usedBy EXCEPT ![a] = c]
              /\ addr' = [addr EXCEPT ![c] = a]
              /\ refused' = [refused EXCEPT ![c] = "no"]
       ELSE /\ refused' = [refused EXCEPT ![c] = "GetAddr"]
            /\ UNCHANGED <<usedBy, addr>>
    /\ UNCHANGED <<override, fellBack, expired>>

\* Edge.GetAddr: the address the connection already has, or an unused one.
GetAddr(c) ==
    /\ addr[c] = NoConn
    /\ IF Held(usedBy, c) # {}
       THEN /\ \E a \in Held(usedBy, c) : addr' = [addr EXCEPT ![c] = a]
            /\ refused' = [refused EXCEPT ![c] = "no"]
            /\ UNCHANGED usedBy
       ELSE IF Candidates(usedBy, fellBack, NoConn) # {}
       THEN \E a \in Candidates(usedBy, fellBack, NoConn) :
              /\ usedBy' = [usedBy EXCEPT ![a] = c]
              /\ addr' = [addr EXCEPT ![c] = a]
              /\ refused' = [refused EXCEPT ![c] = "no"]
       ELSE /\ refused' = [refused EXCEPT ![c] = "GetAddr"]
            /\ UNCHANGED <<usedBy, addr>>
    /\ UNCHANGED <<override, fellBack, expired>>

\* The connection ends and keeps its address for the next attempt.
ConnectionEnds(c) ==
    /\ addr[c] # NoConn
    /\ addr' = [addr EXCEPT ![c] = NoConn]
    /\ UNCHANGED <<override, usedBy, fellBack, expired, refused>>

\* Mutant: the new address is taken before the old one is given back.
GetDifferentAddrTakesFirst(c, err) ==
    /\ addr[c] # NoConn
    /\ addr' = [addr EXCEPT ![c] = NoConn]
    /\ GiveBackRegion(addr[c], err)
    /\ UNCHANGED override
    /\ IF Candidates(usedBy, fellBack', addr[c]) # {}
       THEN /\ \E a \in Candidates(usedBy, fellBack', addr[c]) :
                  usedBy' = [usedBy EXCEPT ![a] = c]
            /\ refused' = [refused EXCEPT ![c] = "no"]
       ELSE UNCHANGED <<usedBy, refused>>

\* Edge.GetDifferentAddr, after the connection has ended: the old address is
\* given back and another one is taken, never the old one.
GetDifferentAddr(c, err) ==
    /\ addr[c] # NoConn
    /\ addr' = [addr EXCEPT ![c] = NoConn]
    /\ GiveBackRegion(addr[c], err)
    /\ UNCHANGED override
    /\ LET ub == [usedBy EXCEPT ![addr[c]] = NoConn]
           new == Candidates(ub, fellBack', addr[c])
       IN  IF new # {}
           THEN /\ \E a \in new : usedBy' = [ub EXCEPT ![a] = c]
                /\ refused' = [refused EXCEPT ![c] = "no"]
           ELSE /\ usedBy' = ub
                /\ refused' = [refused EXCEPT ![c] = "GetDifferentAddr"]

\* Ten minutes pass after a fall back.
TimeoutPasses(r) ==
    /\ fellBack[r] /\ ~expired[r]
    /\ expired' = [expired EXCEPT ![r] = TRUE]
    /\ UNCHANGED <<override, usedBy, fellBack, addr, refused>>

PoolStep(c) ==
    \/ GetAddr(c) \/ ConnectionEnds(c)
    \/ GetDifferentAddr(c, TRUE)  \* the supervisor rotates on such errors only

PoolNext == (\E c \in ConnIDs : PoolStep(c)) \/ (\E r \in {1, 2} : TimeoutPasses(r))

PoolSpec == PoolInit /\ [][PoolNext]_poolVars

\* The supervisor asks for an address until it has one, and a connection over
\* IPv6 does not stay up where IPv6 does not work.
PoolFairness ==
    \A c \in ConnIDs :
        /\ WF_poolVars(GetAddr(c))
        /\ WF_poolVars(addr[c] # NoConn /\ Version[addr[c]] = 6 /\ GetDifferentAddr(c, TRUE))
-----------------------------------------------------------------------------
(* Properties *)

PoolTypeOK ==
    /\ override \in Overrides
    /\ usedBy \in [Addrs -> ConnIDs \cup {NoConn}]
    /\ fellBack \in [{1, 2} -> BOOLEAN]
    /\ expired \in [{1, 2} -> BOOLEAN]
    /\ addr \in [ConnIDs -> Addrs \cup {NoConn}]
    /\ refused \in [ConnIDs -> {"no", "GetAddr", "GetDifferentAddr"}]

\* However often connections come, go and rotate, each holds at most one
\* address: none leaks from the pool.
OneAddressEach == \A a, b \in Addrs : usedBy[a] = usedBy[b] /\ usedBy[a] # NoConn => a = b

\* The address a connection serves on is marked as its own, so that no other
\* connection is given it.
ServesOwnAddress == \A c \in ConnIDs : addr[c] # NoConn => usedBy[addr[c]] = c

\* However connections come, go and rotate, no address is shared or leaked.
AddressesOwned == OneAddressEach /\ ServesOwnAddress

\* A connection that asks for an address is refused only when the active sets
\* hold fewer addresses than there are connections: the pool never believes
\* itself exhausted because of connections that are gone.  (A rotation, which
\* excludes the address it has just given back, may fail earlier.)
RefusedOnlyWhenExhausted ==
    [][\A c \in ConnIDs :
          refused'[c] = "GetAddr" /\ refused[c] # "GetAddr" =>
              Cardinality(ActiveSet(fellBack, 1)) + Cardinality(ActiveSet(fellBack, 2))
                  < Cardinality(ConnIDs)]_poolVars

UsedIn(r) == Cardinality({a \in Pool(r) : usedBy[a] # NoConn})

\* GetUnusedAddr: "make sure we always use addresses evenly across both
\* regions": with a single IP version the regions differ by one address at
\* most, whatever the order of rotations and reconnections.  What it compares
\* is the number of addresses left, so that this needs regions of one size.
EvenUse == override # "auto" => UsedIn(1) - UsedIn(2) \in {-1, 0, 1}

\* A step of a network in which no IPv6 address works: a connection over IPv6
\* fails and rotates with a connectivity error; one over IPv4 stays up.
IPv6Down ==
    \/ \E c \in ConnIDs : GetAddr(c)
    \/ \E c \in ConnIDs : addr[c] # NoConn /\ Version[addr[c]] = 6 /\ GetDifferentAddr(c, TRUE)
    \/ \E r \in {1, 2} : TimeoutPasses(r)

\* If at some time IPv6 stops working, every connection ends up on an IPv4
\* address, whatever the regions had fallen back to by then and although they
\* return to IPv6 when the timeout passes.
ReachesIPv4 ==
    override # "v6" /\ <>[][IPv6Down]_poolVars =>
        \A c \in ConnIDs : <>[](addr[c] # NoConn /\ Version[addr[c]] = 4)
=============================================================================
