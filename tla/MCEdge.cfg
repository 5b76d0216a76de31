\* Two connections of the supervisor; three connections that use addresses, on
\* a dual stack or IPv4 only; protocols: two connections where QUIC is blocked,
\* or one whose protocol the user chose or that has a fall back and remote
\* percentages that change.
CONSTANTS
    HAConnections = 2
    None = None
    a1 = a1
    a2 = a2
    a3 = a3
    a4 = a4
    b1 = b1
    b2 = b2
    b3 = b3
    c1 = c1
    c2 = c2
    c3 = c3
    i0 = i0
    i1 = i1
    NoConn = NoConn
    ConnIDs = {c1, c2, c3}
    Addrs <- DualAddrs
    RegionOf <- DualRegion
    Version <- DualVersion
    Preference <- PreferIPv6
    Overrides = {"auto", "v4"}
    ConnIndexes = {i0, i1}
    First = i0
    BufferSize = 3
    Selectors = {"static", "default", "remote"}
    Retries = 3
    MaxEdgeAddrRetries = 2
    Refreshes = 1
SPECIFICATION MCSpec
INVARIANTS
    TunnelsCounted
    AddressesOwned
    EvenUse
    TrackerAgrees
PROPERTIES
    GraceAfterAllConnected
    SupervisorProgresses
    RefusedOnlyWhenExhausted
    ReachesIPv4
    FallbackJustified
    ReachesEdge
