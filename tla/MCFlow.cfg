\* Three registrations.
CONSTANTS
    c1 = c1
    c2 = c2
    c3 = c3
    f1 = f1
    f2 = f2
    h1 = h1
    h2 = h2
    h3 = h3
    None = None
    Flows = {f1, f2}
    Conns = {c1, c2, c3}
    Index <- ReplacedIndex
    Handlers = {h1, h2, h3}
    Limits = {0, 1, 2}
    MaxTCP = 1
SPECIFICATION MCSpec
\* The bounded number of datagrams has been handled.
CHECK_DEADLOCK FALSE
INVARIANTS
    SessionsAccountedFor
    MigrationMovesSession
PROPERTIES
    LimitHolds
    FlowsProgress
