\* One connection over either transport, one request, two pushed versions.
CONSTANTS
    None = None
    Conns = {c1}
    First = c1
    Reqs = {r1}
    Versions = {0, 1}
SPECIFICATION Spec
\* Every connection has ended.
CHECK_DEADLOCK FALSE
INVARIANTS
    ProxyRuns
    RequestsKept
PROPERTIES
    StopCompletes
