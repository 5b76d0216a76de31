\* A stop between the insertion of the handle and cmd.Start.
CONSTANTS
    Tunnels = {t1}
    Stoppers = {s1}
    MaxTunnels = 1
    Concurrent = 1
    NoTarget = NoTarget
    ShutsDown = FALSE
SPECIFICATION Spec
INVARIANTS
    ActiveAreListed
