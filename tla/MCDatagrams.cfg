\* Two sessions that share an id over one connection with full queues; two ICMP
\* flows over two connections, with two echo ids so that they wrap around.
CONSTANTS
    Calls = {c1, c2}
    IDs = {i1}
    DemuxCap = 1
    Nobody = Nobody
    Keys = {k1, k2}
    Indexes = {0, 1}
    Flows = {f1, f2}
    Ports = {1, 2}
    EchoIDs = 2
    NoFlow = NoFlow
SPECIFICATION Spec
\* Every session and the connection have ended.
CHECK_DEADLOCK FALSE
INVARIANTS
    LoopNeverBlocks
    FlowsTracked
PROPERTIES
    ConnectionReleasesFlows
