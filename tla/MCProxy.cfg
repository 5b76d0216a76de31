\* Two requests for two names to one TLS origin over two connections.
CONSTANTS
    Files <- MCFiles
    Flags <- MCFlags
    Requests <- MCRequests
    Management <- MCManagement
    Puny <- MCPuny
    Eyeballs = {r1, r2}
    HostNames = {h1, h2}
    Pool = {p1, p2}
    Nothing = Nothing
    MaxPayload = 22
    QueueSize = 1
    Messages <- MCMessages
SPECIFICATION Spec
\* Streams and configurations end.
CHECK_DEADLOCK FALSE
INVARIANTS
    NoLateFrame
    FirstRuleServes
    SameAfterMigration
    RoundTrips
PROPERTIES
    StreamsReleased
    LoopsEnd
