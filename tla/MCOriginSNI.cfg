\* Two requests for two names to one TLS origin over two connections.
CONSTANTS
    Eyeballs = {r1, r2}
    HostNames = {h1, h2}
    Pool = {p1, p2}
    Nothing = Nothing
SPECIFICATION HTTPSpec
INVARIANT
    ServerNameMatches
