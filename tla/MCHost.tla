------------------------------- MODULE MCHost -------------------------------
(* The commands on a host, and what they start a tunnel with: a behaviour is  *)
(* about one of the parts, and the others stay in one initial state.          *)
EXTENDS TLC, TunnelCommands, ServiceInstall, AutoUpdate, Prechecks, Diagnostics, NetworkRoutes, TunnelConfig

CONSTANTS t1, t2, n1, f1, v1, v2, none

VARIABLE part

\* Bounds: three commands over two tunnels, one name and one given path; two
\* releases after the first; one retry of a probe; two diagnostic runs; two
\* processes over three routes of two networks, on pages of one row, in two
\* virtual networks; two connections, and flags of which few are set at once.
MCProcs == 1..3
MCTunnelIDs == {t1, t2}
MCNames == {n1}
MCCredFiles == {f1}
MCRuns == {"r1", "r2"}
MCRouteProcs == {"q1", "q2"}
MCRouteIDs == 1..3
MCVnetIDs == {v1, v2}
MCVnetNames == {n1}
MCNetworks == {{1}, {1, 2}}

Plain == [ipVersion |-> "auto", bind |-> "", region |-> FALSE, endpoint |-> FALSE, graceTooLong |-> FALSE,
          features |-> {}, postQuantum |-> FALSE, icmp4 |-> "", icmp6 |-> "", resolvers |-> {}]
MCFlagSets ==
    {[Plain EXCEPT !.ipVersion = v, !.bind = b] : v \in {"4", "6", "auto", "5"}, b \in {"", "4", "6", "taken"}}
    \union {[Plain EXCEPT !.region = r, !.endpoint = e] : r, e \in BOOLEAN}
    \union {[Plain EXCEPT !.features = fs, !.postQuantum = q] : fs \in SUBSET {"v2", "v3", "v3_2"}, q \in BOOLEAN}
    \union {[Plain EXCEPT !.icmp4 = a, !.icmp6 = b] : a, b \in {"", "4", "6"}}
    \union {[Plain EXCEPT !.resolvers = rs] : rs \in {{"r1", "r2"}, {"r1", "bad"}}}
    \union {[Plain EXCEPT !.graceTooLong = TRUE]}
MCInterfaces == <<[v4 |-> FALSE, v6 |-> TRUE], [v4 |-> TRUE, v6 |-> FALSE], [v4 |-> TRUE, v6 |-> TRUE]>>

Rest(x) == part # x

Init ==
    /\ part \in {"commands", "service", "update", "prechecks", "diagnostics", "routes", "vnets", "config"}
    /\ CmdInit /\ (Rest("commands") => cert = "none")
    /\ SvcInit /\ (Rest("service") => platform = "systemd" /\ ~configFile)
    /\ UpdInit /\ (Rest("update") => onWindows = FALSE)
    /\ PreInit /\ (Rest("prechecks") => preCfg = [ip |-> Families, override |-> "none", tls |-> {}])
    /\ DiagInit
    /\ RoutesInit /\ (IF part = "routes" THEN ActiveVnets = VnetIDs ELSE ActiveVnets = {v1})
    /\ TCInit /\ (Rest("config") => flags = {Plain})

\* The processes are numbered in the order in which they start.
MCCmdNext == CmdNext /\ \A p, q \in Procs : (p < q /\ cmd'[p] = Idle) => cmd'[q] = Idle

\* Three routes only where the virtual networks do not change; otherwise one
\* process for routes and one for the other commands.
MCRoutesNext ==
    /\ RoutesNext
    /\ part = "vnets" => route'[3].state = "free" /\ rcmd'["q1"].op \in {"none", "add", "delete"} /\ rcmd'["q2"].op \notin {"add", "delete"}
    /\ part = "routes" => \A p \in RouteProcs : rcmd'[p].op \in {"none", "add", "delete"} /\ rcmd'[p].vnet \notin VnetNames

Next ==
    \/ part = "commands" /\ MCCmdNext /\ UNCHANGED <<svcVars, updVars, preVars, diagVars, routeVars, tcVars, part>>
    \/ part = "service" /\ SvcNext /\ UNCHANGED <<cmdVars, updVars, preVars, diagVars, routeVars, tcVars, part>>
    \/ part = "update" /\ UpdNext /\ UNCHANGED <<cmdVars, svcVars, preVars, diagVars, routeVars, tcVars, part>>
    \/ part = "prechecks" /\ PreNext /\ UNCHANGED <<cmdVars, svcVars, updVars, diagVars, routeVars, tcVars, part>>
    \/ part = "diagnostics" /\ DiagNext /\ UNCHANGED <<cmdVars, svcVars, updVars, preVars, routeVars, tcVars, part>>
    \/ part \in {"routes", "vnets"} /\ MCRoutesNext /\ UNCHANGED <<cmdVars, svcVars, updVars, preVars, diagVars, tcVars, part>>
    \/ part = "config" /\ TCNext /\ UNCHANGED <<cmdVars, svcVars, updVars, preVars, diagVars, routeVars, part>>

Spec == Init /\ [][Next]_<<cmdVars, svcVars, updVars, preVars, diagVars, routeVars, tcVars, part>>

Symmetry == Permutations(MCTunnelIDs)
=============================================================================
