------------------------------ MODULE MCAgent -------------------------------
(* The process of a tunnel with its management service, and the processes of  *)
(* Access on the same host: a behaviour is about one of the parts, and the    *)
(* others stay in one of their initial states, where nothing is due.          *)
EXTENDS ManagementLogs, AccessTokens, TunnelServer

VARIABLE part

\* Bounds: two clients of the management service, one of which starts twice;
\* two processes that want a token.
MCEvents == [c \in Clients |-> IF c = "c1" THEN 2 ELSE 1]

\* The first process runs any command and starts first, which is a step of its
\* own that the other cannot see; the second only opens streams.
MCAccNext ==
    /\ AccNext /\ acc'["p2"].cmd = "stream"
    /\ acc["p1"].at = "idle" => acc' # [acc EXCEPT !["p2"] = acc'["p2"]]

Init ==
    /\ part \in {"logs", "access", "server"}
    /\ MgmtInit /\ actor["c1"] = "a1" /\ (part # "logs" => actor["c2"] = "a1")
    /\ AccInit /\ <<appToken, orgToken>> \in {<<"revoked", "expired">>, <<"expired", "none">>}
    /\ part # "access" => appToken = "expired"
    /\ ServerInit /\ (part # "server" => graceSet)

Next ==
    \/ part = "logs" /\ MgmtNext /\ UNCHANGED <<accVars, serverVars, part>>
    \/ part = "access" /\ MCAccNext /\ UNCHANGED <<mgmtVars, serverVars, part>>
    \/ part = "server" /\ ServerNext /\ UNCHANGED <<mgmtVars, accVars, part>>

Spec ==
    /\ Init /\ [][Next]_<<mgmtVars, accVars, serverVars, part>>
    /\ MgmtFairness /\ AccFairness /\ ServerFairness
=============================================================================
