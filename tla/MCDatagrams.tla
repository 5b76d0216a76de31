---------------------------- MODULE MCDatagrams ----------------------------
(* UDP sessions of one connection and the ICMP proxy of the process: they   *)
(* share no state, so each behaviour is of one of them and their state      *)
(* spaces add up.                                                           *)
EXTENDS DatagramSessions, ICMPProxy

VARIABLE part

vars == <<v2Vars, icmpVars, part>>

Init ==
    /\ V2Init /\ ICMPInit
    /\ part \in {"udp", "icmp"} /\ (part = "udp" => platform = "linux")

Next ==
    \/ part = "udp" /\ V2Next /\ UNCHANGED <<icmpVars, part>>
    \/ part = "icmp" /\ ICMPNext /\ UNCHANGED <<v2Vars, part>>

Spec == Init /\ [][Next]_vars /\ (part = "udp" => V2Fairness)
=============================================================================
