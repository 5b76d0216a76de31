---------------------------- MODULE MCTunnelAPI ----------------------------
(* TunnelAPI for TLC: one start with a stop and a shutdown; two starts at   *)
(* once, of which each may find the place of the other; or two starts at     *)
(* once when a tunnel already takes the only place.                          *)
EXTENDS TunnelAPI

CONSTANTS t1, t2, t3

VARIABLE mode

MCInit == Init /\ mode \in {"stop", "two starts", "full"}

\* Of two starts, which are interchangeable, t1 is the first; nobody stops them,
\* and the worker of the second ends only when it is signalled.
TwoStarts ==
    /\ server' = "up" /\ stop' = stop /\ start'[t3] = "new"
    /\ start'[t2] # "new" => start[t1] # "new"
    /\ worker'[t2] \in {"exiting", "dead"} => sig[t2] # "none"

\* The worker of t1 serves when the others start.
Full ==
    /\ server' = "up" /\ stop' = stop
    /\ start'[t2] # "new" \/ start'[t3] # "new" => outcome[t1] = "started"
    /\ \A t \in Tunnels : worker'[t] \in {"exiting", "dead"} => sig[t] # "none"

MCStep ==
    /\ Next /\ UNCHANGED mode
    /\ mode = "stop" => start'[t2] = "new" /\ start'[t3] = "new"
    /\ mode = "two starts" => TwoStarts
    /\ mode = "full" => Full

\* Workers that nobody stops may serve for ever.
MCNext == MCStep \/ (mode # "stop" /\ UNCHANGED <<vars, mode>>)

MCSpec == MCInit /\ [][MCNext]_<<vars, mode>> /\ Fairness
=============================================================================
