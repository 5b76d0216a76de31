--------------------------- MODULE MCFlowSessions ---------------------------
(* FlowSessions for TLC: two flows over two connections while the limits     *)
(* change, or one flow over three connections, of which c3 replaces c1.      *)
EXTENDS FlowSessions, TLC

CONSTANTS c1, c2, c3, f1, f2, h1, h2, h3

ReplacedIndex == c1 :> 1 @@ c2 :> 2 @@ c3 :> 1

VARIABLE mode

MCInit ==
    /\ Init /\ mode \in {"limits", "replaced"}
    /\ \A h \in Handlers : IF mode = "limits" THEN conn[h] # c3 ELSE limit = 0 /\ flow[h] = f1
    /\ flow[h1] = f1 /\ (mode = "limits" => conn[h1] = c1)

\* Handlers are interchangeable, as are the flows, and the connections where
\* none is replaced: the datagrams arrive in order, the first one for f1 on c1.
MCNext ==
    /\ Next /\ UNCHANGED mode
    /\ IF mode = "limits" THEN link'[c3] = "new" ELSE limit' = 0 /\ tcp' = 0
    /\ (pc'[h2] # "idle" => pc[h1] # "idle") /\ (pc'[h3] # "idle" => pc[h2] # "idle")

MCSpec == MCInit /\ [][MCNext]_<<vars, mode>> /\ Fairness
=============================================================================
