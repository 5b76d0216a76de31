------------------------- MODULE MCEdgeConnections -------------------------
(* EdgeConnections for TLC: the bounds are in MCEdgeConn.cfg. *)
EXTENDS EdgeConnections
=============================================================================
