----------------------------- MODULE MCEdgeCache -----------------------------
(* A small instance of EdgeCache: two gateways, one with two of three requests. *)
EXTENDS EdgeCache

MCGateways == {"g1", "g2"}
MCRequests == {"a", "b", "c"}
MCGatewayOf == [r \in MCRequests |-> IF r = "c" THEN "g2" ELSE "g1"]
=============================================================================
