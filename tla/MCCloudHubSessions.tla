------------------------- MODULE MCCloudHubSessions -------------------------
(* Instances of CloudHubSessions: a node that reconnects, or two nodes.      *)
EXTENDS CloudHubSessions, TLC

CONSTANTS n1, n2, c1, c2, c3

TwoNodes == [c \in Conns |-> IF c = c3 THEN n2 ELSE n1]
ReconnectOrTwo == {{c1, c2}, {c1, c3}}
=============================================================================
