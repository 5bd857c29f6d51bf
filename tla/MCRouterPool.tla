---------------------------- MODULE MCRouterPool ----------------------------
EXTENDS RouterPool, TLC
CONSTANTS f1, f2, a1, a2
\* The second flow's session has one of the two routers.
TwoFlows == f1 :> {a1, a2} @@ f2 :> {a1}
=============================================================================
