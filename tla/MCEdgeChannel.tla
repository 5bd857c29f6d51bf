--------------------------- MODULE MCEdgeChannel ---------------------------
EXTENDS EdgeChannel

CONSTANTS d1, b1, p1

\* Bound: of a dial, a bind and a token push any two are made.
TwoCalls == Cardinality({c \in Calls : pc[c] # "idle"}) <= 2
=============================================================================
