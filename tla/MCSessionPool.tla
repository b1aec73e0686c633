--------------------------- MODULE MCSessionPool ----------------------------
EXTENDS SessionPool

CONSTANTS c1, c2, c3, c4
MCClients == {c1, c2, c3, c4}
=============================================================================
