--------------------------- MODULE MC_EdgeRpcCall ---------------------------
EXTENDS EdgeRpcCall, TLC

CONSTANTS c1, c2

MCCalls == {c1, c2}


=============================================================================
