--------------------------- MODULE MCSessionLease ---------------------------
\* SessionLease for TLC: two pods, p2's clock ahead of p1's, the shortest
\* times that satisfy the bound Timely.
EXTENDS SessionLease
CONSTANTS p1, p2
MCSkew == [p \in Pod |-> IF p = p2 THEN 1 ELSE 0]
NoFaults  == {}
AllFaults == {"stall", "mongo"}
=============================================================================
