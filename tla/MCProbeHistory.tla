--------------------------- MODULE MCProbeHistory ---------------------------
\* Instances of ProbeHistory.
EXTENDS ProbeHistory, TLC
CONSTANTS p1, p2, p3
MCDayOf == [p \in Points |-> IF p = p3 THEN 1 ELSE 0]
=============================================================================
