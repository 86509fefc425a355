------------------------ MODULE MCTrafficAccounting ------------------------
\* Instances of TrafficAccounting: requests are interchangeable.
EXTENDS TrafficAccounting, TLC

Symmetry == Permutations(Writers)
=============================================================================
