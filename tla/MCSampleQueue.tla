--------------------------- MODULE MCSampleQueue ---------------------------
(* TLC instances of SampleQueue: generations are interchangeable.          *)
EXTENDS SampleQueue, TLC

Symmetry == Permutations(Generations)
=============================================================================
