--------------------------- MODULE MCProbeRounds ----------------------------
\* Instances of ProbeRounds: the .cfg files give the bounds.
EXTENDS ProbeRounds
=============================================================================
