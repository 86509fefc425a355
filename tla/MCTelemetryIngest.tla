------------------------- MODULE MCTelemetryIngest --------------------------
\* Instances of TelemetryIngest: the .cfg files give the bounds.
EXTENDS TelemetryIngest
=============================================================================
