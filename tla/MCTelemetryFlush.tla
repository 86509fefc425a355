-------------------------- MODULE MCTelemetryFlush --------------------------
\* An instance of TelemetryFlush: one point in each of two five-minute chunks
\* of an hour.
EXTENDS TelemetryFlush
CONSTANTS p1, p2, c1, c2, h1
MCChunkOf == [p \in Points |-> IF p = p1 THEN c1 ELSE c2]
MCHourOf  == [c \in Chunks |-> 1]
=============================================================================
