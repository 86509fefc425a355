--------------------------- MODULE MCStatusServing ---------------------------
\* Instances of StatusServing: two requests, two builds.
EXTENDS StatusServing
=============================================================================
