--------------------------- MODULE MCAgentUpdate ---------------------------
\* Instances of AgentUpdate: three versions, three installations.
EXTENDS AgentUpdate
=============================================================================
