---------------------------- MODULE MCAgentTasks ----------------------------
\* Instances of AgentTasks: tasks and requests are interchangeable.
EXTENDS AgentTasks, TLC

Symmetry == Permutations(Tasks) \cup Permutations(Requests)
=============================================================================
