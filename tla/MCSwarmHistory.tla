--------------------------- MODULE MCSwarmHistory ---------------------------
\* The instances of MCSwarm, with the history variable.
EXTENDS MCSwarm, SwarmHistory
=============================================================================
