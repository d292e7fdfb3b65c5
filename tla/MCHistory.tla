------------------------------ MODULE MCHistory ------------------------------
\* The instances of MCAvesK8s, with the history variable.
EXTENDS MCAvesK8s, AvesK8sHistory
=============================================================================
