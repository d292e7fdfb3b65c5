------------------------------ MODULE MCReports ------------------------------
\* The instances of MCAvesK8s, with the reports to PAI.
EXTENDS MCAvesK8s, StatusReports

\* A second start makes the run too long, and reports nothing in a new way.
ToldOf == Once({"create", "cancel", "lose", "crash", "edit", "kill", "timeout"})
=============================================================================
