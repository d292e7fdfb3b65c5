---------------------------- MODULE JobLifecycle ----------------------------
(***************************************************************************)
(* What the status of a job tells its owner, as one state machine: the     *)
(* abstract specification that AvesK8s implements while nobody cancels,    *)
(* restarts, edits or deletes the job and no call is lost.                 *)
(***************************************************************************)
VARIABLE status

LifeInit == status = "none"

Create == status = "none" /\ status' = "NEW"
Start == status = "NEW" /\ status' = "STARTING"
Run == status = "STARTING" /\ status' = "RUNNING"

\* From STARTING when a worker cannot be started or no script got as far as
\* reporting RUNNING.
Settle ==
    /\ status \in {"STARTING", "RUNNING"}
    /\ status' \in {"FINISHED", "FAILURE"}

LifeNext == Create \/ Start \/ Run \/ Settle

\* A started job settles, once and for good.
LifeSpec == LifeInit /\ [][LifeNext]_status /\ WF_status(Start) /\ WF_status(Settle)
=============================================================================
