------------------------------ MODULE JobStore ------------------------------
(***************************************************************************)
(* The rows of one AvesJob and of its AvesWorkers in the SQL database, and *)
(* what the ORM calls of the handlers do to them.  A worker row is a pair: *)
(* the pod name that is stored in it (worker_name, one per role and index) *)
(* and the bulk_create call that inserted it, because calling that twice   *)
(* inserts two rows with the same pod name.                                *)
(***************************************************************************)
EXTENDS Bounds

CONSTANTS Names,     \* pod names of the job: resource_spec's roles and counts
          MaxMakes,  \* bound: how many bulk_create calls the model follows
          NoRow      \* no worker row

Rows == Names \X (1 .. MaxMakes)
NameOf(r) == r[1]

ASSUME StoreAssumption ==
    IsFiniteSet(Names) /\ MaxMakes \in Nat \ {0} /\ NoRow \notin Rows

\* JobStatus and WorkerStatus. PENDING is declared, and written by nothing.
Statuses == {"NEW", "STARTING", "RUNNING", "FINISHED", "FAILURE", "CANCELED"}
Active == {"STARTING", "RUNNING"}
Ready == {"NEW", "FINISHED", "FAILURE", "CANCELED"}
Terminal == {"FINISHED", "FAILURE", "CANCELED"}

Absent == "none"   \* the status of a row that is not in the table

VARIABLES job,   \* status of the job's row
          wst,   \* k8s_status of each worker row
          made   \* bulk_create calls so far

store == <<job, wst, made>>

StoreOK ==
    /\ job \in Statuses \union {Absent}
    /\ wst \in [Rows -> Statuses \union {Absent}]
    /\ made \in 0 .. MaxMakes

StoreInit ==
    /\ job = Absent
    /\ wst = [r \in Rows |-> Absent]
    /\ made = 0

JobExists == job # Absent

\* ready_to_run: the guard of both ways to start a job.
ReadyToRun == job \in Ready

\* avesjob.aves_worker.all().
JobWorkers == {r \in Rows : wst[r] # Absent}

\* The rows both event branches count: STARTING or RUNNING, and so not NEW.
ActiveWorkers == {r \in Rows : wst[r] \in Active}

\* avesjob.save(): an UPDATE of the row or, when it is gone, an INSERT.
SaveJob(s) == job' = s

\* Variant: a foreign key the database does not check.
NoForeignKey(r) == TRUE

\* worker.save(): the INSERT of a deleted row fails on its foreign key when
\* the job's row is gone too.
CanSaveWorker(r) == wst[r] # Absent \/ JobExists
SaveWorker(r, s) == CanSaveWorker(r) /\ wst' = [wst EXCEPT ![r] = s]

\* AvesWorker.objects.bulk_create: one NEW row per pod name.
CanMakeWorkers == JobExists /\ made < MaxMakes
MakeWorkers ==
    /\ CanMakeWorkers
    /\ made' = made + 1
    /\ wst' = [r \in Rows |-> IF r[2] = made + 1 THEN "NEW" ELSE wst[r]]

\* job.delete(): the foreign key cascades to the workers.
DeleteJob ==
    /\ job' = Absent
    /\ wst' = [r \in Rows |-> Absent]
=============================================================================
