------------------------------ MODULE JobSubmit ------------------------------
(***************************************************************************)
(* submit_avesjob: a job as the PAI platform describes it is checked by    *)
(* validate_job, translated by trans_job_data, saved through the           *)
(* serializer, and cut into workers when it starts. What a key holds is    *)
(* left out, except for the names of the roles, their counts and the       *)
(* engine; a Python dict is the set of its keys.                           *)
(***************************************************************************)
EXTENDS Integers, FiniteSets, FiniteSetsExt, Sequences

\* The submitted jobs: of each its keys, its engine, the keys of each of its
\* data specs (code, inputs, log), its roles in the order of the dict, each
\* with its keys and its count, and whether its username is the
\* caller's own.
CONSTANT Jobs

\* The roles are the keys of a dict, and worker_schema wants a count that is an
\* integer.
ASSUME JobsAssumption ==
    \A j \in Jobs :
        /\ Len(j.roles) \in Nat /\ DOMAIN j.roles = 1 .. Len(j.roles)
        /\ \A i \in DOMAIN j.roles : j.roles[i].count \in Int
        /\ \A i, k \in DOMAIN j.roles : j.roles[i].role = j.roles[k].role => i = k

VARIABLES job,   \* the submitted job
          pc     \* how far submit_avesjob came: "posted", "valid", "error",
                 \* "refused"
vars == <<job, pc>>

-----------------------------------------------------------------------------
(* validate_job.                                                           *)

JobRequired == {"jobId", "username", "namespace", "engine", "image",
                "entryPoint", "envs", "codeSpec", "inputSpec", "outputSpec",
                "logDir", "resourceSpec", "storageMode"}
DataRequired == {"type", "pvc", "path", "filename"}

\* Variant: without the gpu.
RoleRequiredNoGpu == {"args", "memory", "port", "count", "cpu", "entryPoint"}

RoleRequired == {"args", "memory", "port", "count", "cpu", "nvidia.com/gpu",
                 "entryPoint"}

ValidData(d) == DataRequired \subseteq d

\* The outputs are not looked at: the loop for them goes over the inputs.
ValidJob(j) ==
    /\ JobRequired \subseteq j.keys
    /\ ValidData(j.code)
    /\ \A d \in j.inputs : ValidData(d)
    /\ ValidData(j.log)
    /\ \A i \in DOMAIN j.roles : RoleRequired \subseteq j.roles[i].keys

-----------------------------------------------------------------------------
(* trans_job_data.                                                         *)

\* The keys it reads: it raises a KeyError when one is missing.
TransReads(j) ==
    /\ JobRequired \ {"entryPoint"} \subseteq j.keys
    /\ \A d \in {j.code} \union j.inputs : "path" \in d
    /\ \A i \in DOMAIN j.roles :
          {"entryPoint", "nvidia.com/gpu"} \subseteq j.roles[i].keys

NewName(r) == IF r = "master" THEN "worker" ELSE r

\* resource_spec: the counts by the new names, where of two roles with one
\* name the later overwrites the earlier.
ResourceSpec(j) ==
    LET Named(r) == {i \in DOMAIN j.roles : NewName(j.roles[i].role) = r}
    IN [r \in {NewName(j.roles[i].role) : i \in DOMAIN j.roles} |->
           j.roles[Max(Named(r))].count]

HasRole(spec, r) == r \in DOMAIN spec

DistributeType(j) ==
    IF j.engine = "tensorflow" /\ HasRole(ResourceSpec(j), "ps") THEN "TF-PS"
    ELSE IF j.engine = "horovod" THEN "HOROVOD" ELSE ""
IsDistribute(j) == DistributeType(j) # ""

-----------------------------------------------------------------------------
(* make_aves_workers, from a resource_spec.                                *)

\* Variant: worker 0 is the main node whatever other roles there are.
IsMainAnyWorker(dist, spec, r, i) ==
    \/ ~dist
    \/ r \in {"ps", "master"} /\ i = 0
    \/ r = "worker" /\ i = 0

IsMain(dist, spec, r, i) ==
    \/ ~dist
    \/ r \in {"ps", "master"} /\ i = 0
    \/ r = "worker" /\ i = 0 /\ ~HasRole(spec, "master") /\ ~HasRole(spec, "ps")

\* Variant: one index too many.
WorkersPlusOne(dist, spec) ==
    UNION {{[role |-> r, index |-> i, main |-> IsMain(dist, spec, r, i)]
               : i \in 0 .. spec[r]} : r \in DOMAIN spec}

Workers(dist, spec) ==
    UNION {{[role |-> r, index |-> i, main |-> IsMain(dist, spec, r, i)]
               : i \in 0 .. spec[r] - 1} : r \in DOMAIN spec}

-----------------------------------------------------------------------------
(* The view.                                                               *)

Init == job \in Jobs /\ pc = "posted"

Validate ==
    /\ pc = "posted"
    /\ pc' = IF ValidJob(job) THEN "valid" ELSE "refused"
    /\ UNCHANGED job

\* A job of another user is refused. One of the caller's own goes on to User,
\* a name that views.py does not import: the response is an error 500, and
\* neither trans_job_data nor the serializer is reached.
Authorize ==
    /\ pc = "valid"
    /\ pc' = IF job.own THEN "error" ELSE "refused"
    /\ UNCHANGED job

Next == Validate \/ Authorize

Spec == Init /\ [][Next]_vars

-----------------------------------------------------------------------------
Passed == pc \in {"valid", "error"}

\* What validate_job lets pass, trans_job_data translates without an error.
TransDefined == Passed => TransReads(job)

\* The names of the roles.
RolesOf(j) == {j.roles[i].role : i \in DOMAIN j.roles}

\* A distributed job of masters, workers and parameter servers gets exactly one
\* main node, the one whose reports count for the job, unless one of the roles
\* has no worker.
OneMain ==
    LET spec == ResourceSpec(job) IN
    /\ Passed /\ IsDistribute(job) /\ \A r \in DOMAIN spec : spec[r] > 0
    /\ RolesOf(job) # {} /\ RolesOf(job) \subseteq {"master", "worker", "ps"}
    => Cardinality({w \in Workers(TRUE, spec) : w.main}) = 1

\* Every worker that is asked for is made, unless both a master and workers
\* are: the two have one name then.
Wanted == Cardinality(UNION {{i} \X (0 .. job.roles[i].count - 1) : i \in DOMAIN job.roles})
WorkersKept ==
    Passed => \/ Cardinality(Workers(IsDistribute(job), ResourceSpec(job))) = Wanted
              \/ {"master", "worker"} \subseteq RolesOf(job)
=============================================================================
