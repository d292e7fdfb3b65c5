---------------------------- MODULE SwarmCluster ----------------------------
(***************************************************************************)
(* The part of Docker swarm the program uses: one service per worker, with *)
(* one task that is never restarted (RestartPolicy() of make_service), and *)
(* the configs with its scripts, one per file.  All of it is outside the   *)
(* repository, modelled from the calls in docker_client/client.py.         *)
(***************************************************************************)
EXTENDS JobStore

CONSTANT NoOwner   \* of the configs of a row that has none

VARIABLES svc,   \* the service of each name, by the state of its task
          cfgs   \* whose configs each row has: the process that made them

swarm == <<svc, cfgs>>

\* A "new" service has no task yet; a task that is "over" is complete or
\* failed. "rejected": no node could set it up, its image or a mount missing.
SvcPhases == {"none", "new", "preparing", "running", "over", "rejected"}
NoSvc == [phase |-> "none", row |-> NoRow]
Services == [phase : SvcPhases, row : Rows \union {NoRow}]

SwarmInit ==
    /\ svc = [n \in Names |-> NoSvc]
    /\ cfgs = [r \in Rows |-> NoOwner]

Exists(n) == svc[n].phase # "none"
HasConfigs(r) == cfgs[r] # NoOwner

\* Configs of which some are left refuse a new one of the same name.
CanMakeConfigs(r) == ~HasConfigs(r)
MakeConfigs(r, p) == cfgs' = [cfgs EXCEPT ![r] = p]

\* A config that a service refers to is not removed.
InUse(r) == \E n \in Names : Exists(n) /\ svc[n].row = r
DeleteConfigs(r) == ~InUse(r) /\ cfgs' = [cfgs EXCEPT ![r] = NoOwner]

\* Variant: make_service skips configs that are missing.
CanCreateBare(r, p) == ~Exists(NameOf(r))

\* A service needs a free name, and the very configs its start has made: it
\* refers to them by their ids.
CanCreateService(r, p) == ~Exists(NameOf(r)) /\ cfgs[r] = p
\* Variant: the label workerId holds the name of the worker.
CreateServiceLabelledByName(r, phase) ==
    svc' = [svc EXCEPT ![NameOf(r)] = [phase |-> phase, row |-> NameOf(r)]]
CreateService(r, phase) ==
    svc' = [svc EXCEPT ![NameOf(r)] = [phase |-> phase, row |-> r]]

\* The name is free at once; a missing service is no error.
DeleteService(n) == svc' = [svc EXCEPT ![n] = NoSvc]

\* The swarm's own steps.
TaskMoves(n, from, to) ==
    /\ svc[n].phase \in from
    /\ svc' = [svc EXCEPT ![n].phase = to]
    /\ UNCHANGED cfgs
TaskMade(n) == TaskMoves(n, {"new"}, "preparing")
ContainerRuns(n) == TaskMoves(n, {"preparing"}, "running")
ContainerOver(n) == TaskMoves(n, {"running"}, "over")
TaskRejected(n) == TaskMoves(n, {"new", "preparing"}, "rejected")
=============================================================================
