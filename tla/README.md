# A verification of Aves2

Aves2 runs distributed training jobs on Kubernetes (or on Docker swarm). A
Django REST API and celery tasks keep a row for each job and each worker, create
one pod per worker, and move the rows on from two sources that know nothing of
each other: the **reports** of the script that runs in each pod, and the **pod
events** that a watcher reads from the API server. No handler uses a transaction
or a lock. What a job's status tells its owner, and whether pods and rows are
left behind, depends on the order in which users, handlers, tasks, scripts and
the cluster take their steps. These modules are about that order.

Paths below are under `src/Aves2/`; `models.py`, `views.py` and `tasks.py` are in
`job_manager/`, `aves_run.sh` and `aves_report.py` in
`job_manager/utils/scripts_maker/templates/`.

## 1. The system

| Component | State | Operations | Interacts with |
|---|---|---|---|
| Rows (`models.py`) | `AvesJob.status`, `AvesWorker.k8s_status`, which rows exist | `update_status`, `make_aves_workers`, `start`, `cancel`, `clean_work` | written by every handler and task |
| REST API (`views.py`) | none; gunicorn runs several processes | `create`, `destroy`, `start_job`, `cancel_job`, `clean_job`, `finish_job`, `change_status` (job, worker), `distribute_envs`, `submit_avesjob`, PATCH | users, scripts, Kubernetes |
| Tasks (`tasks.py`) | celery queue | `start_avesjob`, `process_k8s_pod_event`, `report_avesjob_status` | rows, Kubernetes, RabbitMQ |
| Pod watcher (`watch_pod.py`) | a watch stream | queues an event per change of a pod | Kubernetes, celery |
| Kubernetes client | pods, config maps (in the cluster) | create, delete, list | called by `models.py`, `views.py` |
| Script (`aves_run.sh`) | where it stands, in each pod | report, wait for the others, train, report | REST API, the other pods |
| Submission (`aves2_schemas/`) | none | `validate_job`, `trans_job_data` | `submit_avesjob` |
| Pod manifest (`work_builder/`) | none | volumes, mounts, labels, environment | `_kube_start` |
| Swarm back end (`_swarm_start`, `_docker_stop`, `docker_client/`) | services and configs (in the swarm) | create, delete, list | in place of Kubernetes |
| Swarm poller (`watch_job.py`) | the jobs on its list, where it stands | fails STARTING jobs whose workers have disappeared | rows, docker; in place of the pod events |
| Status report (`report_avesjob_status`) | celery queue, RabbitMQ exchange | queued by `update_status`, published | PAI, outside |

**What is hard.** (1) Reads that are stale when written back: every
`update_status` saves the copy read when the handler began. (2) Check-then-act:
`ready_to_run`, the count before `bulk_create`, the pod list read twice. (3) Two
unordered sources for one row: a pod may end before its row is STARTING, an
event may find the row already settled, a late RUNNING may follow FINISHED.
(4) Partial failure: refused calls whose errors are dropped, handlers killed
half-way, queued work lost. (5) Waiting for peers that are over. (6) Deletion
under running handlers. (7) Polling: a decision on a copy that is minutes old.
(8) Reports that are saved, queued and published in three different orders.
`PROJECT.json` lists 40 such hazards at their lines.

**What makes it right.** Rows: workers do not outlive the job, references
resolve, one row per pod. Job: it settles; it is not called FINISHED after
a failure; it does not go backwards. Pods: a job that is over has none. Distributed
jobs: RUNNING means that all pods are there, and all of them are told one and the same
cluster. Swarm: a service has its scripts, what is over leaves its names free, and the
poller stops nothing that runs. Reports: PAI learns the status a job keeps, and is not
told that one that is over runs. Submission: what passes validation can be translated
and started. Manifest: volumes fit, data is where the script looks.

## 2. The modules

```
Bounds ─ JobStore ─ K8sCluster ─ JobApi ─┬─ PodEvents ─┐
   │        │                            └─ RunScript ─┴─ AvesK8s ─ AvesK8sHistory
   │        │                                  ┆             │ └─ StatusReports
   │        └─ SwarmCluster ─ SwarmJob ┄┄┄┄┄┄┄┄┘             └ JobLifecycle (abstract)
   │                             └─ SwarmHistory
   └─ DistEnvs (Rendezvous, seen finer)
JobSubmit   PodManifest ─ ServiceManifest

AvesK8s_proofs ─┬─ AvesK8sHistory_proofs ─ AvesK8sLifecycle_proofs (of JobLifecycle)
                └─ StatusReports_proofs
SwarmHistory_proofs (and of SwarmJob)   DistEnvs_proofs   JobSubmit_proofs
ServiceManifest_proofs (and of PodManifest)
```

A line is EXTENDS, a dotted one INSTANCE WITH.

- **Bounds**: how often users act and faults happen (`budget`, from the constant
  `Budget`), and how many of these kinds one behaviour may combine (`Mixed`).
- **JobStore**: `job`, `wst` (status of each worker row), `made`. A row is a pair
  of the pod name and the `bulk_create` call that inserted it, because two calls
  insert two rows with one name. `SaveJob`, `SaveWorker` (an UPDATE, or an INSERT
  subject to the foreign key), `MakeWorkers`, `DeleteJob` (cascade).
- **K8sCluster**: `pod`, `cm`, `events`. External, from the calls of
  `kubernetes_client/client.py` and the pods that `make_pod` describes.
- **JobApi**: `task` (what each gunicorn or celery process runs: operation, step,
  row, result), `startMsgs`, `inbox`, `waiting`. One step per database or API
  server call: `StartMark`, `StartCount`, `MakeCheck`, `MakeInsert`, `StartList`,
  `StartConfig`, `StartPod`, `StartSave`, `StartFail`; `StopList`, `StopPod`, `StopCm`,
  shared by cancel, clean, finish and image errors; `WriteJob`; `Crash`.
- **PodEvents**: `process_k8s_pod_event`, four steps.
- **RunScript**: `script`, for `Mode` "single", "TF_PS" and "HOROVOD".
- **AvesK8s**: the composition, its fairness, the row properties, those of an
  undisturbed job and the inductive invariant. **JobLifecycle** is what the status
  promises its owner, and AvesK8s implements it while undisturbed.
  **AvesK8sHistory** adds `causes` and the properties of a disturbed job.
- **StatusReports** splits every `update_status` of AvesK8s in two: the step that
  saves the row leaves an entry in `saved`, the handler stands still
  (`Unsaid`, `Unanswered`) until `QueueReport` moves it to `queue`, celery takes it
  (`TakeReport`) and publishes up to `Conc` reports at a time, in any order
  (`Publish`). Lost at each place: `ReportingDies` (also when the broker refuses
  the task, which raises in the handler), `CeleryDies`, `PublishFails`.
- **SwarmCluster**: `svc` and `cfgs`. External, from the calls of
  `docker_client/client.py`. A service refers to its configs by the ids that its own
  start was given: `cfgs[r]` is the process that made them.
- **SwarmJob**: one job on the swarm. The views, `start_avesjob` and the scripts are
  the *same* definitions as on Kubernetes: `Api == INSTANCE RunScript WITH pod <- svc,
  cm <- cfgs, events <- {}`. Its own are `_swarm_start` (`StartConfigs`,
  `StartService`), `_docker_stop` (`StopService`, `StopConfigs`), the containers, and
  the poller: `PollList`, `PollAge`, `PollLook`, `PollRows`; what it does then,
  `update_status` and `clean_work`, are the steps of JobApi run by the process
  `Poller`. `aged` and `poll.old` say whether the row, and the copy on the
  list, are older than five minutes. **SwarmHistory** adds `causes`.
- **DistEnvs**: `distribute_envs` lists the pods to see that they run, and
  `get_dist_envs` lists them *again* to compute the answer. `RunScript.Rendezvous`
  is one step with no answer; here the two lists are two steps. `swarm` chooses the
  back end: containers are then listed by one docker engine, the newest first, without
  those in `far`, on other nodes.
- **JobSubmit**: `validate_job`, `trans_job_data`, and the main node that
  `make_aves_workers` chooses from the result.
- **PodManifest**: data specs to volumes and mounts, and what the API server
  wants of them. A list is a function of the positions that `gen_volumes` keeps, so
  that it can be proved about. **ServiceManifest**: what `make_service` makes of the same.
- **MC*** modules instantiate these for TLC.

A definition called "Variant" in its comment is a plausible bug of the definition
after it; nothing uses it but the test that a property notices that bug.

### What is abstracted

- One job. Jobs share no row, and pods carry the id of their own.
- Payloads, messages, texts, resources, PENDING (declared, never written).
- `delete_namespaced_configmap` and the create after it are one step
  (`StartConfig`): only the outcome matters, and nobody else touches that map
  between the two but a stop of the same row.
- The status that `update_status` of a job writes is that of the handler, and the
  other columns of the stale copy are left out; for a PATCH, which
  writes the status *as read*, the copy is modelled (`EditJob`). The serializer has
  `fields = '__all__'` (`serializer.py:12`), so a PATCH or PUT that names a status writes
  that one: then the row is what its user says, and nothing is claimed of it.
- Of two equal reports of a row that are pending at once (pods of one name, one
  after the other), the second waits for the first.
- A config map error, an image error or an `abort` is a choice of the environment
  within its budget.
- Failing to gather the output after training (`aves_run.sh.tmpl:310-316`) is
  `Breaks`, like the failures before it.
- Single mode is checked with one pod. With several pods in a job that is not
  distributed every pod is a main node and reports for the job; the first report
  finishes it.
- DistEnvs takes the pod list to be in the order of pod names, as the API server's
  store is; nothing in the code sorts it.
- A container that is stopped has 10 s before it is killed. `LastWords` bounds what it
  does in that time to one more report. A removed container is off the list at once.
- Five minutes pass (`TimePasses`) in no time for everything but a start or a task that
  the swarm has not made yet: that these take so long is a disturbance (`Slow`).
- Of the reports, StatusReports keeps the status alone; the exchange and what PAI does
  with a message are outside, and the last one published counts.
- PodManifest compares claim names with volume names as values and leaves out
  subPath. `Fits` is about volumes and mounts that fit together, and `CreateService` about
  two mounts at one path. What makes a single one invalid is left out: a volume
  name with capitals or dots (`data_spec.py:156`, `183`), which the API server
  refuses, and a path like `1.2.3.4:/x` that `AVES_HOSTPATH_MAP` does not translate
  (`data_spec.py:186-194`), whose mount string docker's client rejects.

## 3. Fairness

`Fairness` of AvesK8s: each process goes on with its handler (gunicorn and celery
workers are scheduled by the kernel), queued messages, requests and events are
taken, scripts go on, and the kubelet starts, ends and removes pods. Weak fairness
suffices: none of these steps is disabled again and again by another. Users need
not act, faults need not happen. `TrainingEnds` is assumed only where a property
needs it: in `LiveSpec`, and as the premise of `SettlesOrExplained`.
`CancelFreesPods` does without (`HFairSpec`), because
a cancel has to stop a training that never ends. DistEnvs: the loop of
`aves_run.sh.tmpl:147-163` asks again every 10 s, so `Check` and `Answer` are fair.

SwarmJob: the poller and the clock are fair as well (`while True` and `sleep(300)` in
`watch_job.py:36-55`). No file of the repository starts `watch_job`; without it, a
rejected task leaves its job STARTING for ever, so the properties of the swarm hold of a
deployment that runs it. StatusReports (`RFairSpec`): a handler that has saved queues,
and celery takes and publishes; nothing is assumed of users, pods or scripts, whose
statuses PAI learns whenever they come about.

## 4. The runs

Deadlock is not checked: a job that is over, and users who do nothing, may rest.
The liveness properties check that nothing rests too early.

The instances have two processes. A budget allows each kind of event once, and
`Mixed` says how many kinds besides `create` one behaviour combines.

| Run | Instance | Events, at most `Mixed` of them | Shows |
|---|---|---|---|
| `rows` | 1 pod | any 2 but a second start | `TypeOK`, `RowsHaveJob`, `NothingDangles`, `MadeOnceAlone` |
| `pairs` | 1 pod, debug | any 2 of edit, cancel, clean, a report lost or late, a refused call, a kill, a dropped event, an image error | `FinishedNotFailed`, `SettlesOrExplained`, `CancelFreesPods` |
| `tfps` | TF_PS, 2 pods | kill | `FinishedNotFailed`, `RunningAfterStart`, `SettlesOrExplained` |
| `horovod` | HOROVOD, 2 pods | any 2 of kill, abort, lose, refuse | `FinishedNotFailed`, `SettlesOrExplained` |
| `life` | HOROVOD, 2 pods | resync | `ImplementsLifecycle`, `FinishFreesPods` |
| `envs` | 1 ps, 2 workers, either type, either back end | start again, kill, refuse, 3 deletions | `TypeOK`, `ToldComplete`, `SameCluster`, `HasAddress`, `HostsInOrder`, `GroupForms` |
| `submit` | every list of at most 3 roles; every missing key | | `TransDefined`, `OneMain`, `WorkersKept` |
| `manifest` | code, 0-2 inputs, 0-1 output, log; all types; either back end | | `RefusedOnlyForClash`, `DataInPlace`, `NeverRefused`, `DirectoriesInPlace` |
| `reports` | 1 pod, 2 reports at a time | one of cancel, lose, crash, edit, kill, timeout | `ReportsOK`, `NewestIsTrue`, `PaiLearns`, `NoFalseRevival` |
| `swarm` | 1 worker, 2 servers, the poller | one of all kinds but resync | `TypeOK`, `ScriptsStay`, `NamesFree`, `PollerSparesRunning`, `SettlesOrExplained` |
| `made_twice` | 1 pod | start | `WorkersMadeOnce`, violated |
| `swarm_finished` | 1 worker, 2 servers, the poller | none | `FinishedStays`, violated |

**Why the bounds are enough.** Two processes give every race of two handlers; a
third would only repeat one of the two. Two pods give a main node and another, and
"the last active worker" is not "the only one"; the rendezvous and the count do not
tell two from more. Pairs of events are enough to make each excuse below
*needed* but those of a crash (TLC finds a counterexample when it is taken out), and the runs show that no
pair brings another. Not in `pairs` are a destroy (whose effects `rows` looks at), a
handler that dies (`rows`; it excuses what `pairs` would look for), an abort (`horovod`),
a watch opened anew (`life`), and a second start: a job that
is started by two is not checked to settle on Kubernetes; on the swarm it is.
`swarm` allows one event of any kind beside the poller, which is a disturbance of its own;
two workers on the swarm differ from one only in `StopList` and the count of JobApi,
which the runs of two pods reach, and in the list of containers, which is in `envs`.
`MaxMakes` is 2 in `made_twice` and in `rows`, where a second `bulk_create` is what
must not happen; it is 1 where rows are not the question, and the second call then fails like one
whose job is gone. `envs` has three deletions because a pod may be deleted and
replaced for each of its three workers.

### Jobs that do not settle

`SettlesOrExplained` says that a STARTING or RUNNING job leaves these states
*unless* one of a list of causes has come about. Each entry is a scenario in which
the job hangs for ever, found by TLC when the entry is left out:

| Cause | Scenario | Where |
|---|---|---|
| `early` | The pod ends before `_kube_start` has saved STARTING; its event finds NEW and is dropped | `models.py:390-397`, `tasks.py:75` |
| `mute` | The script settled its worker itself, the job's report was lost, or refused because the job was not RUNNING yet (`views.py:193`), and the pod event no longer counts | `views.py:82`, `tasks.py:76` |
| `dropped` | The event could not be queued | `watch_pod.py:58` |
| `revived` | A late RUNNING of the main script is written over a job that was over; a PATCH puts back an old status, or NEW under a job that runs | `views.py:230`, `views.py:87` |
| `overwritten` | A worker's outcome is written over: by a late RUNNING of its script, or by the STARTING that `_kube_start` saves after the pod was created | `models.py:551`, `models.py:396` |
| `taken` | `clean_job` of a running job deletes its pods and leaves its status | `views.py:183` |
| `PeerMissing` | A pod waits for one that is over | `views.py:157`, `aves_run.sh.tmpl:274` |
| `DaemonAlone` | Only the sshd of HOROVOD is left | `aves_run.sh.tmpl:296` |
| `NoMount` | The config map was refused, its error dropped | `models.py:371` |
| crash | A handler died half-way | `startup/gunicorn_cfg.py:10` |

So the runs say: within their events (no destroy, crash or second start) there is no other way
to hang. The other properties have shorter lists. `CancelFreesPods`: a start under
way beside the cancel, a refused call, rows deleted by a destroy (which no run of this
property has), and a PATCH that read CANCELED and writes it over a job that a late start
made RUNNING. `FinishFreesPods`, of an undisturbed job: a debug job's main node.

`FinishedNotFailed`: the report of the failure was lost, late, cut off by a crash, or came
to a row that a destroy had deleted (no run of this property has one of the last two). A
worker's outcome that is written over is *not* an excuse of its own: a RUNNING written
over it by a report that did not time out, or a STARTING over the outcome of the one that
reports for the job once the job is RUNNING, would be found, for then the pod's event,
whose phase is Succeeded because of `tee`, counts again. What is excused is `restarted`: `_kube_start` saves STARTING
(`models.py:396`) over the outcome of another worker, or before the job is RUNNING. The
first needs no disturbance at all: in TF_PS a quick worker is done before its STARTING is
saved; the main node fails and reports its worker's outcome; then the event of the
quick worker's pod finds its own row active and no other, and writes FINISHED. In the
second a script breaks before its training, its report of the job is refused
(`views.py:193`), and its pod's event settles the job by tee's exit code. An edit that puts
RUNNING back, with an outcome written over, is excused as well (`edit` and `overwritten`).

On the swarm `SettlesOrExplained` has three causes: the container is over and its script
has not settled the job (`Unnoticed`: the poller looks at STARTING jobs alone, and a
task that is complete or failed is not missing to it); a service of a RUNNING job was
taken away (`TakenRunning`); a handler died. Nothing else keeps a job there: the
poller settles one whose task was rejected, whose start was refused, or whose services
have gone. `PollerSparesRunning`: a start took five minutes or ran beside the poller, or
another worker of the job lacks its service. `NamesFree`: a start failed half-way or ran
beside a stop, a call was refused, a handler died, the row was destroyed or edited; a
debug job's main node. (An edit needs a second event to leave names behind, so the run
does not show that this excuse is needed.)

`Parted`, of the reports: they overtook each other, one was lost, a process died, or a
PATCH wrote the status, which reports nothing. `ToldComplete` and `SameCluster`: pods were
deleted. `HasAddress`: the job was started again. `GroupForms`: a pod ended or was deleted,
or a container runs on a node that `DOCKER_URL` does not name.

### Where code and words differ

Two runs state what a docstring, a log or an assertion says, and TLC shows a behaviour
of the code against it.

- `made_twice`: two starts race past "already exist" (`models.py:135`).
- `swarm_finished`: the poller calls a job that has FINISHED a FAILURE, for workers that
  `finish_job` has removed (`watch_job.py:37-52`). Nothing but the poller's old copy of
  the row is needed for it.

Other differences were met while modelling and have no run of their own:

- `cancel` tests the tuple of `stop()`, which is always true (`models.py:207`): a job
  becomes CANCELED with a live pod when the API server refused. It is an excuse of
  `CancelFreesPods`.
- `destroy` deletes the rows before `clean_work` looks for them (`views.py:118`), which
  logs "job workers will be cleaned": `StopList` then finds no worker, and the pods stay.
- `get_dist_envs` documents "<Worker0 IP> <Worker1 IP> ..." (`models.py:230`). On
  Kubernetes the list is in the order of names: `worker-10` comes before `worker-2`, while
  the script passes `role_index` as the task index. `HostsInOrder` is therefore stated for
  indices of one digit. On the swarm it comes newest container first, and it is not
  stated at all.
- The loop under "validate outputSpec" goes over the inputs
  (`aves2_schemas/__init__.py:23-24`), so `ValidJob` says nothing of outputs.
- `trans_job_data` writes 'TF-PS', which `DISTRIBUTE_TYPES` does not have
  (`models.py:67-70`).
- `submit_avesjob` uses `User`, which `views.py` does not import (`Authorize`).
- The log directory of a job is made writable and never mounted (`base_maker.py:312`):
  `DataInPlace` leaves the log out.

## 5. The proofs

Checked by tlapm for all values of the constants: any finite set of pod names, any
processes and main nodes, all modes, any budget, `Mixed`, `MaxMakes` and `Conc`. What is
assumed of them: budgets are numbers (`BudgetAssumption`); there are finitely many names,
and `NoRow` is no row (`StoreAssumption`); main nodes are pods, and the mode is one the
code has (`ApiAssumption`, `ScriptAssumption`); the poller is no web process
(`SwarmAssumption`); the workers of a role are numbered from 0, and names have an order
that is the one of the indices as long as these have one digit (`EnvsAssumption`,
`NamesAssumption` of DistEnvs); a submitted job names each role once, with a count
(JobSubmit); the data of a job are sequences with distinct keys, made each with its own kind
(PodManifest). TLC evaluates all of these in the runs.

Every invariant and action property that a run checks is proved, and so is the safety
half of the refinement. One lemma per action, grouped as in `Next`; each says which
conjuncts the action can disturb.

**Rows** (AvesK8s_proofs).
- `TypeCorrect`: `Spec => [](TypeOK /\ ShapeOK)`. `TypeOK` alone
  is not inductive: a handler at "save" writes the row `cur`, which only `ShapeOK`
  says is one (a handler at that step has a row, a writer has a status, a pod that is
  there carries its row).
- `IndInvCorrect`: `Spec => []IndInv`. `IndInv` adds
  to the first invariant: budgets only fall (`BudgetBound`), rows belong to a
  call that was made (`RowsMade`), and, while nobody has used `start_job`, at most
  one process creates or starts the job and made no row before it is past
  `bulk_create` (`StartAlone`). `NothingDangles` needs `RowsHaveJob`, because a
  save of a missing row is an INSERT; `MadeOnceAlone` follows from `StartAlone`
  (at most one call was made) and `RowsMade`. `RowsCorrect`, `NothingDanglesCorrect`,
  `MadeOnceCorrect` are corollaries.

**The run of a job** (AvesK8sHistory_proofs).
- `RunningAfterStartCorrect`. RUNNING comes from a report of the main node, which
  `distribute_envs` has let go on when as many pods run as there are rows. That count says
  "all pods" only if every pod belongs to one row and every row to one pod: rows are those
  of one `bulk_create` (`StartAlone`), and a pod whose start is still to come
  (`NotYet`) has not been created before (`StartInv`). `Together` then follows the word
  RUNNING from that answer on: through the script, the request, the handler, the row
  (`Source`). The count is one of finite sets, hence `IsFiniteSet(Names)`.
- `FinishedNotFailedCorrect`. A script reports its worker's outcome, waits for the answer,
  and only then tells the job's and ends (`ReportsFirst`); so when a pod has succeeded, its
  row is already settled, and the event of its success is dropped (`EventsLast`). What is
  left that can write FINISHED is the report of a reporter that did its part, and this is
  where `OneReporter` enters: with two reporters, as in a job of several pods that is not
  distributed, one fails and the other says FINISHED. That is what the code does, so it
  is a premise of the property and not of the proof alone (`Outcomes`). `Kept` is the rest of
  the property's excuses. That an outcome is written over is not among them, so the proof
  shows that no RUNNING does it, while no report times out (`RowKept`): a request has one handler at most
  (`AnsweredOnce`), and is the last one of a script that waits for it or is gone
  (`RequestsExpected`), so a script that ended by itself has none left (`EndsDone`). What
  remains is a STARTING over the reporter's own outcome (`Excused`). By then
  the job was RUNNING, and the script's result was awaited and has settled it
  (`ResultsTold`), so the event of its pod, which counts again, finds a job that is over
  (`Closed`).

**The refinement** (AvesK8sLifecycle_proofs). `LifecycleCorrect`: the first state of AvesK8s
is one of JobLifecycle, and every step of an `Undisturbed` job is a step of it or a
stutter. `LifeInv` says why the writers of the job's row never meet: the task of `create`
is done before a pod runs (`Begun`); a reporter that has asked waits (`OnTime`, `OneReport`),
so RUNNING is answered before it trains and its outcome finds RUNNING (`Positions`); pods
end, are stopped and cause events when the job is over (`Settled`). `Undisturbed` is: only
`create` and `resync` happen, one pod reports, and the mode is not TF_PS. In TF_PS the
statement is false, as TLC shows: `_kube_start` saves STARTING over the outcome that the
script of a quick worker has already reported, so the event of its pod counts
again; if the main node has reported its worker's outcome by then, no row is active, and the
event writes FINISHED beside the FAILURE that the main node reports for the job.
The run `life` has HOROVOD. The liveness half stays with TLC.

**Reports** (StatusReports_proofs).
- `NewestCorrect`: `RSpec => [](ReportsOK /\ NewestIsTrue)`. Its invariant adds `Calls`
  (types, falling budgets, and that a PATCH is under
  way only if the budget of edits was used), for `NewestIsTrue` needs that every other
  step which changes the status of the job appends to `saved`. `Newest` is the last entry
  of the first of `saved`, `queue`, `flight` that has one: a report that moves on is the
  newest of the place it comes to, unless it has overtaken (`Removal`, `Appending`,
  `Taking`).
- `NoFalseRevivalCorrect`, an action property. `InOrder`: as long as no report has overtaken
  another and the job has not become active again, no active status is anywhere behind one that is over,
  in `saved`, `queue` and `flight` and between them, and none that is over is on its way
  before the job was. Taking a report out of a list leaves it in order (`ThinnedOut`).
- `ReportsTyped`.

**The swarm** (SwarmHistory_proofs).
- `SwarmInvariant`: `Spec => []IndInv`, `SwarmTyped` and `ServicesKeepScripts`: `Spec =>
  []ScriptsStay`. A service is created only from the configs its own start has made, and
  docker removes no config that a service refers to, so `ScriptsStay` is kept by every
  step, whatever runs beside it; but only if a handler at "config", "pod" or "stopPod"
  has a row (`ShapeOK`) and types are kept. `ScriptsRun` says that a script is "off"
  when its container does not run, which `StopService` and the kills need. `Api` is an
  INSTANCE, so `SameStore` first identifies its copies of the store's operators.
- `PollerSparesRunningCorrect`, an action property. `PollInv`: the poller acts only on a
  copy that is older than five minutes, a start under way keeps the row younger,
  and a service without a task is younger than that (`StartIsYoung`, `FreshIsYoung`, unless
  it was `Slow`), and what the poller has seen missing is missing until it is done
  (`SeenLacking`: only a start could bring it back).
- `NamesFreeCorrect`. `FreeInv`, while nothing disturbs: a job that is to be started has
  nothing (`FreshIsFree`), configs are those of the start under way (`StartOwns`), and a stop
  under way still comes to every row that has some (`CancelComes`, `OverIsStopped`).
  `NamesInv` adds to it and to `PollInv` what the handlers are and what the requests tell
  (`GroundInv`).

**Distributed jobs** (DistEnvs_proofs): `EnvsTyped`, `AddressesKnown`, `OneCluster`,
`EveryoneTold`, `HostsOrdered`. `PodInv` says which pods have which address;
`GroupInv`: once a script is between the two lists, or told, all pods have started and
none will again, unless the job is started again (`ReadyOK`); and until a pod is deleted, what a
script was told is what one that asks now would be told (`ToldNow`). `PodList` takes the pods of a role by
their rank. That each rank has one pod, and that the k-th is the one of index k, are facts
about finite orders (`Orders`), proved from cardinalities.

**Submission** (JobSubmit_proofs): `TranslationDefined`, `OneMainNode`, `NoWorkerLost`.
Each place of a role is one worker, so the counts are those of intervals; and exactly one place
is the main one. `OneMain` is about master, worker and ps: a distributed job of other roles alone
has no main node.

**Manifests** (ServiceManifest_proofs): `RefusedOnlyForClashCorrect`, `DataInPlaceCorrect`,
`NeverRefusedCorrect`, `DirectoriesInPlaceCorrect`. Of equal volumes the first is kept, and
there is a first because the numbers are well-founded (`LeastIn`); paths are apart because keys
are (`PathsApart`), so no mount is ever left out (`MountsAll`); and unless names clash, a name
tells its volume (`NamesTell`), so that the last one of a name, which `make_service` takes,
is the only one.

The runs check the same properties on small instances.

**Only model-checked**: liveness, which is beyond the prover: `SettlesOrExplained`,
`CancelFreesPods`, `FinishFreesPods`, `GroupForms`, `PaiLearns` and the liveness half of
`ImplementsLifecycle`.

## 6. Not modelled

- The `cancel_avesjob` *task*: queued by nothing; it would raise at its second line.
- Rendering of scripts, environment and arguments; resources; AWS configuration; logs
  and other getters; web pages, admin, migrations, deployment: no state of a job. Their
  failures are the action `Breaks`.
- Several jobs at once: they share no row, and pods and services carry the id of their
  job. What the poller does for one job while others wait is the age of its copy.
- Distributed jobs of several workers on the swarm, from start to end: their parts are in
  `envs` and `swarm`. SwarmJob is written for them (`Names`, `Mode`).

## 7. Plan

1. (done) Core: Bounds to AvesK8s, AvesK8sHistory, JobLifecycle, type and row proofs.
2. (done) DistEnvs, JobSubmit, PodManifest.
3. (done) The swarm: SwarmCluster, SwarmJob, SwarmHistory, its invariant proved; both back
   ends in DistEnvs and in the manifests.
4. (done) StatusReports, and the proof of `NewestIsTrue`.
5. (done) Proofs of every safety property that a run checks, and of the safety half of the
   refinement for jobs that are single or HOROVOD.
6. Proofs: the refinement for TF_PS, with an abstract specification that lets the outcome of a
   job be revised; that undisturbed jobs of a swarm implement one too.
7. Two workers on the swarm, and the lifecycle its poller allows (FINISHED, revised
   to FAILURE) as an abstract specification.
8. Settling of a job that is destroyed or started by two on Kubernetes.
9. Several jobs of one owner, `cancel_avesjob` by `job_id` (which is not unique).
