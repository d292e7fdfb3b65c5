------------------------------- MODULE JobApi -------------------------------
(***************************************************************************)
(* The handlers that change a job: the REST views of AvesJob and           *)
(* AvesWorker, run by the gunicorn workers, and the start_avesjob task, run*)
(* by celery.  Each handler is a sequence of database calls and API server *)
(* calls with nothing that excludes another handler between two of them:   *)
(* no transaction, no row lock.  A member of Procs runs one handler at a   *)
(* time, one call per step; task says where it stands and what it has read.*)
(***************************************************************************)
EXTENDS K8sCluster

CONSTANTS Procs,   \* gunicorn and celery workers
          Main,    \* pod names whose worker has is_main_node
          Debug    \* AvesJob.debug: a finished job keeps its main pod

ASSUME ApiAssumption == Main \subseteq Names /\ Debug \in BOOLEAN

VARIABLES task,       \* the handler each process runs
          startMsgs,  \* start_avesjob messages in the celery queue
          inbox,      \* requests of the scripts, not handled yet
          waiting     \* requests whose script still waits for the response

web == <<task, startMsgs, inbox, waiting>>

NoReq == [row |-> NoRow, kind |-> "none", st |-> Absent]

\* What aves_report.py sends: worker_status, job_status and job_result.
Requests == [row : Rows, kind : {"wstat", "jstat", "jres"},
             st : {"RUNNING", "FINISHED", "FAILURE"}]

Ops == {"create", "start", "cancel", "clean", "finish", "edit", "jstat",
        "wstat", "event", "image"}
StartPcs == {"mark", "count", "check", "insert", "list", "config", "pod",
             "save", "fail"}
StopPcs == {"stopList", "stopPod", "stopCm"}
RowPcs == {"config", "pod", "save", "stopCm", "saveRow"}
Pcs == StartPcs \union StopPcs
       \union {"enqueue", "write", "saveRow", "evJob", "evCount"}

\* A task works on the row cur, has the rows todo left, and writes out.
Tasks == [op : Ops, pc : Pcs, cur : Rows \union {NoRow}, todo : SUBSET Rows,
          out : Statuses \union {Absent}, req : Requests \union {NoReq}]
Idle == [op |-> "none", pc |-> "idle", cur |-> NoRow, todo |-> {},
         out |-> Absent, req |-> NoReq]
Handler(op, pc, cur, out, req) ==
    [op |-> op, pc |-> pc, cur |-> cur, todo |-> {}, out |-> out, req |-> req]

WebOK ==
    /\ task \in [Procs -> Tasks \union {Idle}]
    /\ startMsgs \in Nat
    /\ inbox \in SUBSET Requests
    /\ waiting \in SUBSET Requests

WebInit ==
    /\ task = [p \in Procs |-> Idle]
    /\ startMsgs = 0
    /\ inbox = {}
    /\ waiting = {}

At(p, op, pc) == task[p].op = op /\ task[p].pc = pc
Starting(p) == task[p].op = "start"

\* The handler goes on at t; one that ends answers its request.
Goto(p, t) ==
    /\ task' = [task EXCEPT ![p] = t]
    /\ waiting' = IF t = Idle THEN waiting \ {task[p].req} ELSE waiting
    /\ UNCHANGED <<startMsgs, inbox>>
To(p, pc) == Goto(p, [task[p] EXCEPT !.pc = pc])
End(p) == Goto(p, Idle)

\* A request or message is taken by an idle process and gets its first read.
Begin(p, t) == task[p] = Idle /\ task' = [task EXCEPT ![p] = t]

-----------------------------------------------------------------------------
(* Creating and starting.                                                  *)

\* create: the serializer saves the row; the job has one life in the model.
CreateJob(p) ==
    /\ ~Spent("create") /\ Spend("create")
    /\ SaveJob("NEW")
    /\ Begin(p, Handler("create", "enqueue", NoRow, Absent, NoReq))
    /\ UNCHANGED <<wst, made, cluster, startMsgs, inbox, waiting>>

\* start_avesjob.delay: the task is queued only now.
EnqueueStart(p) ==
    /\ At(p, "create", "enqueue")
    /\ startMsgs' = startMsgs + 1
    /\ task' = [task EXCEPT ![p] = Idle]
    /\ UNCHANGED <<store, cluster, inbox, waiting, budget>>

StartHandler == Handler("start", "mark", NoRow, Absent, NoReq)

\* Variant: the message is delivered again after it was handled.
StartAvesjobRedelivered(p) ==
    /\ startMsgs > 0
    /\ Begin(p, IF ReadyToRun THEN StartHandler ELSE Idle)
    /\ UNCHANGED <<store, cluster, startMsgs, inbox, waiting, budget>>

\* start_avesjob: an early acknowledged message, dropped unless ready_to_run.
StartAvesjob(p) ==
    /\ startMsgs > 0
    /\ startMsgs' = startMsgs - 1
    /\ Begin(p, IF ReadyToRun THEN StartHandler ELSE Idle)
    /\ UNCHANGED <<store, cluster, inbox, waiting, budget>>

\* start_job: the same, for a request of the user.
StartJob(p) ==
    /\ Spend("start") /\ ReadyToRun
    /\ Begin(p, StartHandler)
    /\ UNCHANGED <<store, cluster, startMsgs, inbox, waiting>>

\* update_status('STARTING'), of the copy read before.
StartMark(p) ==
    /\ At(p, "start", "mark")
    /\ SaveJob("STARTING") /\ To(p, "count")
    /\ UNCHANGED <<wst, made, cluster, budget>>

\* AvesJob.start: rows are made unless some exist.
StartCount(p) ==
    /\ At(p, "start", "count")
    /\ To(p, IF JobWorkers = {} THEN "check" ELSE "list")
    /\ UNCHANGED <<store, cluster, budget>>

\* make_aves_workers counts again, and raises if there are some by now.
MakeCheck(p) ==
    /\ At(p, "start", "check")
    /\ To(p, IF JobWorkers = {} THEN "insert" ELSE "fail")
    /\ UNCHANGED <<store, cluster, budget>>

\* bulk_create; the foreign key makes it fail when the job was deleted.
MakeInsert(p) ==
    /\ At(p, "start", "insert")
    /\ \/ MakeWorkers /\ To(p, "list") /\ UNCHANGED job
       \/ ~CanMakeWorkers /\ To(p, "fail") /\ UNCHANGED store
    /\ UNCHANGED <<cluster, budget>>

\* The loop of AvesJob.start takes the next row, or returns.
NextWorker(p, rows) ==
    IF rows = {} THEN End(p)
    ELSE \E r \in rows :
            Goto(p, [task[p] EXCEPT !.pc = "config", !.cur = r,
                                    !.todo = rows \ {r}])

\* Variant: the rows of all jobs instead of this job's.
StartListAll(p) ==
    /\ At(p, "start", "list")
    /\ NextWorker(p, Rows)
    /\ UNCHANGED <<store, cluster, budget>>

StartList(p) ==
    /\ At(p, "start", "list")
    /\ NextWorker(p, JobWorkers)
    /\ UNCHANGED <<store, cluster, budget>>

\* _kube_start: the config map is deleted and made anew. The errors of both
\* calls are dropped; when the second is refused, no config map is left.
StartConfig(p) ==
    /\ At(p, "start", "config")
    /\ \/ cm' = cm \union {task[p].cur} /\ UNCHANGED budget
       \/ Spend("refuse") /\ cm' = cm \ {task[p].cur}
    /\ To(p, "pod")
    /\ UNCHANGED <<store, pod, events>>

\* create_namespaced_pod, which is also refused while the name is taken.
StartPod(p) ==
    /\ At(p, "start", "pod")
    /\ \/ /\ CanCreatePod(task[p].cur)
          /\ CreatePod(task[p].cur) /\ To(p, "save") /\ UNCHANGED budget
       \/ /\ CanCreatePod(task[p].cur)
          /\ Spend("refuse") /\ To(p, "fail") /\ UNCHANGED pod
       \/ /\ ~CanCreatePod(task[p].cur)
          /\ To(p, "fail") /\ UNCHANGED <<pod, budget>>
    /\ UNCHANGED <<store, cm, events>>

\* The worker's STARTING, written after its pod exists.
StartSave(p) ==
    /\ At(p, "start", "save")
    /\ \/ SaveWorker(task[p].cur, "STARTING") /\ NextWorker(p, task[p].todo)
       \/ ~CanSaveWorker(task[p].cur) /\ End(p) /\ UNCHANGED wst
    /\ UNCHANGED <<job, made, cluster, budget>>

\* A worker could not be started: the rest is not, what is started stays.
StartFail(p) ==
    /\ At(p, "start", "fail")
    /\ SaveJob("FAILURE") /\ End(p)
    /\ UNCHANGED <<wst, made, cluster, budget>>

-----------------------------------------------------------------------------
(* Stopping: cancel_job, clean_job and finish_job, the event of an image   *)
(* that cannot be pulled, and the loop over the workers they share.        *)

CancelJob(p) ==
    /\ Spend("cancel") /\ JobExists
    /\ Begin(p, Handler("cancel", "stopList", NoRow, "CANCELED", NoReq))
    /\ UNCHANGED <<store, cluster, startMsgs, inbox, waiting>>

CleanJob(p) ==
    /\ Spend("clean") /\ JobExists
    /\ Begin(p, Handler("clean", "stopList", NoRow, Absent, NoReq))
    /\ UNCHANGED <<store, cluster, startMsgs, inbox, waiting>>

\* Variant: the main node is left alone by every handler.
MainSpared(op, r) == NameOf(r) \in Main

\* clean_work without force leaves the main node of a debug job alone.
Spared(op, r) == op = "finish" /\ Debug /\ NameOf(r) \in Main

\* A cancel writes its status after the loop, the others before it.
AfterStop(p) ==
    IF task[p].op = "cancel"
    THEN Goto(p, [task[p] EXCEPT !.pc = "write", !.cur = NoRow])
    ELSE End(p)

StopList(p) ==
    /\ task[p].pc = "stopList"
    /\ LET rows == {r \in JobWorkers : ~Spared(task[p].op, r)} IN
       IF rows = {} THEN AfterStop(p)
       ELSE Goto(p, [task[p] EXCEPT !.pc = "stopPod", !.todo = rows])
    /\ UNCHANGED <<store, cluster, budget>>

\* _kube_stop: the pod of the row's name is deleted; a refusal is returned
\* as (None, msg), which cancel takes for a success and clean_work ignores.
StopPod(p) ==
    /\ task[p].pc = "stopPod"
    /\ \E r \in task[p].todo :
         /\ \/ DeletePod(NameOf(r)) /\ UNCHANGED budget
            \/ Spend("refuse") /\ UNCHANGED pod
         /\ Goto(p, [task[p] EXCEPT !.pc = "stopCm", !.cur = r,
                                    !.todo = @ \ {r}])
    /\ UNCHANGED <<store, cm, events>>

\* Then the row's config map is.
StopCm(p) ==
    /\ task[p].pc = "stopCm"
    /\ \/ cm' = cm \ {task[p].cur} /\ UNCHANGED budget
       \/ Spend("refuse") /\ UNCHANGED cm
    /\ IF task[p].todo = {} THEN AfterStop(p) ELSE To(p, "stopPod")
    /\ UNCHANGED <<store, pod, events>>

\* Variant: finish_job without its clean_work.
WriteJobOnly(p) ==
    /\ task[p].pc = "write"
    /\ SaveJob(task[p].out)
    /\ IF task[p].op = "image" THEN To(p, "stopList") ELSE End(p)
    /\ UNCHANGED <<wst, made, cluster, budget>>

\* update_status of a job. It saves the copy of the row read at the start.
WriteJob(p) ==
    /\ task[p].pc = "write"
    /\ SaveJob(task[p].out)
    /\ IF task[p].op \in {"finish", "image"} THEN To(p, "stopList") ELSE End(p)
    /\ UNCHANGED <<wst, made, cluster, budget>>

\* destroy: the rows are deleted. clean_work then runs on an instance that
\* has no key any more, finds no workers, and stops nothing.
DestroyJob ==
    /\ Spend("destroy") /\ JobExists
    /\ DeleteJob
    /\ UNCHANGED <<made, cluster, web>>

\* A PATCH or PUT of other fields writes the whole row back, the status as
\* read. (One that names a status would write what its user says.)
EditJob(p) ==
    /\ Spend("edit") /\ JobExists
    /\ Begin(p, Handler("edit", "write", NoRow, job, NoReq))
    /\ UNCHANGED <<store, cluster, startMsgs, inbox, waiting>>

-----------------------------------------------------------------------------
(* The requests of the scripts: a missing row or a refusal is an error     *)
(* response, which aves_report.py prints and forgets.                      *)

\* change_status of a worker writes what it is told, and nothing else.
WorkerChangeStatus(m) ==
    IF wst[m.row] = Absent THEN Idle
    ELSE Handler("wstat", "saveRow", m.row, m.st, m)

\* change_status of the job, whatever state it is in.
JobChangeStatus(m) ==
    IF JobExists THEN Handler("jstat", "write", NoRow, m.st, m) ELSE Idle

\* finish_job: only of a job that is RUNNING.
FinishJob(m) ==
    IF job = "RUNNING" THEN Handler("finish", "write", NoRow, m.st, m)
                       ELSE Idle

\* Variant: the response is sent before the work is done.
AnswerFirst(p, m) ==
    /\ m \in inbox
    /\ inbox' = inbox \ {m} /\ waiting' = waiting \ {m}
    /\ Begin(p, CASE m.kind = "wstat" -> WorkerChangeStatus(m)
                  [] m.kind = "jstat" -> JobChangeStatus(m)
                  [] m.kind = "jres"  -> FinishJob(m))
    /\ UNCHANGED <<store, cluster, startMsgs, budget>>

HandleRequest(p, m) ==
    /\ m \in inbox
    /\ inbox' = inbox \ {m}
    /\ LET t == CASE m.kind = "wstat" -> WorkerChangeStatus(m)
                  [] m.kind = "jstat" -> JobChangeStatus(m)
                  [] m.kind = "jres"  -> FinishJob(m)
       IN /\ Begin(p, t)
          /\ waiting' = IF t = Idle THEN waiting \ {m} ELSE waiting
    /\ UNCHANGED <<store, cluster, startMsgs, budget>>

\* Variant: an event settles its worker and forgets the job.
SaveRowOnly(p) ==
    /\ task[p].pc = "saveRow"
    /\ \/ SaveWorker(task[p].cur, task[p].out) /\ End(p)
       \/ ~CanSaveWorker(task[p].cur) /\ End(p) /\ UNCHANGED wst
    /\ UNCHANGED <<job, made, cluster, budget>>

\* worker.save(), for a request or a pod event.
SaveRow(p) ==
    /\ task[p].pc = "saveRow"
    /\ \/ /\ SaveWorker(task[p].cur, task[p].out)
          /\ IF task[p].op = "wstat" THEN End(p) ELSE To(p, "evJob")
       \/ ~CanSaveWorker(task[p].cur) /\ End(p) /\ UNCHANGED wst
    /\ UNCHANGED <<job, made, cluster, budget>>

\* gunicorn kills a worker that takes over 60 s, a deployment restarts it;
\* celery acknowledged the message before it ran. Nothing resumes a handler.
Crash(p) ==
    /\ Spend("crash") /\ task[p] # Idle
    /\ End(p)
    /\ UNCHANGED <<store, cluster>>
=============================================================================
