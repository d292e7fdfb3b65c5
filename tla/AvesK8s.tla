------------------------------- MODULE AvesK8s -------------------------------
(***************************************************************************)
(* One training job on the Kubernetes back end: the REST views, the celery *)
(* tasks, the database, the pod watcher, the cluster and the scripts in    *)
(* the pods, each taking its steps in any order.                           *)
(***************************************************************************)
EXTENDS PodEvents, RunScript

vars == <<store, cluster, web, script, budget>>

TypeOK ==
    /\ StoreOK
    /\ ClusterOK
    /\ WebOK
    /\ ScriptOK
    /\ BudgetOK

Init ==
    /\ StoreInit
    /\ ClusterInit
    /\ WebInit
    /\ ScriptInit
    /\ BudgetInit

-----------------------------------------------------------------------------
(* The cluster's steps, with what they do to the script in the pod.        *)

PodStarts(n) ==
    /\ PodRuns(n)
    /\ script' = [script EXCEPT ![n] = "boot"]
    /\ UNCHANGED <<store, web, budget>>

ScriptEnds(n) ==
    /\ script[n] = "exit" /\ ~Awaits(n)
    /\ PodExits(n)
    /\ script' = [script EXCEPT ![n] = "off"]
    /\ UNCHANGED <<store, web, budget>>

\* The requests of a killed script are still handled; nobody awaits them.
PodDies(n) ==
    /\ \E seen \in BOOLEAN : PodKilled(n, seen)
    /\ IF pod[n].dying THEN UNCHANGED budget ELSE Spend("kill")
    /\ script' = [script EXCEPT ![n] = "off"]
    /\ waiting' = {m \in waiting : m.row # pod[n].row}
    /\ UNCHANGED <<store, task, startMsgs, inbox>>

PodGoes(n) == PodRemoved(n) /\ UNCHANGED <<store, web, script, budget>>

ImageFails(n) ==
    ImageError(n) /\ Spend("image") /\ UNCHANGED <<store, web, script>>

WatchAgain == Resync /\ Spend("resync") /\ UNCHANGED <<store, web, script>>

EventDropped(e) ==
    /\ e \in events /\ Spend("lose")
    /\ EventLost(e)
    /\ UNCHANGED <<store, web, script>>

-----------------------------------------------------------------------------
UserStep ==
    /\ \/ DestroyJob
       \/ \E p \in Procs : \/ CreateJob(p) \/ StartJob(p) \/ CancelJob(p)
                            \/ CleanJob(p) \/ EditJob(p)
    /\ UNCHANGED script

\* The next call of the handler that p runs.
HandlerStep(p) ==
    /\ \/ EnqueueStart(p) \/ StartMark(p) \/ StartCount(p) \/ MakeCheck(p)
       \/ MakeInsert(p) \/ StartList(p) \/ StartConfig(p) \/ StartPod(p) \/ StartSave(p)
       \/ StartFail(p)
       \/ StopList(p) \/ StopPod(p) \/ StopCm(p)
       \/ WriteJob(p) \/ SaveRow(p) \/ EventJob(p) \/ EventCount(p)
    /\ UNCHANGED script

TakeMessage == (\E p \in Procs : StartAvesjob(p)) /\ UNCHANGED script
TakeRequest(m) == (\E p \in Procs : HandleRequest(p, m)) /\ UNCHANGED script
TakeEvent(e) == (\E p \in Procs : ProcessEvent(p, e)) /\ UNCHANGED script

\* The script of n goes on without a failure of its own.
ScriptStep(n) ==
    \/ ReportWorkerRunning(n) \/ Rendezvous(n) \/ Prepare(n) \/ StartMpi(n)
    \/ ReportResult(n) \/ ReportBroken(n)
    \/ ScriptEnds(n)

TrainStep(n) == TrainWon(n) \/ TrainLost(n)

\* The kubelet's part: start what can start, end and remove what is deleted.
KubeletStep(n) ==
    \/ PodStarts(n)
    \/ PodGoes(n)
    \/ pod[n].dying /\ PodDies(n)

Fault ==
    \/ \E p \in Procs : Crash(p) /\ UNCHANGED script
    \/ \E n \in Names : \/ Breaks(n) \/ ImageFails(n)
                        \/ ~pod[n].dying /\ PodDies(n)
    \/ \E m \in Requests : ReportTimesOut(m) \/ ReportLost(m)
    \/ \E e \in Events : EventDropped(e)
    \/ WatchAgain

Next ==
    \/ UserStep
    \/ \E p \in Procs : HandlerStep(p)
    \/ TakeMessage
    \/ \E m \in Requests : TakeRequest(m)
    \/ \E e \in Events : TakeEvent(e)
    \/ \E n \in Names : ScriptStep(n) \/ TrainStep(n) \/ KubeletStep(n)
    \/ Fault

Spec == Init /\ [][Next]_vars

\* Servers, queues, scripts and the kubelet keep working. Users need not
\* act, faults need not happen, and training may go on for ever.
Fairness ==
    /\ \A p \in Procs : WF_vars(HandlerStep(p))
    /\ WF_vars(TakeMessage)
    /\ \A m \in Requests : WF_vars(TakeRequest(m))
    /\ \A e \in Events : WF_vars(TakeEvent(e))
    /\ \A n \in Names : WF_vars(ScriptStep(n)) /\ WF_vars(KubeletStep(n))

\* Training that was started ends.
TrainingEnds == \A n \in Names : WF_vars(TrainStep(n))
LiveSpec == Spec /\ Fairness /\ TrainingEnds

-----------------------------------------------------------------------------
(* Properties of the rows, and of what refers to them.                     *)

\* Worker rows never outlive their job, although a save can insert a row
\* again that a destroy has deleted under it.
RowsHaveJob == JobWorkers # {} => JobExists

\* Until the job is destroyed, whatever refers to a worker finds its row:
\* pods, config maps, events, requests and handlers. No lookup raises, and
\* every save is an UPDATE.
NothingDangles ==
    ~Spent("destroy") =>
        /\ \A n \in Names : pod[n].row # NoRow => wst[pod[n].row] # Absent
        /\ cm \subseteq JobWorkers
        /\ \A e \in events : wst[e.row] # Absent
        /\ \A m \in inbox : wst[m.row] # Absent
        /\ \A p \in Procs : /\ task[p].todo \subseteq JobWorkers
                            /\ task[p].cur # NoRow => wst[task[p].cur] # Absent

\* make_aves_workers: "Fail to make aves workers, already exist". No two
\* rows are made for one pod.
WorkersMadeOnce == \A r, s \in JobWorkers : NameOf(r) = NameOf(s) => r = s

\* That holds while only the task that create has queued starts the job.
MadeOnceAlone == ~Spent("start") => WorkersMadeOnce

\* A distributed job is RUNNING only when its start has no pod left to
\* create, in the life of a job that is neither started again nor destroyed
\* (aves_run.sh: "All workers are ready. update job status as running").
RunningAfterStart ==
    (Distributed /\ job = "RUNNING" /\ ~Spent("start") /\ ~Spent("destroy"))
       => \A p \in Procs : Starting(p) => /\ task[p].pc = "save"
                                          /\ task[p].todo = {}

-----------------------------------------------------------------------------
(* Properties of an undisturbed job.                                       *)

\* The status of the job goes through JobLifecycle: the racing writers of the
\* row never set it back, and it settles.
Life == INSTANCE JobLifecycle WITH status <- job
ImplementsLifecycle == Life!LifeSpec

\* A job that stays FINISHED has no live pod in the end, though sshd never
\* ends, unless the main node of a debug job was left alone (finish_job,
\* clean_work).
FinishFreesPods ==
    (job = "FINISHED") ~> \/ job # "FINISHED"
                          \/ \A n \in Names : Live(n) => Debug /\ n \in Main

-----------------------------------------------------------------------------
(* The inductive invariant behind them.                                    *)

Writers == {"cancel", "finish", "edit", "jstat", "wstat", "event", "image"}

\* A handler is at a step of its operation, with the data the step needs.
Shaped(t) ==
    /\ t.pc \in RowPcs => t.cur \in Rows
    /\ t.op \in Writers => t.out # Absent
    /\ t.pc \in {"write", "evCount"} => t.op \in Writers
    /\ t.pc = "saveRow" => t.op \in {"wstat", "event", "image"}
    /\ t.pc = "evJob" => t.op \in {"event", "image"}

\* Handlers are shaped so, and a pod that is there carries its row.
ShapeOK ==
    /\ \A p \in Procs : Shaped(task[p])
    /\ \A n \in Names : pod[n].phase # "none" => pod[n].row \in Rows

BudgetBound == \A k \in Kinds : budget[k] <= Budget[k]

\* While nobody else starts the job, one process at most creates or starts
\* it, before the rows are made no row is, and all rows are of one call.
Alone(p) == task[p].op \in {"create", "start"}
BeforeRows(p) ==
    \/ task[p].op = "create"
    \/ Starting(p) /\ task[p].pc \in {"mark", "count", "check", "insert"}

StartAlone ==
    /\ \A p, q \in Procs : Alone(p) /\ Alone(q) => p = q
    /\ \A p \in Procs : Alone(p) => startMsgs = 0
    /\ \A p \in Procs : BeforeRows(p) => made = 0
    /\ startMsgs > 0 => startMsgs = 1 /\ made = 0
    /\ ~Spent("create") => /\ startMsgs = 0 /\ made = 0
                           /\ \A p \in Procs : ~Alone(p)
    /\ made <= 1

\* Every row in use is of a bulk_create call that was made.
RowsMade ==
    /\ \A r \in Rows : wst[r] # Absent => r[2] <= made
    /\ \A p \in Procs : /\ \A r \in task[p].todo : r[2] <= made
                        /\ task[p].cur # NoRow => task[p].cur[2] <= made

IndInv ==
    /\ TypeOK
    /\ ShapeOK
    /\ BudgetBound
    /\ RowsHaveJob
    /\ NothingDangles
    /\ RowsMade
    /\ ~Spent("start") => StartAlone
=============================================================================
