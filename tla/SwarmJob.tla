------------------------------ MODULE SwarmJob ------------------------------
(***************************************************************************)
(* One training job on the Docker swarm back end.  The views, start_avesjob*)
(* and the scripts are those of JobApi and RunScript, which see a service  *)
(* where they had a pod and configs where they had a config map.  There is *)
(* no stream of events: the command watch_job polls instead.               *)
(***************************************************************************)
EXTENDS SwarmCluster

CONSTANTS Servers,  \* gunicorn and celery workers
          Poller,   \* the process of the command watch_job
          Main, Debug, Mode

Procs == Servers \union {Poller}

ASSUME SwarmAssumption == Poller \notin Servers /\ NoOwner \notin Procs

VARIABLES task, startMsgs, inbox, waiting, script,   \* of JobApi, RunScript
          poll,   \* where the poller stands, before it fails a job
          aged    \* the job was saved more than five minutes ago

Api == INSTANCE RunScript WITH pod <- svc, cm <- cfgs, events <- {}

web == <<task, startMsgs, inbox, waiting>>
vars == <<store, swarm, web, script, poll, aged, budget>>

At(p, op, pc) == task[p].op = op /\ task[p].pc = pc
Starting(p) == task[p].op = "start"
Idle(p) == task[p] = Api!Idle

PollPcs == {"sleep", "age", "look", "rows"}
Asleep == [pc |-> "sleep", old |-> FALSE, todo |-> {}]

TypeOK ==
    /\ StoreOK
    /\ svc \in [Names -> Services]
    /\ cfgs \in [Rows -> Procs \union {NoOwner}]
    /\ Api!WebOK
    /\ Api!ScriptOK
    /\ poll \in [pc : PollPcs, old : BOOLEAN, todo : SUBSET Rows]
    /\ aged \in BOOLEAN
    /\ BudgetOK

Init ==
    /\ StoreInit
    /\ SwarmInit
    /\ Api!WebInit
    /\ Api!ScriptInit
    /\ poll = Asleep
    /\ aged = FALSE
    /\ BudgetInit

-----------------------------------------------------------------------------
(* _swarm_start: the configs, the service, and STARTING (Api!StartSave).   *)

\* create_multiple_configs: refused in the middle, it leaves some of them.
\* Its error is dropped, and make_service raises on the missing list.
StartConfigs(p) ==
    /\ At(p, "start", "config")
    /\ LET r == task[p].cur IN
       \/ /\ CanMakeConfigs(r)
          /\ MakeConfigs(r, p) /\ Api!To(p, "pod") /\ UNCHANGED budget
       \/ /\ CanMakeConfigs(r) /\ Spend("refuse")
          /\ MakeConfigs(r, p) \/ UNCHANGED cfgs
          /\ Api!To(p, "fail")
       \/ /\ ~CanMakeConfigs(r)
          /\ Api!To(p, "fail") /\ UNCHANGED <<cfgs, budget>>
    /\ UNCHANGED <<store, svc, script, poll>>

\* create_service: refused before or after the service is there, or the task
\* is rejected by the time it is looked at; the service then stays.
StartService(p) ==
    /\ At(p, "start", "pod")
    /\ LET r == task[p].cur  ok == CanCreateService(r, p) IN
       \/ ok /\ CreateService(r, "new") /\ Api!To(p, "save") /\ UNCHANGED budget
       \/ /\ ok /\ Spend("image")
          /\ CreateService(r, "rejected") /\ Api!To(p, "fail")
       \/ /\ ok /\ Spend("refuse")
          /\ CreateService(r, "new") \/ UNCHANGED svc
          /\ Api!To(p, "fail")
       \/ ~ok /\ Api!To(p, "fail") /\ UNCHANGED <<svc, budget>>
    /\ UNCHANGED <<store, cfgs, script, poll>>

-----------------------------------------------------------------------------
(* _docker_stop: the service, then its configs.                            *)

\* Bound: a container that is stopped has 10 s, for one more report.
LastWords(n) ==
    LET Says(kind, st) == [row |-> svc[n].row, kind |-> kind, st |-> st]
        OfJob(m) == IF Api!Reporter(n) THEN {m} ELSE {}
    IN CASE Api!Awaits(n) -> {}
         [] script[n] = "boot" -> {Says("wstat", "RUNNING")}
         [] script[n] = "sync" /\ (Api!Distributed => Api!DistReady) ->
               OfJob(Says("jstat", "RUNNING"))
         [] script[n] = Api!TrainPc -> {Says("wstat", "FINISHED"),
                                        Says("wstat", "FAILURE")}
         [] script[n] = "won" -> OfJob(Says("jres", "FINISHED"))
         [] script[n] = "lost" -> OfJob(Says("jres", "FAILURE"))
         [] script[n] = "broken" -> {Says("jres", "FAILURE")}
         [] OTHER -> {}

\* Nobody awaits the response to what a stopped script has sent.
ScriptStops(n) ==
    /\ script' = [script EXCEPT ![n] = "off"]
    /\ waiting' = {m \in waiting : m.row # svc[n].row}

StopService(p) ==
    /\ task[p].pc = "stopPod"
    /\ \E r \in task[p].todo :
         LET n == NameOf(r) IN
         /\ \/ /\ DeleteService(n) /\ ScriptStops(n)
               /\ inbox' \in {inbox} \union {inbox \union {m} : m \in LastWords(n)}
               /\ UNCHANGED budget
            \/ Spend("refuse") /\ UNCHANGED <<svc, script, inbox, waiting>>
         /\ task' = [task EXCEPT ![p].pc = "stopCm", ![p].cur = r,
                                 ![p].todo = @ \ {r}]
    /\ UNCHANGED <<store, cfgs, startMsgs, poll>>

\* Variant: the configs first, while the service still uses them.
StopConfigsFirst(p) ==
    /\ task[p].pc = "stopCm"
    /\ IF task[p].todo = {} THEN Api!AfterStop(p) ELSE Api!To(p, "stopPod")
    /\ UNCHANGED <<store, swarm, script, poll, budget>>

\* Configs stay when the call is refused, or the service is still there.
StopConfigs(p) ==
    /\ task[p].pc = "stopCm"
    /\ \/ DeleteConfigs(task[p].cur) /\ UNCHANGED budget
       \/ InUse(task[p].cur) /\ UNCHANGED <<cfgs, budget>>
       \/ Spend("refuse") /\ UNCHANGED cfgs
    /\ IF task[p].todo = {} THEN Api!AfterStop(p) ELSE Api!To(p, "stopPod")
    /\ UNCHANGED <<store, svc, script, poll>>

-----------------------------------------------------------------------------
(* watch_job: every five minutes, jobs that have been STARTING for long.   *)

\* The list is read; a job may wait on it for long behind others.
PollList ==
    /\ poll = Asleep /\ Idle(Poller)
    /\ job = "STARTING"
    /\ poll' = [Asleep EXCEPT !.pc = "age", !.old = aged]
    /\ UNCHANGED <<store, swarm, web, script, aged, budget>>

\* Five minutes pass, for the row and for the copy on the list. A start or a
\* swarm that is at work on a service for so long is a disturbance.
Slow == \/ \E p \in Servers : Starting(p)
        \/ \E n \in Names : svc[n].phase = "new"
TimePasses ==
    /\ \/ job = "STARTING" /\ ~aged
       \/ poll.pc = "age" /\ ~poll.old
    /\ IF Slow THEN Spend("timeout") ELSE UNCHANGED budget
    /\ aged' = TRUE
    /\ poll' = [poll EXCEPT !.old = poll.pc = "age"]
    /\ UNCHANGED <<store, swarm, web, script>>

LookAt(rows) ==
    poll' = IF rows = {} THEN Asleep
                         ELSE [Asleep EXCEPT !.pc = "look", !.todo = rows]

\* Variant: the age of the job does not matter.
PollAnyAge ==
    /\ poll.pc = "age"
    /\ LookAt(JobWorkers)
    /\ UNCHANGED <<store, swarm, web, script, aged, budget>>

\* The copy is old enough, and the workers are listed.
PollAge ==
    /\ poll.pc = "age"
    /\ LookAt(IF poll.old THEN JobWorkers ELSE {})
    /\ UNCHANGED <<store, swarm, web, script, aged, budget>>

\* get_container_status gives no task of the worker.
Disappeared(n) == svc[n].phase \in {"none", "new"}

\* Variant: a rejected task is a task.
PollLookMissing ==
    /\ poll.pc = "look"
    /\ \E r \in poll.todo :
         IF Disappeared(NameOf(r)) THEN poll' = [Asleep EXCEPT !.pc = "rows"]
                                   ELSE LookAt(poll.todo \ {r})
    /\ UNCHANGED <<store, swarm, web, script, aged, budget>>

\* One worker is looked at: no task, or a rejected one. A refused call is
\* (None, err), and the next worker is looked at.
PollLook ==
    /\ poll.pc = "look"
    /\ \E r \in poll.todo :
         LET n == NameOf(r) IN
         \/ /\ Disappeared(n) \/ svc[n].phase = "rejected"
            /\ poll' = [Asleep EXCEPT !.pc = "rows"] /\ UNCHANGED budget
         \/ /\ ~Disappeared(n) /\ svc[n].phase # "rejected"
            /\ LookAt(poll.todo \ {r}) /\ UNCHANGED budget
         \/ Spend("refuse") /\ LookAt(poll.todo \ {r})
    /\ UNCHANGED <<store, swarm, web, script, aged>>

\* all_workers.update(FAILURE). What follows is update_status(FAILURE) and
\* clean_work(force=True) on the copy: the steps of an image error of JobApi.
PollRows ==
    /\ poll.pc = "rows"
    /\ wst' = [r \in Rows |-> IF wst[r] = Absent THEN Absent ELSE "FAILURE"]
    /\ Api!Begin(Poller,
          Api!Handler("image", "write", NoRow, "FAILURE", Api!NoReq))
    /\ poll' = Asleep
    /\ UNCHANGED <<job, made, swarm, startMsgs, inbox, waiting, script, aged, budget>>

PollStep == PollList \/ PollAge \/ PollLook \/ PollRows

PollerDies ==
    /\ Spend("crash") /\ poll # Asleep
    /\ poll' = Asleep
    /\ UNCHANGED <<store, swarm, web, script, aged>>

-----------------------------------------------------------------------------
(* The containers.                                                         *)

ContainerFrame == UNCHANGED <<store, task, startMsgs, inbox, poll, aged>>

TaskStarts(n) ==
    /\ TaskMade(n)
    /\ UNCHANGED <<script, waiting, budget>> /\ ContainerFrame

ContainerStarts(n) ==
    /\ ContainerRuns(n)
    /\ script' = [script EXCEPT ![n] = "boot"]
    /\ UNCHANGED <<waiting, budget>> /\ ContainerFrame

ScriptEnds(n) ==
    /\ script[n] = "exit" /\ ~Api!Awaits(n)
    /\ ContainerOver(n) /\ ScriptStops(n)
    /\ UNCHANGED budget /\ ContainerFrame

ContainerDies(n) ==
    /\ Spend("kill")
    /\ ContainerOver(n) /\ ScriptStops(n)
    /\ ContainerFrame

Rejected(n) ==
    /\ Spend("image")
    /\ TaskRejected(n)
    /\ UNCHANGED <<script, waiting>> /\ ContainerFrame

-----------------------------------------------------------------------------
UserStep ==
    /\ \/ Api!DestroyJob
       \/ \E p \in Servers : \/ Api!CreateJob(p) \/ Api!StartJob(p) \/ Api!CancelJob(p)
                             \/ Api!CleanJob(p) \/ Api!EditJob(p)
    /\ UNCHANGED <<script, poll, aged>>

\* update_time is written by every save of the job.
SaveStep(p) ==
    /\ Api!StartMark(p) \/ Api!StartFail(p) \/ Api!WriteJob(p)
    /\ aged' = FALSE
    /\ UNCHANGED <<script, poll>>

OtherStep(p) ==
    /\ \/ /\ \/ Api!EnqueueStart(p) \/ Api!StartCount(p) \/ Api!MakeCheck(p)
             \/ Api!MakeInsert(p) \/ Api!StartList(p) \/ Api!StartSave(p)
             \/ Api!StopList(p) \/ Api!SaveRow(p)
          /\ UNCHANGED <<script, poll>>
       \/ StartConfigs(p) \/ StartService(p) \/ StopService(p) \/ StopConfigs(p)
    /\ UNCHANGED aged

HandlerStep(p) == SaveStep(p) \/ OtherStep(p)

TakeMessage ==
    (\E p \in Servers : Api!StartAvesjob(p)) /\ UNCHANGED <<script, poll, aged>>
TakeRequest(m) ==
    (\E p \in Servers : Api!HandleRequest(p, m)) /\ UNCHANGED <<script, poll, aged>>

ScriptStep(n) ==
    \/ /\ \/ Api!ReportWorkerRunning(n) \/ Api!Rendezvous(n) \/ Api!Prepare(n)
          \/ Api!StartMpi(n) \/ Api!ReportResult(n) \/ Api!ReportBroken(n)
       /\ UNCHANGED <<poll, aged>>
    \/ ScriptEnds(n)

TrainStep(n) == (Api!TrainWon(n) \/ Api!TrainLost(n)) /\ UNCHANGED <<poll, aged>>

SwarmStep(n) == TaskStarts(n) \/ ContainerStarts(n)

Fault ==
    \/ \E p \in Procs : Api!Crash(p) /\ UNCHANGED <<script, poll, aged>>
    \/ \E n \in Names : \/ Api!Breaks(n) /\ UNCHANGED <<poll, aged>>
                        \/ ContainerDies(n) \/ Rejected(n)
    \/ \E m \in Api!Requests :
          (Api!ReportTimesOut(m) \/ Api!ReportLost(m)) /\ UNCHANGED <<poll, aged>>
    \/ PollerDies

Next ==
    \/ UserStep
    \/ \E p \in Procs : HandlerStep(p)
    \/ TakeMessage
    \/ \E m \in Api!Requests : TakeRequest(m)
    \/ \E n \in Names : ScriptStep(n) \/ TrainStep(n) \/ SwarmStep(n)
    \/ PollStep
    \/ TimePasses
    \/ Fault

Spec == Init /\ [][Next]_vars

\* Servers, scripts, the swarm, the poller and the clock keep going.
Fairness ==
    /\ \A p \in Procs : WF_vars(HandlerStep(p))
    /\ WF_vars(TakeMessage)
    /\ \A m \in Api!Requests : WF_vars(TakeRequest(m))
    /\ \A n \in Names : WF_vars(ScriptStep(n)) /\ WF_vars(SwarmStep(n))
    /\ WF_vars(PollStep) /\ WF_vars(TimePasses)

\* Training is over some time.
TrainingEnds == \A n \in Names : WF_vars(TrainStep(n))

-----------------------------------------------------------------------------
(* A service and its scripts.                                              *)

\* However starts and stops of the same worker interleave, no service lacks
\* the configs with its scripts, and none is there under another name than
\* that of its row: a container that can be set up can be started
\* (_swarm_start, _docker_stop; on Kubernetes a pod may wait for ever).
ScriptsStay ==
    \A n \in Names : Exists(n) => /\ svc[n].row \in Rows
                                 /\ NameOf(svc[n].row) = n
                                 /\ HasConfigs(svc[n].row)

\* A handler at a step that is about a row has one.
ShapeOK == \A p \in Procs : task[p].pc \in Api!RowPcs => task[p].cur \in Rows

\* A script runs in a container.
ScriptsRun == \A n \in Names : script[n] # "off" => svc[n].phase = "running"

IndInv == TypeOK /\ ShapeOK /\ ScriptsStay /\ ScriptsRun

-----------------------------------------------------------------------------
(* What a status tells.                                                    *)

\* watch_job logs "{job} failed: workers are disappeared" and writes FAILURE.
\* A job that has FINISHED, whose services finish_job has removed, is none
\* that failed.
FinishedStays == [][job = "FINISHED" => job' # "FAILURE"]_vars
=============================================================================
