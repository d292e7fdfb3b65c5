--------------------------- MODULE AvesK8sHistory ---------------------------
(***************************************************************************)
(* The properties of a job, over AvesK8s with a history variable: what has *)
(* happened that the code does not repair. Each cause is a step of the     *)
(* program at a known line, so a property that excuses a cause says that   *)
(* nothing else can break what it promises.                                *)
(***************************************************************************)
EXTENDS AvesK8s

VARIABLE causes
hvars == <<vars, causes>>

\* early: an event was consumed while its row was still NEW, because the
\*   pod was faster than the STARTING that _kube_start saves after it.
\* mute: an event was consumed because the script had settled the row
\*   itself, and no active row is left whose event would settle the job.
\* dropped: an event was lost before any worker of celery saw it.
\* revived: a job that was over, or set back to NEW by an edit, was written to
\*   an active status by something other than a start.
\* overwritten: so was a worker's row, by a late RUNNING of its script
\*   (change_status) or by the STARTING that _kube_start saves.
\* restarted: that STARTING was saved over the outcome of a worker that does
\*   not report for the job, or of any worker of a job still STARTING.
\* taken: clean_job deleted a live pod of an active job.
\* overlap: a start and a cancel were under way at the same time.
\* failed: a pod that reports for the job did not do its part of it.
Causes == {"early", "mute", "dropped", "revived", "overwritten", "restarted",
           "taken", "overlap", "failed"}

Happens(c) ==
    \/ c = "early" /\ \E e \in events \ events' : wst[e.row] = "NEW"
    \/ c = "mute" /\ job \in Active /\ ActiveWorkers = {}
                  /\ \E e \in events \ events' : wst[e.row] \in Terminal
    \/ c = "dropped" /\ events \ events' # {} /\ budget' # budget
    \/ c = "revived" /\ job \notin Active /\ job' \in Active
                     /\ \A p \in Procs : At(p, "start", "mark") => task'[p] = task[p]
    \/ c = "overwritten"
                     /\ \E r \in Rows : wst[r] \in Terminal /\ wst'[r] \in Active
    \/ c = "restarted" /\ \E p \in Procs :
                     LET r == task[p].cur IN
                     /\ At(p, "start", "save")
                     /\ wst[r] \in Terminal /\ wst'[r] = "STARTING"
                     /\ ~Reporter(NameOf(r)) \/ job = "STARTING"
    \/ c = "taken" /\ job \in Active
                   /\ \E p \in Procs : At(p, "clean", "stopPod")
                   /\ \E n \in Names : pod'[n].dying /\ ~pod[n].dying
    \/ c = "overlap" /\ \E p, q \in Procs : /\ task'[p].op = "cancel"
                                            /\ task'[q].op = "start"
    \/ c = "failed"
         /\ \E n \in Names : Reporter(n) /\ script'[n] \in {"lost", "broken"}

HInit == Init /\ causes = {}
HNext == Next /\ causes' = causes \union {c \in Causes : Happens(c)}
HSpec == HInit /\ [][HNext]_hvars

\* Training may go on for ever here.
HFairSpec == HSpec /\ Fairness

-----------------------------------------------------------------------------
(* A job does not stay STARTING or RUNNING for ever.                       *)

\* A script waits for a peer that is over: distribute_envs wants all pods
\* Running at once, and the main node of HOROVOD wants every sshd.
PeerMissing ==
    \E n, o \in Names :
       /\ ~Live(o)
       /\ \/ script[n] = "sync"
          \/ script[n] = "train" /\ Mode = "HOROVOD" /\ ~Daemon(n)

\* Only the sshd of a HOROVOD job is left, and it never ends.
DaemonAlone ==
    /\ \E n \in Names : Daemon(n) /\ script[n] = "train"
    /\ \A n \in Names : ~Daemon(n) => script[n] = "off"

\* A pod waits for a config map that could not be created.
NoMount == \E n \in Names : pod[n].phase = "pending" /\ pod[n].row \notin cm

Explained ==
    \/ PeerMissing \/ DaemonAlone \/ NoMount \/ Spent("crash")
    \/ causes \intersect {"early", "mute", "dropped", "revived",
                          "overwritten", "taken"} # {}

\* A started job leaves STARTING and RUNNING, if training ends, unless one of
\* the causes above has come about: there is no other way to hang, whatever
\* pods are killed, calls are refused and users cancel. (Pod events, script
\* reports and handlers race for the job's row and for the workers'.)
SettlesOrExplained ==
    TrainingEnds => ((job \in Active) ~> (job \notin Active \/ Explained))

-----------------------------------------------------------------------------
(* Pods do not outlive the job.                                            *)

\* A job that stays CANCELED has no live pod in the end, though its training
\* may be endless, unless the API server refused a call, a start was under way
\* beside the cancel, an edit put CANCELED back, or the workers were deleted
\* (AvesJob.cancel).
CancelFreesPods ==
    (job = "CANCELED") ~> \/ job # "CANCELED"
                          \/ \A n \in Names : ~Live(n)
                          \/ "overlap" \in causes
                          \/ Spent("refuse") \/ Spent("edit") \/ Spent("destroy")

-----------------------------------------------------------------------------
(* What a status tells.                                                    *)

\* One pod reports for the job: its only one, or the main one of a
\* distributed job (aves_run.sh: report_job_result).
OneReporter == \A n, o \in Names : Reporter(n) /\ Reporter(o) => n = o

\* FINISHED is not told of a job whose one reporting pod failed, in its first
\* run, as long as reports arrive in time and are handled and its rows are
\* there: the exit code that tee replaces does not matter then
\* (aves_run_wrapper.sh, process_k8s_pod_event). The worker's outcome is saved
\* before the pod ends, so the event of the pod finds its row settled; a
\* RUNNING written over the outcome of any worker, though its report did not
\* time out, or a STARTING over the reporter's own, once the job was RUNNING,
\* would lead to a violation and is not excused. Excused are a STARTING that _kube_start saves over the
\* outcome of another worker, or before the job is RUNNING (then the event of
\* that worker's pod counts again, and may settle the job by its exit code);
\* and an edit, which can write RUNNING back to the job, where any outcome was
\* written over.
FinishedNotFailed ==
    OneReporter /\ job = "FINISHED" /\ "failed" \in causes
        => \/ Spent("lose") \/ Spent("timeout") \/ Spent("crash")
           \/ Spent("destroy") \/ Spent("start")
           \/ "restarted" \in causes
           \/ Spent("edit") /\ "overwritten" \in causes
=============================================================================
