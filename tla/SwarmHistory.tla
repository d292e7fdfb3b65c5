---------------------------- MODULE SwarmHistory ----------------------------
(***************************************************************************)
(* The properties of a job on Docker swarm, over SwarmJob with a history   *)
(* variable: what has happened that the code does not repair.              *)
(***************************************************************************)
EXTENDS SwarmJob

VARIABLE causes
hvars == <<vars, causes>>

\* slow: five minutes passed while a start was under way or a service had no
\*   task yet.
\* beside: a start was under way beside the poller's work on the job.
\* overlap: a start was under way beside another, a cancel, a clean or a
\*   finish.
\* partial: a start failed after it had made configs or a service.
Causes == {"slow", "beside", "overlap", "partial"}

PollerAtWork == poll' # Asleep \/ task'[Poller] # Api!Idle

Happens(c) ==
    \/ c = "slow" /\ Slow /\ aged' /\ budget' # budget
    \/ c = "beside" /\ PollerAtWork /\ \E p \in Procs : task'[p].op = "start"
    \/ c = "overlap"
         /\ \E p, q \in Procs :
               /\ p # q /\ task'[p].op = "start"
               /\ task'[q].op \in {"start", "cancel", "clean", "finish"}
    \/ c = "partial" /\ \E p \in Procs : /\ task'[p].pc = "fail"
                                         /\ \E r \in Rows : cfgs'[r] = p

HInit == Init /\ causes = {}
HNext == Next /\ causes' = causes \union {c \in Causes : Happens(c)}
HSpec == HInit /\ [][HNext]_hvars
HFairSpec == HSpec /\ Fairness

-----------------------------------------------------------------------------
(* A job does not stay STARTING or RUNNING for ever.                       *)

\* The container is over and the job is not: no step of the program looks at
\* a container that has ended.
Unnoticed == \E n \in Names : svc[n].phase = "over" /\ job \in Active

\* A service of a RUNNING job was taken away.
TakenRunning == job = "RUNNING" /\ \E n \in Names : ~Exists(n)

Explained == Unnoticed \/ TakenRunning \/ Spent("crash")

\* A started job leaves STARTING and RUNNING, if training ends, unless its
\* container ended unnoticed, a service was deleted while it was RUNNING or
\* before a late report said so, or a handler died. In particular the poller
\* settles every job whose task is rejected, or whose service has gone before
\* the job was RUNNING (watch_job).
SettlesOrExplained ==
    TrainingEnds => ((job \in Active) ~> (job \notin Active \/ Explained))

-----------------------------------------------------------------------------
(* The poller and the handlers.                                            *)

\* The poller stops no container that runs, unless that of another worker is
\* missing or rejected, a start took five minutes, or one ran beside the
\* poller (watch_job: "workers are disappeared").
Lacking(n) == ~Exists(n) \/ svc[n].phase = "rejected"
PollerSparesRunning ==
    [][\A n \in Names :
          At(Poller, "image", "stopPod") /\ svc[n].phase = "running" /\ ~Exists(n)'
          => \/ causes \intersect {"slow", "beside"} # {}
             \/ \E m \in Names \ {n} : Lacking(m)]_hvars

\* No handler is at work, no report or message is under way.
Quiet ==
    /\ \A p \in Procs : Idle(p)
    /\ poll = Asleep /\ inbox = {} /\ startMsgs = 0

\* What is left of a job that is over refuses no later start: when nothing is
\* under way, its names and its configs are free, unless a start failed or ran
\* beside something, a call was refused, a handler died, the row was edited
\* or destroyed, or the main node of a debug job was left alone
\* (_docker_stop, create_multiple_configs).
NamesFree ==
    (job \in Terminal /\ Quiet) =>
        \/ \A n \in Names : ~Exists(n) /\ \A r \in Rows : ~HasConfigs(r)
        \/ causes \intersect {"partial", "overlap", "beside"} # {}
        \/ Spent("refuse") \/ Spent("crash") \/ Spent("edit") \/ Spent("destroy")
        \/ Debug /\ job # "CANCELED"
=============================================================================
