------------------------------ MODULE PodEvents ------------------------------
(***************************************************************************)
(* process_k8s_pod_event: the celery task that turns a pod's phase into    *)
(* the status of its worker and, with the last worker, of the job.  Celery *)
(* runs several at once, in no particular order.                           *)
(***************************************************************************)
EXTENDS JobApi

\* What a pod's end says about its worker.
Outcome(e) == IF e.kind = "Succeeded" THEN "FINISHED" ELSE "FAILURE"

\* Variant: events count for rows of any status.
ProcessAnyEvent(p, e) ==
    /\ e \in events
    /\ events' = events \ {e}
    /\ Begin(p, IF e.kind = "ImageError"
                THEN Handler("image", "saveRow", e.row, "FAILURE", NoReq)
                ELSE Handler("event", "saveRow", e.row, Outcome(e), NoReq))
    /\ UNCHANGED <<store, pod, cm, startMsgs, inbox, waiting, budget>>

\* The worker is read. An event for a row that is not STARTING or RUNNING,
\* or that is gone, does nothing and is consumed all the same.
ProcessEvent(p, e) ==
    /\ e \in events
    /\ events' = events \ {e}
    /\ Begin(p, IF wst[e.row] \notin Active THEN Idle
                ELSE IF e.kind = "ImageError"
                THEN Handler("image", "saveRow", e.row, "FAILURE", NoReq)
                ELSE Handler("event", "saveRow", e.row, Outcome(e), NoReq))
    /\ UNCHANGED <<store, pod, cm, startMsgs, inbox, waiting, budget>>

\* worker.avesjob is read. An image error fails the job in any state; the
\* other two stop here unless it is STARTING or RUNNING.
EventJob(p) ==
    /\ task[p].pc = "evJob"
    /\ CASE ~JobExists -> End(p)
         [] JobExists /\ task[p].op = "image" -> To(p, "write")
         [] JobExists /\ task[p].op = "event" ->
               IF job \in Active THEN To(p, "evCount") ELSE End(p)
    /\ UNCHANGED <<store, cluster, budget>>

\* Variant: every worker row is counted.
EventCountAll(p) ==
    /\ task[p].pc = "evCount"
    /\ IF JobWorkers = {} THEN To(p, "write") ELSE End(p)
    /\ UNCHANGED <<store, cluster, budget>>

\* The last active worker settles the job, with the outcome of its own pod.
EventCount(p) ==
    /\ task[p].pc = "evCount"
    /\ IF ActiveWorkers = {} THEN To(p, "write") ELSE End(p)
    /\ UNCHANGED <<store, cluster, budget>>
=============================================================================
