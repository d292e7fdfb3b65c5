----------------------------- MODULE K8sCluster -----------------------------
(***************************************************************************)
(* The part of Kubernetes the program uses: one pod per name, the config   *)
(* map with its scripts, and the stream of pod events.  All of it is       *)
(* outside the repository, modelled from the calls in                      *)
(* kubernetes_client/client.py and from the pods make_pod describes:       *)
(* restartPolicy Never, and a volume of the config map, without which the  *)
(* container is not started.                                               *)
(***************************************************************************)
EXTENDS JobStore

VARIABLES pod,     \* the pod of each name
          cm,      \* rows whose config map exists
          events   \* pod events published and not processed yet

cluster == <<pod, cm, events>>

Phases == {"none", "pending", "running", "succeeded", "failed"}
NoPod == [phase |-> "none", dying |-> FALSE, row |-> NoRow]
Pods == [phase : Phases, dying : BOOLEAN, row : Rows \union {NoRow}]
EventKinds == {"Succeeded", "Failed", "ImageError"}
Events == [row : Rows, kind : EventKinds]

ClusterOK ==
    /\ pod \in [Names -> Pods]
    /\ cm \in SUBSET Rows
    /\ events \in SUBSET Events

ClusterInit ==
    /\ pod = [n \in Names |-> NoPod]
    /\ cm = {}
    /\ events = {}

Live(n) == pod[n].phase \in {"pending", "running"}

\* create_namespaced_pod answers 409 while a pod of the name is there.
CanCreatePod(r) == pod[NameOf(r)].phase = "none"
\* Variant: the label workerId holds the name of the worker.
CreatePodLabelledByName(r) ==
    pod' = [pod EXCEPT ![NameOf(r)] =
                [phase |-> "pending", dying |-> FALSE, row |-> NameOf(r)]]
CreatePod(r) ==
    pod' = [pod EXCEPT ![NameOf(r)] =
                [phase |-> "pending", dying |-> FALSE, row |-> r]]

\* delete_namespaced_pod: a live pod gets its grace period, a finished one
\* goes at once, a missing one is no error.
DeletePod(n) ==
    pod' = [pod EXCEPT ![n] = IF Live(n) THEN [@ EXCEPT !.dying = TRUE]
                                         ELSE NoPod]

\* The kubelet starts the container, if it can mount the config map.
PodRuns(n) ==
    /\ pod[n].phase = "pending" /\ ~pod[n].dying
    /\ pod[n].row \in cm
    /\ pod' = [pod EXCEPT ![n].phase = "running"]
    /\ UNCHANGED <<cm, events>>

\* The script is over. It runs in a pipe into tee, whose exit code is the
\* container's: the pod succeeds whatever the script returned.
PodExits(n) ==
    /\ pod[n].phase = "running"
    /\ pod' = [pod EXCEPT ![n].phase = "succeeded"]
    /\ events' = events \union {[row |-> pod[n].row, kind |-> "Succeeded"]}
    /\ UNCHANGED cm

\* The container is killed. When that ends a grace period, the watcher may
\* see the failed phase or only the deletion, which it ignores.
PodKilled(n, seen) ==
    /\ pod[n].phase = "running"
    /\ ~pod[n].dying => seen
    /\ pod' = [pod EXCEPT ![n].phase = "failed"]
    /\ events' = IF seen
                 THEN events \union {[row |-> pod[n].row, kind |-> "Failed"]}
                 ELSE events
    /\ UNCHANGED cm

\* A deleted pod is gone once its container is.
PodRemoved(n) ==
    /\ pod[n].dying /\ pod[n].phase # "running"
    /\ pod' = [pod EXCEPT ![n] = NoPod]
    /\ UNCHANGED <<cm, events>>

\* ImagePullBackOff and its kin, for a pod that is still pending.
ImageError(n) ==
    /\ pod[n].phase = "pending"
    /\ events' = events \union {[row |-> pod[n].row, kind |-> "ImageError"]}
    /\ UNCHANGED <<pod, cm>>

\* The watch stream ended and watch_pod opened a new one, which lists every
\* pod as ADDED: the last phase of each is published again.
Resync ==
    /\ events' = events \union
         {[row |-> pod[n].row, kind |-> "Succeeded"] :
             n \in {m \in Names : pod[m].phase = "succeeded"}} \union
         {[row |-> pod[n].row, kind |-> "Failed"] :
             n \in {m \in Names : pod[m].phase = "failed"}}
    /\ UNCHANGED <<pod, cm>>

\* The broker was away when watch_pod called apply_async.
EventLost(e) ==
    /\ events' = events \ {e}
    /\ UNCHANGED <<pod, cm>>
=============================================================================
