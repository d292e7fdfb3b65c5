------------------------------ MODULE DistEnvs ------------------------------
(***************************************************************************)
(* How the pods of a distributed job learn of each other. Each script asks *)
(* the view distribute_envs until it gets an answer. The view lists the    *)
(* job's pods to see that all of them run, and get_dist_envs then lists    *)
(* them AGAIN to compute the answer: the Rendezvous of RunScript is that   *)
(* in one step, with nothing said about the answer. On the swarm back end  *)
(* a pod is the container of a service, and the lists are those of one     *)
(* docker engine.                                                          *)
(***************************************************************************)
EXTENDS Bounds, FiniteSets, Sequences, SequencesExt

CONSTANTS Workers,   \* worker rows, each the pair of its role and role_index
          Gpus,      \* gpu_request of each
          NameBefore(_, _)   \* the order of their names, as the API server's

\* make_aves_workers counts the workers of each role from 0.
ASSUME EnvsAssumption ==
    /\ Workers \subseteq {"ps", "worker"} \X Nat /\ IsFiniteSet(Workers)
    /\ \A w \in Workers : \A k \in 0 .. w[2] - 1 : <<w[1], k>> \in Workers
    /\ Gpus \in [Workers -> Nat]

\* Names are of one order, which is that of the indices if these have one digit.
ASSUME NamesAssumption ==
    /\ \A v, w \in Workers :
          /\ NameBefore(v, w) \in BOOLEAN
          /\ v = w => ~NameBefore(v, w)
          /\ v # w => (NameBefore(v, w) <=> ~NameBefore(w, v))
    /\ \A u, v, w \in Workers :
          NameBefore(u, v) /\ NameBefore(v, w) => NameBefore(u, w)
    /\ \A v, w \in Workers :
          v[1] = w[1] /\ v[2] < 10 /\ w[2] < 10 => (NameBefore(v, w) <=> v[2] < w[2])

VARIABLES type,     \* distribute_type of the job
          swarm,    \* not settings.ENABLE_K8S
          todo,     \* pods the start of the job still has to create
          pod,      \* phase of each pod and number of its address, 0: none
          started,  \* pods started so far for each worker
          newer,    \* containers of the swarm, each with those it is newer than
          far,      \* those that run on a node other than DOCKER_URL's
          script,   \* "off", "ask", "check" (the view has seen all pods run)
                    \* or "told"
          env       \* what a script that is told was told

job == <<type, swarm>>
where == <<newer, far>>
vars == <<job, todo, pod, started, where, script, env, budget>>

NoPod == [phase |-> "none", ip |-> 0]
NoEnv == [ps |-> <<>>, worker |-> <<>>, all |-> {}, np |-> 0]
Address == Workers \X Nat

TypeOK ==
    /\ type \in {"TF_PS", "HOROVOD"} /\ swarm \in BOOLEAN
    /\ todo \subseteq Workers
    /\ pod \in [Workers -> [phase : {"none", "pending", "running", "over"},
                            ip : Nat]]
    /\ started \in [Workers -> Nat]
    /\ newer \subseteq Workers \X Workers
    /\ far \subseteq Workers
    /\ script \in [Workers -> {"off", "ask", "check", "told"}]
    /\ env \in [Workers -> [ps : Seq(Address), worker : Seq(Address),
                            all : SUBSET (Address \X Nat), np : Nat]]
    /\ BudgetOK

Init ==
    /\ type \in {"TF_PS", "HOROVOD"} /\ swarm \in BOOLEAN
    /\ todo = Workers
    /\ pod = [w \in Workers |-> NoPod]
    /\ started = [w \in Workers |-> 0]
    /\ newer = {}
    /\ far = {}
    /\ script = [w \in Workers |-> "off"]
    /\ env = [w \in Workers |-> NoEnv]
    /\ BudgetInit

-----------------------------------------------------------------------------
(* The pods.                                                               *)

\* AvesJob.start creates them one by one, and stops at a name still taken.
CreatePod(w) ==
    /\ w \in todo
    /\ IF pod[w].phase = "none"
       THEN /\ pod' = [pod EXCEPT ![w].phase = "pending"]
            /\ todo' = todo \ {w}
       ELSE todo' = {} /\ UNCHANGED pod
    /\ UNCHANGED <<job, started, where, script, env, budget>>

StartAgain ==
    /\ todo = {} /\ Spend("start")
    /\ todo' = Workers
    /\ UNCHANGED <<job, pod, started, where, script, env>>

\* A node of the swarm is found for the container.
PodRuns(w) ==
    /\ pod[w].phase = "pending"
    /\ started' = [started EXCEPT ![w] = @ + 1]
    /\ pod' = [pod EXCEPT ![w] = [phase |-> "running", ip |-> started'[w]]]
    /\ script' = [script EXCEPT ![w] = "ask"]
    /\ IF swarm
       THEN /\ newer' = newer \union {w} \X {v \in Workers : pod[v].ip > 0}
            /\ far' \in {far, far \union {w}}
       ELSE UNCHANGED where
    /\ UNCHANGED <<job, todo, env, budget>>

\* A script that goes on without its environment is none; the pod is listed
\* with its address until it is deleted.
Quits(w) ==
    /\ script' = [script EXCEPT ![w] = "off"]
    /\ env' = [env EXCEPT ![w] = NoEnv]
    /\ UNCHANGED <<job, todo, started>>
PodEnds(w) ==
    /\ pod[w].phase = "running"
    /\ Spend("kill")
    /\ pod' = [pod EXCEPT ![w].phase = "over"]
    /\ Quits(w)
    /\ UNCHANGED where
PodDeleted(w) ==
    /\ pod[w].phase # "none"
    /\ Spend("cancel")
    /\ pod' = [pod EXCEPT ![w] = NoPod]
    /\ newer' = {e \in newer : w \notin {e[1], e[2]}}
    /\ far' = far \ {w}
    /\ Quits(w)

-----------------------------------------------------------------------------
(* The view.                                                               *)

\* get_namespaced_pod_list, or list_containers(all=True), which knows neither
\* services that have no container yet nor the other nodes of the swarm.
Listed == IF swarm THEN {w \in Workers \ far : pod[w].phase \in {"running", "over"}}
                   ELSE {w \in Workers : pod[w].phase # "none"}

\* Variant: pods that are there are enough.
AllListed == Listed # {} /\ Cardinality(Listed) = Cardinality(Workers)

\* Variant: pods that run are enough.
ListedRun == Listed # {} /\ \A w \in Listed : pod[w].phase = "running"

\* Variant: one pod more than there are workers.
OneMoreRunning ==
    /\ Cardinality(Listed) > Cardinality(Workers)
    /\ \A w \in Listed : pod[w].phase = "running"

\* distribute_envs: as many pods as worker rows, all Running.
AllRunning ==
    /\ Listed # {}
    /\ Cardinality(Listed) = Cardinality(Workers)
    /\ \A w \in Listed : pod[w].phase = "running"

\* list_namespaced_pod: in the order of the keys, which end in the name of the
\* pod. A docker engine lists the containers that were created last first.
Order == IF swarm THEN newer
         ELSE {e \in Workers \X Workers : NameBefore(e[1], e[2])}

\* The pods of one role that are listed, in their order.
PodList(role) ==
    LET S == {w \in Listed : w[1] = role}
        Rank(w) == Cardinality({v \in S : <<v, w>> \in Order})
    IN [i \in 1 .. Cardinality(S) |-> CHOOSE w \in S : Rank(w) = i - 1]

\* Variant: indices count from one.
AddressFromOne(w) == << <<w[1], w[2] + 1>>, pod[w].ip>>

AddressOf(w) == <<w, pod[w].ip>>

\* Variant: the pods of a role in the opposite order.
HostsReversed(role) ==
    LET l == Reverse(PodList(role)) IN [i \in DOMAIN l |-> AddressOf(l[i])]

\* _get_dist_envs_for_tfps: the addresses of the pods that are listed now.
Hosts(role) ==
    LET l == PodList(role) IN [i \in DOMAIN l |-> AddressOf(l[i])]
TfpsEnvs == [NoEnv EXCEPT !.ps = Hosts("ps"), !.worker = Hosts("worker")]

\* _get_dist_envs_for_horovod: every worker, with a slot for each gpu, or one.
Slots(w) == IF Gpus[w] > 0 THEN Gpus[w] ELSE 1
HorovodEnvs(ws) ==
    [NoEnv EXCEPT !.all = {<<AddressOf(w), Slots(w)>> : w \in ws},
                  !.np = Cardinality(UNION {{w} \X (1 .. Slots(w)) : w \in ws})]

\* The first list. (A script that is refused sleeps and asks again.)
Check(w) ==
    /\ script[w] = "ask" /\ AllRunning
    /\ script' = [script EXCEPT ![w] = "check"]
    /\ UNCHANGED <<job, todo, pod, started, where, env, budget>>

\* The second list, and the answer.
Tell(w, e) ==
    /\ script' = [script EXCEPT ![w] = "told"]
    /\ env' = [env EXCEPT ![w] = e]
AskAgain(w) ==
    /\ script' = [script EXCEPT ![w] = "ask"]
    /\ UNCHANGED env

AnswerTfps(w) ==
    /\ type = "TF_PS" /\ script[w] = "check"
    /\ Tell(w, TfpsEnvs)
    /\ UNCHANGED <<job, todo, pod, started, where, budget>>

\* A worker whose pod is not listed any more is a KeyError.
AnswerHorovod(w) ==
    /\ type = "HOROVOD" /\ script[w] = "check"
    /\ IF Workers \subseteq Listed THEN Tell(w, HorovodEnvs(Workers))
                                   ELSE AskAgain(w)
    /\ UNCHANGED <<job, todo, pod, started, where, budget>>

\* The second list is refused: None is not iterable.
ListRefused(w) ==
    /\ script[w] = "check" /\ Spend("refuse")
    /\ AskAgain(w)
    /\ UNCHANGED <<job, todo, pod, started, where>>

Answer(w) == AnswerTfps(w) \/ AnswerHorovod(w)

Next ==
    \/ StartAgain
    \/ \E w \in Workers :
          \/ CreatePod(w) \/ PodRuns(w) \/ PodEnds(w) \/ PodDeleted(w)
          \/ Check(w) \/ Answer(w) \/ ListRefused(w)

Spec == Init /\ [][Next]_vars

\* The start goes on, the kubelet starts pods, the scripts ask and the view
\* answers.
FairSpec ==
    Spec /\ \A w \in Workers : /\ WF_vars(CreatePod(w)) /\ WF_vars(PodRuns(w))
                               /\ WF_vars(Check(w)) /\ WF_vars(Answer(w))

-----------------------------------------------------------------------------
Told == {w \in Workers : script[w] = "told"}
OfRole(role) == {w \in Workers : w[1] = role}

\* Whom the script of w was told of.
ToldHosts(w) ==
    IF type = "TF_PS" THEN Range(env[w].ps) \union Range(env[w].worker)
                      ELSE {e[1] : e \in env[w].all}

\* A script that is told knows every worker of the job, once: always in
\* HOROVOD, and in TF_PS unless a pod was deleted, perhaps between the two
\* lists (distribute_envs, get_dist_envs).
ToldComplete ==
    \A w \in Told :
        \/ /\ {a[1] : a \in ToldHosts(w)} = Workers
           /\ Cardinality(ToldHosts(w)) = Cardinality(Workers)
           /\ type = "TF_PS" => /\ Len(env[w].ps) = Cardinality(OfRole("ps"))
                                /\ Len(env[w].worker) = Cardinality(OfRole("worker"))
        \/ type = "TF_PS" /\ Spent("cancel")

\* All scripts that are told were told the same cluster, whatever pods end
\* meanwhile, unless pods were deleted.
SameCluster == \A v, w \in Told : env[v] = env[w] \/ Spent("cancel")

\* Every address told is one, not the "None" of a pod that has not started,
\* unless the job was started again.
HasAddress ==
    \A w \in Told : \A a \in ToldHosts(w) : a[2] > 0 \/ Spent("start")

\* get_dist_envs: "AVES_TF_WORKER_HOSTS: <Worker0 IP> <Worker1 IP> ...". The
\* k-th address is that of the pod whose --task_index is k (aves_run.sh), on
\* Kubernetes, as long as one digit is enough for an index, unless a pod was
\* deleted.
InOrder(l) == \A i \in DOMAIN l : l[i][1][2] = i - 1
HostsInOrder ==
    ~swarm /\ (\A w \in Workers : w[2] < 10) =>
        \A w \in Told : (InOrder(env[w].ps) /\ InOrder(env[w].worker))
                           \/ Spent("cancel")

\* Every script is told, though each asks on its own and the API server may
\* refuse a list, unless a pod ends or is deleted before, or its container is
\* on a node of the swarm that list_containers does not ask.
GroupForms ==
    <>(Told = Workers \/ Spent("kill") \/ Spent("cancel") \/ far # {})
=============================================================================
