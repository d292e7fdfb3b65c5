--------------------------- MODULE ServiceManifest ---------------------------
(***************************************************************************)
(* The mounts of a worker's docker service, made of the volumes and mounts *)
(* of PodManifest. make_service keeps one volume and one mount for each    *)
(* name, and of these only host paths: a claim has no meaning in a swarm,  *)
(* and a job that names one starts without its data. Docker refuses a      *)
(* service that mounts two directories at one path.                        *)
(***************************************************************************)
EXTENDS PodManifest, FiniteSetsExt

VARIABLES swarm,   \* AVES_JOB_BACKEND: the swarm, not Kubernetes
          binds    \* the mounts of the service, as kwargs['mounts']

svars == <<vars, swarm, binds>>

\* What a dict filled from l holds for the name n.
LastNamed(l, n) == l[Max({i \in DOMAIN l : l[i].name = n})]

\* The scripts are configs of the service; everything else has a name here.
VolumeNames(vs) == {v.name : v \in Range(vs)} \ {<<"aves-scripts">>}
OnHost(v) == v.src[1] = "HostPath" \/ v = FixedVolume("tz-config")

\* Variant: a datum is written where it can be.
BindWritable(v, m) == [src |-> v.src, path |-> m.path, readOnly |-> FALSE]

\* The string "src:target:ro" or "src:target:rw".
Bind(v, m) == [src |-> v.src, path |-> m.path, readOnly |-> m.readOnly]

Binds(vs, ms) ==
    {Bind(LastNamed(vs, n), LastNamed(ms, n)) :
        n \in {x \in VolumeNames(vs) : OnHost(LastNamed(vs, x))}}

-----------------------------------------------------------------------------
(* _swarm_start, up to the service, beside _kube_start, up to the pod.      *)

SInit == Init /\ swarm \in BOOLEAN /\ binds = {}

MakeService == MakePod /\ binds' = Binds(volumes', mounts')

\* Of docker's own checks, the one that relates two mounts.
CreateService ==
    /\ pc = "create"
    /\ pc' = IF \E b, c \in binds : b # c /\ b.path = c.path
             THEN "rejected" ELSE "started"
    /\ UNCHANGED <<job, volumes, mounts, binds>>

SNext ==
    /\ UNCHANGED swarm
    /\ \/ ~swarm /\ Next /\ UNCHANGED binds
       \/ swarm /\ \/ MakeSpecs /\ UNCHANGED binds
                   \/ MakeService
                   \/ CreateService

SSpec == SInit /\ [][SNext]_svars

-----------------------------------------------------------------------------
\* Docker refuses no service for two mounts at one path: however names clash,
\* one mount is left for each, and no two of these have one path
\* (make_service). What docker says of a single mount string is left out.
NeverRefused == pc # "rejected"

\* A service that was created mounts the directories of its job and the time
\* zone and nothing else, each at its own path and writable just when it is an
\* output, unless names clash. Then a directory is missing, or appears at the
\* path of another datum, where Kubernetes refuses the pod.
DirectoriesInPlace ==
    pc = "started" /\ ~Clash(job) =>
        binds = {Bind(FixedVolume("tz-config"), FixedMount("tz-config"))}
                \union {[src |-> <<d.type, d.at>>, path |-> AvesPath(d),
                         readOnly |-> d.kind # "output"] :
                          d \in {x \in Specs(job) \ job.log : x.type = "HostPath"}}
=============================================================================
