----------------------------- MODULE PodManifest -----------------------------
(***************************************************************************)
(* The volumes of a worker's pod: BaseMaker makes a data spec of the code, *)
(* of each input and output and of the log directory of the job, and of    *)
(* these the volumes and mounts that make_pod puts into the pod. The API   *)
(* server refuses a pod whose volumes or mounts do not fit together, and   *)
(* the worker with it.                                                     *)
(***************************************************************************)
EXTENDS Naturals, Sequences, Functions

CONSTANTS Jobs,         \* jobs: [code, inputs, outputs, log]
          Stripped(_)   \* a data name without its underscores

\* A datum of a job is [kind, name, type, at]: at is the claim of a K8SPVC,
\* and the directory of a HostPath. The inputs and the outputs are sequences,
\* in the order of their dicts, and the log is a set of one datum or none.

\* The keys of a dict are distinct, and each datum is made with its own kind.
KindIs(l, kind) == \A i \in DOMAIN l : l[i].kind = kind
Keyed(l) == \A i, k \in DOMAIN l : l[i].name = l[k].name => i = k
JobsAssumption ==
    \A j \in Jobs :
        /\ j.inputs \in Seq(Range(j.inputs)) /\ j.outputs \in Seq(Range(j.outputs))
        /\ j.code.kind = "sourcecode" /\ \A d \in j.log : d.kind = "log"
        /\ KindIs(j.inputs, "input") /\ KindIs(j.outputs, "output")
        /\ Keyed(j.inputs) /\ Keyed(j.outputs)
ASSUME JobsAssumption

VARIABLES job, volumes, mounts, pc
vars == <<job, volumes, mounts, pc>>

-----------------------------------------------------------------------------
(* data_spec.py.                                                           *)

Registered == {"OSSFile", "K8SPVC", "HostPath"}

\* Variant: the data of a kind in one place.
KindPath(d) == <<d.kind>>

AvesPath(d) == IF d.kind \in {"input", "output"} THEN <<d.kind, d.name>>
                                                 ELSE <<d.kind>>

\* A volume is named after its claim, or after the kind and the name of the
\* datum. (An OSSFile has none.)
VolName(d) == IF d.type = "K8SPVC" THEN d.at
                                   ELSE <<d.kind, Stripped(d.name)>>
Mounted(d) == d.type # "OSSFile"
GenVolume(d) == [name |-> VolName(d), src |-> <<d.type, d.at>>]

\* Variant: what the default of the constructors says.
AlwaysReadOnly(d) == TRUE

ReadOnly(d) == d.kind \notin {"output", "log"}
GenVolumeMount(d) ==
    [name |-> VolName(d), path |-> AvesPath(d), readOnly |-> ReadOnly(d)]

-----------------------------------------------------------------------------
(* base_maker.py.                                                          *)

Specs(j) == {j.code} \union Range(j.inputs) \union Range(j.outputs) \union j.log

FixedVolume(n) == [name |-> <<n>>, src |-> <<n>>]
FixedMount(n) == [name |-> <<n>>, path |-> <<n>>, readOnly |-> n = "tz-config"]
Fixed == <<"dshm", "tz-config", "aves-scripts">>
FixedNames == {<<n>> : n \in Range(Fixed)}

\* gen_volumes and gen_volume_mounts put what is made of the code, and what is
\* made of the inputs and outputs and is not there yet, behind the fixed ones.
\* The log has none. A list is a function of the positions that it keeps.
DataList(j) == <<j.code>> \o j.inputs \o j.outputs

\* Variant: without a look at what is there.
AlwaysNew(held, v) == TRUE

IsNew(held, v) == v \notin held

Adds(d, there, made, i) ==
    /\ Mounted(d[i])
    /\ \/ i = 1
       \/ IsNew(Range(there) \union {made[k] : k \in {m \in 1..(i - 1) : Mounted(d[m])}},
                made[i])

Listed(d, there, made) ==
    [p \in DOMAIN there \union
           {Len(Fixed) + i : i \in {k \in DOMAIN d : Adds(d, there, made, k)}} |->
        IF p \in DOMAIN there THEN there[p] ELSE made[p - Len(Fixed)]]

FixedVolumes == [p \in DOMAIN Fixed |-> FixedVolume(Fixed[p])]
FixedMounts == [p \in DOMAIN Fixed |-> FixedMount(Fixed[p])]
AllVolumes(j) == [i \in DOMAIN DataList(j) |-> GenVolume(DataList(j)[i])]
AllMounts(j) == [i \in DOMAIN DataList(j) |-> GenVolumeMount(DataList(j)[i])]
GenVolumes(j) == Listed(DataList(j), FixedVolumes, AllVolumes(j))
GenVolumeMounts(j) == Listed(DataList(j), FixedMounts, AllMounts(j))

-----------------------------------------------------------------------------
(* _kube_start, up to the pod.                                             *)

Init == job \in Jobs /\ volumes = <<>> /\ mounts = <<>> /\ pc = "maker"

\* BaseMaker(): a type that is not registered raises, and the start fails.
MakeSpecs ==
    /\ pc = "maker"
    /\ pc' = IF \A d \in Specs(job) : d.type \in Registered THEN "pod" ELSE "raised"
    /\ UNCHANGED <<job, volumes, mounts>>

MakePod ==
    /\ pc = "pod"
    /\ volumes' = GenVolumes(job) /\ mounts' = GenVolumeMounts(job)
    /\ pc' = "create"
    /\ UNCHANGED job

Distinct(l, Op(_)) == \A i, k \in DOMAIN l : Op(l[i]) = Op(l[k]) => i = k

\* What the API server asks of a pod's volumes and mounts among each other; that
\* each name alone is a valid one (no capitals, no dots) is left out.
Fits ==
    /\ Distinct(volumes, LAMBDA v : v.name)
    /\ Distinct(mounts, LAMBDA m : m.path)
    /\ \A i \in DOMAIN mounts : \E k \in DOMAIN volumes : volumes[k].name = mounts[i].name

CreatePod ==
    /\ pc = "create"
    /\ pc' = IF Fits THEN "created" ELSE "refused"
    /\ UNCHANGED <<job, volumes, mounts>>

Next == MakeSpecs \/ MakePod \/ CreatePod
Spec == Init /\ [][Next]_vars

-----------------------------------------------------------------------------
\* Two data of one kind with one name but for the underscores, on host paths,
\* or a claim called as the volume of something else.
Clash(j) ==
    \/ \E d, e \in Specs(j) \ j.log :
          /\ d.type = "HostPath" /\ e.type = "HostPath" /\ d # e
          /\ d.kind = e.kind /\ Stripped(d.name) = Stripped(e.name)
    \/ \E d, e \in Specs(j) \ j.log :
          d.type = "K8SPVC" /\ e.type = "HostPath" /\ d.at = VolName(e)
    \/ \E d \in Specs(j) \ j.log : d.type = "K8SPVC" /\ d.at \in FixedNames

\* What does not fit together is refused only for a clash of names: however claims are shared
\* among code, inputs and outputs, its volumes and mounts fit together.
RefusedOnlyForClash == pc = "refused" => Clash(job)

\* What a created pod trains on is there, and what it makes is kept: the code,
\* every input and every output is mounted at the path its script and its
\* arguments name, on the volume of its own source and writable just when it
\* is an output, or copied by the script. A log is kept only by a copy.
DataInPlace ==
    pc = "created" =>
        \A d \in Specs(job) \ job.log : Mounted(d) =>
            \E i \in DOMAIN mounts, k \in DOMAIN volumes :
                /\ mounts[i].path = AvesPath(d)
                /\ mounts[i].readOnly = (d.kind # "output")
                /\ volumes[k].name = mounts[i].name
                /\ volumes[k].src = <<d.type, d.at>>
=============================================================================
