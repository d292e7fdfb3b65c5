----------------------------- MODULE MCJobSubmit -----------------------------
(***************************************************************************)
(* Jobs of every list of roles, and jobs with required keys left out.      *)
(***************************************************************************)
EXTENDS JobSubmit

OneMissing(keys) == {keys} \union {keys \ {k} : k \in keys}

\* The roles of a job: every list of at most three, with counts 0 to 2.
Roles == {"master", "ps", "worker"}
RoleLists ==
    {l \in UNION {[1 .. n -> Roles \X (0 .. 2)] : n \in 1 .. 3} :
        \A i, j \in DOMAIN l : l[i][1] = l[j][1] => i = j}
AsRoles(l, keys) ==
    [i \in DOMAIN l |-> [role |-> l[i][1], count |-> l[i][2],
                         keys |-> IF i = 1 THEN keys ELSE RoleRequired]]

Job(eng, roles, keys, code, inp, log, own) ==
    [engine |-> eng, roles |-> roles, keys |-> keys, code |-> code,
     inputs |-> {inp}, log |-> log, own |-> own]

Engines == {"tensorflow", "horovod", "pytorch"}
PsWorker == << <<"ps", 1>>, <<"worker", 2>> >>

\* Every list of roles, ...
RoleJobs ==
    {Job(e, AsRoles(l, RoleRequired), JobRequired, DataRequired, DataRequired,
         DataRequired, own)
        : e \in Engines, l \in RoleLists, own \in BOOLEAN}
\* ... and every missing key of one job.
KeyJobs ==
    {Job("pytorch", AsRoles(PsWorker, rk), jk, code, inp, log, TRUE)
        : rk \in OneMissing(RoleRequired), jk \in OneMissing(JobRequired),
          code \in OneMissing(DataRequired), inp \in OneMissing(DataRequired),
          log \in OneMissing(DataRequired)}
AllJobs == RoleJobs \union KeyJobs
=============================================================================
