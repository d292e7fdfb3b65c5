-------------------------- MODULE JobSubmit_proofs --------------------------
(***************************************************************************)
(* Theorems about JobSubmit, for any set of submitted jobs.                *)
(***************************************************************************)
EXTENDS JobSubmit, FiniteSetTheorems, TLAPS

\* What has passed is a job that is valid.
SubmitInv ==
    /\ job \in Jobs
    /\ Passed => ValidJob(job)

LEMMA SubmitCorrect == Spec => []SubmitInv
<1>1. Init => SubmitInv
  BY DEF Init, SubmitInv, Passed
<1>2. SubmitInv /\ [Next]_vars => SubmitInv'
  <2> SUFFICES ASSUME SubmitInv, [Next]_vars
               PROVE  SubmitInv'
    OBVIOUS
  <2>1. job' = job
    BY DEF Next, Validate, Authorize, vars
  <2>2. Passed' => Passed \/ ValidJob(job)
    BY DEF Next, Validate, Authorize, vars, Passed
  <2> QED
    BY <2>1, <2>2 DEF SubmitInv
<1> QED
  BY <1>1, <1>2, PTL DEF Spec

\* What validate_job lets pass, trans_job_data translates without an error,
\* whatever keys are left out of it: each key that it reads is a required one.
THEOREM TranslationDefined == Spec => []TransDefined
<1>1. SubmitInv => TransDefined
  <2> SUFFICES ASSUME ValidJob(job)
               PROVE  TransReads(job)
    BY DEF SubmitInv, TransDefined
  <2>1. JobRequired \ {"entryPoint"} \subseteq job.keys
    BY DEF ValidJob
  <2>2. \A d \in {job.code} \union job.inputs : "path" \in d
    BY DEF ValidJob, ValidData, DataRequired
  <2>3. \A i \in DOMAIN job.roles :
           {"entryPoint", "nvidia.com/gpu"} \subseteq job.roles[i].keys
    BY DEF ValidJob, RoleRequired
  <2> QED
    BY <2>1, <2>2, <2>3 DEF TransReads
<1> QED
  BY <1>1, SubmitCorrect, PTL

-----------------------------------------------------------------------------
(* The dict of the roles.                                                  *)

Named(j, r) == {i \in DOMAIN j.roles : NewName(j.roles[i].role) = r}

\* At most two roles have the same new name.
LEMMA NewNames ==
    ASSUME NEW a, NEW b, NewName(a) = NewName(b)
    PROVE  a = b \/ {a, b} = {"master", "worker"}
  BY DEF NewName

LEMMA LastNamed ==
    ASSUME NEW j \in Jobs, NEW r, Named(j, r) # {}
    PROVE  Max(Named(j, r)) \in Named(j, r)
<1>1. Named(j, r) \subseteq Nat
  BY JobsAssumption DEF Named
<1>2. PICK a \in Named(j, r) : TRUE
  OBVIOUS
<1>3. PICK b \in Named(j, r) : \A i \in Named(j, r) : i \in {a, b}
  <2>1. CASE \A i \in Named(j, r) : i = a
    BY <1>2, <2>1
  <2>2. ASSUME NEW b \in Named(j, r), b # a
        PROVE  \A i \in Named(j, r) : i \in {a, b}
    <3> SUFFICES ASSUME NEW i \in Named(j, r), i # a, i # b
                 PROVE  FALSE
      OBVIOUS
    <3> DEFINE n(k) == j.roles[k].role
    <3>1. n(a) # n(b) /\ n(i) # n(a) /\ n(i) # n(b)
      BY <1>2, <2>2, JobsAssumption DEF Named
    <3>2. NewName(n(a)) = r /\ NewName(n(b)) = r /\ NewName(n(i)) = r
      BY <1>2, <2>2 DEF Named
    <3> HIDE DEF n
    <3> QED
      BY <3>1, <3>2, NewNames
  <2> QED
    BY <2>1, <2>2
<1>4. \E x \in Named(j, r) : \A y \in Named(j, r) : x >= y
  BY <1>1, <1>2, <1>3
<1> QED
  BY <1>4 DEF Max

\* The count of a name is that of a role which has it.
LEMMA SpecCounts ==
    ASSUME NEW j \in Jobs
    PROVE  /\ DOMAIN ResourceSpec(j) = {NewName(r) : r \in RolesOf(j)}
           /\ \A r \in DOMAIN ResourceSpec(j) :
                 /\ Named(j, r) # {}
                 /\ ResourceSpec(j)[r] = j.roles[Max(Named(j, r))].count
                 /\ ResourceSpec(j)[r] \in Int
<1> DEFINE D == {NewName(j.roles[i].role) : i \in DOMAIN j.roles}
<1>1. ResourceSpec(j) = [r \in D |-> j.roles[Max(Named(j, r))].count]
  BY DEF ResourceSpec, Named
<1>2. D = {NewName(r) : r \in RolesOf(j)}
  BY DEF RolesOf
<1>3. ASSUME NEW r \in D
      PROVE  Named(j, r) # {} /\ j.roles[Max(Named(j, r))].count \in Int
  <2>1. Named(j, r) # {}
    BY DEF Named
  <2>2. Max(Named(j, r)) \in DOMAIN j.roles
    BY <2>1, LastNamed DEF Named
  <2> QED
    BY <2>1, <2>2, JobsAssumption
<1> QED
  BY <1>1, <1>2, <1>3

\* The workers of a dict with counts.
LEMMA WorkersMade ==
    ASSUME NEW dist, NEW spec
    PROVE  /\ \A r \in DOMAIN spec : \A i \in 0 .. spec[r] - 1 :
                 [role |-> r, index |-> i, main |-> IsMain(dist, spec, r, i)]
                    \in Workers(dist, spec)
           /\ \A w \in Workers(dist, spec) :
                 \E r \in DOMAIN spec : \E i \in 0 .. spec[r] - 1 :
                    w = [role |-> r, index |-> i, main |-> IsMain(dist, spec, r, i)]
  BY DEF Workers

\* The only main node is the first of the role that has it.
LEMMA OneOf ==
    ASSUME NEW spec, NEW m \in DOMAIN spec, spec[m] \in Int, spec[m] > 0,
           \A r \in DOMAIN spec : spec[r] \in Int,
           \A r \in DOMAIN spec : \A i \in 0 .. spec[r] - 1 :
              IsMain(TRUE, spec, r, i) <=> r = m /\ i = 0
    PROVE  Cardinality({w \in Workers(TRUE, spec) : w.main}) = 1
<1> DEFINE first == [role |-> m, index |-> 0, main |-> IsMain(TRUE, spec, m, 0)]
<1>1. 0 \in 0 .. spec[m] - 1
  OBVIOUS
<1>2. first \in Workers(TRUE, spec)
  BY <1>1, WorkersMade
<1>3. IsMain(TRUE, spec, m, 0)
  BY <1>1
<1>4. ASSUME NEW w \in Workers(TRUE, spec), w.main
      PROVE  w = first
  <2>1. PICK r \in DOMAIN spec : \E i \in 0 .. spec[r] - 1 :
           w = [role |-> r, index |-> i, main |-> IsMain(TRUE, spec, r, i)]
    BY WorkersMade
  <2>2. PICK i \in 0 .. spec[r] - 1 :
           w = [role |-> r, index |-> i, main |-> IsMain(TRUE, spec, r, i)]
    BY <2>1
  <2>3. IsMain(TRUE, spec, r, i)
    BY <1>4, <2>2
  <2> QED
    BY <2>2, <2>3
<1>5. first.main
  BY <1>3
<1>6. {w \in Workers(TRUE, spec) : w.main} = {first}
  BY <1>2, <1>4, <1>5
<1> QED
  BY <1>6, FS_Singleton

\* A distributed job of masters, workers and parameter servers gets exactly one
\* main node, unless one of the roles has no worker: the first parameter server
\* when there is one, and otherwise the first worker, for there is no master
\* among the new names (trans_job_data, make_aves_workers).
THEOREM OneMainNode == Spec => []OneMain
<1>1. SubmitInv => OneMain
  <2> DEFINE spec == ResourceSpec(job)
  <2> SUFFICES ASSUME job \in Jobs, \A r \in DOMAIN spec : spec[r] > 0,
                      RolesOf(job) # {}, RolesOf(job) \subseteq {"master", "worker", "ps"}
               PROVE  Cardinality({w \in Workers(TRUE, spec) : w.main}) = 1
    BY DEF SubmitInv, OneMain
  <2>1. /\ DOMAIN spec = {NewName(r) : r \in RolesOf(job)}
        /\ \A r \in DOMAIN spec : spec[r] \in Int
    BY SpecCounts
  <2>2. DOMAIN spec \subseteq {"worker", "ps"} /\ DOMAIN spec # {}
    BY <2>1 DEF NewName
  <2> HIDE DEF spec
  <2>3. CASE "ps" \in DOMAIN spec
    <3>1. \A r \in DOMAIN spec : \A i \in 0 .. spec[r] - 1 :
             IsMain(TRUE, spec, r, i) <=> r = "ps" /\ i = 0
      BY <2>2, <2>3 DEF IsMain, HasRole
    <3> QED
      BY <2>1, <2>3, <3>1, OneOf
  <2>4. CASE "ps" \notin DOMAIN spec
    <3>1. "worker" \in DOMAIN spec /\ "master" \notin DOMAIN spec
      BY <2>2, <2>4
    <3>2. \A r \in DOMAIN spec : \A i \in 0 .. spec[r] - 1 :
             IsMain(TRUE, spec, r, i) <=> r = "worker" /\ i = 0
      BY <2>2, <2>4, <3>1 DEF IsMain, HasRole
    <3> QED
      BY <2>1, <3>1, <3>2, OneOf
  <2> QED
    BY <2>3, <2>4
<1> QED
  BY <1>1, SubmitCorrect, PTL

-----------------------------------------------------------------------------
(* The workers.                                                            *)

\* What is asked for: for each role, the indices up to its count.
Places(j) == UNION {{i} \X (0 .. j.roles[i].count - 1) : i \in DOMAIN j.roles}

LEMMA PlaceOf ==
    ASSUME NEW j
    PROVE  /\ \A i \in DOMAIN j.roles : \A k \in 0 .. j.roles[i].count - 1 :
                 <<i, k>> \in Places(j)
           /\ \A p \in Places(j) : /\ p = <<p[1], p[2]>> /\ p[1] \in DOMAIN j.roles
                                   /\ p[2] \in 0 .. j.roles[p[1]].count - 1
  BY DEF Places

LEMMA PlacesFinite ==
    ASSUME NEW j \in Jobs
    PROVE  IsFiniteSet(Places(j))
<1> DEFINE D == DOMAIN j.roles
           of == [i \in D |-> {i} \X (0 .. j.roles[i].count - 1)]
           T == {of[i] : i \in D}
<1>1. IsFiniteSet(D)
  <2>1. D = 1 .. Len(j.roles) /\ 1 \in Int /\ Len(j.roles) \in Int
    BY JobsAssumption
  <2> HIDE DEF D
  <2> QED
    BY <2>1, FS_Interval
<1>2. of \in Surjection(D, T)
  BY DEF Surjection
<1>3. IsFiniteSet(T)
  BY <1>1, <1>2, FS_Surjection
<1>4. ASSUME NEW i \in D
      PROVE  IsFiniteSet(of[i])
  <2> DEFINE m == j.roles[i].count - 1
             f == [k \in 0 .. m |-> <<i, k>>]
  <2>1. m \in Int /\ 0 \in Int
    BY JobsAssumption
  <2>2. f \in Surjection(0 .. m, of[i])
    BY DEF Surjection
  <2> HIDE DEF m
  <2>3. IsFiniteSet(0 .. m)
    BY <2>1, FS_Interval
  <2> QED
    BY <2>2, <2>3, FS_Surjection
<1>5. IsFiniteSet(UNION T)
  BY <1>3, <1>4, FS_UNION
<1> QED
  BY <1>5 DEF Places

\* Unless there are both a master and workers, no role overwrites another.
LEMMA NothingOverwritten ==
    ASSUME NEW j \in Jobs, ~({"master", "worker"} \subseteq RolesOf(j)),
           NEW i \in DOMAIN j.roles
    PROVE  /\ NewName(j.roles[i].role) \in DOMAIN ResourceSpec(j)
           /\ ResourceSpec(j)[NewName(j.roles[i].role)] = j.roles[i].count
           /\ \A k \in DOMAIN j.roles :
                 NewName(j.roles[k].role) = NewName(j.roles[i].role) => k = i
<1> DEFINE r == NewName(j.roles[i].role)
<1>1. ASSUME NEW k \in DOMAIN j.roles, NewName(j.roles[k].role) = r
      PROVE  k = i
  <2>1. j.roles[k].role \in RolesOf(j) /\ j.roles[i].role \in RolesOf(j)
    BY DEF RolesOf
  <2>2. j.roles[k].role = j.roles[i].role
    BY <1>1, <2>1, NewNames
  <2> QED
    BY <2>2, JobsAssumption
<1>2. r \in DOMAIN ResourceSpec(j)
  BY SpecCounts DEF RolesOf
<1>3. Named(j, r) # {} /\ ResourceSpec(j)[r] = j.roles[Max(Named(j, r))].count
  BY <1>2, SpecCounts
<1>4. Max(Named(j, r)) = i
  <2>1. Max(Named(j, r)) \in Named(j, r)
    BY <1>3, LastNamed
  <2> QED
    BY <1>1, <2>1 DEF Named
<1> QED
  BY <1>1, <1>2, <1>3, <1>4

\* Every worker that is asked for is made, for any roles and counts, unless both
\* a master and workers are: each place of a role is that of one worker
\* (make_aves_workers), and no role overwrites another (trans_job_data).
THEOREM NoWorkerLost == Spec => []WorkersKept
<1>1. SubmitInv => WorkersKept
  <2> DEFINE spec == ResourceSpec(job)
             dist == IsDistribute(job)
             P == Places(job)
             W == Workers(dist, spec)
             name(i) == NewName(job.roles[i].role)
             made(i, k) == [role |-> name(i), index |-> k,
                            main |-> IsMain(dist, spec, name(i), k)]
             f == [p \in P |-> made(p[1], p[2])]
  <2> SUFFICES ASSUME job \in Jobs, ~({"master", "worker"} \subseteq RolesOf(job))
               PROVE  Cardinality(W) = Cardinality(P)
    BY DEF SubmitInv, WorkersKept, Wanted, Places
  <2>1. \A i \in DOMAIN job.roles :
           /\ name(i) \in DOMAIN spec /\ spec[name(i)] = job.roles[i].count
           /\ \A k \in DOMAIN job.roles : name(k) = name(i) => k = i
    BY NothingOverwritten
  <2>2. \A r \in DOMAIN spec : \E i \in DOMAIN job.roles : r = name(i)
    BY SpecCounts DEF Named
  <2>3. \A p \in P : /\ p = <<p[1], p[2]>> /\ p[1] \in DOMAIN job.roles
                     /\ p[2] \in 0 .. job.roles[p[1]].count - 1
    BY PlaceOf
  <2> HIDE DEF spec, dist, P, W, name
  <2>4. \A p \in P : f[p] \in W
    <3> TAKE p \in P
    <3>1. name(p[1]) \in DOMAIN spec /\ p[2] \in 0 .. spec[name(p[1])] - 1
      BY <2>1, <2>3
    <3> QED
      BY <3>1, WorkersMade DEF W
  <2>5. \A p, q \in P : f[p] = f[q] => p = q
    <3> SUFFICES ASSUME NEW p \in P, NEW q \in P, f[p] = f[q]
                 PROVE  p = q
      OBVIOUS
    <3>1. made(p[1], p[2]) = made(q[1], q[2])
      OBVIOUS
    <3>2. name(p[1]) = name(q[1]) /\ p[2] = q[2]
      BY <3>1
    <3> QED
      BY <2>1, <2>3, <3>2
  <2>6. ASSUME NEW w \in W
        PROVE  \E p \in P : f[p] = w
    <3>1. PICK r \in DOMAIN spec : \E k \in 0 .. spec[r] - 1 :
             w = [role |-> r, index |-> k, main |-> IsMain(dist, spec, r, k)]
      BY WorkersMade DEF W
    <3>2. PICK k \in 0 .. spec[r] - 1 :
             w = [role |-> r, index |-> k, main |-> IsMain(dist, spec, r, k)]
      BY <3>1
    <3>3. PICK i \in DOMAIN job.roles : r = name(i)
      BY <2>2
    <3>4. <<i, k>> \in P
      BY <2>1, <3>3, PlaceOf DEF P
    <3>5. f[<<i, k>>] = w
      BY <3>2, <3>3, <3>4
    <3> QED
      BY <3>4, <3>5
  <2>7. f \in Bijection(P, W)
    BY <2>4, <2>5, <2>6 DEF Bijection, Injection, Surjection, IsInjective
  <2>8. ExistsBijection(P, W)
    BY <2>7 DEF ExistsBijection
  <2>9. IsFiniteSet(P)
    BY PlacesFinite DEF P
  <2> QED
    BY <2>8, <2>9, FS_Bijection
<1> QED
  BY <1>1, SubmitCorrect, PTL
=============================================================================
