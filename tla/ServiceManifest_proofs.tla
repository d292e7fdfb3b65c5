----------------------- MODULE ServiceManifest_proofs -----------------------
(***************************************************************************)
(* Theorems about the volumes and mounts of a worker, on either back end,  *)
(* for any jobs, names and claims.                                         *)
(***************************************************************************)
EXTENDS ServiceManifest, SequenceTheorems, WellFoundedInduction, TLAPS

-----------------------------------------------------------------------------
(* The least and the greatest position of a set.                           *)

LEMMA LeastIn ==
    ASSUME NEW S, S \subseteq Nat, S # {}
    PROVE  \E x \in S : \A y \in S : x <= y
<1>1. PICK x \in S : \A y \in S : ~ (<<y, x>> \in OpToRel(<, Nat))
  BY WFMin, NatLessThanWellFounded
<1>2. ASSUME NEW y \in S
      PROVE  x <= y
  <2>1. <<y, x>> \notin OpToRel(<, Nat)
    BY <1>1
  <2>2. x \in Nat /\ y \in Nat
    OBVIOUS
  <2>3. ~ (y < x)
    BY <2>1, <2>2 DEF OpToRel
  <2> QED
    BY <2>2, <2>3
<1> QED
  BY <1>2

LEMMA MaxIn ==
    ASSUME NEW n \in Nat, NEW S, S \subseteq 0..n, S # {}
    PROVE  Max(S) \in S
<1> DEFINE T == {n - x : x \in S}
<1>1. T \subseteq Nat /\ T # {}
  <2>1. \A x \in S : x \in Nat /\ n - x \in Nat
    OBVIOUS
  <2> QED
    BY <2>1
<1>2. PICK z \in T : \A y \in T : z <= y
  BY <1>1, LeastIn
<1>3. PICK x \in S : z = n - x
  OBVIOUS
<1>4. \A y \in S : x >= y
  <2> SUFFICES ASSUME NEW y \in S
               PROVE  x >= y
    OBVIOUS
  <2>1. z <= n - y
    BY <1>2
  <2> QED
    BY <2>1, <1>3
<1> QED
  BY <1>4 DEF Max

-----------------------------------------------------------------------------
(* The data of a job.                                                      *)

\* The kinds and keys of the data that BaseMaker lists.
DataOK(D) ==
    /\ D[1].kind = "sourcecode"
    /\ \A i \in DOMAIN D : i # 1 => D[i].kind \in {"input", "output"}
    /\ \A i, k \in DOMAIN D : D[i].kind = D[k].kind /\ D[i].name = D[k].name => i = k

LEMMA DataShape ==
    ASSUME NEW j \in Jobs
    PROVE  /\ Len(DataList(j)) \in Nat /\ Len(DataList(j)) >= 1
           /\ DOMAIN DataList(j) = 1..Len(DataList(j))
           /\ DataOK(DataList(j))
           /\ \A d : d \in Specs(j) \ j.log
                        <=> \E i \in DOMAIN DataList(j) : DataList(j)[i] = d
<1> DEFINE D == DataList(j)
           A == j.inputs
           B == j.outputs
<1>1. /\ A \in Seq(Range(A)) /\ B \in Seq(Range(B))
      /\ j.code.kind = "sourcecode" /\ \A d \in j.log : d.kind = "log"
      /\ \A i \in DOMAIN A : A[i].kind = "input"
      /\ \A i \in DOMAIN B : B[i].kind = "output"
      /\ \A i, k \in DOMAIN A : A[i].name = A[k].name => i = k
      /\ \A i, k \in DOMAIN B : B[i].name = B[k].name => i = k
  BY JobsAssumption DEF JobsAssumption, KindIs, Keyed
<1>2. /\ Len(A) \in Nat /\ DOMAIN A = 1..Len(A)
      /\ Len(B) \in Nat /\ DOMAIN B = 1..Len(B)
  BY <1>1
<1> DEFINE U == {j.code} \union Range(A) \union Range(B)
<1>3. /\ <<j.code>> \in Seq(U) /\ A \in Seq(U) /\ B \in Seq(U)
  BY <1>1
<1> DEFINE C == <<j.code>>
           E == C \o A
<1>4. D = E \o B
  BY DEF DataList
<1> HIDE DEF D, U, A, B
<1>c. /\ E \in Seq(U) /\ Len(E) = 1 + Len(A) /\ E[1] = j.code
      /\ \A i \in 1..Len(A) : E[1 + i] = A[i]
  <2>1. C \in Seq(U) /\ Len(C) = 1 /\ C[1] = j.code
    BY <1>3
  <2>2. E \in Seq(U) /\ Len(E) = 1 + Len(A)
    <3>1. C \in Seq(U) /\ A \in Seq(U)
      BY <1>3
    <3>2. E \in Seq(U) /\ Len(E) = Len(C) + Len(A)
      BY <3>1, ConcatProperties
    <3> QED
      BY <3>2, <2>1
  <2>3. \A i \in 1..(1 + Len(A)) : E[i] = IF i <= 1 THEN C[i] ELSE A[i - 1]
    <3>1. C \in Seq(U) /\ A \in Seq(U)
      BY <1>3
    <3>2. \A i \in 1..(Len(C) + Len(A)) : E[i] = IF i <= Len(C) THEN C[i] ELSE A[i - Len(C)]
      BY <3>1, ConcatProperties
    <3> QED
      BY <3>2, <2>1
  <2>4. E[1] = C[1]
    <3>1. 1 \in 1..(1 + Len(A)) /\ 1 <= 1
      BY <1>2
    <3> QED
      BY <3>1, <2>3
  <2>5. ASSUME NEW i \in 1..Len(A)
        PROVE  E[1 + i] = A[i]
    <3>1. 1 + i \in 1..(1 + Len(A)) /\ ~ (1 + i <= 1) /\ (1 + i) - 1 = i
      BY <1>2
    <3> QED
      BY <3>1, <2>3
  <2> QED
    BY <2>1, <2>2, <2>4, <2>5
<1> HIDE DEF E
<1>5. D \in Seq(U) /\ Len(D) = 1 + Len(A) + Len(B)
  BY <1>c, <1>3, <1>4, <1>2, ConcatProperties
<1>e. \A i \in 1..(1 + Len(A) + Len(B)) :
          D[i] = IF i <= 1 + Len(A) THEN E[i] ELSE B[i - (1 + Len(A))]
  BY <1>c, <1>3, <1>4, ConcatProperties
<1>6. D[1] = j.code
  <2>1. 1 \in 1..(1 + Len(A) + Len(B)) /\ 1 <= 1 + Len(A)
    BY <1>2
  <2> QED
    BY <2>1, <1>e, <1>c
<1>7. \A i \in 1..Len(A) : D[1 + i] = A[i]
  <2>1. \A i \in 1..Len(A) : 1 + i \in 1..(1 + Len(A) + Len(B)) /\ 1 + i <= 1 + Len(A)
    BY <1>2
  <2> QED
    BY <2>1, <1>e, <1>c
<1>8. \A i \in 1..Len(B) : D[1 + Len(A) + i] = B[i]
  <2> SUFFICES ASSUME NEW i \in 1..Len(B)
               PROVE  D[1 + Len(A) + i] = B[i]
    OBVIOUS
  <2>1. /\ 1 + Len(A) + i \in 1..(1 + Len(A) + Len(B)) /\ ~ (1 + Len(A) + i <= 1 + Len(A))
        /\ (1 + Len(A) + i) - (1 + Len(A)) = i
    BY <1>2
  <2> QED
    BY <2>1, <1>e
<1>9. DOMAIN D = 1..Len(D) /\ Len(D) \in Nat /\ Len(D) >= 1
  <2>1. DOMAIN D = 1..Len(D) /\ Len(D) \in Nat
    BY <1>5
  <2> QED
    BY <2>1, <1>5, <1>2
<1>10. \A i \in DOMAIN D : \/ i = 1
                           \/ i - 1 \in DOMAIN A /\ D[i] = A[i - 1]
                           \/ i - 1 - Len(A) \in DOMAIN B /\ D[i] = B[i - 1 - Len(A)]
  <2> SUFFICES ASSUME NEW i \in DOMAIN D, i # 1
               PROVE  \/ i - 1 \in DOMAIN A /\ D[i] = A[i - 1]
                      \/ i - 1 - Len(A) \in DOMAIN B /\ D[i] = B[i - 1 - Len(A)]
    OBVIOUS
  <2>1. i \in Nat /\ i >= 2 /\ i <= 1 + Len(A) + Len(B)
    BY <1>9, <1>5
  <2>2. CASE i <= 1 + Len(A)
    <3>1. i - 1 \in 1..Len(A) /\ 1 + (i - 1) = i
      BY <2>1, <2>2, <1>2
    <3> QED
      BY <3>1, <1>2, <1>7
  <2>3. CASE ~ (i <= 1 + Len(A))
    <3>1. i - 1 - Len(A) \in 1..Len(B) /\ 1 + Len(A) + (i - 1 - Len(A)) = i
      BY <2>1, <2>3, <1>2
    <3> QED
      BY <3>1, <1>2, <1>8
  <2> QED
    BY <2>2, <2>3
<1>11. DataOK(D)
  <2>1. \A i, k \in DOMAIN D : D[i].kind = D[k].kind /\ D[i].name = D[k].name => i = k
    <3> SUFFICES ASSUME NEW i \in DOMAIN D, NEW k \in DOMAIN D,
                        D[i].kind = D[k].kind, D[i].name = D[k].name
                 PROVE  i = k
      OBVIOUS
    <3>0. i \in Nat /\ k \in Nat /\ Len(A) \in Nat
      BY <1>9, <1>2
    <3>1. CASE i = 1
      BY <3>1, <1>1, <1>6, <1>10
    <3>2. CASE i - 1 \in DOMAIN A /\ D[i] = A[i - 1]
      <4>1. D[k].kind = "input"
        BY <3>2, <1>1
      <4>2. k - 1 \in DOMAIN A /\ D[k] = A[k - 1]
        BY <4>1, <1>1, <1>6, <1>10
      <4>3. i - 1 = k - 1
        BY <3>2, <4>2, <1>1
      <4> QED
        BY <4>3, <3>0
    <3>3. CASE i - 1 - Len(A) \in DOMAIN B /\ D[i] = B[i - 1 - Len(A)]
      <4>1. D[k].kind = "output"
        BY <3>3, <1>1
      <4>2. k - 1 - Len(A) \in DOMAIN B /\ D[k] = B[k - 1 - Len(A)]
        BY <4>1, <1>1, <1>6, <1>10
      <4>3. i - 1 - Len(A) = k - 1 - Len(A)
        BY <3>3, <4>2, <1>1
      <4> QED
        BY <4>3, <3>0
    <3> QED
      BY <3>1, <3>2, <3>3, <1>10
  <2>2. \A i \in DOMAIN D : i # 1 => D[i].kind \in {"input", "output"}
    BY <1>1, <1>10
  <2> QED
    BY <2>1, <2>2, <1>1, <1>6 DEF DataOK
<1>12. ASSUME NEW d, d \in Specs(j) \ j.log
       PROVE  \E i \in DOMAIN D : D[i] = d
  <2>1. \/ d = j.code
        \/ \E i \in DOMAIN A : d = A[i]
        \/ \E i \in DOMAIN B : d = B[i]
    BY <1>12 DEF Specs, Range, A, B
  <2>2. CASE d = j.code
    BY <2>2, <1>6, <1>9
  <2>3. CASE \E i \in DOMAIN A : d = A[i]
    <3>1. PICK i \in 1..Len(A) : d = A[i]
      BY <2>3, <1>2
    <3>2. 1 + i \in 1..Len(D)
      BY <1>2, <1>5
    <3> QED
      BY <3>1, <3>2, <1>7, <1>9
  <2>4. CASE \E i \in DOMAIN B : d = B[i]
    <3>1. PICK i \in 1..Len(B) : d = B[i]
      BY <2>4, <1>2
    <3>2. 1 + Len(A) + i \in 1..Len(D)
      BY <1>2, <1>5
    <3> QED
      BY <3>1, <3>2, <1>8, <1>9
  <2> QED
    BY <2>1, <2>2, <2>3, <2>4
<1>13. ASSUME NEW i \in DOMAIN D
       PROVE  D[i] \in Specs(j) \ j.log
  <2>1. D[i] \in {j.code} \union Range(A) \union Range(B)
    BY <1>6, <1>10 DEF Range
  <2>2. D[i].kind # "log"
    BY <1>11 DEF DataOK
  <2> QED
    BY <2>1, <2>2, <1>1 DEF Specs, A, B
<1>14. \A d : d \in Specs(j) \ j.log <=> \E i \in DOMAIN D : D[i] = d
  BY <1>12, <1>13
<1> QED
  BY <1>9, <1>11, <1>14 DEF D

\* The paths of the data are distinct, and none is that of a fixed mount.
LEMMA PathsApart ==
    ASSUME NEW j \in Jobs
    PROVE  /\ \A i, k \in DOMAIN DataList(j) :
                 AvesPath(DataList(j)[i]) = AvesPath(DataList(j)[k]) => i = k
           /\ \A i \in DOMAIN DataList(j), n \in Range(Fixed) :
                 AvesPath(DataList(j)[i]) # <<n>>
<1> DEFINE D == DataList(j)
<1>1. DataOK(D)
  BY DataShape
<1> HIDE DEF D
<1>2. \A i \in DOMAIN D : \/ /\ i = 1 /\ AvesPath(D[i]) = <<"sourcecode">>
                           \/ /\ i # 1 /\ AvesPath(D[i]) = <<D[i].kind, D[i].name>>
  BY <1>1 DEF DataOK, AvesPath
<1>3. \A a, b, c : <<a>> # <<b, c>>
  <2>1. \A a, b, c : Len(<<a>>) = 1 /\ Len(<<b, c>>) = 2
    OBVIOUS
  <2> QED
    BY <2>1
<1>4. ASSUME NEW i \in DOMAIN D, NEW k \in DOMAIN D, AvesPath(D[i]) = AvesPath(D[k])
      PROVE  i = k
  <2>1. CASE i = 1
    BY <2>1, <1>2, <1>3, <1>4
  <2>2. CASE i # 1
    <3>1. k # 1
      BY <2>2, <1>2, <1>3, <1>4
    <3>2. <<D[i].kind, D[i].name>> = <<D[k].kind, D[k].name>>
      BY <2>2, <3>1, <1>2, <1>4
    <3>3. D[i].kind = D[k].kind /\ D[i].name = D[k].name
      BY <3>2
    <3> QED
      BY <3>3, <1>1 DEF DataOK
  <2> QED
    BY <2>1, <2>2
<1>5. ASSUME NEW i \in DOMAIN D, NEW n \in Range(Fixed)
      PROVE  AvesPath(D[i]) # <<n>>
  <2>1. n # "sourcecode"
    BY DEF Range, Fixed
  <2>2. <<"sourcecode">> # <<n>>
    BY <2>1
  <2> QED
    BY <2>2, <1>2, <1>3
<1> QED
  BY <1>4, <1>5 DEF D

-----------------------------------------------------------------------------
(* The lists of volumes and mounts.                                        *)

VolAt(j) ==
    {k \in DOMAIN DataList(j) : Adds(DataList(j), FixedVolumes, AllVolumes(j), k)}
MountAt(j) ==
    {k \in DOMAIN DataList(j) : Adds(DataList(j), FixedMounts, AllMounts(j), k)}

LEMMA FixedIs ==
    /\ Len(Fixed) = 3 /\ DOMAIN Fixed = 1..3
    /\ Fixed[1] = "dshm" /\ Fixed[2] = "tz-config" /\ Fixed[3] = "aves-scripts"
    /\ \A n : n \in Range(Fixed) <=> \E p \in 1..3 : n = Fixed[p]
    /\ \A p, q \in 1..3 : Fixed[p] = Fixed[q] => p = q
<1>1. Len(Fixed) = 3 /\ DOMAIN Fixed = 1..3
  BY DEF Fixed
<1>2. Fixed[1] = "dshm" /\ Fixed[2] = "tz-config" /\ Fixed[3] = "aves-scripts"
  BY DEF Fixed
<1>3. \A n : n \in Range(Fixed) <=> \E p \in 1..3 : n = Fixed[p]
  BY <1>1 DEF Range
<1>4. \A p \in 1..3 : p = 1 \/ p = 2 \/ p = 3
  OBVIOUS
<1>5. \A p, q \in 1..3 : Fixed[p] = Fixed[q] => p = q
  BY <1>2, <1>4
<1> QED
  BY <1>1, <1>2, <1>3, <1>5

\* What a list holds that has the fixed ones in F, and what G has at A.
Holds(L, F, G, A) ==
    /\ DOMAIN L = (1..3) \union {3 + i : i \in A}
    /\ \A p \in 1..3 : L[p] = F[p]
    /\ \A i \in A : L[3 + i] = G[i]

LEMMA VolumesHold ==
    ASSUME NEW j \in Jobs
    PROVE  Holds(GenVolumes(j), FixedVolumes, AllVolumes(j), VolAt(j))
<1> DEFINE A == VolAt(j)
           L == GenVolumes(j)
<1>1. Len(DataList(j)) \in Nat /\ \A i \in A : i \in 1..Len(DataList(j))
  BY DataShape DEF VolAt
<1>2. L = [p \in DOMAIN FixedVolumes \union {Len(Fixed) + i : i \in A} |->
               IF p \in DOMAIN FixedVolumes THEN FixedVolumes[p] ELSE AllVolumes(j)[p - Len(Fixed)]]
  BY DEF GenVolumes, Listed, VolAt
<1> HIDE DEF A, L
<1>3. DOMAIN FixedVolumes = 1..3
  BY FixedIs DEF FixedVolumes
<1>4. L = [p \in (1..3) \union {3 + i : i \in A} |->
               IF p \in 1..3 THEN FixedVolumes[p] ELSE AllVolumes(j)[p - 3]]
  BY <1>2, <1>3, FixedIs
<1>5. DOMAIN L = (1..3) \union {3 + i : i \in A}
  BY <1>4
<1>6. \A p \in 1..3 : L[p] = FixedVolumes[p]
  BY <1>4
<1>7. ASSUME NEW i \in A
      PROVE  L[3 + i] = AllVolumes(j)[i]
  <2>1. 3 + i \notin 1..3 /\ (3 + i) - 3 = i
    BY <1>1
  <2>2. L[3 + i] = AllVolumes(j)[(3 + i) - 3]
    BY <2>1, <1>4
  <2> QED
    BY <2>1, <2>2
<1> QED
  BY <1>5, <1>6, <1>7 DEF Holds, A, L

LEMMA MountsHold ==
    ASSUME NEW j \in Jobs
    PROVE  Holds(GenVolumeMounts(j), FixedMounts, AllMounts(j), MountAt(j))
<1> DEFINE A == MountAt(j)
           L == GenVolumeMounts(j)
<1>1. Len(DataList(j)) \in Nat /\ \A i \in A : i \in 1..Len(DataList(j))
  BY DataShape DEF MountAt
<1>2. L = [p \in DOMAIN FixedMounts \union {Len(Fixed) + i : i \in A} |->
               IF p \in DOMAIN FixedMounts THEN FixedMounts[p] ELSE AllMounts(j)[p - Len(Fixed)]]
  BY DEF GenVolumeMounts, Listed, MountAt
<1> HIDE DEF A, L
<1>3. DOMAIN FixedMounts = 1..3
  BY FixedIs DEF FixedMounts
<1>4. L = [p \in (1..3) \union {3 + i : i \in A} |->
               IF p \in 1..3 THEN FixedMounts[p] ELSE AllMounts(j)[p - 3]]
  BY <1>2, <1>3, FixedIs
<1>5. DOMAIN L = (1..3) \union {3 + i : i \in A}
  BY <1>4
<1>6. \A p \in 1..3 : L[p] = FixedMounts[p]
  BY <1>4
<1>7. ASSUME NEW i \in A
      PROVE  L[3 + i] = AllMounts(j)[i]
  <2>1. 3 + i \notin 1..3 /\ (3 + i) - 3 = i
    BY <1>1
  <2>2. L[3 + i] = AllMounts(j)[(3 + i) - 3]
    BY <2>1, <1>4
  <2> QED
    BY <2>1, <2>2
<1> QED
  BY <1>5, <1>6, <1>7 DEF Holds, A, L

\* No datum makes a volume that is there from the start.
LEMMA NotFixed ==
    \A d, n : GenVolume(d) # FixedVolume(n)
<1> SUFFICES ASSUME NEW d, NEW n, GenVolume(d) = FixedVolume(n)
             PROVE  FALSE
  OBVIOUS
<1>1. GenVolume(d).src = <<d.type, d.at>> /\ FixedVolume(n).src = <<n>>
  BY DEF GenVolume, FixedVolume
<1>2. Len(<<d.type, d.at>>) = 2 /\ Len(<<n>>) = 1
  OBVIOUS
<1>3. <<d.type, d.at>> = <<n>>
  BY <1>1
<1> QED
  BY <1>2, <1>3

\* Of each volume, the first datum that makes it puts it on the list
\* (gen_volumes), and no other does.
LEMMA VolumesOnce ==
    ASSUME NEW j \in Jobs
    PROVE  /\ \A i \in VolAt(j) : i \in DOMAIN DataList(j) /\ Mounted(DataList(j)[i])
           /\ \A i, k \in VolAt(j) : AllVolumes(j)[i] = AllVolumes(j)[k] => i = k
           /\ \A i \in DOMAIN DataList(j) : Mounted(DataList(j)[i]) =>
                 \E k \in VolAt(j) : AllVolumes(j)[k] = AllVolumes(j)[i]
<1> DEFINE D == DataList(j)
           G == AllVolumes(j)
<1>1. Len(D) \in Nat /\ DOMAIN D = 1..Len(D)
  BY DataShape
<1>2. \A i \in DOMAIN D : G[i] = GenVolume(D[i])
  BY DEF AllVolumes
<1> DEFINE First(i) == i = 1 \/ \A k \in 1..(i - 1) : Mounted(D[k]) => G[k] # G[i]
<1>3. \A i \in DOMAIN D : i \in VolAt(j) <=> Mounted(D[i]) /\ First(i)
  <2> SUFFICES ASSUME NEW i \in DOMAIN D
               PROVE  i \in VolAt(j) <=> Mounted(D[i]) /\ First(i)
    OBVIOUS
  <2>1. i \in VolAt(j) <=>
            /\ Mounted(D[i])
            /\ \/ i = 1
               \/ G[i] \notin Range(FixedVolumes)
                     \union {G[k] : k \in {m \in 1..(i - 1) : Mounted(D[m])}}
    BY DEF VolAt, Adds, IsNew
  <2>2. G[i] \notin Range(FixedVolumes)
    BY <1>2, NotFixed DEF Range, FixedVolumes
  <2> HIDE DEF D, G
  <2> QED
    BY <2>1, <2>2
<1>4. \A i \in VolAt(j) : i \in DOMAIN D
  BY DEF VolAt
<1> HIDE DEF D, G
<1>5. ASSUME NEW i \in VolAt(j), NEW k \in VolAt(j), G[i] = G[k], i < k
      PROVE  FALSE
  <2>1. i \in 1..Len(D) /\ k \in 1..Len(D)
    BY <1>1, <1>4
  <2>2. i \in 1..(k - 1) /\ k # 1
    BY <2>1, <1>1, <1>5
  <2> QED
    BY <2>2, <1>3, <1>4, <1>5
<1>6. ASSUME NEW i \in VolAt(j), NEW k \in VolAt(j), G[i] = G[k]
      PROVE  i = k
  <2>1. i \in Nat /\ k \in Nat
    BY <1>1, <1>4
  <2>2. ~ (i < k) /\ ~ (k < i)
    BY <1>5, <1>6
  <2> QED
    BY <2>1, <2>2
<1>7. ASSUME NEW i \in DOMAIN D, Mounted(D[i])
      PROVE  \E k \in VolAt(j) : G[k] = G[i]
  <2> DEFINE S == {k \in DOMAIN D : Mounted(D[k]) /\ G[k] = G[i]}
  <2>1. S \subseteq Nat /\ i \in S
    BY <1>1, <1>7
  <2>2. PICK k \in S : \A m \in S : k <= m
    BY <2>1, LeastIn
  <2>3. ASSUME NEW m \in 1..(k - 1), Mounted(D[m])
        PROVE  G[m] # G[k]
    <3>1. m \in DOMAIN D /\ ~ (k <= m)
      BY <1>1
    <3> QED
      BY <3>1, <2>2, <2>3
  <2>4. k \in VolAt(j)
    BY <2>3, <1>3
  <2> QED
    BY <2>4
<1>8. \A i \in VolAt(j) : Mounted(D[i])
  BY <1>3, <1>4
<1> QED
  BY <1>4, <1>6, <1>7, <1>8 DEF D, G

\* Every datum that is mounted has a mount of its own (gen_volume_mounts).
LEMMA MountsAll ==
    ASSUME NEW j \in Jobs
    PROVE  MountAt(j) = {i \in DOMAIN DataList(j) : Mounted(DataList(j)[i])}
<1> DEFINE D == DataList(j)
           G == AllMounts(j)
<1>1. Len(D) \in Nat /\ DOMAIN D = 1..Len(D)
  BY DataShape
<1>2. ASSUME NEW i \in DOMAIN D
      PROVE  i \in MountAt(j) <=> Mounted(D[i])
  <2>1. i \in MountAt(j) <=>
            /\ Mounted(D[i])
            /\ \/ i = 1
               \/ G[i] \notin Range(FixedMounts)
                     \union {G[k] : k \in {m \in 1..(i - 1) : Mounted(D[m])}}
    BY DEF MountAt, Adds, IsNew
  <2>p. \A k \in DOMAIN D : G[k].path = AvesPath(D[k])
    BY DEF AllMounts, GenVolumeMount
  <2> HIDE DEF D, G
  <2>2. G[i] \notin Range(FixedMounts)
    <3>1. \A f \in Range(FixedMounts) : \E n \in Range(Fixed) : f.path = <<n>>
      BY DEF Range, FixedMounts, FixedMount
    <3> QED
      BY <3>1, <2>p, PathsApart DEF D
  <2>3. ASSUME NEW k \in 1..(i - 1)
        PROVE  G[i] # G[k]
    <3>1. k \in DOMAIN D /\ k # i
      BY <1>1
    <3> QED
      BY <3>1, <2>p, PathsApart DEF D
  <2> QED
    BY <2>1, <2>2, <2>3
<1> QED
  BY <1>2 DEF MountAt

\* What stands at a position of the lists.
LEMMA VolumeAt ==
    ASSUME NEW j \in Jobs, NEW p \in DOMAIN GenVolumes(j)
    PROVE  \/ p \in 1..3 /\ GenVolumes(j)[p] = FixedVolume(Fixed[p])
           \/ \E i \in VolAt(j) :
                 p = 3 + i /\ GenVolumes(j)[p] = GenVolume(DataList(j)[i])
<1>1. \A i \in VolAt(j) : AllVolumes(j)[i] = GenVolume(DataList(j)[i])
  BY VolumesOnce DEF AllVolumes
<1>2. \A q \in 1..3 : FixedVolumes[q] = FixedVolume(Fixed[q])
  BY FixedIs DEF FixedVolumes
<1>3. CASE p \in 1..3
  BY <1>2, <1>3, VolumesHold DEF Holds
<1>4. CASE p \notin 1..3
  <2>1. PICK i \in VolAt(j) : p = 3 + i
    BY <1>4, VolumesHold DEF Holds
  <2> QED
    BY <2>1, <1>1, VolumesHold DEF Holds
<1> QED
  BY <1>3, <1>4

LEMMA MountOf ==
    ASSUME NEW j \in Jobs, NEW p \in DOMAIN GenVolumeMounts(j)
    PROVE  \/ p \in 1..3 /\ GenVolumeMounts(j)[p] = FixedMount(Fixed[p])
           \/ \E i \in MountAt(j) :
                 p = 3 + i /\ GenVolumeMounts(j)[p] = GenVolumeMount(DataList(j)[i])
<1>1. \A i \in MountAt(j) : AllMounts(j)[i] = GenVolumeMount(DataList(j)[i])
  BY MountsAll DEF AllMounts
<1>2. \A q \in 1..3 : FixedMounts[q] = FixedMount(Fixed[q])
  BY FixedIs DEF FixedMounts
<1>3. CASE p \in 1..3
  BY <1>2, <1>3, MountsHold DEF Holds
<1>4. CASE p \notin 1..3
  <2>1. PICK i \in MountAt(j) : p = 3 + i
    BY <1>4, MountsHold DEF Holds
  <2> QED
    BY <2>1, <1>1, MountsHold DEF Holds
<1> QED
  BY <1>3, <1>4

\* Each fixed volume, and each datum that is mounted, is on the lists.
LEMMA OnTheLists ==
    ASSUME NEW j \in Jobs
    PROVE  /\ \A p \in 1..3 : /\ p \in DOMAIN GenVolumes(j)
                              /\ GenVolumes(j)[p] = FixedVolume(Fixed[p])
                              /\ p \in DOMAIN GenVolumeMounts(j)
                              /\ GenVolumeMounts(j)[p] = FixedMount(Fixed[p])
           /\ \A i \in DOMAIN DataList(j) : Mounted(DataList(j)[i]) =>
                 /\ \E p \in DOMAIN GenVolumes(j) :
                       GenVolumes(j)[p] = GenVolume(DataList(j)[i])
                 /\ \E p \in DOMAIN GenVolumeMounts(j) :
                       GenVolumeMounts(j)[p] = GenVolumeMount(DataList(j)[i])
<1>1. ASSUME NEW p \in 1..3
      PROVE  /\ p \in DOMAIN GenVolumes(j)
             /\ GenVolumes(j)[p] = FixedVolume(Fixed[p])
             /\ p \in DOMAIN GenVolumeMounts(j)
             /\ GenVolumeMounts(j)[p] = FixedMount(Fixed[p])
  <2>1. FixedVolumes[p] = FixedVolume(Fixed[p]) /\ FixedMounts[p] = FixedMount(Fixed[p])
    BY FixedIs DEF FixedVolumes, FixedMounts
  <2> QED
    BY <2>1, VolumesHold, MountsHold DEF Holds
<1>2. ASSUME NEW i \in DOMAIN DataList(j), Mounted(DataList(j)[i])
      PROVE  \E p \in DOMAIN GenVolumes(j) : GenVolumes(j)[p] = GenVolume(DataList(j)[i])
  <2>1. PICK k \in VolAt(j) : AllVolumes(j)[k] = AllVolumes(j)[i]
    BY <1>2, VolumesOnce
  <2>2. AllVolumes(j)[i] = GenVolume(DataList(j)[i])
    BY DEF AllVolumes
  <2>3. 3 + k \in DOMAIN GenVolumes(j) /\ GenVolumes(j)[3 + k] = AllVolumes(j)[k]
    BY VolumesHold DEF Holds
  <2> QED
    BY <2>1, <2>2, <2>3
<1>3. ASSUME NEW i \in DOMAIN DataList(j), Mounted(DataList(j)[i])
      PROVE  \E p \in DOMAIN GenVolumeMounts(j) :
                 GenVolumeMounts(j)[p] = GenVolumeMount(DataList(j)[i])
  <2>1. i \in MountAt(j)
    BY <1>3, MountsAll
  <2>2. AllMounts(j)[i] = GenVolumeMount(DataList(j)[i])
    BY DEF AllMounts
  <2>3. 3 + i \in DOMAIN GenVolumeMounts(j) /\ GenVolumeMounts(j)[3 + i] = AllMounts(j)[i]
    BY <2>1, MountsHold DEF Holds
  <2> QED
    BY <2>2, <2>3
<1> QED
  BY <1>1, <1>2, <1>3

\* No two mounts of a worker have one path, whatever names clash: the keys of
\* the dicts of a job are distinct (AvesPath).
LEMMA MountPaths ==
    ASSUME NEW j \in Jobs
    PROVE  Distinct(GenVolumeMounts(j), LAMBDA m : m.path)
<1> DEFINE M == GenVolumeMounts(j)
           D == DataList(j)
<1>1. \A n : FixedMount(n).path = <<n>>
  BY DEF FixedMount
<1>2. \A d : GenVolumeMount(d).path = AvesPath(d)
  BY DEF GenVolumeMount
<1>3. \A i \in MountAt(j) : i \in DOMAIN D
  BY MountsAll
<1> SUFFICES ASSUME NEW p \in DOMAIN M, NEW q \in DOMAIN M, M[p].path = M[q].path
             PROVE  p = q
  BY DEF Distinct
<1> HIDE DEF M, D
<1>4. \/ p \in 1..3 /\ M[p].path = <<Fixed[p]>>
      \/ \E i \in MountAt(j) : p = 3 + i /\ M[p].path = AvesPath(D[i])
  BY <1>1, <1>2, MountOf DEF M, D
<1>5. \/ q \in 1..3 /\ M[q].path = <<Fixed[q]>>
      \/ \E i \in MountAt(j) : q = 3 + i /\ M[q].path = AvesPath(D[i])
  BY <1>1, <1>2, MountOf DEF M, D
<1>6. \A i \in DOMAIN D, r \in 1..3 : AvesPath(D[i]) # <<Fixed[r]>>
  BY PathsApart, FixedIs DEF D
<1>7. CASE p \in 1..3 /\ M[p].path = <<Fixed[p]>>
  <2>1. q \in 1..3 /\ M[q].path = <<Fixed[q]>>
    BY <1>3, <1>5, <1>6, <1>7
  <2>2. <<Fixed[p]>> = <<Fixed[q]>>
    BY <2>1, <1>7
  <2>3. Fixed[p] = Fixed[q]
    BY <2>2
  <2> QED
    BY <2>1, <2>3, <1>7, FixedIs
<1>8. CASE \E i \in MountAt(j) : p = 3 + i /\ M[p].path = AvesPath(D[i])
  <2>1. PICK i \in MountAt(j) : p = 3 + i /\ M[p].path = AvesPath(D[i])
    BY <1>8
  <2>2. PICK k \in MountAt(j) : q = 3 + k /\ M[q].path = AvesPath(D[k])
    BY <2>1, <1>3, <1>5, <1>6
  <2>3. i = k
    BY <2>1, <2>2, <1>3, PathsApart DEF D
  <2> QED
    BY <2>1, <2>2, <2>3
<1> QED
  BY <1>4, <1>7, <1>8

\* Unless names clash, a volume's name tells what it is made of.
LEMMA NamesTell ==
    ASSUME NEW j \in Jobs, ~ Clash(j),
           NEW d \in Specs(j) \ j.log, d.type \in Registered, Mounted(d),
           NEW e \in Specs(j) \ j.log, e.type \in Registered, Mounted(e)
    PROVE  /\ VolName(d) \notin FixedNames
           /\ VolName(d) = VolName(e) => GenVolume(d) = GenVolume(e)
           /\ VolName(d) = VolName(e) /\ e.type = "HostPath" => d = e
<1>1. d.type \in {"K8SPVC", "HostPath"} /\ e.type \in {"K8SPVC", "HostPath"}
  BY DEF Registered, Mounted
<1>2. VolName(d) \notin FixedNames
  <2>1. CASE d.type = "K8SPVC"
    BY <2>1 DEF Clash, VolName
  <2>2. CASE d.type = "HostPath"
    <3>1. VolName(d) = <<d.kind, Stripped(d.name)>>
      BY <2>2 DEF VolName
    <3>2. \A n : <<n>> # <<d.kind, Stripped(d.name)>>
      <4>1. \A n : Len(<<n>>) = 1 /\ Len(<<d.kind, Stripped(d.name)>>) = 2
        OBVIOUS
      <4> QED
        BY <4>1
    <3> QED
      BY <3>1, <3>2 DEF FixedNames
  <2> QED
    BY <1>1, <2>1, <2>2
<1>3. ASSUME VolName(d) = VolName(e), d.type = "HostPath", e.type = "HostPath"
      PROVE  d = e
  <2>1. <<d.kind, Stripped(d.name)>> = <<e.kind, Stripped(e.name)>>
    BY <1>3 DEF VolName
  <2>2. d.kind = e.kind /\ Stripped(d.name) = Stripped(e.name)
    BY <2>1
  <2> QED
    BY <2>2, <1>3 DEF Clash
<1>4. ASSUME VolName(d) = VolName(e), d.type = "K8SPVC", e.type = "HostPath"
      PROVE  FALSE
  BY <1>4 DEF Clash, VolName
<1>5. ASSUME VolName(d) = VolName(e), d.type = "HostPath", e.type = "K8SPVC"
      PROVE  FALSE
  BY <1>5 DEF Clash, VolName
<1>6. ASSUME VolName(d) = VolName(e), d.type = "K8SPVC", e.type = "K8SPVC"
      PROVE  GenVolume(d) = GenVolume(e)
  BY <1>6 DEF VolName, GenVolume
<1> QED
  BY <1>1, <1>2, <1>3, <1>4, <1>5, <1>6

-----------------------------------------------------------------------------
(* A pod: what the API server asks of it.                                  *)

Usable(j) == \A d \in Specs(j) : d.type \in Registered

LEMMA DataNamesTell ==
    ASSUME NEW j \in Jobs, ~ Clash(j), Usable(j),
           NEW i \in DOMAIN DataList(j), Mounted(DataList(j)[i]),
           NEW k \in DOMAIN DataList(j), Mounted(DataList(j)[k])
    PROVE  LET d == DataList(j)[i]
               e == DataList(j)[k]
           IN  /\ VolName(d) \notin FixedNames
               /\ VolName(d) = VolName(e) => GenVolume(d) = GenVolume(e)
               /\ VolName(d) = VolName(e) /\ e.type = "HostPath" => d = e
<1> DEFINE d == DataList(j)[i]
           e == DataList(j)[k]
<1>1. d \in Specs(j) \ j.log /\ e \in Specs(j) \ j.log
  BY DataShape
<1>2. d.type \in Registered /\ e.type \in Registered
  BY <1>1 DEF Usable
<1> HIDE DEF d, e
<1>3. /\ VolName(d) \notin FixedNames
      /\ VolName(d) = VolName(e) => GenVolume(d) = GenVolume(e)
      /\ VolName(d) = VolName(e) /\ e.type = "HostPath" => d = e
  <2>1. Mounted(d) /\ Mounted(e)
    BY DEF d, e
  <2> QED
    BY <2>1, <1>1, <1>2, NamesTell
<1> QED
  BY <1>3 DEF d, e

LEMMA VolumeNames1 ==
    ASSUME NEW j \in Jobs, ~ Clash(j), Usable(j)
    PROVE  Distinct(GenVolumes(j), LAMBDA v : v.name)
<1> DEFINE V == GenVolumes(j)
           D == DataList(j)
<1>1. \A n : FixedVolume(n).name = <<n>>
  BY DEF FixedVolume
<1>2. \A d : GenVolume(d).name = VolName(d)
  BY DEF GenVolume
<1>3. \A i \in VolAt(j) : i \in DOMAIN D /\ Mounted(D[i])
  BY VolumesOnce
<1> SUFFICES ASSUME NEW p \in DOMAIN V, NEW q \in DOMAIN V, V[p].name = V[q].name
             PROVE  p = q
  BY DEF Distinct
<1>g. \A i \in VolAt(j) : AllVolumes(j)[i] = GenVolume(D[i])
  BY <1>3 DEF AllVolumes
<1> HIDE DEF V, D
<1>4. \/ p \in 1..3 /\ V[p].name = <<Fixed[p]>>
      \/ \E i \in VolAt(j) : p = 3 + i /\ V[p].name = VolName(D[i])
  BY <1>1, <1>2, VolumeAt DEF V, D
<1>5. \/ q \in 1..3 /\ V[q].name = <<Fixed[q]>>
      \/ \E i \in VolAt(j) : q = 3 + i /\ V[q].name = VolName(D[i])
  BY <1>1, <1>2, VolumeAt DEF V, D
<1>6. \A i \in VolAt(j), r \in 1..3 : VolName(D[i]) # <<Fixed[r]>>
  <2> SUFFICES ASSUME NEW i \in VolAt(j), NEW r \in 1..3
               PROVE  VolName(D[i]) # <<Fixed[r]>>
    OBVIOUS
  <2>1. VolName(D[i]) \notin FixedNames
    BY <1>3, DataNamesTell DEF D
  <2>2. <<Fixed[r]>> \in FixedNames
    BY FixedIs DEF FixedNames
  <2> QED
    BY <2>1, <2>2
<1>7. CASE p \in 1..3 /\ V[p].name = <<Fixed[p]>>
  <2>1. q \in 1..3 /\ V[q].name = <<Fixed[q]>>
    BY <1>5, <1>6, <1>7
  <2>2. <<Fixed[p]>> = <<Fixed[q]>>
    BY <2>1, <1>7
  <2>3. Fixed[p] = Fixed[q]
    BY <2>2
  <2> QED
    BY <2>1, <2>3, <1>7, FixedIs
<1>8. CASE \E i \in VolAt(j) : p = 3 + i /\ V[p].name = VolName(D[i])
  <2>1. PICK i \in VolAt(j) : p = 3 + i /\ V[p].name = VolName(D[i])
    BY <1>8
  <2>2. PICK k \in VolAt(j) : q = 3 + k /\ V[q].name = VolName(D[k])
    BY <2>1, <1>5, <1>6
  <2>3. GenVolume(D[i]) = GenVolume(D[k])
    BY <2>1, <2>2, <1>3, DataNamesTell DEF D
  <2>4. i = k
    BY <2>3, <1>g, VolumesOnce
  <2> QED
    BY <2>1, <2>2, <2>4
<1> QED
  BY <1>4, <1>7, <1>8

\* Every mount has its volume, and every volume is mounted.
LEMMA MountsHaveVolumes ==
    ASSUME NEW j \in Jobs
    PROVE  /\ \A i \in DOMAIN GenVolumeMounts(j) : \E k \in DOMAIN GenVolumes(j) :
                 GenVolumes(j)[k].name = GenVolumeMounts(j)[i].name
           /\ \A k \in DOMAIN GenVolumes(j) : \E i \in DOMAIN GenVolumeMounts(j) :
                 GenVolumes(j)[k].name = GenVolumeMounts(j)[i].name
<1>1. \A n : FixedVolume(n).name = <<n>> /\ FixedMount(n).name = <<n>>
  BY DEF FixedVolume, FixedMount
<1>2. \A d : GenVolume(d).name = VolName(d) /\ GenVolumeMount(d).name = VolName(d)
  BY DEF GenVolume, GenVolumeMount
<1>3. ASSUME NEW i \in DOMAIN GenVolumeMounts(j)
      PROVE  \E k \in DOMAIN GenVolumes(j) :
                 GenVolumes(j)[k].name = GenVolumeMounts(j)[i].name
  <2>1. CASE i \in 1..3 /\ GenVolumeMounts(j)[i] = FixedMount(Fixed[i])
    BY <2>1, <1>1, OnTheLists
  <2>2. CASE \E k \in MountAt(j) : GenVolumeMounts(j)[i] = GenVolumeMount(DataList(j)[k])
    <3>1. PICK k \in MountAt(j) : GenVolumeMounts(j)[i] = GenVolumeMount(DataList(j)[k])
      BY <2>2
    <3>2. PICK p \in DOMAIN GenVolumes(j) : GenVolumes(j)[p] = GenVolume(DataList(j)[k])
      BY OnTheLists, MountsAll
    <3> QED
      BY <3>1, <3>2, <1>2
  <2> QED
    BY <2>1, <2>2, MountOf
<1>4. ASSUME NEW k \in DOMAIN GenVolumes(j)
      PROVE  \E i \in DOMAIN GenVolumeMounts(j) :
                 GenVolumes(j)[k].name = GenVolumeMounts(j)[i].name
  <2>1. CASE k \in 1..3 /\ GenVolumes(j)[k] = FixedVolume(Fixed[k])
    BY <2>1, <1>1, OnTheLists
  <2>2. CASE \E i \in VolAt(j) : GenVolumes(j)[k] = GenVolume(DataList(j)[i])
    <3>1. PICK i \in VolAt(j) : GenVolumes(j)[k] = GenVolume(DataList(j)[i])
      BY <2>2
    <3>2. PICK p \in DOMAIN GenVolumeMounts(j) :
              GenVolumeMounts(j)[p] = GenVolumeMount(DataList(j)[i])
      BY OnTheLists, VolumesOnce
    <3> QED
      BY <3>1, <3>2, <1>2
  <2> QED
    BY <2>1, <2>2, VolumeAt
<1> QED
  BY <1>3, <1>4

\* What has been made by the time a pod or a service is asked for.
Made ==
    /\ job \in Jobs
    /\ pc \notin {"maker", "raised"} => Usable(job)
    /\ pc \notin {"maker", "raised", "pod"} =>
          volumes = GenVolumes(job) /\ mounts = GenVolumeMounts(job)
    /\ pc \in {"rejected", "started"} => swarm
    /\ swarm /\ pc \notin {"maker", "raised", "pod"} => binds = Binds(volumes, mounts)

\* What the API server and docker have answered.
Answered ==
    /\ pc = "refused" => ~ Fits
    /\ pc = "rejected" => \E b, c \in binds : b # c /\ b.path = c.path

LEMMA MadeInit == SInit => Made /\ Answered
<1> SUFFICES ASSUME SInit
             PROVE  Made /\ Answered
  OBVIOUS
<1>1. job \in Jobs /\ pc = "maker"
  BY DEF SInit, Init
<1> QED
  BY <1>1 DEF Made, Answered

LEMMA MadeNext ==
    ASSUME Made, Answered, [SNext]_svars
    PROVE  Made' /\ Answered'
<1> USE DEF Made, Answered
<1>1. CASE MakeSpecs /\ UNCHANGED <<binds, swarm>>
  BY <1>1 DEF MakeSpecs, Usable
<1>2. CASE ~ swarm /\ MakePod /\ UNCHANGED <<binds, swarm>>
  BY <1>2 DEF MakePod
<1>3. CASE ~ swarm /\ CreatePod /\ UNCHANGED <<binds, swarm>>
  <2>1. Fits' <=> Fits
    BY <1>3 DEF CreatePod, Fits, Distinct
  <2>2. Made'
    BY <1>3 DEF CreatePod
  <2>3. Answered'
    BY <1>3, <2>1 DEF CreatePod
  <2> QED
    BY <2>2, <2>3
<1>4. CASE swarm /\ MakeService /\ UNCHANGED swarm
  BY <1>4 DEF MakeService, MakePod
<1>5. CASE swarm /\ CreateService /\ UNCHANGED swarm
  BY <1>5 DEF CreateService
<1>6. CASE UNCHANGED svars
  <2>1. Fits' <=> Fits
    BY <1>6 DEF svars, vars, Fits, Distinct
  <2> QED
    BY <1>6, <2>1 DEF svars, vars
<1> QED
  BY <1>1, <1>2, <1>3, <1>4, <1>5, <1>6 DEF SNext, Next

THEOREM MadeCorrect == SSpec => [](Made /\ Answered)
<1>1. Made /\ Answered /\ [SNext]_svars => (Made /\ Answered)'
  BY MadeNext
<1> QED
  BY <1>1, MadeInit, PTL DEF SSpec

LEMMA MadeFits ==
    ASSUME Made, pc = "refused", ~ Clash(job)
    PROVE  Fits
<1>1. job \in Jobs /\ Usable(job) /\ volumes = GenVolumes(job) /\ mounts = GenVolumeMounts(job)
  BY DEF Made
<1>2. Distinct(volumes, LAMBDA v : v.name)
  BY <1>1, VolumeNames1
<1>3. Distinct(mounts, LAMBDA m : m.path)
  BY <1>1, MountPaths
<1>4. \A i \in DOMAIN mounts : \E k \in DOMAIN volumes : volumes[k].name = mounts[i].name
  BY <1>1, MountsHaveVolumes
<1> QED
  BY <1>2, <1>3, <1>4 DEF Fits

\* For any jobs, claims and names of data: a pod whose volumes and mounts do
\* not fit together has a clash of names. Claims that code, inputs and outputs share are one
\* volume (gen_volumes), and each of them has a path of its own.
THEOREM RefusedOnlyForClashCorrect == SSpec => []RefusedOnlyForClash
<1>1. Made /\ Answered => RefusedOnlyForClash
  BY MadeFits DEF Answered, RefusedOnlyForClash
<1> QED
  BY <1>1, MadeCorrect, PTL

LEMMA MadeInPlace ==
    ASSUME Made, pc = "created"
    PROVE  \A d \in Specs(job) \ job.log : Mounted(d) =>
               \E i \in DOMAIN mounts, k \in DOMAIN volumes :
                   /\ mounts[i].path = AvesPath(d)
                   /\ mounts[i].readOnly = (d.kind # "output")
                   /\ volumes[k].name = mounts[i].name
                   /\ volumes[k].src = <<d.type, d.at>>
<1>1. job \in Jobs /\ volumes = GenVolumes(job) /\ mounts = GenVolumeMounts(job)
  BY DEF Made
<1> SUFFICES ASSUME NEW d \in Specs(job) \ job.log, Mounted(d)
             PROVE  \E i \in DOMAIN mounts, k \in DOMAIN volumes :
                        /\ mounts[i].path = AvesPath(d)
                        /\ mounts[i].readOnly = (d.kind # "output")
                        /\ volumes[k].name = mounts[i].name
                        /\ volumes[k].src = <<d.type, d.at>>
  OBVIOUS
<1>2. PICK n \in DOMAIN DataList(job) : DataList(job)[n] = d
  BY <1>1, DataShape
<1>3. d.kind \in {"sourcecode", "input", "output"}
  BY <1>1, <1>2, DataShape DEF DataOK
<1>4. PICK k \in DOMAIN volumes : volumes[k] = GenVolume(d)
  BY <1>1, <1>2, OnTheLists
<1>5. PICK i \in DOMAIN mounts : mounts[i] = GenVolumeMount(d)
  BY <1>1, <1>2, OnTheLists
<1>6. volumes[k].name = VolName(d) /\ volumes[k].src = <<d.type, d.at>>
  BY <1>4 DEF GenVolume
<1>7. /\ mounts[i].name = VolName(d) /\ mounts[i].path = AvesPath(d)
      /\ mounts[i].readOnly = ReadOnly(d)
  BY <1>5 DEF GenVolumeMount
<1>8. ReadOnly(d) = (d.kind # "output")
  BY <1>3 DEF ReadOnly
<1> QED
  BY <1>6, <1>7, <1>8

\* For any job, also one whose names clash: what a created pod trains on is
\* mounted where its script looks, from its own source, and what it makes is
\* written to its own (gen_volume_mounts, data_spec.py).
THEOREM DataInPlaceCorrect == SSpec => []DataInPlace
<1>1. Made => DataInPlace
  BY MadeInPlace DEF DataInPlace
<1> QED
  BY <1>1, MadeCorrect, PTL

-----------------------------------------------------------------------------
(* A service: the last volume and mount of each name.                      *)

LEMMA LastOf ==
    ASSUME NEW j \in Jobs, NEW L, L = GenVolumes(j) \/ L = GenVolumeMounts(j),
           NEW n, \E p \in DOMAIN L : L[p].name = n
    PROVE  \E p \in DOMAIN L : L[p].name = n /\ LastNamed(L, n) = L[p]
<1> DEFINE N == 3 + Len(DataList(j))
           S == {p \in DOMAIN L : L[p].name = n}
<1>1. Len(DataList(j)) \in Nat /\ DOMAIN DataList(j) = 1..Len(DataList(j))
  BY DataShape
<1>2. \A p \in DOMAIN GenVolumes(j) : p \in 0..N
  <2> SUFFICES ASSUME NEW p \in DOMAIN GenVolumes(j)
               PROVE  p \in 0..N
    OBVIOUS
  <2>1. p \in 1..3 \/ \E i \in DOMAIN DataList(j) : p = 3 + i
    BY VolumeAt, VolumesOnce
  <2> QED
    BY <2>1, <1>1
<1>3. \A p \in DOMAIN GenVolumeMounts(j) : p \in 0..N
  <2> SUFFICES ASSUME NEW p \in DOMAIN GenVolumeMounts(j)
               PROVE  p \in 0..N
    OBVIOUS
  <2>1. p \in 1..3 \/ \E i \in DOMAIN DataList(j) : p = 3 + i
    BY MountOf, MountsAll
  <2> QED
    BY <2>1, <1>1
<1>4. S \subseteq 0..N /\ S # {}
  BY <1>2, <1>3
<1>5. N \in Nat
  BY <1>1
<1>6. Max(S) \in S
  BY <1>4, <1>5, MaxIn
<1>7. LastNamed(L, n) = L[Max(S)]
  BY DEF LastNamed
<1> QED
  BY <1>6, <1>7

\* Each name of a volume stands for one volume and one mount of the lists.
LEMMA NameHasBoth ==
    ASSUME NEW j \in Jobs, NEW n \in VolumeNames(GenVolumes(j))
    PROVE  /\ \E p \in DOMAIN GenVolumes(j) :
                 GenVolumes(j)[p].name = n /\ LastNamed(GenVolumes(j), n) = GenVolumes(j)[p]
           /\ \E p \in DOMAIN GenVolumeMounts(j) :
                 /\ GenVolumeMounts(j)[p].name = n
                 /\ LastNamed(GenVolumeMounts(j), n) = GenVolumeMounts(j)[p]
<1>1. \E p \in DOMAIN GenVolumes(j) : GenVolumes(j)[p].name = n
  BY DEF VolumeNames, Range
<1>2. \E p \in DOMAIN GenVolumeMounts(j) : GenVolumeMounts(j)[p].name = n
  BY <1>1, MountsHaveVolumes
<1> QED
  BY <1>1, <1>2, LastOf

LEMMA BindsApart ==
    ASSUME NEW j \in Jobs,
           NEW b \in Binds(GenVolumes(j), GenVolumeMounts(j)),
           NEW c \in Binds(GenVolumes(j), GenVolumeMounts(j)), b.path = c.path
    PROVE  b = c
<1> DEFINE V == GenVolumes(j)
           M == GenVolumeMounts(j)
<1>1. PICK n \in VolumeNames(V) : b = Bind(LastNamed(V, n), LastNamed(M, n))
  BY DEF Binds
<1>2. PICK m \in VolumeNames(V) : c = Bind(LastNamed(V, m), LastNamed(M, m))
  BY DEF Binds
<1>3. PICK p \in DOMAIN M : M[p].name = n /\ LastNamed(M, n) = M[p]
  BY NameHasBoth
<1>4. PICK q \in DOMAIN M : M[q].name = m /\ LastNamed(M, m) = M[q]
  BY NameHasBoth
<1>5. b.path = M[p].path /\ c.path = M[q].path
  BY <1>1, <1>2, <1>3, <1>4 DEF Bind
<1>6. p = q
  BY <1>5, MountPaths DEF Distinct
<1> QED
  BY <1>1, <1>2, <1>3, <1>4, <1>6

LEMMA MadeNeverRefused ==
    ASSUME Made, Answered
    PROVE  pc # "rejected"
<1> SUFFICES ASSUME pc = "rejected"
             PROVE  FALSE
  OBVIOUS
<1>1. job \in Jobs /\ binds = Binds(GenVolumes(job), GenVolumeMounts(job))
  BY DEF Made
<1>2. PICK b \in binds, c \in binds : b # c /\ b.path = c.path
  BY DEF Answered
<1> QED
  BY <1>1, <1>2, BindsApart

\* For any jobs, claims and names of data: docker refuses no service for two
\* mounts at one path, for of each name one mount is left, and no two mounts
\* have one path (make_service).
THEOREM NeverRefusedCorrect == SSpec => []NeverRefused
<1>1. Made /\ Answered => NeverRefused
  BY MadeNeverRefused DEF NeverRefused
<1> QED
  BY <1>1, MadeCorrect, PTL

\* Unless names clash, the name of a fixed volume or of a directory stands for
\* that volume and for its own mount.
LEMMA FixedAlone ==
    ASSUME NEW j \in Jobs, ~ Clash(j), Usable(j), NEW r \in 1..3,
           <<Fixed[r]>> \in VolumeNames(GenVolumes(j))
    PROVE  /\ LastNamed(GenVolumes(j), <<Fixed[r]>>) = FixedVolume(Fixed[r])
           /\ LastNamed(GenVolumeMounts(j), <<Fixed[r]>>) = FixedMount(Fixed[r])
<1> DEFINE V == GenVolumes(j)
           M == GenVolumeMounts(j)
           D == DataList(j)
           n == <<Fixed[r]>>
<1>1. PICK p \in DOMAIN V : V[p].name = n /\ LastNamed(V, n) = V[p]
  BY NameHasBoth
<1>2. PICK q \in DOMAIN M : M[q].name = n /\ LastNamed(M, n) = M[q]
  BY NameHasBoth
<1>3. ASSUME NEW i \in DOMAIN D, Mounted(D[i])
      PROVE  VolName(D[i]) # n
  <2>1. VolName(D[i]) \notin FixedNames
    BY <1>3, DataNamesTell
  <2>2. n \in FixedNames
    BY FixedIs DEF FixedNames
  <2> QED
    BY <2>1, <2>2
<1>4. V[p] = FixedVolume(Fixed[r])
  <2>1. CASE p \in 1..3 /\ V[p] = FixedVolume(Fixed[p])
    <3>1. V[p].name = <<Fixed[p]>>
      BY <2>1 DEF FixedVolume
    <3>2. Fixed[p] = Fixed[r]
      BY <3>1, <1>1
    <3> QED
      BY <2>1, <3>2
  <2>2. CASE \E i \in VolAt(j) : V[p] = GenVolume(D[i])
    <3>1. PICK i \in VolAt(j) : V[p] = GenVolume(D[i])
      BY <2>2
    <3>2. V[p].name = VolName(D[i])
      BY <3>1 DEF GenVolume
    <3> QED
      BY <3>2, <1>1, <1>3, VolumesOnce
  <2> QED
    BY <2>1, <2>2, VolumeAt
<1>5. M[q] = FixedMount(Fixed[r])
  <2>1. CASE q \in 1..3 /\ M[q] = FixedMount(Fixed[q])
    <3>1. M[q].name = <<Fixed[q]>>
      BY <2>1 DEF FixedMount
    <3>2. Fixed[q] = Fixed[r]
      BY <3>1, <1>2
    <3> QED
      BY <2>1, <3>2
  <2>2. CASE \E i \in MountAt(j) : M[q] = GenVolumeMount(D[i])
    <3>1. PICK i \in MountAt(j) : M[q] = GenVolumeMount(D[i])
      BY <2>2
    <3>2. M[q].name = VolName(D[i])
      BY <3>1 DEF GenVolumeMount
    <3> QED
      BY <3>2, <1>2, <1>3, MountsAll
  <2> QED
    BY <2>1, <2>2, MountOf
<1> QED
  BY <1>1, <1>2, <1>4, <1>5

LEMMA DirectoryAlone ==
    ASSUME NEW j \in Jobs, ~ Clash(j), Usable(j),
           NEW i \in DOMAIN DataList(j), DataList(j)[i].type = "HostPath"
    PROVE  /\ VolName(DataList(j)[i]) \in VolumeNames(GenVolumes(j))
           /\ LastNamed(GenVolumes(j), VolName(DataList(j)[i])) = GenVolume(DataList(j)[i])
           /\ LastNamed(GenVolumeMounts(j), VolName(DataList(j)[i]))
                 = GenVolumeMount(DataList(j)[i])
<1> DEFINE V == GenVolumes(j)
           M == GenVolumeMounts(j)
           D == DataList(j)
           d == D[i]
           n == VolName(d)
<1>0. Mounted(d)
  BY DEF Mounted
<1>1. n \notin FixedNames
  BY <1>0, DataNamesTell
<1>2. ASSUME NEW k \in DOMAIN D, Mounted(D[k]), VolName(D[k]) = n
      PROVE  D[k] = d
  BY <1>0, <1>2, DataNamesTell
<1>3. \A r \in 1..3 : <<Fixed[r]>> # n
  <2>1. \A r \in 1..3 : <<Fixed[r]>> \in FixedNames
    BY FixedIs DEF FixedNames
  <2> QED
    BY <2>1, <1>1
<1>4. n \in VolumeNames(V)
  <2>1. PICK p \in DOMAIN V : V[p] = GenVolume(d)
    BY <1>0, OnTheLists
  <2>2. V[p].name = n
    BY <2>1 DEF GenVolume
  <2>3. n # <<"aves-scripts">>
    BY <1>3, FixedIs
  <2> QED
    BY <2>2, <2>3 DEF VolumeNames, Range
<1>5. PICK p \in DOMAIN V : V[p].name = n /\ LastNamed(V, n) = V[p]
  BY <1>4, NameHasBoth
<1>6. PICK q \in DOMAIN M : M[q].name = n /\ LastNamed(M, n) = M[q]
  BY <1>4, NameHasBoth
<1>7. V[p] = GenVolume(d)
  <2>1. CASE p \in 1..3 /\ V[p] = FixedVolume(Fixed[p])
    BY <2>1, <1>3, <1>5 DEF FixedVolume
  <2>2. CASE \E k \in VolAt(j) : V[p] = GenVolume(D[k])
    <3>1. PICK k \in VolAt(j) : V[p] = GenVolume(D[k])
      BY <2>2
    <3>2. V[p].name = VolName(D[k])
      BY <3>1 DEF GenVolume
    <3>3. D[k] = d
      BY <3>2, <1>2, <1>5, VolumesOnce
    <3> QED
      BY <3>1, <3>3
  <2> QED
    BY <2>1, <2>2, VolumeAt
<1>8. M[q] = GenVolumeMount(d)
  <2>1. CASE q \in 1..3 /\ M[q] = FixedMount(Fixed[q])
    BY <2>1, <1>3, <1>6 DEF FixedMount
  <2>2. CASE \E k \in MountAt(j) : M[q] = GenVolumeMount(D[k])
    <3>1. PICK k \in MountAt(j) : M[q] = GenVolumeMount(D[k])
      BY <2>2
    <3>2. M[q].name = VolName(D[k])
      BY <3>1 DEF GenVolumeMount
    <3>3. D[k] = d
      BY <3>2, <1>2, <1>6, MountsAll
    <3> QED
      BY <3>1, <3>3
  <2> QED
    BY <2>1, <2>2, MountOf
<1> QED
  BY <1>4, <1>5, <1>6, <1>7, <1>8

\* What DirectoriesInPlace asks for.
TimeZone == Bind(FixedVolume("tz-config"), FixedMount("tz-config"))
DirBind(d) == [src |-> <<d.type, d.at>>, path |-> AvesPath(d), readOnly |-> d.kind # "output"]

LEMMA DirBindIs ==
    ASSUME NEW j \in Jobs, NEW i \in DOMAIN DataList(j)
    PROVE  Bind(GenVolume(DataList(j)[i]), GenVolumeMount(DataList(j)[i]))
             = DirBind(DataList(j)[i])
<1> DEFINE d == DataList(j)[i]
<1>1. d.kind \in {"sourcecode", "input", "output"}
  BY DataShape DEF DataOK
<1> HIDE DEF d
<1>2. ReadOnly(d) = (d.kind # "output")
  BY <1>1 DEF ReadOnly
<1>3. /\ GenVolume(d).src = <<d.type, d.at>>
      /\ GenVolumeMount(d).path = AvesPath(d)
      /\ GenVolumeMount(d).readOnly = ReadOnly(d)
  BY DEF GenVolume, GenVolumeMount
<1>4. Bind(GenVolume(d), GenVolumeMount(d)) = DirBind(d)
  BY <1>2, <1>3 DEF Bind, DirBind
<1> QED
  BY <1>4 DEF d

\* Unless names clash, a bind is the time zone's or that of a directory.
LEMMA BindIsOne ==
    ASSUME NEW j \in Jobs, ~ Clash(j), Usable(j),
           NEW b \in Binds(GenVolumes(j), GenVolumeMounts(j))
    PROVE  \/ b = TimeZone
           \/ \E i \in DOMAIN DataList(j) :
                 DataList(j)[i].type = "HostPath" /\ b = DirBind(DataList(j)[i])
<1> DEFINE V == GenVolumes(j)
           M == GenVolumeMounts(j)
           D == DataList(j)
<1>1. PICK n \in VolumeNames(V) : /\ b = Bind(LastNamed(V, n), LastNamed(M, n))
                                  /\ OnHost(LastNamed(V, n))
  BY DEF Binds
<1>2. PICK p \in DOMAIN V : V[p].name = n /\ LastNamed(V, n) = V[p]
  BY NameHasBoth
<1>3. CASE p \in 1..3 /\ V[p] = FixedVolume(Fixed[p])
  <2>1. V[p].name = <<Fixed[p]>> /\ V[p].src = <<Fixed[p]>>
    BY <1>3 DEF FixedVolume
  <2>2. Fixed[p] # "HostPath"
    <3>1. p = 1 \/ p = 2 \/ p = 3
      BY <1>3
    <3> QED
      BY <3>1, FixedIs
  <2>3. V[p] = FixedVolume("tz-config")
    BY <2>1, <2>2, <1>1, <1>2 DEF OnHost
  <2>4. <<Fixed[p]>> = <<"tz-config">>
    BY <2>1, <2>3 DEF FixedVolume
  <2>5. Fixed[p] = "tz-config"
    BY <2>4
  <2>6. n = <<Fixed[p]>>
    BY <2>1, <1>2
  <2>7. LastNamed(M, n) = FixedMount("tz-config") /\ LastNamed(V, n) = FixedVolume("tz-config")
    BY <2>5, <2>6, <1>3, FixedAlone
  <2> QED
    BY <2>7, <1>1 DEF TimeZone
<1>4. CASE \E i \in VolAt(j) : V[p] = GenVolume(D[i])
  <2>1. PICK i \in VolAt(j) : V[p] = GenVolume(D[i])
    BY <1>4
  <2>2. i \in DOMAIN D /\ Mounted(D[i])
    BY VolumesOnce
  <2>3. V[p].name = VolName(D[i]) /\ V[p].src[1] = D[i].type
    BY <2>1 DEF GenVolume
  <2>4. D[i].type = "HostPath"
    BY <2>1, <2>3, <1>1, <1>2, NotFixed DEF OnHost
  <2>5. b = Bind(GenVolume(D[i]), GenVolumeMount(D[i]))
    BY <2>2, <2>3, <2>4, <1>1, <1>2, DirectoryAlone
  <2> QED
    BY <2>2, <2>4, <2>5, DirBindIs
<1> QED
  BY <1>3, <1>4, VolumeAt

LEMMA AllBound ==
    ASSUME NEW j \in Jobs, ~ Clash(j), Usable(j)
    PROVE  /\ TimeZone \in Binds(GenVolumes(j), GenVolumeMounts(j))
           /\ \A i \in DOMAIN DataList(j) : DataList(j)[i].type = "HostPath" =>
                 DirBind(DataList(j)[i]) \in Binds(GenVolumes(j), GenVolumeMounts(j))
<1> DEFINE V == GenVolumes(j)
           M == GenVolumeMounts(j)
           D == DataList(j)
<1>1. TimeZone \in Binds(V, M)
  <2> DEFINE n == <<Fixed[2]>>
  <2>1. V[2] = FixedVolume("tz-config") /\ 2 \in DOMAIN V /\ n = <<"tz-config">>
    BY OnTheLists, FixedIs
  <2>2. V[2].name = n /\ n # <<"aves-scripts">>
    BY <2>1 DEF FixedVolume
  <2>3. n \in VolumeNames(V)
    BY <2>1, <2>2 DEF VolumeNames, Range
  <2>4. /\ LastNamed(V, n) = FixedVolume("tz-config")
        /\ LastNamed(M, n) = FixedMount("tz-config")
    BY <2>3, FixedAlone, FixedIs
  <2> QED
    BY <2>3, <2>4 DEF Binds, OnHost, TimeZone
<1>2. ASSUME NEW i \in DOMAIN D, D[i].type = "HostPath"
      PROVE  DirBind(D[i]) \in Binds(V, M)
  <2>1. /\ VolName(D[i]) \in VolumeNames(V)
        /\ LastNamed(V, VolName(D[i])) = GenVolume(D[i])
        /\ LastNamed(M, VolName(D[i])) = GenVolumeMount(D[i])
    BY <1>2, DirectoryAlone
  <2>2. OnHost(GenVolume(D[i]))
    BY <1>2 DEF OnHost, GenVolume
  <2>3. Bind(GenVolume(D[i]), GenVolumeMount(D[i])) \in Binds(V, M)
    BY <2>1, <2>2 DEF Binds
  <2> QED
    BY <2>3, DirBindIs
<1> QED
  BY <1>1, <1>2

LEMMA MadeDirectories ==
    ASSUME Made, pc = "started", ~ Clash(job)
    PROVE  binds = {TimeZone}
                   \union {DirBind(d) : d \in {x \in Specs(job) \ job.log : x.type = "HostPath"}}
<1> DEFINE D == DataList(job)
           Dirs == {x \in Specs(job) \ job.log : x.type = "HostPath"}
<1>1. /\ job \in Jobs /\ Usable(job)
      /\ binds = Binds(GenVolumes(job), GenVolumeMounts(job))
  BY DEF Made
<1>2. \A d : d \in Dirs <=> \E i \in DOMAIN D : D[i] = d /\ d.type = "HostPath"
  BY <1>1, DataShape
<1> HIDE DEF D, Dirs
<1>3. ASSUME NEW b \in binds
      PROVE  b \in {TimeZone} \union {DirBind(d) : d \in Dirs}
  BY <1>1, <1>2, BindIsOne DEF D
<1>4. TimeZone \in binds
  BY <1>1, AllBound
<1>5. ASSUME NEW d \in Dirs
      PROVE  DirBind(d) \in binds
  BY <1>1, <1>2, AllBound DEF D
<1>6. binds = {TimeZone} \union {DirBind(d) : d \in Dirs}
  BY <1>3, <1>4, <1>5
<1> QED
  BY <1>6 DEF Dirs

\* For any job whose names do not clash: a service that was created mounts the
\* directories of its job and the time zone and nothing else, each at its own
\* path, the outputs alone writable (make_service).
THEOREM DirectoriesInPlaceCorrect == SSpec => []DirectoriesInPlace
<1>1. Made => DirectoriesInPlace
  BY MadeDirectories DEF DirectoriesInPlace, TimeZone, DirBind
<1> QED
  BY <1>1, MadeCorrect, PTL
=============================================================================
