--------------------------- MODULE DistEnvs_proofs ---------------------------
(***************************************************************************)
(* Theorems about DistEnvs, for any workers, gpus, order of names and      *)
(* budget.                                                                 *)
(***************************************************************************)
EXTENDS DistEnvs, FiniteSetTheorems, TLAPS

-----------------------------------------------------------------------------
(* Lists of pods, in the order of a relation.                              *)

\* R is a strict order of the members of S, and a total one.
Orders(R, S) ==
    /\ \A v \in S : <<v, v>> \notin R
    /\ \A v, w \in S : v # w => (<<v, w>> \in R <=> <<w, v>> \notin R)
    /\ \A u, v, w \in S : <<u, v>> \in R /\ <<v, w>> \in R => <<u, w>> \in R

Below(w, R, S) == {v \in S : <<v, w>> \in R}
Listing(R, S) ==
    [i \in 1 .. Cardinality(S) |-> CHOOSE w \in S : Cardinality(Below(w, R, S)) = i - 1]

\* Who comes first has fewer before it.
LEMMA FewerBelow ==
    ASSUME NEW S, IsFiniteSet(S), NEW R, Orders(R, S),
           NEW v \in S, NEW w \in S, <<v, w>> \in R
    PROVE  Cardinality(Below(v, R, S)) < Cardinality(Below(w, R, S))
<1>1. Below(v, R, S) \in SUBSET Below(w, R, S)
  BY DEF Below, Orders
<1>2. v \in Below(w, R, S) /\ v \notin Below(v, R, S)
  BY DEF Below, Orders
<1>3. Below(w, R, S) \in SUBSET S
  BY DEF Below
<1>4. IsFiniteSet(Below(w, R, S))
  BY <1>3, FS_Subset
<1>5. /\ IsFiniteSet(Below(v, R, S))
      /\ Cardinality(Below(v, R, S)) <= Cardinality(Below(w, R, S))
      /\ Cardinality(Below(v, R, S)) # Cardinality(Below(w, R, S))
  BY <1>1, <1>2, <1>4, FS_Subset
<1>6. Cardinality(Below(v, R, S)) \in Nat /\ Cardinality(Below(w, R, S)) \in Nat
  BY <1>4, <1>5, FS_CardinalityType
<1> QED
  BY <1>5, <1>6

\* As many places as members, and each is that of one of them.
LEMMA Ranks ==
    ASSUME NEW S, IsFiniteSet(S), NEW R, Orders(R, S)
    PROVE  /\ Cardinality(S) \in Nat
           /\ \A w \in S : Cardinality(Below(w, R, S)) \in 0 .. Cardinality(S) - 1
           /\ \A v, w \in S : Cardinality(Below(v, R, S)) = Cardinality(Below(w, R, S))
                              => v = w
           /\ \A k \in 0 .. Cardinality(S) - 1 :
                 \E w \in S : Cardinality(Below(w, R, S)) = k
<1> DEFINE T == 0 .. Cardinality(S) - 1
           rank == [w \in S |-> Cardinality(Below(w, R, S))]
<1>1. Cardinality(S) \in Nat
  BY FS_CardinalityType
<1>2. \A w \in S : Cardinality(Below(w, R, S)) \in T
  <2> TAKE w \in S
  <2>1. Below(w, R, S) \in SUBSET S /\ w \notin Below(w, R, S)
    BY DEF Below, Orders
  <2>2. /\ IsFiniteSet(Below(w, R, S))
        /\ Cardinality(Below(w, R, S)) <= Cardinality(S)
        /\ Cardinality(Below(w, R, S)) # Cardinality(S)
    BY <2>1, FS_Subset
  <2>3. Cardinality(Below(w, R, S)) \in Nat
    BY <2>2, FS_CardinalityType
  <2> QED
    BY <1>1, <2>2, <2>3
<1>3. \A v, w \in S : Cardinality(Below(v, R, S)) = Cardinality(Below(w, R, S)) => v = w
  <2> SUFFICES ASSUME NEW v \in S, NEW w \in S, v # w
               PROVE  Cardinality(Below(v, R, S)) # Cardinality(Below(w, R, S))
    OBVIOUS
  <2>1. <<v, w>> \in R \/ <<w, v>> \in R
    BY DEF Orders
  <2>2. Cardinality(Below(v, R, S)) \in Nat /\ Cardinality(Below(w, R, S)) \in Nat
    BY <1>1, <1>2
  <2>3. \/ Cardinality(Below(v, R, S)) < Cardinality(Below(w, R, S))
        \/ Cardinality(Below(w, R, S)) < Cardinality(Below(v, R, S))
    BY <2>1, FewerBelow
  <2> QED
    BY <2>2, <2>3
<1>4. rank \in Injection(S, T)
  BY <1>2, <1>3 DEF Injection, IsInjective
<1>5. IsFiniteSet(T) /\ Cardinality(T) = Cardinality(S)
  BY <1>1, FS_Interval
<1>6. rank \in Surjection(S, T)
  BY <1>4, <1>5, FS_Injection
<1> QED
  BY <1>1, <1>2, <1>3, <1>6 DEF Surjection

\* A list of S has each member once, after those before it.
LEMMA ListingOnce ==
    ASSUME NEW S, IsFiniteSet(S), NEW R, Orders(R, S)
    PROVE  /\ Listing(R, S) \in Seq(S)
           /\ Len(Listing(R, S)) = Cardinality(S)
           /\ \A w \in S : \E i \in DOMAIN Listing(R, S) : Listing(R, S)[i] = w
           /\ \A i \in DOMAIN Listing(R, S) :
                 Cardinality(Below(Listing(R, S)[i], R, S)) = i - 1
<1> DEFINE l == Listing(R, S)
           n == Cardinality(S)
           At(i) == CHOOSE w \in S : Cardinality(Below(w, R, S)) = i - 1
<1>1. n \in Nat
  BY Ranks
<1>2. \A i \in 1 .. n : At(i) \in S /\ Cardinality(Below(At(i), R, S)) = i - 1
  <2> TAKE i \in 1 .. n
  <2>1. i - 1 \in 0 .. n - 1
    BY <1>1
  <2>2. \E w \in S : Cardinality(Below(w, R, S)) = i - 1
    BY <2>1, Ranks
  <2> QED
    BY <2>2
<1>3. DOMAIN l = 1 .. n /\ \A i \in 1 .. n : l[i] = At(i)
  BY DEF Listing
<1>4. l \in [1 .. n -> S]
  BY <1>2 DEF Listing
<1>5. l \in Seq(S) /\ Len(l) = n
  BY <1>1, <1>4
<1>6. ASSUME NEW w \in S
      PROVE  \E i \in DOMAIN l : l[i] = w
  <2> DEFINE k == Cardinality(Below(w, R, S))
  <2>1. k \in 0 .. n - 1
    BY Ranks
  <2>2. k + 1 \in 1 .. n /\ (k + 1) - 1 = k
    BY <1>1, <2>1
  <2>3. At(k + 1) \in S /\ Cardinality(Below(At(k + 1), R, S)) = k
    BY <1>2, <2>2
  <2>4. At(k + 1) = w
    BY <2>3, Ranks
  <2> QED
    BY <1>3, <2>2, <2>4
<1> QED
  BY <1>2, <1>3, <1>5, <1>6

-----------------------------------------------------------------------------
(* The pods.                                                               *)

\* Pods that have been started, of which each has an address.
Started == {v \in Workers : pod[v].ip > 0}

PodsOK ==
    \A v \in Workers : /\ pod[v].phase \in {"running", "over"} <=> pod[v].ip > 0
                       /\ pod[v].phase = "none" => pod[v] = NoPod

\* The swarm lists its containers in one order.
NewerOK == swarm => newer \subseteq Started \X Started /\ Orders(newer, Started)

BudgetBound == \A k \in Kinds : budget[k] <= Budget[k]

PodInv == TypeOK /\ PodsOK /\ NewerOK /\ BudgetBound

LEMMA InitPods == Init => PodInv
<1> SUFFICES ASSUME Init
             PROVE  PodInv
  OBVIOUS
<1>1. NoPod \in [phase : {"none", "pending", "running", "over"}, ip : Nat]
  BY DEF NoPod
<1>2. NoEnv \in [ps : Seq(Address), worker : Seq(Address),
                 all : SUBSET (Address \X Nat), np : Nat]
  BY DEF NoEnv
<1>3. TypeOK
  BY <1>1, <1>2, BudgetAssumption DEF Init, TypeOK, BudgetInit, BudgetOK
<1>4. PodsOK /\ NewerOK
  BY DEF Init, PodsOK, NewerOK, NoPod, Started, Orders
<1>5. BudgetBound
  BY BudgetAssumption DEF Init, BudgetInit, BudgetBound
<1> QED
  BY <1>3, <1>4, <1>5 DEF PodInv

\* The lists of the API server, or of docker, are in an order.
RolePods(role) == {w \in Listed : w[1] = role}

LEMMA ListedOrder ==
    ASSUME PodInv, NEW role
    PROVE  /\ RolePods(role) \in SUBSET Workers /\ IsFiniteSet(RolePods(role))
           /\ Orders(Order, RolePods(role))
           /\ PodList(role) = Listing(Order, RolePods(role))
<1> DEFINE S == RolePods(role)
<1>1. S \in SUBSET Workers /\ IsFiniteSet(S)
  BY EnvsAssumption, FS_Subset DEF RolePods, Listed
<1>2. Orders(Order, S)
  <2>1. CASE swarm
    <3>1. S \subseteq Started
      BY <2>1 DEF RolePods, Listed, PodInv, PodsOK, Started
    <3>2. Orders(newer, Started)
      BY <2>1 DEF PodInv, NewerOK
    <3>3. \A v, w \in S : <<v, w>> \in Order <=> <<v, w>> \in newer
      BY <2>1 DEF Order
    <3> HIDE DEF S
    <3> QED
      BY <3>1, <3>2, <3>3 DEF Orders
  <2>2. CASE ~swarm
    <3>1. \A v, w \in S : <<v, w>> \in Order <=> NameBefore(v, w)
      BY <1>1, <2>2 DEF Order
    <3> HIDE DEF S
    <3> QED
      BY <1>1, <3>1, NamesAssumption DEF Orders
  <2> QED
    BY <2>1, <2>2
<1>3. PodList(role) = Listing(Order, S)
  BY DEF PodList, Listing, Below, RolePods
<1> QED
  BY <1>1, <1>2, <1>3

\* The addresses of the pods of a role: each once, in that order.
LEMMA HostsOnce ==
    ASSUME PodInv, NEW role
    PROVE  /\ Hosts(role) \in Seq({AddressOf(w) : w \in RolePods(role)})
           /\ Len(Hosts(role)) = Cardinality(RolePods(role))
           /\ Range(Hosts(role)) = {AddressOf(w) : w \in RolePods(role)}
           /\ \A i \in DOMAIN Hosts(role) :
                 /\ Hosts(role)[i][1] \in RolePods(role)
                 /\ Cardinality(Below(Hosts(role)[i][1], Order, RolePods(role))) = i - 1
<1> DEFINE S == RolePods(role)
           l == Listing(Order, S)
           h == Hosts(role)
<1>1. IsFiniteSet(S) /\ Orders(Order, S) /\ PodList(role) = l
  BY ListedOrder
<1>2. /\ l \in Seq(S) /\ Len(l) = Cardinality(S)
      /\ \A w \in S : \E i \in DOMAIN l : l[i] = w
      /\ \A i \in DOMAIN l : Cardinality(Below(l[i], Order, S)) = i - 1
  BY <1>1, ListingOnce
<1>3. h = [i \in DOMAIN l |-> AddressOf(l[i])]
  BY <1>1 DEF Hosts
<1> HIDE DEF l, h, S
<1>4. Len(l) \in Nat /\ DOMAIN l = 1 .. Len(l) /\ \A i \in DOMAIN l : l[i] \in S
  BY <1>2
<1>5. h \in [1 .. Len(l) -> {AddressOf(w) : w \in S}]
  BY <1>3, <1>4
<1>6. h \in Seq({AddressOf(w) : w \in S}) /\ Len(h) = Len(l) /\ DOMAIN h = DOMAIN l
  BY <1>4, <1>5
<1>7. Range(h) = {AddressOf(w) : w \in S}
  BY <1>2, <1>3, <1>4 DEF Range
<1>8. \A i \in DOMAIN h : h[i][1] = l[i]
  BY <1>3 DEF AddressOf
<1> QED
  BY <1>2, <1>4, <1>6, <1>7, <1>8 DEF h, S

\* What a script may be told.
Envs == [ps : Seq(Address), worker : Seq(Address), all : SUBSET (Address \X Nat),
         np : Nat]

LEMMA TfpsType ==
    ASSUME PodInv
    PROVE  TfpsEnvs \in Envs
<1>1. \A role : Hosts(role) \in Seq(Address)
  <2> TAKE role
  <2> DEFINE T == {AddressOf(w) : w \in RolePods(role)}
  <2>1. T \subseteq Address
    BY ListedOrder DEF AddressOf, Address, PodInv, TypeOK
  <2>2. Hosts(role) \in Seq(T)
    BY HostsOnce
  <2> HIDE DEF T
  <2> QED
    BY <2>1, <2>2
<1>2. NoEnv \in Envs
  BY DEF NoEnv, Envs
<1> QED
  BY <1>1, <1>2 DEF Envs, TfpsEnvs

\* As many slots as gpus, or one for each worker: a number.
LEMMA SlotsFinite == Cardinality(UNION {{w} \X (1 .. Slots(w)) : w \in Workers}) \in Nat
<1> DEFINE of == [w \in Workers |-> {w} \X (1 .. Slots(w))]
           T == {of[w] : w \in Workers}
<1>1. of \in Surjection(Workers, T)
  BY DEF Surjection
<1>2. IsFiniteSet(T)
  BY <1>1, EnvsAssumption, FS_Surjection
<1>3. ASSUME NEW w \in Workers
      PROVE  IsFiniteSet(of[w])
  <2> DEFINE f == [k \in 1 .. Slots(w) |-> <<w, k>>]
  <2>1. Slots(w) \in Nat
    BY EnvsAssumption DEF Slots
  <2>2. IsFiniteSet(1 .. Slots(w))
    BY <2>1, FS_Interval
  <2>3. f \in Surjection(1 .. Slots(w), of[w])
    BY DEF Surjection
  <2> QED
    BY <2>2, <2>3, FS_Surjection
<1>4. IsFiniteSet(UNION T)
  BY <1>2, <1>3, FS_UNION
<1>5. UNION T = UNION {{w} \X (1 .. Slots(w)) : w \in Workers}
  OBVIOUS
<1> QED
  BY <1>4, <1>5, FS_CardinalityType

LEMMA HorovodType ==
    ASSUME PodInv
    PROVE  HorovodEnvs(Workers) \in Envs
<1>1. \A w \in Workers : Slots(w) \in Nat /\ AddressOf(w) \in Address
  BY EnvsAssumption DEF Slots, AddressOf, Address, PodInv, TypeOK
<1>2. {<<AddressOf(w), Slots(w)>> : w \in Workers} \in SUBSET (Address \X Nat)
  BY <1>1
<1>3. NoEnv \in Envs
  BY DEF NoEnv, Envs
<1>4. \A a \in SUBSET (Address \X Nat), n \in Nat :
         [NoEnv EXCEPT !.all = a, !.np = n] \in Envs
  BY <1>3 DEF Envs
<1> QED
  BY <1>2, <1>4, SlotsFinite DEF HorovodEnvs

-----------------------------------------------------------------------------
(* What each step leaves of the pods.                                      *)

LEMMA Spending ==
    ASSUME PodInv, NEW k \in Kinds, Spend(k)
    PROVE  /\ BudgetOK' /\ BudgetBound' /\ Spent(k)'
           /\ \A j \in Kinds : Spent(j) => Spent(j)'
<1>1. budget \in [Kinds -> Nat] /\ budget[k] > 0
  BY DEF PodInv, TypeOK, BudgetOK, Spend
<1>2. budget' = [budget EXCEPT ![k] = budget[k] - 1]
  BY DEF Spend
<1>3. \A j \in Kinds : /\ budget'[j] \in Nat /\ budget'[j] <= budget[j]
                       /\ budget[j] \in Nat /\ budget'[k] < budget[k]
  BY <1>1, <1>2
<1>4. budget' \in [Kinds -> Nat]
  BY <1>1, <1>2
<1>5. \A j \in Kinds : budget[j] <= Budget[j] /\ Budget[j] \in Nat
  BY BudgetAssumption DEF PodInv, BudgetBound
<1> QED
  BY <1>3, <1>4, <1>5 DEF BudgetOK, BudgetBound, Spent

\* The faults of this module are kinds of the budget.
LEMMA SpentKinds == {"start", "cancel", "kill", "refuse"} \subseteq Kinds
  BY DEF Kinds, UserKinds, FaultKinds

LEMMA RunsPods ==
    ASSUME PodInv, NEW w \in Workers, PodRuns(w)
    PROVE  PodInv'
<1>1. /\ pod[w] \in [phase : {"none", "pending", "running", "over"}, ip : Nat]
      /\ pod[w].phase = "pending" /\ started[w] \in Nat
      /\ started' = [started EXCEPT ![w] = started[w] + 1]
      /\ pod' = [pod EXCEPT ![w] = [phase |-> "running", ip |-> started[w] + 1]]
      /\ UNCHANGED <<type, swarm, todo, env, budget>>
  BY DEF PodInv, TypeOK, PodRuns, job
<1>2. TypeOK'
  BY <1>1 DEF PodInv, TypeOK, PodRuns, BudgetOK, where
<1>3. PodsOK'
  BY <1>1 DEF PodInv, TypeOK, PodsOK, NoPod
<1>4. Started' = Started \union {w} /\ w \notin Started
  <2>1. \A v \in Workers : pod'[v].ip > 0 <=> pod[v].ip > 0 \/ v = w
    BY <1>1 DEF PodInv, TypeOK
  <2>2. ~(pod[w].ip > 0)
    BY <1>1 DEF PodInv, PodsOK
  <2> QED
    BY <2>1, <2>2 DEF Started
<1>5. NewerOK'
  <2> SUFFICES ASSUME swarm
               PROVE  newer' \subseteq Started' \X Started' /\ Orders(newer', Started')
    BY <1>1 DEF NewerOK
  <2>1. newer' = newer \union {w} \X Started
    BY DEF PodRuns, Started
  <2>2. newer \subseteq Started \X Started /\ Orders(newer, Started)
    BY DEF PodInv, NewerOK
  <2>3. \A u, v : <<u, v>> \in newer' <=> \/ <<u, v>> \in newer
                                          \/ u = w /\ v \in Started
    BY <2>1
  <2> HIDE DEF Started
  <2>4. \A u, v : <<u, v>> \in newer => u \in Started /\ v \in Started
    BY <2>2
  <2>5. Orders(newer', Started \union {w})
    BY <1>4, <2>2, <2>3, <2>4 DEF Orders
  <2> QED
    BY <1>4, <2>1, <2>2, <2>5
<1> QED
  BY <1>1, <1>2, <1>3, <1>5 DEF PodInv, BudgetBound

LEMMA DeletedPods ==
    ASSUME PodInv, NEW w \in Workers, PodDeleted(w)
    PROVE  PodInv'
<1>1. /\ pod' = [pod EXCEPT ![w] = NoPod] /\ Spend("cancel")
      /\ NoPod \in [phase : {"none", "pending", "running", "over"}, ip : Nat]
      /\ NoEnv \in Envs
      /\ UNCHANGED <<type, swarm, todo, started>>
  BY DEF PodDeleted, Quits, job, NoPod, NoEnv, Envs
<1>2. TypeOK'
  BY <1>1, Spending, SpentKinds DEF PodInv, TypeOK, PodDeleted, Quits, Envs
<1>3. PodsOK'
  BY <1>1 DEF PodInv, TypeOK, PodsOK, NoPod
<1>4. Started' = Started \ {w}
  BY <1>1 DEF Started, PodInv, TypeOK, NoPod
<1>5. NewerOK'
  <2> SUFFICES ASSUME swarm
               PROVE  newer' \subseteq Started' \X Started' /\ Orders(newer', Started')
    BY <1>1 DEF NewerOK
  <2>1. newer \subseteq Started \X Started /\ Orders(newer, Started)
    BY DEF PodInv, NewerOK
  <2>2. newer' = {e \in newer : w \notin {e[1], e[2]}}
    BY DEF PodDeleted
  <2> HIDE DEF Started
  <2>3. \A u, v : <<u, v>> \in newer' <=> <<u, v>> \in newer /\ u # w /\ v # w
    BY <2>2
  <2>4. Orders(newer', Started \ {w})
    BY <2>1, <2>3 DEF Orders
  <2>5. newer' \subseteq (Started \ {w}) \X (Started \ {w})
    BY <2>1, <2>2
  <2> QED
    BY <1>4, <2>4, <2>5
<1> QED
  BY <1>1, <1>2, <1>3, <1>5, Spending, SpentKinds DEF PodInv

LEMMA NextPods ==
    ASSUME PodInv, [Next]_vars
    PROVE  PodInv'
<1>1. CASE UNCHANGED vars
  BY <1>1 DEF vars, job, where, PodInv, TypeOK, PodsOK, NewerOK, BudgetBound, BudgetOK,
              Started, Orders
<1>2. CASE StartAgain
  <2>1. /\ Spend("start") /\ todo' = Workers
        /\ UNCHANGED <<type, swarm, pod, started, newer, far, script, env>>
    BY <1>2 DEF StartAgain, job, where
  <2> QED
    BY <2>1, Spending, SpentKinds DEF PodInv, TypeOK, PodsOK, NewerOK, Started
<1>3. ASSUME NEW w \in Workers, CreatePod(w)
      PROVE  PodInv'
  <2>1. /\ UNCHANGED <<type, swarm, started, newer, far, script, env, budget>>
        /\ todo' \subseteq todo
        /\ \/ UNCHANGED pod
           \/ /\ pod[w].phase = "none"
              /\ pod' = [pod EXCEPT ![w] = [pod[w] EXCEPT !.phase = "pending"]]
    BY <1>3 DEF CreatePod, job, where
  <2>2. pod \in [Workers -> [phase : {"none", "pending", "running", "over"}, ip : Nat]]
    BY DEF PodInv, TypeOK
  <2>3. pod[w].phase = "none" => pod[w].ip = 0
    BY DEF PodInv, PodsOK, NoPod
  <2>4. Started' = Started
    BY <2>1, <2>2 DEF Started
  <2>5. TypeOK'
    <3>1. pod' \in [Workers -> [phase : {"none", "pending", "running", "over"}, ip : Nat]]
      BY <2>1, <2>2
    <3> QED
      BY <2>1, <3>1 DEF PodInv, TypeOK, BudgetOK
  <2>6. PodsOK'
    BY <2>1, <2>2, <2>3 DEF PodInv, PodsOK
  <2> QED
    BY <2>1, <2>4, <2>5, <2>6 DEF PodInv, NewerOK, BudgetBound
<1>4. ASSUME NEW w \in Workers, PodEnds(w)
      PROVE  PodInv'
  <2>1. /\ Spend("kill") /\ UNCHANGED <<type, swarm, todo, started, newer, far>>
        /\ pod[w].phase = "running" /\ NoEnv \in Envs
        /\ pod' = [pod EXCEPT ![w] = [pod[w] EXCEPT !.phase = "over"]]
        /\ script' = [script EXCEPT ![w] = "off"] /\ env' = [env EXCEPT ![w] = NoEnv]
    BY <1>4 DEF PodEnds, Quits, job, where, NoEnv, Envs
  <2>2. pod \in [Workers -> [phase : {"none", "pending", "running", "over"}, ip : Nat]]
    BY DEF PodInv, TypeOK
  <2>3. Started' = Started
    BY <2>1, <2>2 DEF Started
  <2>4. TypeOK'
    BY <2>1, <2>2, Spending, SpentKinds DEF PodInv, TypeOK, Envs
  <2>5. PodsOK'
    BY <2>1, <2>2 DEF PodInv, PodsOK, NoPod
  <2> QED
    BY <2>1, <2>3, <2>4, <2>5, Spending, SpentKinds DEF PodInv, NewerOK
<1>5. ASSUME NEW w \in Workers, Check(w) \/ Answer(w) \/ ListRefused(w)
      PROVE  PodInv'
  <2>1. /\ UNCHANGED <<type, swarm, todo, pod, started, newer, far>>
        /\ script' \in [Workers -> {"off", "ask", "check", "told"}]
    BY <1>5 DEF Check, Answer, AnswerTfps, AnswerHorovod, ListRefused, Tell, AskAgain,
                job, where, PodInv, TypeOK
  <2>2. \/ UNCHANGED env
        \/ \E e \in Envs : env' = [env EXCEPT ![w] = e]
    BY <1>5, TfpsType, HorovodType
       DEF Check, Answer, AnswerTfps, AnswerHorovod, ListRefused, Tell, AskAgain
  <2>3. UNCHANGED budget \/ Spend("refuse")
    BY <1>5 DEF Check, Answer, AnswerTfps, AnswerHorovod, ListRefused
  <2>4. BudgetOK' /\ BudgetBound'
    BY <2>3, Spending, SpentKinds DEF PodInv, TypeOK, BudgetOK, BudgetBound
  <2>5. env' \in [Workers -> Envs]
    BY <2>2 DEF PodInv, TypeOK, Envs
  <2> QED
    BY <2>1, <2>4, <2>5 DEF PodInv, TypeOK, PodsOK, NewerOK, Started, Orders, Envs
<1> QED
  BY <1>1, <1>2, <1>3, <1>4, <1>5, RunsPods, DeletedPods DEF Next

-----------------------------------------------------------------------------
(* What the scripts are told.                                              *)

\* Scripts for which the view has seen all pods run.
Answering == {w \in Workers : script[w] \in {"check", "told"}}

\* Until the job is started again, a pod that is to be created is not there;
\* and once all have been seen, none is to be created nor starts.
ReadyOK ==
    ~Spent("start") =>
        /\ \A w \in todo : pod[w].phase = "none"
        /\ Answering # {} => todo = {} /\ \A v \in Workers : pod[v].phase # "pending"

\* Until a pod is deleted, every one that has been seen is listed.
ListedOK == ~Spent("cancel") /\ Answering # {} => Listed = Workers /\ Started = Workers

\* What a script would be told now; it is what those that were told know.
Now == IF type = "TF_PS" THEN TfpsEnvs ELSE HorovodEnvs(Workers)
ToldNow == ~Spent("cancel") => \A w \in Told : env[w] = Now

\* The answer of HOROVOD has an address of each worker.
OfAll(e) ==
    /\ e.ps = <<>> /\ e.worker = <<>>
    /\ \E ip \in [Workers -> Nat] : e.all = {<< <<v, ip[v]>>, Slots(v)>> : v \in Workers}
ToldAll == type = "HOROVOD" => \A w \in Told : OfAll(env[w])

GroupInv == ReadyOK /\ ListedOK /\ ToldNow /\ ToldAll /\ HasAddress

LEMMA InitGroup == Init => GroupInv
<1> SUFFICES ASSUME Init
             PROVE  GroupInv
  OBVIOUS
<1>1. Answering = {} /\ Told = {}
  BY DEF Init, Answering, Told
<1>2. \A w \in Workers : pod[w].phase = "none"
  BY DEF Init, NoPod
<1> QED
  BY <1>1, <1>2 DEF Init, GroupInv, ReadyOK, ListedOK, ToldNow, ToldAll, HasAddress

\* The same lists, and so the same answer.
LEMMA SameNow ==
    ASSUME PodInv, UNCHANGED <<type, swarm, newer>>, Listed' = Listed,
           \A v \in Workers : pod'[v].ip = pod[v].ip
    PROVE  Now' = Now
<1>1. Order' = Order
  BY DEF Order
<1>2. \A role : PodList(role)' = PodList(role)
  BY <1>1 DEF PodList
<1>3. \A w \in Workers : AddressOf(w)' = AddressOf(w)
  BY DEF AddressOf
<1>4. \A role : Hosts(role)' = Hosts(role)
  <2> TAKE role
  <2> DEFINE l == PodList(role)
  <2>1. \A i \in DOMAIN l : l[i] \in Workers
    <3>1. l \in Seq(RolePods(role)) /\ RolePods(role) \subseteq Workers
      BY ListedOrder, ListingOnce
    <3> QED
      BY <3>1
  <2>2. Hosts(role) = [i \in DOMAIN l |-> <<l[i], pod[l[i]].ip>>]
    BY DEF Hosts, AddressOf
  <2>3. Hosts(role)' = [i \in DOMAIN l |-> <<l[i], pod'[l[i]].ip>>]
    BY <1>2 DEF Hosts, AddressOf
  <2> HIDE DEF l
  <2> QED
    BY <2>1, <2>2, <2>3
<1>5. TfpsEnvs' = TfpsEnvs
  BY <1>4 DEF TfpsEnvs
<1>6. {<<AddressOf(w), Slots(w)>> : w \in Workers}' = {<<AddressOf(w), Slots(w)>> : w \in Workers}
  BY <1>3 DEF Slots
<1>7. HorovodEnvs(Workers)' = HorovodEnvs(Workers)
  BY <1>6 DEF HorovodEnvs, Slots
<1> QED
  BY <1>5, <1>7 DEF Now

\* Nobody is told anything new.
LEMMA NothingNew ==
    ASSUME ToldAll, HasAddress, type' = type, Told' \subseteq Told,
           \A w \in Told' : env'[w] = env[w], Spent("start") => Spent("start")'
    PROVE  ToldAll' /\ HasAddress'
<1>1. ToldAll'
  BY DEF ToldAll, OfAll, Slots
<1>2. HasAddress'
  BY DEF HasAddress, ToldHosts
<1> QED
  BY <1>1, <1>2

\* As many pods as workers, all running, are those of the workers.
LEMMA AllRun ==
    ASSUME PodInv, AllRunning
    PROVE  /\ Listed = Workers /\ Started = Workers
           /\ \A v \in Workers : pod[v].phase = "running"
<1>1. Listed \in SUBSET Workers
  BY DEF Listed
<1>2. Listed = Workers
  BY <1>1, EnvsAssumption, FS_Subset DEF AllRunning
<1> QED
  BY <1>2 DEF AllRunning, Started, PodInv, PodsOK

\* A step that tells nobody anything.
LEMMA OtherGroup ==
    ASSUME PodInv, PodInv', GroupInv, UNCHANGED <<type, swarm, newer, far>>,
           Listed' = Listed, \A v \in Workers : pod'[v].ip = pod[v].ip,
           Answering' \subseteq Answering, Told' \subseteq Told,
           \A w \in Told' : env'[w] = env[w],
           Spent("start") => Spent("start")', Spent("cancel") => Spent("cancel")'
    PROVE  ListedOK' /\ ToldNow' /\ ToldAll' /\ HasAddress'
<1>1. Started' = Started
  BY DEF Started
<1>2. ListedOK'
  BY <1>1 DEF GroupInv, ListedOK
<1>3. ToldNow'
  <2>1. Now' = Now
    BY SameNow
  <2> QED
    BY <2>1 DEF GroupInv, ToldNow
<1> QED
  BY <1>2, <1>3, NothingNew DEF GroupInv

\* Once a pod has been deleted, or the job been started again, less is promised.
LEMMA CreateGroup ==
    ASSUME PodInv, PodInv', GroupInv, NEW w \in Workers, CreatePod(w)
    PROVE  GroupInv'
<1>1. /\ UNCHANGED <<type, swarm, newer, far, script, env, budget>>
      /\ w \in todo
      /\ \/ UNCHANGED pod /\ todo' = {} /\ pod[w].phase # "none"
         \/ /\ pod[w].phase = "none" /\ todo' = todo \ {w}
            /\ pod' = [pod EXCEPT ![w] = [pod[w] EXCEPT !.phase = "pending"]]
  BY DEF CreatePod, job, where
<1>2. pod \in [Workers -> [phase : {"none", "pending", "running", "over"}, ip : Nat]]
  BY DEF PodInv, TypeOK
<1>3. /\ \A v \in Workers : pod'[v].ip = pod[v].ip
      /\ \A v \in Workers \ {w} : pod'[v] = pod[v]
      /\ Answering' = Answering /\ Told' = Told
      /\ \A k : Spent(k)' <=> Spent(k)
  BY <1>1, <1>2 DEF Answering, Told, Spent
<1>4. ReadyOK'
  <2>1. Answering # {} => Spent("start")
    BY <1>1 DEF GroupInv, ReadyOK
  <2>2. todo' \subseteq todo \ {w} /\ todo \subseteq Workers
    BY <1>1 DEF PodInv, TypeOK
  <2>3. \A v \in todo' : v \in todo /\ pod'[v] = pod[v]
    BY <1>3, <2>2
  <2> QED
    BY <1>3, <2>1, <2>3 DEF GroupInv, ReadyOK
<1>5. CASE Listed' = Listed
  BY <1>1, <1>3, <1>4, <1>5, OtherGroup DEF GroupInv
<1>6. CASE Listed' # Listed
  <2>1. pod[w].phase = "none" /\ w \notin Listed
    BY <1>1, <1>6 DEF Listed
  <2>2. Spent("cancel") \/ Answering = {}
    BY <2>1 DEF GroupInv, ListedOK
  <2>3. Told \subseteq Answering
    BY DEF Told, Answering
  <2>4. ListedOK' /\ ToldNow'
    BY <1>3, <2>2, <2>3 DEF ListedOK, ToldNow
  <2> QED
    BY <1>1, <1>3, <1>4, <2>4, NothingNew DEF GroupInv
<1> QED
  BY <1>5, <1>6

LEMMA RunsGroup ==
    ASSUME PodInv, PodInv', GroupInv, NEW w \in Workers, PodRuns(w)
    PROVE  GroupInv'
<1>1. /\ UNCHANGED <<type, swarm, todo, env, budget>> /\ pod[w].phase = "pending"
      /\ pod' = [pod EXCEPT ![w] = [phase |-> "running", ip |-> started'[w]]]
      /\ script' = [script EXCEPT ![w] = "ask"]
  BY DEF PodRuns, job
<1>2. pod \in [Workers -> [phase : {"none", "pending", "running", "over"}, ip : Nat]]
  BY DEF PodInv, TypeOK
<1>3. /\ \A v \in Workers \ {w} : pod'[v] = pod[v]
      /\ pod'[w].phase = "running"
      /\ Answering' \subseteq Answering /\ Told' \subseteq Told
      /\ \A k : Spent(k)' <=> Spent(k)
  BY <1>1, <1>2 DEF Answering, Told, Spent, PodInv, TypeOK
<1>4. ReadyOK'
  <2>1. todo \subseteq Workers
    BY DEF PodInv, TypeOK
  <2>2. \A v \in Workers : v # w => pod'[v] = pod[v]
    BY <1>3
  <2> QED
    BY <1>1, <1>3, <2>1, <2>2 DEF GroupInv, ReadyOK
<1>5. w \notin Started
  BY <1>1 DEF PodInv, PodsOK, Started
<1>6. Spent("cancel") \/ Answering = {}
  BY <1>5 DEF GroupInv, ListedOK
<1>7. Told \subseteq Answering
  BY DEF Told, Answering
<1>8. ListedOK' /\ ToldNow'
  BY <1>3, <1>6, <1>7 DEF ListedOK, ToldNow
<1> QED
  BY <1>1, <1>3, <1>4, <1>8, NothingNew DEF GroupInv

\* The script of a pod that is gone knows nothing any more.
LEMMA QuitsGroup ==
    ASSUME PodInv, PodInv', GroupInv, NEW w \in Workers,
           PodEnds(w) \/ PodDeleted(w)
    PROVE  GroupInv'
<1>1. /\ UNCHANGED <<type, swarm, todo>>
      /\ script' = [script EXCEPT ![w] = "off"] /\ env' = [env EXCEPT ![w] = NoEnv]
      /\ \A v \in Workers \ {w} : pod'[v] = pod[v]
      /\ pod'[w].phase \in {"none", "over"}
      /\ Spent("start") => Spent("start")'
      /\ Spent("cancel") => Spent("cancel")'
  <2>1. pod \in [Workers -> [phase : {"none", "pending", "running", "over"}, ip : Nat]]
    BY DEF PodInv, TypeOK
  <2>2. /\ Spend("kill") \/ Spend("cancel")
        /\ \E x \in [phase : {"none", "over"}, ip : Nat] : pod' = [pod EXCEPT ![w] = x]
    <3>1. CASE PodEnds(w)
      <4>1. /\ pod' = [pod EXCEPT ![w] = [pod[w] EXCEPT !.phase = "over"]]
            /\ Spend("kill")
        BY <3>1 DEF PodEnds
      <4>2. [pod[w] EXCEPT !.phase = "over"] \in [phase : {"none", "over"}, ip : Nat]
        BY <2>1
      <4> QED
        BY <4>1, <4>2
    <3>2. CASE PodDeleted(w)
      BY <3>2 DEF PodDeleted, NoPod
    <3> QED
      BY <3>1, <3>2
  <2>3. /\ Spent("start") => Spent("start")'
        /\ Spent("cancel") => Spent("cancel")'
    BY <2>2, Spending, SpentKinds
  <2>4. /\ \A v \in Workers \ {w} : pod'[v] = pod[v]
        /\ pod'[w].phase \in {"none", "over"}
    BY <2>1, <2>2
  <2> QED
    BY <2>3, <2>4 DEF PodEnds, PodDeleted, Quits, job
<1>2. Answering' \subseteq Answering /\ Told' \subseteq Told /\ w \notin Told'
  BY <1>1 DEF Answering, Told, PodInv, TypeOK
<1>3. \A v \in Told' : env'[v] = env[v]
  BY <1>1, <1>2
<1>4. ReadyOK'
  <2>1. w \in todo => pod'[w].phase = "none" \/ Spent("start")
    BY DEF GroupInv, ReadyOK, PodEnds, PodDeleted, PodInv, TypeOK, NoPod
  <2>2. todo \subseteq Workers
    BY DEF PodInv, TypeOK
  <2>3. \A v \in Workers : v # w => pod'[v] = pod[v]
    BY <1>1
  <2>4. pod'[w].phase # "pending"
    BY <1>1
  <2> QED
    BY <1>1, <1>2, <2>1, <2>2, <2>3, <2>4 DEF GroupInv, ReadyOK
<1>5. CASE PodEnds(w)
  <2>1. /\ UNCHANGED <<newer, far>> /\ pod[w].phase = "running"
        /\ pod' = [pod EXCEPT ![w] = [pod[w] EXCEPT !.phase = "over"]]
    BY <1>5 DEF PodEnds, where
  <2>2. pod \in [Workers -> [phase : {"none", "pending", "running", "over"}, ip : Nat]]
    BY DEF PodInv, TypeOK
  <2>3. Listed' = Listed /\ \A v \in Workers : pod'[v].ip = pod[v].ip
    BY <1>1, <2>1, <2>2 DEF Listed
  <2> QED
    BY <1>1, <1>2, <1>3, <1>4, <2>1, <2>3, OtherGroup DEF GroupInv
<1>6. CASE PodDeleted(w)
  <2>1. Spent("cancel")'
    BY <1>6, Spending, SpentKinds DEF PodDeleted
  <2> QED
    BY <1>1, <1>2, <1>3, <1>4, <2>1, NothingNew DEF GroupInv, ListedOK, ToldNow
<1> QED
  BY <1>5, <1>6

LEMMA CheckGroup ==
    ASSUME PodInv, PodInv', GroupInv, NEW w \in Workers, Check(w)
    PROVE  GroupInv'
<1>1. /\ UNCHANGED <<type, swarm, todo, pod, newer, far, env, budget>>
      /\ script[w] = "ask" /\ script' = [script EXCEPT ![w] = "check"] /\ AllRunning
  BY DEF Check, job, where
<1>2. /\ Listed = Workers /\ Started = Workers
      /\ \A v \in Workers : pod[v].phase = "running"
  BY <1>1, AllRun
<1>3. Told' \subseteq Told
  BY <1>1 DEF Told, PodInv, TypeOK
<1>4. Listed' = Listed /\ Started' = Started /\ \A k : Spent(k)' <=> Spent(k)
  BY <1>1 DEF Listed, Started, Spent
<1>5. ReadyOK'
  BY <1>1, <1>2, <1>4 DEF GroupInv, ReadyOK, PodInv, TypeOK
<1>6. ToldNow'
  <2>1. Now' = Now
    BY <1>1, <1>4, SameNow
  <2> QED
    BY <1>1, <1>3, <1>4, <2>1 DEF GroupInv, ToldNow
<1> QED
  BY <1>1, <1>2, <1>3, <1>4, <1>5, <1>6, NothingNew DEF GroupInv, ListedOK

\* What the view answers, and to whom.
LEMMA AnswerOK ==
    ASSUME PodInv, GroupInv, NEW w \in Workers, Answer(w),
           script' = [script EXCEPT ![w] = "told"]
    PROVE  /\ env' = [env EXCEPT ![w] = Now]
           /\ type = "HOROVOD" => OfAll(Now)
           /\ Spent("start") \/ \A v \in Listed : pod[v].ip > 0
           /\ type = "HOROVOD" => Workers \subseteq Listed
<1>1. script[w] = "check" /\ w \in Answering
  BY DEF Answer, AnswerTfps, AnswerHorovod, Answering
<1>2. Spent("start") \/ \A v \in Listed : pod[v].ip > 0
  BY <1>1 DEF GroupInv, ReadyOK, Listed, PodInv, TypeOK, PodsOK
<1>3. CASE type = "TF_PS"
  BY <1>2, <1>3 DEF Answer, AnswerTfps, AnswerHorovod, Tell, Now
<1>4. CASE type = "HOROVOD"
  <2>1. Workers \subseteq Listed
    <3>1. script'[w] = "told"
      BY DEF PodInv, TypeOK
    <3>2. CASE ~(Workers \subseteq Listed)
      <4>1. script' = [script EXCEPT ![w] = "ask"]
        BY <1>4, <3>2 DEF Answer, AnswerTfps, AnswerHorovod, AskAgain
      <4> QED
        BY <3>1, <4>1 DEF PodInv, TypeOK
    <3> QED
      BY <3>2
  <2>2. env' = [env EXCEPT ![w] = Now]
    BY <1>4, <2>1 DEF Answer, AnswerTfps, AnswerHorovod, Tell, Now
  <2>3. OfAll(HorovodEnvs(Workers))
    <3> DEFINE ip == [v \in Workers |-> pod[v].ip]
               e == HorovodEnvs(Workers)
    <3>1. ip \in [Workers -> Nat]
      BY DEF PodInv, TypeOK
    <3>2. e.ps = <<>> /\ e.worker = <<>>
      BY DEF HorovodEnvs, NoEnv
    <3>3. e.all = {<<AddressOf(v), Slots(v)>> : v \in Workers}
      BY DEF HorovodEnvs, NoEnv
    <3>4. \A v \in Workers : AddressOf(v) = <<v, ip[v]>>
      BY DEF AddressOf
    <3>5. e.all = {<< <<v, ip[v]>>, Slots(v)>> : v \in Workers}
      BY <3>3, <3>4
    <3> HIDE DEF ip, e
    <3> QED
      BY <3>1, <3>2, <3>5 DEF OfAll, e
  <2> QED
    BY <1>2, <1>4, <2>1, <2>2, <2>3 DEF Now
<1> QED
  BY <1>3, <1>4 DEF PodInv, TypeOK

\* Whoever is told now is told addresses of pods that are listed.
LEMMA NowHosts ==
    ASSUME PodInv, type = "HOROVOD" => Workers \subseteq Listed
    PROVE  LET e == Now IN
           /\ type = "TF_PS" =>
                 \A a \in Range(e.ps) \union Range(e.worker) :
                    \E v \in Listed : a = AddressOf(v)
           /\ type = "HOROVOD" =>
                 \A a \in {x[1] : x \in e.all} : \E v \in Listed : a = AddressOf(v)
<1>1. ASSUME type = "TF_PS"
      PROVE  \A a \in Range(Now.ps) \union Range(Now.worker) :
                \E v \in Listed : a = AddressOf(v)
  <2>1. Now.ps = Hosts("ps") /\ Now.worker = Hosts("worker")
    BY <1>1 DEF Now, TfpsEnvs, NoEnv
  <2>2. \A role : Range(Hosts(role)) = {AddressOf(v) : v \in RolePods(role)}
    BY HostsOnce
  <2> QED
    BY <2>1, <2>2 DEF RolePods
<1>2. ASSUME type = "HOROVOD"
      PROVE  \A a \in {x[1] : x \in Now.all} : \E v \in Listed : a = AddressOf(v)
  <2>1. Now.all = {<<AddressOf(v), Slots(v)>> : v \in Workers}
    BY <1>2 DEF Now, HorovodEnvs, NoEnv
  <2> QED
    BY <1>2, <2>1
<1> QED
  BY <1>1, <1>2

LEMMA AnswerGroup ==
    ASSUME PodInv, PodInv', GroupInv, NEW w \in Workers, Answer(w) \/ ListRefused(w)
    PROVE  GroupInv'
<1>1. /\ UNCHANGED <<type, swarm, todo, pod, newer, far>>
      /\ script[w] = "check"
      /\ \A k \in Kinds : Spent(k) => Spent(k)'
  BY Spending, SpentKinds
     DEF Answer, AnswerTfps, AnswerHorovod, ListRefused, job, where, Spent
<1>2. Listed' = Listed /\ Started' = Started
  BY <1>1 DEF Listed, Started
<1>3. Now' = Now
  BY <1>1, <1>2, SameNow
<1>4. \/ script' = [script EXCEPT ![w] = "ask"] /\ UNCHANGED env
      \/ Answer(w) /\ script' = [script EXCEPT ![w] = "told"]
  BY DEF Answer, AnswerTfps, AnswerHorovod, ListRefused, Tell, AskAgain
<1>5. Answering' \subseteq Answering
  BY <1>1, <1>4 DEF Answering, PodInv, TypeOK
<1>6. ReadyOK' /\ ListedOK'
  BY <1>1, <1>2, <1>5, SpentKinds DEF GroupInv, ReadyOK, ListedOK
<1>7. CASE script' = [script EXCEPT ![w] = "ask"] /\ UNCHANGED env
  <2>1. Told' \subseteq Told
    BY <1>7 DEF Told, PodInv, TypeOK
  <2> QED
    BY <1>1, <1>3, <1>6, <1>7, <2>1, NothingNew, SpentKinds DEF GroupInv, ToldNow
<1>8. CASE Answer(w) /\ script' = [script EXCEPT ![w] = "told"]
  <2>1. /\ env' = [env EXCEPT ![w] = Now]
        /\ type = "HOROVOD" => OfAll(Now)
        /\ Spent("start") \/ \A v \in Listed : pod[v].ip > 0
        /\ type = "HOROVOD" => Workers \subseteq Listed
    BY <1>8, AnswerOK
  <2>2. Told' = Told \union {w} /\ w \notin Told
    BY <1>1, <1>8 DEF Told, PodInv, TypeOK
  <2>3. /\ env'[w] = Now
        /\ \A v \in Told : env'[v] = env[v]
    BY <2>1, <2>2 DEF PodInv, TypeOK, Told
  <2>4. ToldNow'
    BY <1>1, <1>3, <2>2, <2>3, SpentKinds DEF GroupInv, ToldNow
  <2>5. ToldAll'
    <3>1. \A e : OfAll(e)' <=> OfAll(e)
      BY DEF OfAll, Slots
    <3>2. type = "HOROVOD" => \A v \in Told' : OfAll(env'[v])
      BY <2>1, <2>2, <2>3 DEF GroupInv, ToldAll
    <3> QED
      BY <1>1, <3>1, <3>2 DEF ToldAll, OfAll, Slots
  <2>6. HasAddress'
    <3>1. CASE Spent("start")
      BY <1>1, <3>1, SpentKinds DEF HasAddress
    <3>2. CASE ~Spent("start")
      <4>1. \A a \in ToldHosts(w)' : a[2] > 0
        <5>1. ToldHosts(w)' = IF type = "TF_PS" THEN Range(Now.ps) \union Range(Now.worker)
                                               ELSE {x[1] : x \in Now.all}
          BY <1>1, <2>3 DEF ToldHosts
        <5>2. \A a \in ToldHosts(w)' : \E v \in Listed : a = AddressOf(v)
          BY <2>1, <5>1, NowHosts DEF PodInv, TypeOK
        <5> QED
          BY <2>1, <3>2, <5>2 DEF AddressOf
      <4>2. \A v \in Told : ToldHosts(v)' = ToldHosts(v)
        BY <1>1, <2>3 DEF ToldHosts
      <4> QED
        BY <2>2, <3>2, <4>1, <4>2 DEF GroupInv, HasAddress
    <3> QED
      BY <3>1, <3>2
  <2> QED
    BY <1>6, <2>4, <2>5, <2>6 DEF GroupInv
<1> QED
  BY <1>4, <1>7, <1>8

LEMMA NextGroup ==
    ASSUME PodInv, PodInv', GroupInv, [Next]_vars
    PROVE  GroupInv'
<1>1. CASE UNCHANGED vars
  <2>1. /\ UNCHANGED <<type, swarm, newer, far, todo, pod, script, env, budget>>
        /\ Listed' = Listed /\ Answering' = Answering /\ Told' = Told
        /\ \A k : Spent(k)' <=> Spent(k)
    BY <1>1 DEF vars, job, where, Listed, Answering, Told, Spent
  <2> QED
    BY <2>1, OtherGroup DEF GroupInv, ReadyOK
<1>2. CASE StartAgain
  <2>1. /\ Spend("start")
        /\ UNCHANGED <<type, swarm, newer, far, pod, script, env>>
        /\ Listed' = Listed /\ Answering' = Answering /\ Told' = Told
    BY <1>2 DEF StartAgain, job, where, Listed, Answering, Told
  <2>2. Spent("start")' /\ (Spent("cancel") => Spent("cancel")')
    BY <2>1, Spending, SpentKinds
  <2> QED
    BY <2>1, <2>2, OtherGroup DEF GroupInv, ReadyOK
<1> QED
  BY <1>1, <1>2, CreateGroup, RunsGroup, QuitsGroup, CheckGroup, AnswerGroup DEF Next

-----------------------------------------------------------------------------
(* The theorems.                                                           *)

LEMMA GroupCorrect == Spec => [](PodInv /\ GroupInv)
<1>1. PodInv /\ GroupInv /\ [Next]_vars => (PodInv /\ GroupInv)'
  BY NextPods, NextGroup
<1> QED
  BY <1>1, InitPods, InitGroup, PTL DEF Spec

\* Every variable keeps its type: in particular the lists of addresses that a
\* script is told are sequences of addresses, for each place of the list of
\* pods is that of one pod (get_dist_envs).
THEOREM EnvsTyped == Spec => []TypeOK
<1>1. PodInv => TypeOK
  BY DEF PodInv
<1> QED
  BY <1>1, GroupCorrect, PTL

\* No script is told the "None" of a pod that has not started, unless the job
\* was started again: when the view has seen all pods run, none is created nor
\* starts any more (distribute_envs).
THEOREM AddressesKnown == Spec => []HasAddress
<1>1. GroupInv => HasAddress
  BY DEF GroupInv
<1> QED
  BY <1>1, GroupCorrect, PTL

\* All scripts that are told were told the same cluster, whenever they asked
\* and whatever pods ended between, unless pods were deleted: they know what
\* one that asks now would be told (distribute_envs, get_dist_envs).
THEOREM OneCluster == Spec => []SameCluster
<1>1. GroupInv => SameCluster
  BY DEF GroupInv, ToldNow, SameCluster, Told
<1> QED
  BY <1>1, GroupCorrect, PTL

\* One address for each worker.
LEMMA AddressOnce ==
    ASSUME NEW ip \in [Workers -> Nat], NEW T, T = {<<v, ip[v]>> : v \in Workers}
    PROVE  /\ {a[1] : a \in T} = Workers
           /\ Cardinality(T) = Cardinality(Workers)
<1> DEFINE f == [v \in Workers |-> <<v, ip[v]>>]
<1>1. f \in Bijection(Workers, T)
  BY DEF Bijection, Injection, Surjection, IsInjective
<1>2. Cardinality(T) = Cardinality(Workers)
  <2>1. ExistsBijection(Workers, T)
    BY <1>1 DEF ExistsBijection
  <2> QED
    BY <2>1, EnvsAssumption, FS_Bijection
<1>3. {a[1] : a \in T} = Workers
  <2>1. \A v \in Workers : <<v, ip[v]>> \in T /\ <<v, ip[v]>>[1] = v
    OBVIOUS
  <2>2. \A a \in T : a[1] \in Workers
    OBVIOUS
  <2> QED
    BY <2>1, <2>2
<1> QED
  BY <1>2, <1>3

LEMMA CompleteTfps ==
    ASSUME PodInv, GroupInv, NEW w \in Told, type = "TF_PS", ~Spent("cancel")
    PROVE  /\ {a[1] : a \in ToldHosts(w)} = Workers
           /\ Cardinality(ToldHosts(w)) = Cardinality(Workers)
           /\ Len(env[w].ps) = Cardinality(OfRole("ps"))
           /\ Len(env[w].worker) = Cardinality(OfRole("worker"))
<1> DEFINE ip == [v \in Workers |-> pod[v].ip]
<1>1. Listed = Workers
  BY DEF GroupInv, ListedOK, Told, Answering
<1>2. \A role : RolePods(role) = OfRole(role)
  BY <1>1 DEF RolePods, OfRole
<1>3. env[w].ps = Hosts("ps") /\ env[w].worker = Hosts("worker")
  BY DEF GroupInv, ToldNow, Now, TfpsEnvs, NoEnv
<1>4. /\ Len(env[w].ps) = Cardinality(OfRole("ps"))
      /\ Len(env[w].worker) = Cardinality(OfRole("worker"))
  BY <1>2, <1>3, HostsOnce
<1>5. ToldHosts(w) = {AddressOf(v) : v \in OfRole("ps")}
                       \union {AddressOf(v) : v \in OfRole("worker")}
  BY <1>2, <1>3, HostsOnce DEF ToldHosts
<1>6. Workers = OfRole("ps") \union OfRole("worker")
  BY EnvsAssumption DEF OfRole
<1>7. ToldHosts(w) = {AddressOf(v) : v \in Workers}
  BY <1>5, <1>6
<1>8. ToldHosts(w) = {<<v, ip[v]>> : v \in Workers}
  BY <1>7 DEF AddressOf
<1>9. ip \in [Workers -> Nat]
  BY DEF PodInv, TypeOK
<1> HIDE DEF ip
<1> QED
  BY <1>4, <1>8, <1>9, AddressOnce

LEMMA CompleteHorovod ==
    ASSUME GroupInv, NEW w \in Told, type = "HOROVOD"
    PROVE  /\ {a[1] : a \in ToldHosts(w)} = Workers
           /\ Cardinality(ToldHosts(w)) = Cardinality(Workers)
<1>1. PICK ip \in [Workers -> Nat] :
         env[w].all = {<< <<v, ip[v]>>, Slots(v)>> : v \in Workers}
  BY DEF GroupInv, ToldAll, OfAll
<1>2. ToldHosts(w) = {<<v, ip[v]>> : v \in Workers}
  <2>1. ToldHosts(w) = {x[1] : x \in env[w].all}
    BY DEF ToldHosts
  <2>2. \A v \in Workers : << <<v, ip[v]>>, Slots(v)>> \in env[w].all
    BY <1>1
  <2>3. \A x \in env[w].all : \E v \in Workers : x[1] = <<v, ip[v]>>
    BY <1>1
  <2> QED
    BY <2>1, <2>2, <2>3
<1> QED
  BY <1>2, AddressOnce

\* A script that is told knows every worker of the job, once: always in
\* HOROVOD, and in TF_PS unless a pod was deleted, perhaps between the two
\* lists (distribute_envs, get_dist_envs).
THEOREM EveryoneTold == Spec => []ToldComplete
<1>1. PodInv /\ GroupInv => ToldComplete
  <2> SUFFICES ASSUME PodInv, GroupInv, NEW w \in Told, type = "TF_PS" => ~Spent("cancel")
               PROVE  /\ {a[1] : a \in ToldHosts(w)} = Workers
                      /\ Cardinality(ToldHosts(w)) = Cardinality(Workers)
                      /\ type = "TF_PS" =>
                            /\ Len(env[w].ps) = Cardinality(OfRole("ps"))
                            /\ Len(env[w].worker) = Cardinality(OfRole("worker"))
    BY DEF ToldComplete
  <2>1. CASE type = "TF_PS"
    BY <2>1, CompleteTfps
  <2>2. CASE type = "HOROVOD"
    BY <2>2, CompleteHorovod
  <2> QED
    BY <2>1, <2>2 DEF PodInv, TypeOK
<1> QED
  BY <1>1, GroupCorrect, PTL

\* A pod has as many before it as its index says.
LEMMA RankIsIndex ==
    ASSUME ~swarm, \A v \in Workers : v[2] < 10, NEW role, NEW w \in OfRole(role)
    PROVE  Cardinality(Below(w, Order, OfRole(role))) = w[2]
<1> DEFINE B == Below(w, Order, OfRole(role))
           f == [k \in 0 .. w[2] - 1 |-> <<role, k>>]
<1>1. /\ w = <<role, w[2]>> /\ w[2] \in Nat
      /\ \A v \in OfRole(role) : v = <<role, v[2]>> /\ v[2] \in Nat /\ v \in Workers
  BY EnvsAssumption DEF OfRole
<1>2. \A v \in OfRole(role) : <<v, w>> \in Order <=> v[2] < w[2]
  BY <1>1, NamesAssumption DEF Order, OfRole
<1>3. B = {v \in OfRole(role) : v[2] < w[2]}
  BY <1>2 DEF Below
<1>4. \A k \in 0 .. w[2] - 1 : <<role, k>> \in OfRole(role)
  BY <1>1, EnvsAssumption DEF OfRole
<1> HIDE DEF B
<1>5. \A k \in 0 .. w[2] - 1 : f[k] \in B
  BY <1>1, <1>3, <1>4
<1>6. \A v \in B : v[2] \in 0 .. w[2] - 1 /\ f[v[2]] = v
  BY <1>1, <1>3
<1>7. f \in Bijection(0 .. w[2] - 1, B)
  BY <1>5, <1>6 DEF Bijection, Injection, Surjection, IsInjective
<1>8. IsFiniteSet(0 .. w[2] - 1) /\ Cardinality(0 .. w[2] - 1) = w[2]
  <2> DEFINE m == w[2] - 1
  <2>1. m \in Int /\ 0 \in Int /\ (0 > m => w[2] = 0) /\ m - 0 + 1 = w[2]
    BY <1>1
  <2> HIDE DEF m
  <2>2. IsFiniteSet(0 .. m) /\ Cardinality(0 .. m) = IF 0 > m THEN 0 ELSE m - 0 + 1
    BY <2>1, FS_Interval
  <2>3. IsFiniteSet(0 .. m) /\ Cardinality(0 .. m) = w[2]
    BY <2>1, <2>2
  <2> QED
    BY <2>3 DEF m
<1>9. ExistsBijection(0 .. w[2] - 1, B)
  BY <1>7 DEF ExistsBijection
<1> QED
  BY <1>8, <1>9, FS_Bijection DEF B

\* "AVES_TF_WORKER_HOSTS: <Worker0 IP> <Worker1 IP> ...": on Kubernetes the k-th
\* address is that of the pod of index k, as long as one digit is enough for
\* an index, unless a pod was deleted: the pods are in the order of their
\* names, and each has as many before it as its index says (get_dist_envs).
THEOREM HostsOrdered == Spec => []HostsInOrder
<1>1. PodInv /\ GroupInv => HostsInOrder
  <2> SUFFICES ASSUME PodInv, GroupInv, ~swarm, \A v \in Workers : v[2] < 10,
                      NEW w \in Told, ~Spent("cancel")
               PROVE  InOrder(env[w].ps) /\ InOrder(env[w].worker)
    BY DEF HostsInOrder
  <2>1. Listed = Workers
    BY DEF GroupInv, ListedOK, Told, Answering
  <2>2. ASSUME NEW role
        PROVE  InOrder(Hosts(role))
    <3>1. RolePods(role) = OfRole(role)
      BY <2>1 DEF RolePods, OfRole
    <3>2. \A i \in DOMAIN Hosts(role) :
             /\ Hosts(role)[i][1] \in OfRole(role)
             /\ Cardinality(Below(Hosts(role)[i][1], Order, OfRole(role))) = i - 1
      BY <3>1, HostsOnce
    <3> QED
      BY <3>2, RankIsIndex DEF InOrder
  <2>3. CASE type = "TF_PS"
    <3>1. env[w].ps = Hosts("ps") /\ env[w].worker = Hosts("worker")
      BY <2>3 DEF GroupInv, ToldNow, Now, TfpsEnvs, NoEnv
    <3> QED
      BY <2>2, <3>1
  <2>4. CASE type = "HOROVOD"
    <3>1. env[w].ps = <<>> /\ env[w].worker = <<>>
      BY <2>4 DEF GroupInv, ToldAll, OfAll
    <3> QED
      BY <3>1 DEF InOrder
  <2> QED
    BY <2>3, <2>4 DEF PodInv, TypeOK
<1> QED
  BY <1>1, GroupCorrect, PTL
=============================================================================
