----------------------------- MODULE MCDistEnvs -----------------------------
(***************************************************************************)
(* A small instance of DistEnvs: a parameter server and two workers, the   *)
(* first with two gpus and the second with none.                           *)
(***************************************************************************)
EXTENDS DistEnvs

\* The decimal digits of an index, which end the name of a pod.
Digits[i \in Nat] ==
    IF i < 10 THEN <<i>> ELSE Append(Digits[i \div 10], i % 10)

\* The names of two pods, as strings: the role first, and the index unpadded.
ByDigits(v, w) ==
    LET a == Digits[v[2]]  b == Digits[w[2]] IN
    \/ v[1] = "ps" /\ w[1] = "worker"
    \/ v[1] = w[1] /\ \E k \in 1 .. Len(b) :
                         /\ k <= Len(a) + 1
                         /\ \A i \in 1 .. k - 1 : a[i] = b[i]
                         /\ k = Len(a) + 1 \/ a[k] < b[k]

OneServer == {<<"ps", 0>>, <<"worker", 0>>, <<"worker", 1>>}

Uneven == [w \in Workers |-> IF w[2] = 0 THEN 2 ELSE 0]

Disturbed ==
    [k \in Kinds |-> CASE k \in {"start", "kill", "refuse"} -> 1
                       [] k = "cancel" -> 3
                       [] OTHER -> 0]
=============================================================================
