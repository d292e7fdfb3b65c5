------------------------------ MODULE MCAvesK8s ------------------------------
(***************************************************************************)
(* Small instances of AvesK8s: one pod that is its own main node, or two   *)
(* of which one is, and a budget for each run. Two processes serve, enough *)
(* for any race of two handlers. The cfg bounds by Mixed how many kinds of *)
(* the budget one behaviour combines.                                      *)
(***************************************************************************)
EXTENDS AvesK8s, TLC

CONSTANTS main, other

OnePod == {main}
TwoPods == {main, other}

\* The processes are interchangeable (for invariants only).
ProcSymmetry == Permutations(Procs)

Once(kinds) == [k \in Kinds |-> IF k \in kinds THEN 1 ELSE 0]

AllButStart == Once(Kinds \ {"start"})
Disturbed == Once(Kinds \ {"start", "destroy", "crash", "abort", "resync"})
OfTwo == Once({"create", "kill"})
OfTwoMpi == Once({"create", "kill", "abort", "lose", "refuse"})
Watched == Once({"create", "resync"})
StartedTwice == Once({"create", "start"})
=============================================================================
