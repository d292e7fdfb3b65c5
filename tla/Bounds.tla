------------------------------- MODULE Bounds -------------------------------
(***************************************************************************)
(* How often the users act and how often the environment misbehaves.  The  *)
(* program puts no limit on either; a run of TLC does, and an instance     *)
(* without a kind of event gives it the budget 0.                          *)
(***************************************************************************)
EXTENDS Naturals, FiniteSets

CONSTANTS Budget,  \* how often each kind of event may happen
          Mixed    \* how many kinds may happen in one behaviour, but for create

\* What users may do, through the REST API.
UserKinds == {"create", "start", "cancel", "clean", "edit", "destroy"}

\* What may go wrong: an API server call refused, a server process dying in
\* the middle of a handler, a container killed, an image that cannot be
\* pulled, a request or a queued event lost, a request answered too late, a
\* watch stream opened anew, a script that fails before or after training.
FaultKinds ==
    {"refuse", "crash", "kill", "image", "lose", "timeout", "resync", "abort"}

Kinds == UserKinds \union FaultKinds

ASSUME BudgetAssumption == Budget \in [Kinds -> Nat] /\ Mixed \in Nat

VARIABLE budget

BudgetOK == budget \in [Kinds -> Nat]

BudgetInit == budget = Budget

\* An event of this kind has happened.
Spent(k) == budget[k] < Budget[k]

Disturbances == {k \in Kinds \ {"create"} : Spent(k)}
MayMix(k) == k = "create" \/ Spent(k) \/ Cardinality(Disturbances) < Mixed

Spend(k) ==
    /\ budget[k] > 0 /\ MayMix(k)
    /\ budget' = [budget EXCEPT ![k] = @ - 1]
=============================================================================
