------------------------------- MODULE MCSwarm -------------------------------
(***************************************************************************)
(* Small instances of SwarmJob: one worker, two servers, the poller.       *)
(***************************************************************************)
EXTENDS SwarmJob

CONSTANTS main

One == {main}

Once(kinds) == [k \in Kinds |-> IF k \in kinds THEN 1 ELSE 0]
Undisturbed == Once({"create"})
Everything == Once(Kinds \ {"resync"})
=============================================================================
