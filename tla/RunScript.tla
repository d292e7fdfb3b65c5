------------------------------ MODULE RunScript ------------------------------
(***************************************************************************)
(* aves_run.sh, the script each pod runs: it reports its worker RUNNING,   *)
(* waits in a distributed job until every pod runs, reports the job        *)
(* RUNNING, trains, and reports the outcome of the worker and of the job.  *)
(* Every report is one request of aves_report.py that waits 10 s for its   *)
(* response; a late one or an error is not sent again (only a connection   *)
(* that could not be opened is tried three times).                         *)
(***************************************************************************)
EXTENDS JobApi, FiniteSets

CONSTANT Mode   \* "single", "TF_PS" or "HOROVOD"

ASSUME ScriptAssumption == Mode \in {"single", "TF_PS", "HOROVOD"}

VARIABLE script   \* where the script of each pod stands

ScriptPcs == {"off", "boot", "sync", "broken", "prep", "train", "mpi", "won",
              "lost", "exit"}

ScriptOK == script \in [Names -> ScriptPcs]

ScriptInit == script = [n \in Names |-> "off"]

Distributed == Mode # "single"

\* Who reports for the job: everybody in a job that is not distributed.
Reporter(n) == ~Distributed \/ n \in Main

\* The other pods of a HOROVOD job become sshd, which does not end.
Daemon(n) == Mode = "HOROVOD" /\ n \notin Main
DaemonsUp == \A n \in Names : Daemon(n) => script[n] = "train"

Awaits(n) == \E m \in waiting : m.row = pod[n].row

\* The script of n moves on, sending nothing, or one report that it awaits.
\* (A pending request of an earlier pod of the row goes first.)
Moves(n, from, to) ==
    /\ pod[n].phase = "running" /\ script[n] = from /\ ~Awaits(n)
    /\ script' = [script EXCEPT ![n] = to]
Quietly == UNCHANGED <<inbox, waiting>>
Report(n, kind, st) ==
    LET m == [row |-> pod[n].row, kind |-> kind, st |-> st] IN
    /\ m \notin inbox
    /\ inbox' = inbox \union {m}
    /\ waiting' = waiting \union {m}

ScriptFrame == UNCHANGED <<store, cluster, task, startMsgs>>

ReportWorkerRunning(n) ==
    /\ Moves(n, "boot", "sync") /\ Report(n, "wstat", "RUNNING")
    /\ ScriptFrame /\ UNCHANGED budget

\* An image without nc or a refused distribute_envs, both before the job is
\* RUNNING; an aws configuration, code or data that cannot be fetched; a
\* result that cannot be stored. Any pod reports its worker, then the job.
TrainPc == IF Mode = "HOROVOD" THEN "mpi" ELSE "train"
Breaks(n) ==
    /\ Spend("abort")
    /\ \/ Distributed /\ Moves(n, "sync", "broken")
       \/ \E pc \in {"prep", TrainPc} : Moves(n, pc, "broken")
    /\ Report(n, "wstat", "FAILURE")
    /\ ScriptFrame
ReportBroken(n) ==
    /\ Moves(n, "broken", "exit") /\ Report(n, "jres", "FAILURE")
    /\ ScriptFrame /\ UNCHANGED budget

\* Variant: any pods that are there and run.
SomeReady ==
    LET mine == {n \in Names : pod[n].row \in Rows} IN
    /\ mine # {}
    /\ \A n \in mine : pod[n].phase = "running"

\* Variant: one pod more than there are.
OneMoreReady ==
    LET mine == {n \in Names : pod[n].row \in Rows} IN
    /\ Cardinality(mine) > Cardinality(JobWorkers)
    /\ \A n \in mine : pod[n].phase = "running"

\* distribute_envs: as many pods as worker rows, all of them running. The
\* script asks again every 10 s until the view says so.
DistReady ==
    LET mine == {n \in Names : pod[n].row \in Rows} IN
    /\ mine # {}
    /\ Cardinality(mine) = Cardinality(JobWorkers)
    /\ \A n \in mine : pod[n].phase = "running"

\* The pods are together; the main node reports the job RUNNING.
Rendezvous(n) ==
    /\ Moves(n, "sync", "prep")
    /\ Distributed => DistReady
    /\ IF Reporter(n) THEN Report(n, "jstat", "RUNNING") ELSE Quietly
    /\ ScriptFrame /\ UNCHANGED budget

\* The code and the data are fetched.
Prepare(n) ==
    /\ Moves(n, "prep", "train") /\ Quietly
    /\ ScriptFrame /\ UNCHANGED budget

\* The main node of HOROVOD waits for every sshd before mpirun.
StartMpi(n) ==
    /\ Mode = "HOROVOD" /\ ~Daemon(n) /\ DaemonsUp
    /\ Moves(n, "train", "mpi") /\ Quietly
    /\ ScriptFrame /\ UNCHANGED budget

\* Training ends, well or not; mpirun does not end well without its nodes.
TrainWon(n) ==
    /\ DaemonsUp
    /\ Moves(n, TrainPc, "won") /\ Report(n, "wstat", "FINISHED")
    /\ ScriptFrame /\ UNCHANGED budget
TrainLost(n) ==
    /\ Moves(n, TrainPc, "lost") /\ Report(n, "wstat", "FAILURE")
    /\ ScriptFrame /\ UNCHANGED budget

\* The outcome of the job, from the pods that report for it.
ReportResult(n) ==
    /\ \/ /\ Moves(n, "won", "exit")
          /\ IF Reporter(n) THEN Report(n, "jres", "FINISHED") ELSE Quietly
       \/ /\ Moves(n, "lost", "exit")
          /\ IF Reporter(n) THEN Report(n, "jres", "FAILURE") ELSE Quietly
    /\ ScriptFrame /\ UNCHANGED budget

\* No response within 10 s: the script goes on, the server still handles it.
ReportTimesOut(m) ==
    /\ m \in waiting /\ Spend("timeout")
    /\ waiting' = waiting \ {m}
    /\ ScriptFrame /\ UNCHANGED <<inbox, script>>

\* The server could not be reached, or its token was refused.
ReportLost(m) ==
    /\ m \in inbox /\ Spend("lose")
    /\ inbox' = inbox \ {m} /\ waiting' = waiting \ {m}
    /\ ScriptFrame /\ UNCHANGED script
=============================================================================
