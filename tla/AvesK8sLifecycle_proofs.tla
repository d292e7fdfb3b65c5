----------------------- MODULE AvesK8sLifecycle_proofs -----------------------
(***************************************************************************)
(* The status of an undisturbed job goes through JobLifecycle: the safety  *)
(* half of the refinement, for any number of pods and processes. It is the *)
(* answer that a script waits for that keeps the writers of the job's row  *)
(* apart: start, RUNNING, outcome, and the events of pods that are over.   *)
(***************************************************************************)
EXTENDS AvesK8sHistory_proofs

USE DEF Absent

\* Nobody but create acts, and nothing fails; the watcher may start anew.
Quiet == \A k \in Kinds \ {"create", "resync"} : Budget[k] = 0

\* The jobs that the refinement is about: all but those of TF_PS, where the
\* event of a worker's pod can write an outcome beside the main node's own
\* (_kube_start puts STARTING back over what the worker has reported).
Undisturbed == Quiet /\ OneReporter /\ Mode # "TF_PS"

\* What a job that is to be started, or is being started, looks like.
Begun ==
    /\ ~Spent("create") => job = Absent
    /\ startMsgs > 0 => job = "NEW"
    /\ \A p \in Procs :
          /\ task[p].op = "create" \/ At(p, "start", "mark") => job = "NEW"
          /\ Starting(p) /\ task[p].pc # "mark"
                => job \notin {Absent, "NEW"} /\ task[p].pc # "fail"
    /\ job \in {Absent, "NEW"} =>
          made = 0 /\ \A p \in Procs : task[p].op \in {"none", "create", "start"}

\* Pods end, are stopped and tell their end in events when the job is over.
Settled ==
    /\ \A e \in events : job \in Terminal /\ e.kind # "ImageError"
    /\ \A n \in Names : pod[n].dying \/ pod[n].phase \in {"succeeded", "failed"}
                           => job \in Terminal
    /\ \A p \in Procs :
          /\ task[p].op \in {"none", "create", "start", "finish", "jstat",
                             "wstat", "event"}
          /\ task[p].pc # "evCount"
          /\ task[p].op = "event" \/ task[p].pc \in StopPcs => job \in Terminal

\* A report about the job finds its script waiting, and the job as it should.
OnTime(m) ==
    \E n \in Names :
       /\ Reporter(n) /\ m.row = pod[n].row /\ pod[n].phase = "running"
       /\ m \in waiting
       /\ \/ /\ m.kind = "jstat" /\ m.st = "RUNNING"
             /\ script[n] = "prep" /\ job \in Active
          \/ /\ m.kind = "jres" /\ m.st \in {"FINISHED", "FAILURE"}
             /\ script[n] = "exit" /\ job = "RUNNING"

Answering(p) == task[p].pc = "write"

AllOnTime ==
    /\ \A m \in inbox : m.kind # "wstat" => OnTime(m)
    /\ \A p \in Procs : Answering(p) =>
          /\ OnTime(task[p].req) /\ task[p].out = task[p].req.st
          /\ task[p].op = IF task[p].req.kind = "jstat" THEN "jstat" ELSE "finish"

\* There is one report about the job at a time.
OneReport ==
    /\ \A m, o \in inbox : m.kind # "wstat" /\ o.kind # "wstat" => m = o
    /\ \A p, q \in Procs : Answering(p) /\ Answering(q) => p = q
    /\ \A p \in Procs : Answering(p) => \A m \in inbox : m.kind = "wstat"

\* A handler that answers a report about the job writes, and stops pods after
\* an outcome; those that create and start the job answer nobody.
Answerers ==
    \A p \in Procs :
       /\ task[p].op = "jstat" => task[p].pc = "write"
       /\ task[p].op = "finish" => task[p].pc \in {"write"} \union StopPcs
       /\ task[p].op \in {"create", "start"} => task[p].req = NoReq

Asked(kind) ==
    \/ \E m \in inbox : m.kind = kind
    \/ \E p \in Procs : Answering(p) /\ task[p].req.kind = kind

\* The script of the reporter and the status of the job go together.
Position(n) ==
    /\ script[n] = "prep" => Asked("jstat") \/ job = "RUNNING"
    /\ script[n] \in {"train", "mpi", "won", "lost"} => job = "RUNNING"
    /\ script[n] = "exit" => Asked("jres") \/ job \in Terminal
    /\ job \in Terminal => Over(n, {"exit", "off"})

Positions ==
    \A n \in Names :
       /\ script[n] # "broken"
       /\ script[n] \in {"mpi", "won", "lost", "exit"} => Reporter(n)
       /\ Reporter(n) => Position(n)

LifeInv == /\ TogetherInv
           /\ ScriptsRun
           /\ Begun
           /\ Settled
           /\ AllOnTime
           /\ Answerers
           /\ OneReport
           /\ Positions

-----------------------------------------------------------------------------
(* What an undisturbed step may be.                                        *)

\* What the parts of the invariant say of types and of earlier results.
LEMMA LifeFacts ==
    ASSUME LifeInv
    PROVE  /\ TypeInv /\ BudgetBound /\ BudgetOK /\ StartInv /\ NothingDangles
           /\ ReportsShaped /\ RowsMade /\ ScriptsRun
           /\ task \in [Procs -> Tasks \union {Idle}]
           /\ script \in [Names -> ScriptPcs] /\ pod \in [Names -> Pods]
           /\ inbox \subseteq Requests /\ waiting \subseteq Requests
           /\ wst \in [Rows -> Statuses \union {Absent}]
           /\ job \in Statuses \union {Absent} /\ made \in Nat
           /\ events \subseteq Events /\ startMsgs \in Nat
           /\ \A n \in Names : pod[n].phase # "none" => pod[n].row \in Rows
<1>1. made \in 0 .. MaxMakes => made \in Nat
  OBVIOUS
<1> QED
  BY <1>1 DEF LifeInv, TogetherInv, StartInv, AloneInv, TypeInv, TypeOK, ShapeOK,
         StoreOK, ClusterOK, WebOK, ScriptOK, BudgetOK

LEMMA UndisturbedStep ==
    ASSUME Undisturbed, LifeInv, [Next]_vars
    PROVE  /\ ~Spent("start") /\ ~Spent("start")'
           /\ ~Spent("destroy") /\ ~Spent("destroy")'
           /\ ~Spend("refuse") /\ ~Spend("start") /\ ~DestroyJob
           /\ \A p : /\ ~StartJob(p) /\ ~CancelJob(p) /\ ~CleanJob(p)
                     /\ ~EditJob(p) /\ ~Crash(p)
           /\ \A n : /\ ~Breaks(n) /\ ~ImageFails(n)
                     /\ PodDies(n) => pod[n].dying
           /\ \A m : ~ReportTimesOut(m) /\ ~ReportLost(m) /\ ~EventDropped(m)
<1>i. BudgetBound /\ BudgetOK /\ BudgetBound' /\ BudgetOK'
  BY LifeFacts, BudgetShrinks, NextType DEF TypeInv, TypeOK
<1>1. ASSUME NEW k \in Kinds \ {"create", "resync"}
      PROVE  ~Spent(k) /\ ~Spent(k)' /\ ~Spend(k)
  <2>1. Budget[k] = 0
    BY DEF Undisturbed, Quiet
  <2>2. budget[k] = 0 /\ budget'[k] = 0
    BY <1>i, <2>1 DEF BudgetBound, BudgetOK
  <2> QED
    BY <2>1, <2>2 DEF Spent, Spend
<1>2. {"start", "destroy", "refuse", "cancel", "clean", "edit", "crash",
       "abort", "image", "kill", "timeout", "lose"}
         \subseteq Kinds \ {"create", "resync"}
  BY DEF Kinds, UserKinds, FaultKinds
<1> QED
  BY <1>1, <1>2
     DEF DestroyJob, StartJob, CancelJob, CleanJob, EditJob, Crash, Breaks,
         ImageFails, PodDies, ReportTimesOut, ReportLost, EventDropped

\* Where a handler goes on.
LEMMA ToGoes ==
    ASSUME LifeInv, NEW p \in Procs, task[p].pc # "idle", NEW pc, To(p, pc)
    PROVE  task'[p].pc = pc
  BY LifeFacts DEF To, Goto, Tasks, Idle

LEMMA NextWorkerGoes ==
    ASSUME LifeInv, NEW p \in Procs, task[p].pc # "idle", NEW rows,
           NextWorker(p, rows), task'[p] # Idle
    PROVE  task'[p].pc = "config"
<1>t. task[p] \in Tasks /\ task \in [Procs -> Tasks \union {Idle}]
  BY LifeFacts DEF Idle
<1>1. ~End(p)
  BY <1>t DEF End, Goto
<1>2. PICK r \in rows :
         Goto(p, [task[p] EXCEPT !.pc = "config", !.cur = r, !.todo = rows \ {r}])
  BY <1>1 DEF NextWorker
<1> DEFINE t == [task[p] EXCEPT !.pc = "config", !.cur = r, !.todo = rows \ {r}]
<1>3. t.pc = "config" /\ task'[p] = t
  BY <1>t, <1>2 DEF Goto, Tasks
<1> QED
  BY <1>3

\* The steps of a handler that goes on: only an outcome of the job goes on to
\* stop pods, and nobody goes to a write or a failure.
LEMMA HandlerGoes ==
    ASSUME Undisturbed, LifeInv, NEW p \in Procs, HandlerStep(p),
           task'[p] # Idle
    PROVE  /\ task'[p].pc \notin {"write", "evCount", "fail", "mark"}
           /\ task'[p].pc \in StopPcs =>
                 \/ task[p].pc \in StopPcs
                 \/ WriteJob(p) /\ task[p].op = "finish"
           /\ task[p].pc \in {"write"} \union StopPcs => task'[p].pc \in StopPcs
           /\ task[p].pc = "write" => task[p].op = "finish"
<1> DEFINE G == /\ task'[p].pc \notin {"write", "evCount", "fail", "mark"}
                /\ task'[p].pc \in StopPcs =>
                      \/ task[p].pc \in StopPcs
                      \/ WriteJob(p) /\ task[p].op = "finish"
                /\ task[p].pc \in {"write"} \union StopPcs => task'[p].pc \in StopPcs
                /\ task[p].pc = "write" => task[p].op = "finish"
<1>i. /\ [Next]_vars
      /\ task \in [Procs -> Tasks \union {Idle}]
      /\ task[p].op \in {"none", "create", "start", "finish", "jstat",
                         "wstat", "event"}
      /\ task[p].pc # "evCount"
  BY LifeFacts DEF Next, LifeInv, Settled
<1>e. ~End(p)
  BY <1>i DEF End, Goto
<1>o. task[p].op \notin {"cancel", "image", "edit", "clean"} /\ ~AfterStop(p)
  BY <1>i, <1>e DEF AfterStop
<1>1. CASE StartMark(p) \/ StartCount(p) \/ StartConfig(p)
  BY <1>1, ToGoes DEF StartMark, StartCount, StartConfig, At, StopPcs
<1>2. CASE MakeCheck(p) \/ MakeInsert(p)
  <2>1. made = 0 /\ JobExists
    <3>1. BeforeRows(p) /\ Starting(p) /\ task[p].pc # "mark"
      BY <1>2 DEF MakeCheck, MakeInsert, At, BeforeRows, Starting
    <3>2. StartAlone
      BY <1>i, UndisturbedStep DEF LifeInv, TogetherInv, StartInv, AloneInv
    <3> QED
      BY <3>1, <3>2 DEF StartAlone, LifeInv, Begun, JobExists
  <2>2. JobWorkers = {} /\ CanMakeWorkers
    <3>1. ASSUME NEW r \in JobWorkers
          PROVE  FALSE
      <4>1. r \in Rows /\ r[2] <= 0
        BY <2>1, LifeFacts DEF RowsMade, JobWorkers
      <4>2. r[2] \in 1 .. MaxMakes
        BY <4>1 DEF Rows
      <4> QED
        BY <4>1, <4>2
    <3> QED
      BY <2>1, <3>1, StoreAssumption DEF CanMakeWorkers
  <2>3. To(p, "insert") \/ To(p, "list")
    BY <1>2, <2>2 DEF MakeCheck, MakeInsert
  <2> QED
    BY <1>2, <2>3, ToGoes DEF MakeCheck, MakeInsert, At, StopPcs
<1>3. CASE StartPod(p)
  <2>1. /\ task[p].cur \in Rows /\ task[p].pc = "pod" /\ task[p].op = "start"
    BY <1>3, LifeFacts DEF StartPod, At, TypeInv, ShapeOK, Shaped, RowPcs
  <2>2. NameOf(task[p].cur) \in Names
    BY <2>1 DEF Rows, NameOf
  <2>3. NotYet(NameOf(task[p].cur))
    BY <2>1 DEF NotYet, Awaited
  <2>4. CanCreatePod(task[p].cur)
    BY <1>i, <2>2, <2>3, UndisturbedStep, LifeFacts DEF StartInv, CanCreatePod
  <2>5. To(p, "save")
    BY <1>3, <1>i, <2>4, UndisturbedStep DEF StartPod
  <2> QED
    BY <2>1, <2>5, ToGoes DEF StopPcs
<1>4. CASE StartList(p) \/ StartSave(p)
  BY <1>4, <1>e, NextWorkerGoes DEF StartList, StartSave, At, StopPcs
<1>5. CASE StopList(p) \/ StopPod(p) \/ StopCm(p)
  <2>1. task[p].pc \in StopPcs
    BY <1>5 DEF StopList, StopPod, StopCm, StopPcs
  <2>2. task'[p].pc \in {"stopPod", "stopCm"}
    <3>1. CASE StopCm(p)
      BY <1>o, <3>1, ToGoes DEF StopCm
    <3>2. CASE StopPod(p)
      <4>1. PICK r \in task[p].todo :
               Goto(p, [task[p] EXCEPT !.pc = "stopCm", !.cur = r,
                                       !.todo = @ \ {r}])
        BY <3>2 DEF StopPod
      <4> DEFINE t == [task[p] EXCEPT !.pc = "stopCm", !.cur = r, !.todo = @ \ {r}]
      <4>2. t.pc = "stopCm" /\ task'[p] = t
        BY <1>i, <4>1 DEF Goto, Tasks, Idle
      <4> QED
        BY <4>2
    <3>3. CASE StopList(p)
      <4> DEFINE rows == {r \in JobWorkers : ~Spared(task[p].op, r)}
                 t == [task[p] EXCEPT !.pc = "stopPod", !.todo = rows]
      <4>1. Goto(p, t)
        BY <1>o, <3>3 DEF StopList
      <4> HIDE DEF rows
      <4>2. t.pc = "stopPod" /\ task'[p] = t
        BY <1>i, <4>1 DEF Goto, Tasks, Idle
      <4> QED
        BY <4>2
    <3> QED
      BY <1>5, <3>1, <3>2, <3>3
  <2> QED
    BY <2>1, <2>2 DEF StopPcs
<1>6. CASE WriteJob(p)
  <2>1. task[p].op = "finish" /\ To(p, "stopList") /\ task[p].pc = "write"
    BY <1>6, <1>e, <1>o DEF WriteJob
  <2> QED
    BY <1>6, <2>1, ToGoes DEF StopPcs
<1>7. CASE SaveRow(p)
  BY <1>7, <1>e, ToGoes DEF SaveRow, StopPcs
<1>8. ~EventJob(p)
  <2>1. SUFFICES ASSUME EventJob(p) PROVE FALSE
    OBVIOUS
  <2>2. task[p].op = "event"
    BY <1>o, <2>1, LifeFacts DEF EventJob, TypeInv, ShapeOK, Shaped
  <2>3. job \in Terminal
    BY <2>2 DEF LifeInv, Settled
  <2>4. JobExists /\ job \notin Active
    BY <2>3 DEF Terminal, Active, JobExists
  <2> QED
    BY <1>e, <2>1, <2>2, <2>4 DEF EventJob
<1>9. ~EnqueueStart(p) /\ ~StartFail(p) /\ ~EventCount(p)
  BY <1>e, <1>i DEF EnqueueStart, StartFail, EventCount
<1> QED
  BY <1>1, <1>2, <1>3, <1>4, <1>5, <1>6, <1>7, <1>8, <1>9 DEF HandlerStep

\* A report about the job, and who answers it.
LEMMA Answers ==
    ASSUME LifeInv, NEW p \in Procs, Answering(p)
    PROVE  /\ OnTime(task[p].req) /\ task[p].out = task[p].req.st
           /\ \/ /\ task[p].op = "jstat" /\ task[p].req.kind = "jstat"
                 /\ job \in Active /\ task[p].out = "RUNNING"
              \/ /\ task[p].op = "finish" /\ task[p].req.kind = "jres"
                 /\ job = "RUNNING" /\ task[p].out \in {"FINISHED", "FAILURE"}
<1>1. /\ OnTime(task[p].req) /\ task[p].out = task[p].req.st
      /\ task[p].op = IF task[p].req.kind = "jstat" THEN "jstat" ELSE "finish"
  BY DEF LifeInv, AllOnTime
<1> QED
  BY <1>1 DEF OnTime

LEMMA WritesInStep ==
    ASSUME Undisturbed, LifeInv, [Next]_vars, NEW p \in Procs, WriteJob(p)
    PROVE  HandlerStep(p)
<1>1. task'[p] # task[p]
  BY LifeFacts, ToGoes DEF WriteJob, End, Goto, Idle
<1>2. OwnStep(p)
  BY <1>1, LifeFacts, TaskSteps
<1>3. task[p] # Idle
  BY DEF WriteJob, Idle
<1> QED
  BY <1>2, <1>3, UndisturbedStep
     DEF OwnStep, CreateJob, StartAvesjob, HandleRequest, ProcessEvent, Begin

\* The writers of the job's row, and the status they find and leave.
JobStays == job' = job
JobCreated == job = Absent /\ job' = "NEW" /\ \E p \in Procs : CreateJob(p)
JobMarked == job = "NEW" /\ job' = "STARTING" /\ \E p \in Procs : StartMark(p)
JobRuns ==
    /\ job \in Active /\ job' = "RUNNING"
    /\ \E p \in Procs : /\ HandlerStep(p) /\ WriteJob(p) /\ Answering(p)
                        /\ task[p].req.kind = "jstat"
JobEnds ==
    /\ job = "RUNNING" /\ job' \in {"FINISHED", "FAILURE"}
    /\ \E p \in Procs : /\ HandlerStep(p) /\ WriteJob(p) /\ Answering(p)
                        /\ task[p].req.kind = "jres"

LEMMA JobMoves ==
    ASSUME Undisturbed, LifeInv, [Next]_vars
    PROVE  JobStays \/ JobCreated \/ JobMarked \/ JobRuns \/ JobEnds
<1>1. SUFFICES ASSUME job' # job
               PROVE  JobCreated \/ JobMarked \/ JobRuns \/ JobEnds
  BY DEF JobStays
<1>2. PICK p \in Procs : CreateJob(p) \/ StartMark(p) \/ StartFail(p) \/ WriteJob(p)
  BY <1>1, LifeFacts, JobSteps, UndisturbedStep
<1>3. CASE CreateJob(p)
  <2>1. ~Spent("create") /\ job' = "NEW"
    BY <1>3 DEF CreateJob, SaveJob
  <2> QED
    BY <1>3, <2>1 DEF JobCreated, LifeInv, Begun
<1>4. CASE StartMark(p)
  BY <1>4 DEF JobMarked, StartMark, SaveJob, LifeInv, Begun
<1>5. CASE StartFail(p)
  BY <1>5 DEF StartFail, At, Starting, LifeInv, Begun
<1>6. CASE WriteJob(p)
  <2>1. Answering(p) /\ job' = task[p].out
    BY <1>6 DEF WriteJob, SaveJob, Answering
  <2> QED
    BY <1>6, <2>1, Answers, WritesInStep DEF JobRuns, JobEnds
<1> QED
  BY <1>2, <1>3, <1>4, <1>5, <1>6

\* A job that is over stays so, and one that runs goes on or ends.
LEMMA JobLasts ==
    ASSUME Undisturbed, LifeInv, [Next]_vars
    PROVE  /\ job \in Terminal => job' = job
           /\ job \in Active => job' \in Active \/ JobEnds
           /\ job = "RUNNING" => job' = "RUNNING" \/ JobEnds
           /\ job' \in {Absent, "NEW"} => job \in {Absent, "NEW"}
           /\ job' \in Terminal => job \in Terminal \/ JobEnds
           /\ JobEnds => job' \in Terminal
<1>1. JobStays \/ JobCreated \/ JobMarked \/ JobRuns \/ JobEnds
  BY JobMoves
<1> QED
  BY <1>1 DEF JobStays, JobCreated, JobMarked, JobRuns, JobEnds, Active, Terminal

\* While a report about the job is on its way, its script awaits it.
LEMMA Awaited1 ==
    ASSUME Undisturbed, NEW m, OnTime(m), NEW n \in Names, Reporter(n)
    PROVE  /\ Awaits(n) /\ m.row = pod[n].row /\ pod[n].phase = "running"
           /\ m \in waiting
           /\ \/ m.kind = "jstat" /\ script[n] = "prep" /\ job \in Active
              \/ m.kind = "jres" /\ script[n] = "exit" /\ job = "RUNNING"
  BY DEF OnTime, Undisturbed, OneReporter, Awaits

\* No report about the job is on its way while the reporter awaits nothing.
LEMMA NothingAsked ==
    ASSUME Undisturbed, LifeInv, NEW n \in Names, Reporter(n), ~Awaits(n)
    PROVE  /\ \A m \in inbox : m.kind = "wstat"
           /\ \A p \in Procs : ~Answering(p)
           /\ ~Asked("jstat") /\ ~Asked("jres")
<1>1. \A m : ~OnTime(m)
  BY Awaited1
<1>2. (\A m \in inbox : m.kind = "wstat") /\ \A p \in Procs : ~Answering(p)
  BY <1>1 DEF LifeInv, AllOnTime
<1> QED
  BY <1>2 DEF Asked

\* The script that a report came from does not move, and its pod runs on.
LEMMA ScriptStands ==
    ASSUME Undisturbed, LifeInv, [Next]_vars, NEW m, OnTime(m),
           NEW n \in Names, Reporter(n)
    PROVE  script'[n] = script[n] /\ pod'[n].phase = "running"
           /\ pod'[n].row = pod[n].row
<1>1. /\ Awaits(n) /\ pod[n].phase = "running" /\ job \notin Terminal
  BY Awaited1 DEF Active, Terminal
<1>2. ~pod[n].dying
  BY <1>1 DEF LifeInv, Settled
<1>3. ~PodDies(n) /\ ~ScriptEnds(n) /\ ~PodStarts(n)
  BY <1>1, <1>2, UndisturbedStep DEF ScriptEnds, PodStarts, PodRuns
<1>4. script'[n] = script[n]
  <2>1. SUFFICES ASSUME script'[n] # script[n] PROVE FALSE
    OBVIOUS
  <2>2. ScriptOwn(n)
    BY <2>1, LifeFacts, ScriptSteps
  <2> QED
    BY <1>1, <1>3, <2>2
       DEF ScriptOwn, ReportWorkerRunning, Rendezvous, Prepare, StartMpi,
           ReportResult, ReportBroken, TrainWon, TrainLost, Breaks, Moves
<1>5. pod'[n].phase = "running" /\ pod'[n].row = pod[n].row
  BY <1>1, <1>3, LifeFacts, PodMoves DEF PodGone, PodCreated, PodGoesOn
<1> QED
  BY <1>4, <1>5

\* A new report about the job: RUNNING, or an outcome of a reporter.
NewReport(n, m) ==
    /\ Reporter(n) /\ ~Awaits(n) /\ inbox' = inbox \union {m}
    /\ m \in waiting' /\ m.row = pod[n].row /\ pod[n].phase = "running"
    /\ UNCHANGED <<job, pod, task>>
    /\ \/ /\ m.kind = "jstat" /\ m.st = "RUNNING"
          /\ script[n] = "sync" /\ script'[n] = "prep"
       \/ /\ m.kind = "jres" /\ m.st \in {"FINISHED", "FAILURE"}
          /\ script[n] \in {"won", "lost"} /\ script'[n] = "exit"

LEMMA NewReports ==
    ASSUME Undisturbed, LifeInv, [Next]_vars, NEW m, m \in inbox',
           m \notin inbox, m.kind # "wstat"
    PROVE  \E n \in Names : NewReport(n, m)
<1>1. PICK n \in Names : ScriptOwn(n)
  BY LifeFacts, InboxSteps
<1>2. ASSUME NEW kind, NEW st, Report(n, kind, st)
      PROVE  /\ m.kind = kind /\ m.st = st /\ m.row = pod[n].row
             /\ inbox' = inbox \union {m} /\ m \in waiting'
  BY <1>2 DEF Report
<1>3. CASE \/ PodStarts(n) \/ PodDies(n) \/ ScriptEnds(n) \/ Prepare(n)
           \/ StartMpi(n)
  BY <1>3 DEF PodStarts, PodDies, ScriptEnds, Prepare, StartMpi, Quietly, web
<1>4. CASE \/ ReportWorkerRunning(n) \/ TrainWon(n) \/ TrainLost(n)
  BY <1>2, <1>4 DEF ReportWorkerRunning, TrainWon, TrainLost
<1>5. ~ReportBroken(n) /\ ~Breaks(n)
  BY UndisturbedStep DEF ReportBroken, Moves, LifeInv, Positions
<1>6. CASE Rendezvous(n)
  <2>1. Reporter(n) /\ Report(n, "jstat", "RUNNING") /\ Moves(n, "sync", "prep")
    BY <1>6 DEF Rendezvous, Quietly
  <2>2. script'[n] = "prep" /\ script[n] = "sync" /\ ~Awaits(n) /\ pod[n].phase = "running"
    BY <2>1, LifeFacts DEF Moves
  <2> QED
    BY <1>2, <1>6, <2>1, <2>2 DEF NewReport, Rendezvous, ScriptFrame, store, cluster
<1>7. CASE ReportResult(n)
  <2>1. /\ Reporter(n)
        /\ \/ Report(n, "jres", "FINISHED") \/ Report(n, "jres", "FAILURE")
        /\ \/ Moves(n, "won", "exit") \/ Moves(n, "lost", "exit")
    BY <1>7 DEF ReportResult, Quietly
  <2>2. /\ script'[n] = "exit" /\ script[n] \in {"won", "lost"} /\ ~Awaits(n)
        /\ pod[n].phase = "running"
    BY <2>1, LifeFacts DEF Moves
  <2> QED
    BY <1>2, <1>7, <2>1, <2>2 DEF NewReport, ReportResult, ScriptFrame, store, cluster
<1> QED
  BY <1>1, <1>3, <1>4, <1>5, <1>6, <1>7 DEF ScriptOwn

\* A new answer: of a report that was in the inbox.
NewAnswer(p, m) ==
    /\ m \in inbox /\ m.kind # "wstat" /\ inbox' = inbox \ {m}
    /\ \A q \in Procs \ {p} : task'[q] = task[q]
    /\ task'[p].req = m /\ task'[p].out = m.st
    /\ task'[p].op = IF m.kind = "jstat" THEN "jstat" ELSE "finish"
    /\ task[p] = Idle

LEMMA NewAnswers ==
    ASSUME Undisturbed, LifeInv, [Next]_vars, NEW p \in Procs, Answering(p)',
           task'[p] # task[p]
    PROVE  \E m \in Requests : NewAnswer(p, m)
<1>1. task'[p].pc = "write" /\ task'[p] # Idle
  BY DEF Answering, Idle
<1>2. OwnStep(p)
  BY LifeFacts, TaskSteps
<1>3. ~HandlerStep(p)
  BY <1>1, HandlerGoes
<1>h. /\ \A op, pc, cur, out, req :
            /\ Handler(op, pc, cur, out, req).op = op
            /\ Handler(op, pc, cur, out, req).pc = pc
            /\ Handler(op, pc, cur, out, req).out = out
            /\ Handler(op, pc, cur, out, req).req = req
  BY DEF Handler
<1>4. ~CreateJob(p) /\ ~StartAvesjob(p)
  BY <1>1, <1>h, LifeFacts DEF CreateJob, StartAvesjob, Begin, StartHandler
<1>5. ~\E e \in Events : ProcessEvent(p, e)
  BY <1>1, <1>h, LifeFacts, EventTaken
<1>6. PICK m \in Requests : HandleRequest(p, m)
  BY <1>2, <1>3, <1>4, <1>5, UndisturbedStep DEF OwnStep
<1>7. NewAnswer(p, m)
  BY <1>1, <1>6, <1>h, LifeFacts, RequestTaken DEF NewAnswer
<1> QED
  BY <1>7

LEMMA NextOneReport ==
    ASSUME Undisturbed, LifeInv, [Next]_vars
    PROVE  OneReport'
<1>1. ASSUME NEW m \in inbox', NEW o \in inbox', m.kind # "wstat", o.kind # "wstat"
      PROVE  m = o
  <2>1. ASSUME NEW x \in inbox', x.kind # "wstat", x \notin inbox,
               NEW y \in inbox', y.kind # "wstat"
        PROVE  x = y
    <3>1. PICK n \in Names : NewReport(n, x)
      BY <2>1, NewReports
    <3>2. y \notin inbox
      BY <2>1, <3>1, NothingAsked DEF NewReport
    <3> QED
      BY <3>1, <3>2 DEF NewReport
  <2>2. CASE m \in inbox /\ o \in inbox
    BY <1>1, <2>2 DEF LifeInv, OneReport
  <2> QED
    BY <1>1, <2>1, <2>2
<1>2. ASSUME NEW p \in Procs, NEW q \in Procs, Answering(p)', Answering(q)'
      PROVE  p = q
  <2>1. ASSUME NEW x \in Procs, NEW y \in Procs, Answering(x)', Answering(y)',
               task'[x] # task[x]
        PROVE  x = y
    <3>1. PICK m \in Requests : NewAnswer(x, m)
      BY <2>1, NewAnswers
    <3>2. ~Answering(y)
      BY <3>1 DEF NewAnswer, LifeInv, OneReport
    <3>3. task'[y] # task[y]
      BY <2>1, <3>2 DEF Answering
    <3> QED
      BY <3>1, <3>3 DEF NewAnswer
  <2>2. CASE task'[p] = task[p] /\ task'[q] = task[q]
    BY <1>2, <2>2 DEF LifeInv, OneReport, Answering
  <2> QED
    BY <1>2, <2>1, <2>2
<1>3. ASSUME NEW p \in Procs, Answering(p)', NEW m \in inbox', m.kind # "wstat"
      PROVE  FALSE
  <2>1. CASE task'[p] # task[p]
    <3>1. PICK o \in Requests : NewAnswer(p, o)
      BY <1>3, <2>1, NewAnswers
    <3> QED
      BY <1>3, <3>1 DEF NewAnswer, LifeInv, OneReport
  <2>2. CASE task'[p] = task[p]
    <3>1. Answering(p)
      BY <1>3, <2>2 DEF Answering
    <3>2. m \notin inbox
      BY <1>3, <3>1 DEF LifeInv, OneReport
    <3>3. PICK n \in Names : NewReport(n, m)
      BY <1>3, <3>2, NewReports
    <3> QED
      BY <3>1, <3>3, NothingAsked DEF NewReport
  <2> QED
    BY <2>1, <2>2
<1> QED
  BY <1>1, <1>2, <1>3 DEF OneReport

\* A report about the job that is on its way.
Held(m) ==
    /\ m \in Requests /\ m.kind # "wstat"
    /\ m \in inbox \/ \E p \in Procs : Answering(p) /\ task[p].req = m

LEMMA HeldOnTime ==
    ASSUME LifeInv, NEW m, Held(m)
    PROVE  OnTime(m)
  BY Answers DEF Held, LifeInv, AllOnTime

\* The one report there was is answered.
LEMMA AfterAnswer ==
    ASSUME Undisturbed, LifeInv, NEW p \in Procs, HandlerStep(p), Answering(p)
    PROVE  /\ \A m \in inbox' : m.kind = "wstat"
           /\ \A q \in Procs : ~Answering(q)'
<1>1. HandlerMoves(p)
  BY LifeFacts, HandlerStepMoves
<1>2. (\A m \in inbox : m.kind = "wstat") /\ \A q \in Procs : Answering(q) => p = q
  BY DEF LifeInv, OneReport
<1>3. ~Answering(p)'
  BY HandlerGoes DEF Answering, Idle
<1> QED
  BY <1>1, <1>2, <1>3 DEF HandlerMoves, Answering

LEMMA StaysOnTime ==
    ASSUME Undisturbed, LifeInv, [Next]_vars, NEW m, Held(m), Held(m)'
    PROVE  OnTime(m)'
<1>1. PICK n \in Names :
         /\ Reporter(n) /\ m.row = pod[n].row /\ pod[n].phase = "running"
         /\ m \in waiting /\ job \in Active
         /\ \/ /\ m.kind = "jstat" /\ m.st = "RUNNING"
               /\ script[n] = "prep" /\ job \in Active
            \/ /\ m.kind = "jres" /\ m.st \in {"FINISHED", "FAILURE"}
               /\ script[n] = "exit" /\ job = "RUNNING"
  BY HeldOnTime DEF OnTime, Active
<1>2. /\ script'[n] = script[n] /\ pod'[n].phase = "running"
      /\ pod'[n].row = pod[n].row
  BY <1>1, HeldOnTime, ScriptStands
<1>3. ~JobEnds
  <2>1. SUFFICES ASSUME NEW p \in Procs, HandlerStep(p), Answering(p) PROVE FALSE
    BY DEF JobEnds
  <2> QED
    BY <2>1, AfterAnswer DEF Held
<1>4. job' \in Active /\ (job = "RUNNING" => job' = "RUNNING")
  BY <1>1, <1>3, JobLasts
<1>5. m \in waiting'
  <2>1. ASSUME NEW p \in Procs, HandlerStep(p), task[p].req = m
        PROVE  FALSE
    <3>1. task[p].op \notin {"event"} /\ task[p].pc \notin StopPcs
      BY <1>1 DEF LifeInv, Settled, Active, Terminal
    <3>2. task[p].op \in {"jstat", "finish"}
      <4>1. task[p].op # "wstat"
        BY <2>1, LifeFacts DEF ReportsShaped, ReportShape, Held
      <4>2. task[p].op \notin {"create", "start"}
        BY <2>1 DEF LifeInv, Answerers, Held, Requests, NoReq
      <4>3. task[p].op # "none"
        BY <2>1, LifeFacts DEF Held, Requests, NoReq, Idle, Tasks, Ops
      <4> QED
        BY <3>1, <4>1, <4>2, <4>3 DEF LifeInv, Settled
    <3>3. Answering(p)
      BY <3>1, <3>2 DEF LifeInv, Answerers, Answering
    <3> QED
      BY <2>1, <3>3, AfterAnswer DEF Held
  <2>2. ASSUME NEW p \in Procs, m \in Requests, HandleRequest(p, m), task'[p] = Idle
        PROVE  FALSE
    <3>h. \A op, pc, cur, out, req : Handler(op, pc, cur, out, req).pc = pc
      BY DEF Handler
    <3> QED
      BY <1>1, <2>2, <3>h, LifeFacts, RequestTaken
         DEF Held, Active, JobExists, Idle
  <2>3. ASSUME NEW k \in Names, PodDies(k), m.row = pod[k].row
        PROVE  FALSE
    <3>1. pod[n].row \in Rows /\ pod[n].row # NoRow
      BY <1>1, LifeFacts, StoreAssumption
    <3>2. k = n
      BY <1>1, <2>3, <3>1, LifeFacts DEF StartInv
    <3>3. pod[n].dying
      BY <2>3, <3>2, UndisturbedStep
    <3> QED
      BY <1>1, <3>3 DEF LifeInv, Settled, Active, Terminal
  <2> QED
    BY <1>1, <2>1, <2>2, <2>3, LifeFacts, UndisturbedStep, WaitingLoses
<1> QED
  BY <1>1, <1>2, <1>4, <1>5 DEF OnTime

LEMMA NextAllOnTime ==
    ASSUME Undisturbed, LifeInv, [Next]_vars
    PROVE  AllOnTime'
<1>r. inbox' \subseteq Requests
  BY LifeFacts, NextType DEF TypeInv, TypeOK, WebOK
<1>1. ASSUME NEW m \in inbox', m.kind # "wstat"
      PROVE  OnTime(m)'
  <2>1. Held(m)'
    BY <1>1, <1>r DEF Held
  <2>2. CASE m \in inbox
    BY <1>1, <2>1, <2>2, LifeFacts, StaysOnTime DEF Held
  <2>3. CASE m \notin inbox
    <3>1. PICK n \in Names : NewReport(n, m)
      BY <1>1, <2>3, NewReports
    <3>2. m.kind = "jres" => job = "RUNNING"
      BY <3>1 DEF NewReport, LifeInv, Positions, Position
    <3>3. m.kind = "jstat" => job \in Active
      <4>1. SUFFICES ASSUME m.kind = "jstat" PROVE job \in Active
        OBVIOUS
      <4>2. script[n] = "sync" /\ pod[n].phase = "running" /\ Reporter(n)
        BY <3>1, <4>1 DEF NewReport
      <4>3. job \notin Terminal
        BY <4>2 DEF LifeInv, Positions, Position, Over
      <4>4. job \notin {Absent, "NEW"}
        <5>1. pod[n].row \in Rows /\ pod[n].row # NoRow
          BY <4>2, LifeFacts, StoreAssumption
        <5>2. wst[pod[n].row] # Absent
          BY <5>1, LifeFacts, UndisturbedStep DEF NothingDangles
        <5>3. pod[n].row[2] <= made /\ pod[n].row[2] \in 1 .. MaxMakes
          BY <5>1, <5>2, LifeFacts DEF RowsMade, Rows
        <5>4. made # 0
          BY <5>3, LifeFacts
        <5> QED
          BY <5>4 DEF LifeInv, Begun
      <4> QED
        BY <4>3, <4>4, LifeFacts DEF Statuses, Active, Terminal
    <3> QED
      BY <3>1, <3>2, <3>3 DEF OnTime, NewReport, Reporter, Distributed
  <2> QED
    BY <2>2, <2>3
<1>2. ASSUME NEW p \in Procs, Answering(p)'
      PROVE  (/\ OnTime(task[p].req) /\ task[p].out = task[p].req.st
              /\ task[p].op = IF task[p].req.kind = "jstat" THEN "jstat" ELSE "finish")'
  <2>1. ASSUME NEW m \in Requests, m.kind # "wstat", Held(m), task'[p].req = m
        PROVE  OnTime(task[p].req)'
    <3>1. Held(m)'
      BY <1>2, <2>1 DEF Held
    <3>2. OnTime(m)'
      BY <2>1, <3>1, StaysOnTime
    <3> QED
      BY <2>1, <3>2 DEF OnTime
  <2>2. CASE task'[p] = task[p]
    <3>1. Answering(p)
      BY <1>2, <2>2 DEF Answering
    <3>2. /\ task[p].out = task[p].req.st
          /\ task[p].op = IF task[p].req.kind = "jstat" THEN "jstat" ELSE "finish"
          /\ task[p].req.kind \in {"jstat", "jres"}
      BY <3>1, Answers DEF LifeInv, AllOnTime
    <3>3. task[p].req \in Requests
      <4>1. task[p] # Idle /\ task[p].req # NoReq
        BY <3>1, <3>2 DEF Answering, Idle, NoReq
      <4> QED
        BY <4>1, LifeFacts DEF Tasks
    <3>4. Held(task[p].req)
      BY <3>1, <3>2, <3>3 DEF Held
    <3> QED
      BY <2>1, <2>2, <3>2, <3>3, <3>4
  <2>3. CASE task'[p] # task[p]
    <3>1. PICK m \in Requests : NewAnswer(p, m)
      BY <1>2, <2>3, NewAnswers
    <3>2. Held(m) /\ task'[p].req = m /\ m.kind # "wstat"
      BY <3>1 DEF NewAnswer, Held
    <3> QED
      BY <2>1, <3>1, <3>2 DEF NewAnswer
  <2> QED
    BY <2>2, <2>3
<1> QED
  BY <1>1, <1>2 DEF AllOnTime

LEMMA NextAnswerers ==
    ASSUME Undisturbed, LifeInv, [Next]_vars
    PROVE  Answerers'
<1> SUFFICES ASSUME NEW p \in Procs
             PROVE  /\ task'[p].op = "jstat" => task'[p].pc = "write"
                    /\ task'[p].op = "finish" => task'[p].pc \in {"write"} \union StopPcs
                    /\ task'[p].op \in {"create", "start"} => task'[p].req = NoReq
  BY DEF Answerers
<1>i. /\ Idle.op = "none"
      /\ \A op, pc, cur, out, req :
            /\ Handler(op, pc, cur, out, req).op = op
            /\ Handler(op, pc, cur, out, req).pc = pc
            /\ Handler(op, pc, cur, out, req).req = req
  BY DEF Handler, Idle
<1>1. CASE task'[p] = task[p]
  BY <1>1 DEF LifeInv, Answerers
<1>2. CASE HandlerStep(p)
  <2>1. SUFFICES ASSUME task'[p] # Idle
                 PROVE  /\ task[p].op # "jstat"
                        /\ task[p].op = "finish" => task'[p].pc \in StopPcs
                        /\ task[p].op \in {"create", "start"} => task[p].req = NoReq
    BY <1>2, <1>i, LifeFacts, HandlerStepMoves DEF HandlerMoves
  <2> QED
    BY <1>2, <2>1, HandlerGoes DEF LifeInv, Answerers
<1>3. CASE CreateJob(p) \/ StartAvesjob(p)
  BY <1>3, <1>i, LifeFacts DEF CreateJob, StartAvesjob, Begin, StartHandler
<1>4. ASSUME NEW m \in Requests, HandleRequest(p, m)
      PROVE  /\ task'[p].op \notin {"create", "start"}
             /\ task'[p].op \in {"jstat", "finish"} => task'[p].pc = "write"
  BY <1>4, <1>i, LifeFacts, RequestTaken
<1>5. ASSUME NEW e \in Events, ProcessEvent(p, e)
      PROVE  task'[p].op \notin {"create", "start", "jstat", "finish"}
  BY <1>5, <1>i, LifeFacts, EventTaken
<1> QED
  BY <1>1, <1>2, <1>3, <1>4, <1>5, LifeFacts, TaskSteps, UndisturbedStep DEF OwnStep

\* A script that is over, and is answered, has settled the job.
LEMMA ExitSettles ==
    ASSUME Undisturbed, LifeInv, NEW n \in Names, ScriptEnds(n)
    PROVE  job \in Terminal
<1>1. script[n] = "exit" /\ ~Awaits(n)
  BY DEF ScriptEnds
<1>2. Reporter(n) /\ Position(n)
  BY <1>1 DEF LifeInv, Positions
<1> QED
  BY <1>1, <1>2, NothingAsked DEF Position

LEMMA NextSettled ==
    ASSUME Undisturbed, LifeInv, [Next]_vars
    PROVE  Settled'
<1>1. job \in Terminal => job' \in Terminal
  BY JobLasts
<1>d. \A n \in Names : PodDies(n) => job \in Terminal
  BY UndisturbedStep DEF LifeInv, Settled
<1>2. ASSUME NEW e \in events'
      PROVE  job' \in Terminal /\ e.kind # "ImageError"
  <2>1. CASE e \in events
    BY <1>1, <2>1 DEF LifeInv, Settled
  <2>2. CASE e \notin events
    <3>1. PICK n \in Names :
             /\ e.kind \in {"Succeeded", "Failed"}
             /\ \/ ScriptEnds(n) \/ PodDies(n)
                \/ pod[n].phase \in {"succeeded", "failed"}
      BY <2>2, LifeFacts, EventSteps, UndisturbedStep
    <3>2. job \in Terminal
      BY <1>d, <3>1, ExitSettles DEF LifeInv, Settled
    <3> QED
      BY <1>1, <3>1, <3>2
  <2> QED
    BY <2>1, <2>2
<1>3. ASSUME NEW n \in Names,
             pod'[n].dying \/ pod'[n].phase \in {"succeeded", "failed"}
      PROVE  job' \in Terminal
  <2>1. CASE pod'[n] = pod[n]
    BY <1>1, <1>3, <2>1 DEF LifeInv, Settled
  <2>2. ~PodGone(n) /\ ~PodCreated(n)
    BY <1>3 DEF PodGone, PodCreated, NoPod
  <2>3. CASE PodGoesOn(n)
    <3>1. ASSUME NEW p \in Procs, StopPod(p)
          PROVE  job \in Terminal
      BY <3>1 DEF StopPod, StopPcs, LifeInv, Settled
    <3>2. job \in Terminal
      <4>1. \/ \E p \in Procs : StopPod(p)
            \/ pod[n].dying \/ pod[n].phase \in {"succeeded", "failed"}
            \/ ScriptEnds(n) \/ PodDies(n)
        BY <1>3, <2>3 DEF PodGoesOn
      <4> QED
        BY <1>d, <3>1, <4>1, ExitSettles DEF LifeInv, Settled
    <3> QED
      BY <1>1, <3>2
  <2> QED
    BY <2>1, <2>2, <2>3, LifeFacts, PodMoves
<1>4. ASSUME NEW p \in Procs
      PROVE  /\ task'[p].op \in {"none", "create", "start", "finish", "jstat",
                                "wstat", "event"}
             /\ task'[p].pc # "evCount"
             /\ task'[p].op = "event" \/ task'[p].pc \in StopPcs
                   => job' \in Terminal
  <2>i. /\ Idle.op = "none" /\ Idle.pc = "idle"
        /\ \A op, pc, cur, out, req :
              /\ Handler(op, pc, cur, out, req).op = op
              /\ Handler(op, pc, cur, out, req).pc = pc
    BY DEF Handler, Idle
  <2>1. CASE task'[p] = task[p]
    BY <1>1, <2>1 DEF LifeInv, Settled
  <2>2. CASE HandlerStep(p)
    <3>1. CASE task'[p] = Idle
      BY <2>i, <3>1 DEF StopPcs
    <3>2. CASE task'[p] # Idle
      <4>1. task'[p].op = task[p].op
        BY <2>2, <3>2, LifeFacts, HandlerStepMoves DEF HandlerMoves
      <4>2. CASE WriteJob(p) /\ task[p].op = "finish"
        <5>1. Answering(p) /\ job' = task[p].out
          BY <4>2 DEF WriteJob, SaveJob, Answering
        <5>2. job' \in Terminal
          BY <4>2, <5>1, Answers DEF Terminal
        <5> QED
          BY <2>2, <3>2, <4>1, <4>2, <5>2, HandlerGoes DEF LifeInv, Settled
      <4>3. CASE task'[p].pc \in StopPcs => task[p].pc \in StopPcs
        BY <1>1, <2>2, <3>2, <4>1, <4>3, HandlerGoes DEF LifeInv, Settled
      <4> QED
        BY <2>2, <3>2, <4>2, <4>3, HandlerGoes
    <3> QED
      BY <3>1, <3>2
  <2>3. CASE CreateJob(p) \/ StartAvesjob(p)
    BY <2>3, <2>i, LifeFacts DEF CreateJob, StartAvesjob, Begin, StartHandler, StopPcs
  <2>4. ASSUME NEW m \in Requests, HandleRequest(p, m)
        PROVE  /\ task'[p].op \in {"none", "wstat", "jstat", "finish"}
               /\ task'[p].pc \in {"idle", "saveRow", "write"}
    BY <2>4, <2>i, LifeFacts, RequestTaken
  <2>5. ASSUME NEW e \in Events, ProcessEvent(p, e)
        PROVE  /\ task'[p].op \in {"none", "event"} /\ job' \in Terminal
               /\ task'[p].pc \in {"idle", "saveRow"}
    BY <1>1, <2>5, <2>i, LifeFacts, EventTaken DEF LifeInv, Settled
  <2> QED
    BY <2>1, <2>2, <2>3, <2>4, <2>5, LifeFacts, TaskSteps, UndisturbedStep
       DEF OwnStep, StopPcs
<1> QED
  BY <1>2, <1>3, <1>4 DEF Settled

\* A row is there only when the rows have been made.
LEMMA RowsAfterMade ==
    ASSUME LifeInv, made = 0, NEW r \in Rows
    PROVE  wst[r] = Absent
<1>1. wst[r] # Absent => r[2] <= 0
  BY LifeFacts DEF RowsMade
<1>2. r[2] \in 1 .. MaxMakes
  BY DEF Rows
<1> QED
  BY <1>1, <1>2

LEMMA NextBegun ==
    ASSUME Undisturbed, LifeInv, [Next]_vars
    PROVE  Begun'
<1>j. JobStays \/ JobCreated \/ JobMarked \/ JobRuns \/ JobEnds
  BY JobMoves
<1>a. StartAlone
  BY UndisturbedStep DEF LifeInv, TogetherInv, StartInv, AloneInv
<1>c. \/ Calm
      \/ \E p \in Procs : \/ CreateJob(p) \/ EnqueueStart(p)
                          \/ StartAvesjob(p)
                          \/ MakeInsert(p) /\ MakeWorkers
  BY LifeFacts, NextCalm, UndisturbedStep
<1>u. \A p \in Procs : /\ EnqueueStart(p) \/ StartAvesjob(p) => UNCHANGED store
                       /\ CreateJob(p) => UNCHANGED <<made, startMsgs>>
                       /\ MakeInsert(p) => startMsgs' = startMsgs
  BY DEF EnqueueStart, StartAvesjob, CreateJob, MakeInsert, To, Goto
<1>1. ~Spent("create")' => job' = Absent
  <2>1. SUFFICES ASSUME ~Spent("create")' PROVE job' = Absent
    OBVIOUS
  <2>k. "create" \in Kinds
    BY DEF Kinds, UserKinds
  <2>2. ~Spent("create")
    BY <2>1, <2>k, LifeFacts, BudgetShrinks
  <2>3. job = Absent
    BY <2>2 DEF LifeInv, Begun
  <2>4. ~JobCreated
    BY <2>1, <2>k, LifeFacts, SpendSpent DEF JobCreated, CreateJob
  <2> QED
    BY <1>j, <2>3, <2>4 DEF JobStays, JobMarked, JobRuns, JobEnds, Active
<1>2. startMsgs' > 0 => job' = "NEW"
  <2>1. SUFFICES ASSUME startMsgs' > 0 PROVE job' = "NEW"
    OBVIOUS
  <2>2. CASE \E p \in Procs : EnqueueStart(p)
    BY <1>u, <2>2 DEF EnqueueStart, At, store, LifeInv, Begun
  <2>3. CASE ~\E p \in Procs : EnqueueStart(p)
    <3>1. startMsgs > 0
      <4>1. CASE startMsgs' = startMsgs
        BY <2>1, <4>1
      <4>2. ASSUME NEW p \in Procs, StartAvesjob(p)
            PROVE  startMsgs > 0
        BY <4>2 DEF StartAvesjob
      <4>3. startMsgs' = startMsgs \/ \E p \in Procs : StartAvesjob(p)
        BY <1>c, <1>u, <2>3 DEF Calm
      <4> QED
        BY <4>1, <4>2, <4>3
    <3>2. job = "NEW"
      BY <3>1 DEF LifeInv, Begun
    <3>3. ASSUME NEW p \in Procs, StartMark(p)
          PROVE  FALSE
      <4>1. startMsgs = 0
        BY <1>a, <3>3 DEF StartAlone, Alone, StartMark, At
      <4> QED
        BY <3>1, <4>1
    <3> QED
      BY <1>j, <3>2, <3>3 DEF JobStays, JobCreated, JobMarked, JobRuns, JobEnds, Active
  <2> QED
    BY <2>2, <2>3
<1>i. /\ Idle.op = "none"
      /\ \A op, pc, cur, out, req :
            /\ Handler(op, pc, cur, out, req).op = op
            /\ Handler(op, pc, cur, out, req).pc = pc
  BY DEF Handler, Idle
<1>q. ASSUME NEW p \in Procs, NEW m \in Requests, HandleRequest(p, m)
      PROVE  /\ task'[p].op \in {"none", "wstat", "jstat", "finish"}
             /\ job \notin {Absent, "NEW"}
  <2>1. task'[p].op \in {"none", "wstat", "jstat", "finish"} /\ m \in inbox
    BY <1>q, <1>i, LifeFacts, RequestTaken
  <2>2. m.row \in Rows
    BY DEF Requests
  <2>3. made # 0
    BY <2>1, <2>2, LifeFacts, UndisturbedStep, RowsAfterMade DEF NothingDangles
  <2> QED
    BY <2>1, <2>3 DEF LifeInv, Begun
<1>e. ASSUME NEW p \in Procs, NEW e \in Events, ProcessEvent(p, e)
      PROVE  /\ task'[p].op \in {"none", "event", "image"}
             /\ job \notin {Absent, "NEW"}
  BY <1>e, <1>i, LifeFacts, EventTaken DEF LifeInv, Settled, Terminal
<1>3. ASSUME NEW p \in Procs
      PROVE  /\ task'[p].op = "create" \/ At(p, "start", "mark")' => job' = "NEW"
             /\ Starting(p)' /\ task'[p].pc # "mark"
                   => job' \notin {Absent, "NEW"} /\ task'[p].pc # "fail"
             /\ job' \in {Absent, "NEW"} => task'[p].op \in {"none", "create", "start"}
  <2>1. ASSUME task[p].op = "create" \/ At(p, "start", "mark"), job' # "NEW"
        PROVE  StartMark(p)
    <3>1. job = "NEW"
      BY <2>1 DEF LifeInv, Begun
    <3>2. PICK q \in Procs : StartMark(q)
      BY <1>j, <2>1, <3>1 DEF JobStays, JobCreated, JobMarked, JobRuns, JobEnds, Active
    <3>3. Alone(p) /\ Alone(q)
      BY <2>1, <3>2 DEF Alone, At, StartMark
    <3> QED
      BY <1>a, <3>2, <3>3 DEF StartAlone
  <2>2. StartMark(p) => task'[p].pc = "count" /\ task'[p].op = "start" /\ job' = "STARTING"
    <3>1. SUFFICES ASSUME StartMark(p)
                   PROVE  /\ task'[p].pc = "count" /\ task'[p].op = "start"
                          /\ job' = "STARTING"
      OBVIOUS
    <3>2. task'[p].pc = "count" /\ job' = "STARTING"
      BY <3>1, ToGoes DEF StartMark, At, SaveJob
    <3>3. task'[p].op = "start"
      BY <3>1, LifeFacts DEF StartMark, At, To, Goto, Tasks, Idle
    <3> QED
      BY <3>2, <3>3
  <2>3. job' \in {Absent, "NEW"} => job \in {Absent, "NEW"}
    BY JobLasts
  <2>4. CASE task'[p] = task[p]
    BY <2>1, <2>2, <2>3, <2>4 DEF At, Starting, LifeInv, Begun
  <2>5. CASE HandlerStep(p)
    <3>1. CASE task'[p] = Idle
      BY <1>i, <3>1 DEF At, Starting
    <3>2. CASE task'[p] # Idle
      <4>1. task'[p].op = task[p].op /\ task'[p].pc \notin {"fail", "mark"}
        BY <2>5, <3>2, LifeFacts, HandlerStepMoves, HandlerGoes DEF HandlerMoves
      <4>2. task[p].op = "create" => job' = "NEW"
        BY <2>1 DEF StartMark, At
      <4>3. At(p, "start", "mark") => StartMark(p)
        BY <2>5 DEF HandlerStep, EnqueueStart, StartMark, StartCount,
           MakeCheck, MakeInsert, StartList, StartConfig, StartPod, StartSave,
           StartFail, StopList, StopPod, StopCm, WriteJob, SaveRow, EventJob,
           EventCount, At
      <4> QED
        BY <2>2, <2>3, <4>1, <4>2, <4>3 DEF At, Starting, LifeInv, Begun
    <3> QED
      BY <3>1, <3>2
  <2>6. CASE CreateJob(p)
    <3>1. task'[p].op = "create" /\ job' = "NEW"
      BY <2>6, <1>i, LifeFacts DEF CreateJob, Begin, SaveJob
    <3> QED
      BY <3>1 DEF At, Starting
  <2>7. CASE StartAvesjob(p)
    <3>1. job' = "NEW"
      BY <2>7 DEF StartAvesjob, store, LifeInv, Begun
    <3>2. \/ task'[p].op = "none"
          \/ task'[p].op = "start" /\ task'[p].pc = "mark"
      <4>1. task'[p] = StartHandler \/ task'[p] = Idle
        BY <2>7, LifeFacts DEF StartAvesjob, Begin
      <4>2. StartHandler.op = "start" /\ StartHandler.pc = "mark"
        BY <1>i DEF StartHandler
      <4> QED
        BY <4>1, <4>2, <1>i
    <3> QED
      BY <3>1, <3>2 DEF At, Starting
  <2>8. CASE \E m \in Requests : HandleRequest(p, m)
    BY <2>3, <2>8, <1>q DEF At, Starting
  <2>9. CASE \E e \in Events : ProcessEvent(p, e)
    BY <2>3, <2>9, <1>e DEF At, Starting
  <2> QED
    BY <2>4, <2>5, <2>6, <2>7, <2>8, <2>9, LifeFacts, TaskSteps, UndisturbedStep
       DEF OwnStep
<1>4. job' \in {Absent, "NEW"} => made' = 0
  <2>1. SUFFICES ASSUME job \in {Absent, "NEW"} PROVE made' = 0
    BY JobLasts
  <2>2. made = 0 /\ \A p \in Procs : ~MakeInsert(p)
    BY <2>1 DEF LifeInv, Begun, MakeInsert, At, Starting
  <2> QED
    BY <1>c, <1>u, <2>2 DEF Calm, store
<1> QED
  BY <1>1, <1>2, <1>3, <1>4 DEF Begun

\* A report stays asked until it is answered, and then is the job's status.
LEMMA AskedUntil ==
    ASSUME Undisturbed, LifeInv, [Next]_vars, NEW kind \in {"jstat", "jres"},
           Asked(kind)
    PROVE  \/ Asked(kind)'
           \/ kind = "jstat" /\ job' = "RUNNING"
           \/ kind = "jres" /\ job' \in Terminal
<1>1. ASSUME NEW m \in inbox, m.kind = kind
      PROVE  Asked(kind)'
  <2>1. CASE m \in inbox'
    BY <1>1, <2>1 DEF Asked
  <2>2. CASE m \notin inbox'
    <3>1. PICK p \in Procs : m \in Requests /\ HandleRequest(p, m)
      BY <2>2, LifeFacts, InboxLoses, UndisturbedStep
    <3>2. OnTime(m)
      BY <1>1 DEF LifeInv, AllOnTime
    <3>3. /\ m.kind = "jstat" => JobExists
          /\ m.kind = "jres" => job = "RUNNING"
      BY <3>2 DEF OnTime, Active, JobExists
    <3>h. \A op, pc, cur, out, req :
             /\ Handler(op, pc, cur, out, req).pc = pc
             /\ Handler(op, pc, cur, out, req).req = req
      BY DEF Handler
    <3>4. Answering(p)' /\ task'[p].req = m
      BY <1>1, <3>1, <3>3, <3>h, LifeFacts, RequestTaken DEF Answering
    <3> QED
      BY <1>1, <3>4 DEF Asked
  <2> QED
    BY <2>1, <2>2
<1>2. ASSUME NEW p \in Procs, Answering(p), task[p].req.kind = kind
      PROVE  \/ Asked(kind)'
             \/ kind = "jstat" /\ job' = "RUNNING"
             \/ kind = "jres" /\ job' \in Terminal
  <2>1. CASE task'[p] = task[p]
    BY <1>2, <2>1 DEF Asked, Answering
  <2>2. CASE task'[p] # task[p]
    <3>1. OwnStep(p)
      BY <2>2, LifeFacts, TaskSteps
    <3>2. task[p].pc = "write" /\ task[p] # Idle
      BY <1>2 DEF Answering, Idle
    <3>3. HandlerStep(p)
      BY <3>1, <3>2, UndisturbedStep
         DEF OwnStep, CreateJob, StartAvesjob, HandleRequest, ProcessEvent, Begin
    <3>4. WriteJob(p)
      BY <3>2, <3>3 DEF HandlerStep, EnqueueStart, StartMark, StartCount,
         MakeCheck, MakeInsert, StartList, StartConfig, StartPod, StartSave,
         StartFail, StopList, StopPod, StopCm, SaveRow, EventJob, EventCount, At
    <3>5. job' = task[p].out
      BY <3>4 DEF WriteJob, SaveJob
    <3> QED
      BY <1>2, <3>5, Answers DEF Terminal
  <2> QED
    BY <2>1, <2>2
<1> QED
  BY <1>1, <1>2 DEF Asked

LEMMA NextPosition ==
    ASSUME Undisturbed, LifeInv, [Next]_vars, NEW n \in Names, Reporter(n)
    PROVE  Position(n)'
<1>i. /\ Position(n) /\ script[n] # "broken"
      /\ script \in [Names -> ScriptPcs] /\ StartInv /\ ~Spent("start")'
  BY LifeFacts, UndisturbedStep DEF LifeInv, Positions
<1>e. JobEnds => script[n] = "exit" /\ Over(n, {"exit", "off"})
  <2>1. SUFFICES ASSUME NEW p \in Procs, Answering(p), task[p].req.kind = "jres"
                 PROVE  script[n] = "exit" /\ Over(n, {"exit", "off"})
    BY DEF JobEnds
  <2>2. script[n] = "exit" /\ pod[n].phase = "running"
    BY <2>1, Answers, Awaited1
  <2>3. ~NotYet(n)
    BY <2>2, LifeFacts, UndisturbedStep DEF StartInv
  <2> QED
    BY <2>2, <2>3 DEF Over
<1>1. ASSUME job' \in Terminal
      PROVE  Over(n, {"exit", "off"})'
  <2>1. Over(n, {"exit", "off"})
    BY <1>1, <1>e, <1>i, JobLasts DEF Position
  <2> QED
    BY <1>i, <2>1, OverStays
<1>2. CASE script'[n] = script[n]
  <2>1. script[n] = "prep" => Asked("jstat")' \/ job' = "RUNNING"
    BY <1>e, <1>i, AskedUntil, JobLasts DEF Position
  <2>2. script[n] \in {"train", "mpi", "won", "lost"} => job' = "RUNNING"
    BY <1>e, <1>i, JobLasts DEF Position
  <2>3. script[n] = "exit" => Asked("jres")' \/ job' \in Terminal
    BY <1>i, AskedUntil, JobLasts DEF Position
  <2> QED
    BY <1>1, <1>2, <2>1, <2>2, <2>3 DEF Position
<1>3. CASE script'[n] # script[n]
  <2>1. ScriptOwn(n)
    BY <1>3, LifeFacts, ScriptSteps
  <2>n. ~ReportBroken(n) /\ ~Breaks(n)
    BY <1>i, UndisturbedStep DEF ReportBroken, Moves
  <2>2. CASE PodStarts(n) \/ PodDies(n) \/ ScriptEnds(n) \/ ReportWorkerRunning(n)
    <3>1. script'[n] \in {"boot", "off", "sync"}
      BY <1>i, <2>2 DEF PodStarts, PodDies, ScriptEnds, ReportWorkerRunning, Moves
    <3> QED
      BY <1>1, <3>1 DEF Position
  <2>3. CASE Rendezvous(n)
    <3>1. script'[n] = "prep" /\ Report(n, "jstat", "RUNNING")
      BY <1>i, <2>3 DEF Rendezvous, Moves
    <3>2. Asked("jstat")'
      BY <3>1 DEF Report, Asked
    <3> QED
      BY <1>1, <3>1, <3>2 DEF Position
  <2>4. CASE Prepare(n)
    <3>1. script'[n] = "train" /\ script[n] = "prep" /\ ~Awaits(n) /\ job' = job
      BY <1>i, <2>4 DEF Prepare, Moves, ScriptFrame, store
    <3>2. job = "RUNNING"
      BY <1>i, <3>1, NothingAsked DEF Position
    <3> QED
      BY <1>1, <3>1, <3>2 DEF Position
  <2>5. CASE StartMpi(n) \/ TrainWon(n) \/ TrainLost(n)
    <3>1. /\ script'[n] \in {"mpi", "won", "lost"} /\ job' = job
          /\ script[n] \in {"train", "mpi"}
      BY <1>i, <2>5 DEF StartMpi, TrainWon, TrainLost, Moves, ScriptFrame, store,
                        TrainPc
    <3> QED
      BY <1>1, <1>i, <3>1 DEF Position
  <2>6. CASE ReportResult(n)
    <3>1. /\ script'[n] = "exit"
          /\ Report(n, "jres", "FINISHED") \/ Report(n, "jres", "FAILURE")
      BY <1>i, <2>6 DEF ReportResult, Moves
    <3>2. Asked("jres")'
      BY <3>1 DEF Report, Asked
    <3> QED
      BY <1>1, <3>1, <3>2 DEF Position
  <2> QED
    BY <2>1, <2>n, <2>2, <2>3, <2>4, <2>5, <2>6 DEF ScriptOwn
<1> QED
  BY <1>2, <1>3

LEMMA NextPositions ==
    ASSUME Undisturbed, LifeInv, [Next]_vars
    PROVE  Positions'
<1> SUFFICES ASSUME NEW n \in Names
             PROVE  /\ script'[n] # "broken"
                    /\ script'[n] \in {"mpi", "won", "lost", "exit"} => Reporter(n)
                    /\ Reporter(n) => Position(n)'
  BY DEF Positions, Reporter, Distributed
<1>i. /\ script \in [Names -> ScriptPcs] /\ script[n] # "broken"
      /\ script[n] \in {"mpi", "won", "lost", "exit"} => Reporter(n)
  BY LifeFacts DEF LifeInv, Positions
<1>r. ~Daemon(n) => Reporter(n)
  BY ScriptAssumption DEF Daemon, Reporter, Distributed, Undisturbed
<1>1. /\ script'[n] # "broken"
      /\ script'[n] \in {"mpi", "won", "lost", "exit"} => Reporter(n)
  <2>1. CASE script'[n] = script[n]
    BY <1>i, <2>1
  <2>2. CASE script'[n] # script[n]
    <3>1. ScriptOwn(n)
      BY <2>2, LifeFacts, ScriptSteps
    <3>n. ~ReportBroken(n) /\ ~Breaks(n)
      BY <1>i, UndisturbedStep DEF ReportBroken, Moves
    <3>2. CASE StartMpi(n)
      BY <1>i, <1>r, <3>2 DEF StartMpi, Moves
    <3>3. CASE TrainWon(n) \/ TrainLost(n)
      <4>1. script'[n] \in {"won", "lost"} /\ script[n] = TrainPc
        BY <1>i, <3>3 DEF TrainWon, TrainLost, Moves
      <4>2. Reporter(n)
        BY <1>i, <1>r, <4>1 DEF TrainPc, Daemon
      <4> QED
        BY <4>1, <4>2
    <3>4. CASE ReportResult(n)
      <4>1. script'[n] = "exit" /\ script[n] \in {"won", "lost"}
        BY <1>i, <3>4 DEF ReportResult, Moves
      <4> QED
        BY <1>i, <4>1
    <3>5. CASE \/ PodStarts(n) \/ PodDies(n) \/ ScriptEnds(n)
               \/ ReportWorkerRunning(n) \/ Rendezvous(n) \/ Prepare(n)
      BY <1>i, <3>5 DEF PodStarts, PodDies, ScriptEnds, ReportWorkerRunning,
                        Rendezvous, Prepare, Moves
    <3> QED
      BY <3>1, <3>n, <3>2, <3>3, <3>4, <3>5 DEF ScriptOwn
  <2> QED
    BY <2>1, <2>2
<1> QED
  BY <1>1, NextPosition

LEMMA LifeInvCorrect == ASSUME Undisturbed PROVE Spec => []LifeInv
<1>1. TogetherInv /\ Init => LifeInv
  BY DEF Init, StoreInit, ClusterInit, WebInit, ScriptInit, Idle, NoPod,
         LifeInv, ScriptsRun, Begun, Settled, AllOnTime, Answerers, OneReport,
         Positions, Position, Answering, At, Starting, Terminal, StopPcs
<1>2. TogetherInv' /\ LifeInv /\ [Next]_vars => LifeInv'
  BY LifeFacts, NextScriptsRun, NextBegun, NextSettled, NextAllOnTime,
     NextAnswerers, NextOneReport, NextPositions DEF LifeInv
<1> QED
  BY <1>1, <1>2, TogetherCorrect, PTL DEF Spec

\* The status of an undisturbed job goes through JobLifecycle, however the
\* start of its pods, the reports of its scripts and the events of its pods
\* interleave: from NEW to STARTING, RUNNING and one outcome, for good.
THEOREM LifecycleCorrect ==
    ASSUME Undisturbed
    PROVE  Spec => Life!LifeInit /\ [][Life!LifeNext]_job
<1>1. Init => Life!LifeInit
  BY DEF Init, StoreInit, Life!LifeInit
<1>2. LifeInv /\ [Next]_vars => [Life!LifeNext]_job
  <2> SUFFICES ASSUME LifeInv, [Next]_vars PROVE [Life!LifeNext]_job
    OBVIOUS
  <2>1. JobStays \/ JobCreated \/ JobMarked \/ JobRuns \/ JobEnds
    BY JobMoves
  <2> QED
    BY <2>1 DEF JobStays, JobCreated, JobMarked, JobRuns, JobEnds, Active,
       Life!LifeNext, Life!Create, Life!Start, Life!Run, Life!Settle
<1> QED
  BY <1>1, <1>2, LifeInvCorrect, PTL DEF Spec
=============================================================================
